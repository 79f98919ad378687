----------------------------- MODULE RedisJobQueue -----------------------------
(***************************************************************************)
(* The Redis job queue (backend/app/redis_jobqueue.py).                    *)
(*                                                                         *)
(* A job is a hash and its place in sorted sets: `queued` (general kinds), *)
(* one queued set per kind, and `running`, scored by time.  Each WATCH ..  *)
(* EXEC block is one action: it commits only if what it read is unchanged, *)
(* and it is retried until then.  What is NOT atomic is modelled step by   *)
(* step: a claim first takes a list of stale leases and recovers them one  *)
(* by one, then lists candidates and tries them one by one; a cancellation *)
(* walks a list of the campaign's jobs.  Every list may be out of date     *)
(* when an entry of it is used.                                            *)
(***************************************************************************)
EXTENDS Integers, FiniteSets

CONSTANTS
    Jobs,            \* job identifiers (uuid4)
    Workers, Callers, Campaigns,
    Kinds,
    DedicatedKinds,  \* _DEDICATED_KINDS, kept out of the general queue
    Deployments,     \* who runs against the queue, see RedisAssumption
    MaxBudget,
    Lease,           \* XBOW_JOB_LEASE_SECONDS, in ticks
    MaxTime,         \* bound on the clock
    MaxTries,        \* rounds of claim_allowed (32 in the code)
    NoWorker, NoJob, NoKey, NoKind

\* Enqueue requests.
Plans == UNION {d.plans : d \in Deployments}

Times == 0..MaxTime
Out == -1                      \* the score of a job that is not in a sorted set
Score == Times \cup {Out}

ASSUME RedisAssumption ==
    /\ MaxBudget \in Nat /\ Lease \in Nat /\ MaxTime \in Nat /\ MaxTries \in Nat
    /\ NoWorker \notin Workers /\ NoJob \notin Jobs /\ NoKind \notin Kinds
    /\ DedicatedKinds \subseteq Kinds
    \* serves[w]: the kinds worker w asks for, {} for claim(); who may enqueue, and what
    /\ \A d \in Deployments : /\ \E W \in SUBSET Workers : d.serves \in [W -> SUBSET Kinds]
                              /\ d.callers \subseteq Callers
    /\ \A p \in Plans : /\ p.campaign \in Campaigns
                        /\ p.kind \in Kinds
                        /\ p.max_attempts \in 1..MaxBudget

VARIABLES
    deployment,    \* the one this behaviour runs; never changes
    hash,          \* the job hashes
    queued,        \* sorted set of general jobs
    queued_kind,   \* the sorted sets per kind (a job is only ever in its own)
    running,       \* sorted set of leases
    dedupe,        \* dedupe index: key -> job
    worker,        \* where each worker is inside its claim, and what it holds
    caller,        \* an enqueue under way
    sweep,         \* sweep[cam]: the jobs a cancel_queued has still to visit
    now

vars == <<deployment, hash, queued, queued_kind, running, dedupe, worker, caller, sweep, now>>
sets == <<queued, queued_kind, running>>

Terminal == {"completed", "failed", "cancelled"}

Hash == [status: {"absent", "queued", "running"} \cup Terminal,
         plan: Plans \cup {NoJob},
         attempts: 0..MaxBudget,
         claimed_by: Workers \cup {NoWorker}]

KeyOf(p) == <<p.campaign, p.kind, p.dedupe_key>>
DedupeKeys == {KeyOf(p) : p \in {q \in Plans : q.dedupe_key # NoKey}}

\* pc: idle; recover (walking the stale list); head (claim: the general queue);
\* choose (claim_allowed: pick a kind); walk (claim_kind: its candidates);
\* busy (working on a claim).
Worker ==
    [pc: {"idle", "recover", "head", "choose", "walk", "busy"},
     kind: Kinds \cup {NoKind},          \* the kind claim_kind was asked for
     tries: 0..MaxTries,
     stale: SUBSET Jobs, cutoff: -Lease..MaxTime,
     todo: SUBSET (Times \X Jobs),
     job: Jobs \cup {NoJob}, attempt: 0..MaxBudget]

TypeOK ==
    /\ deployment \in Deployments
    /\ hash \in [Jobs -> Hash]
    /\ queued \in [Jobs -> Score] /\ queued_kind \in [Jobs -> Score]
    /\ running \in [Jobs -> Score]
    /\ dedupe \in [DedupeKeys -> Jobs \cup {NoJob}]
    /\ worker \in [Workers -> Worker]
    /\ caller \in [Callers -> [plan: Plans \cup {NoJob}, score: Times,
                               answer: Jobs \cup {NoJob}]]
    /\ sweep \in [Campaigns -> SUBSET Jobs]
    /\ now \in Times

IdleWorker ==
    [pc |-> "idle", kind |-> NoKind, tries |-> 0, stale |-> {}, cutoff |-> 0,
     todo |-> {}, job |-> NoJob, attempt |-> 0]

Init ==
    /\ deployment \in Deployments
    /\ hash = [j \in Jobs |-> [status |-> "absent", plan |-> NoJob, attempts |-> 0,
                               claimed_by |-> NoWorker]]
    /\ queued = [j \in Jobs |-> Out]
    /\ queued_kind = [j \in Jobs |-> Out]
    /\ running = [j \in Jobs |-> Out]
    /\ dedupe = [k \in DedupeKeys |-> NoJob]
    /\ worker = [w \in Workers |-> IdleWorker]
    /\ caller = [c \in Callers |-> [plan |-> NoJob, score |-> 0, answer |-> NoJob]]
    /\ sweep = [cam \in Campaigns |-> {}]
    /\ now = 0

\* Mutant: one attempt too many.
HasBudget_OffByOne(r) == r.attempts <= r.plan.max_attempts

HasBudget(r) == r.attempts < r.plan.max_attempts
Generic(r) == r.plan.kind \notin DedicatedKinds

-----------------------------------------------------------------------------
(* What one EXEC writes.                                                   *)

Written(j, status, attempts, owner) ==
    hash' = [hash EXCEPT ![j].status = status, ![j].attempts = attempts,
                         ![j].claimed_by = owner]

\* Back to the queued sets, behind everything queued before.
Requeue(j, score) ==
    /\ queued' = IF Generic(hash[j]) THEN [queued EXCEPT ![j] = score] ELSE queued
    /\ queued_kind' = [queued_kind EXCEPT ![j] = score]

Unqueue(j) ==
    /\ queued' = [queued EXCEPT ![j] = Out]
    /\ queued_kind' = [queued_kind EXCEPT ![j] = Out]

-----------------------------------------------------------------------------
(* enqueue                                                                 *)

Absent == {j \in Jobs : hash[j].status = "absent"}

\* uuid4 draws an unused identifier; which one makes no difference.
Fresh(j) == j \in Absent /\ \A i \in Absent : j <= i

\* The score is taken before the transaction is tried.
EnqueueBegin(c, p) ==
    /\ caller[c].plan = NoJob
    /\ caller' = [caller EXCEPT ![c] = [plan |-> p, score |-> now, answer |-> NoJob]]
    /\ UNCHANGED <<deployment, hash, sets, dedupe, worker, sweep, now>>

EnqueueNew(c, p) ==
    \E j \in Jobs :
        /\ Fresh(j)
        /\ hash' = [hash EXCEPT ![j].status = "queued", ![j].plan = p]
        /\ queued' = IF p.kind \in DedicatedKinds THEN queued
                       ELSE [queued EXCEPT ![j] = caller[c].score]
        /\ queued_kind' = [queued_kind EXCEPT ![j] = caller[c].score]
        /\ dedupe' = IF p.dedupe_key = NoKey THEN dedupe
                       ELSE [dedupe EXCEPT ![KeyOf(p)] = j]
        /\ caller' = [caller EXCEPT ![c].plan = NoJob, ![c].answer = j]

EnqueueExec(c) ==
    LET p == caller[c].plan
        known == p.dedupe_key # NoKey /\ dedupe[KeyOf(p)] # NoJob
    IN
    /\ p # NoJob
    /\ \/ ~known /\ EnqueueNew(c, p)
       \/ /\ known
          /\ caller' = [caller EXCEPT
               ![c].plan = NoJob,
               ![c].answer = IF hash[dedupe[KeyOf(p)]].plan.payload = p.payload
                               THEN dedupe[KeyOf(p)] ELSE NoJob]
          /\ UNCHANGED <<hash, queued, queued_kind, dedupe>>
    /\ UNCHANGED <<deployment, running, worker, sweep, now>>

-----------------------------------------------------------------------------
(* recover_expired_leases, the first part of every claim                   *)

\* The stale list and the cutoff it was taken with.
Scan(w, kind, tries) ==
    worker' = [worker EXCEPT ![w] =
        [IdleWorker EXCEPT
            !.pc = "recover", !.kind = kind, !.tries = tries, !.cutoff = now - Lease,
            !.stale = {j \in Jobs : running[j] # Out /\ running[j] <= now - Lease}]]

BeginClaim(w) ==
    /\ w \in DOMAIN deployment.serves
    /\ worker[w].pc = "idle"
    /\ \/ deployment.serves[w] \cap DedicatedKinds = {} /\ Scan(w, NoKind, 0)
       \/ \E k \in deployment.serves[w] \cap DedicatedKinds : Scan(w, k, 0)
    /\ UNCHANGED <<deployment, hash, sets, dedupe, caller, sweep, now>>

\* Mutant: the entry of the list is trusted, its score is not read again.
StillStale_Trusted(w, j) == hash[j].status = "running"

\* The entry is checked again under WATCH: a renewed lease is left alone.
StillStale(w, j) ==
    hash[j].status = "running" /\ running[j] # Out /\ running[j] <= worker[w].cutoff

RecoverOne(w, j) ==
    /\ worker[w].pc = "recover"
    /\ j \in worker[w].stale
    /\ worker' = [worker EXCEPT ![w].stale = @ \ {j}]
    /\ \/ /\ StillStale(w, j)
          /\ running' = [running EXCEPT ![j] = Out]
          /\ \/ /\ HasBudget(hash[j])
                /\ Written(j, "queued", hash[j].attempts, NoWorker)
                /\ Requeue(j, now)
             \/ /\ ~HasBudget(hash[j])
                /\ Written(j, "failed", hash[j].attempts, NoWorker)
                /\ UNCHANGED <<queued, queued_kind>>
       \/ /\ ~StillStale(w, j)
          /\ UNCHANGED <<hash, sets>>
    /\ UNCHANGED <<deployment, dedupe, caller, sweep, now>>

\* The list is done: on to the general queue, to the choice of a kind, or to
\* the candidates of the kind asked for.
RecoverDone(w) ==
    LET kind == worker[w].kind IN
    /\ worker[w].pc = "recover"
    /\ worker[w].stale = {}
    /\ \/ /\ kind # NoKind
          /\ worker' = [worker EXCEPT
               ![w].pc = "walk",
               ![w].todo = {<<queued_kind[j], j>> :
                              j \in {i \in Jobs : /\ queued_kind[i] # Out
                                                  /\ hash[i].plan.kind = kind}}]
       \/ /\ kind = NoKind
          /\ worker' = [worker EXCEPT
               ![w].pc = IF deployment.serves[w] = {} THEN "head" ELSE "choose"]
    /\ UNCHANGED <<deployment, hash, sets, dedupe, caller, sweep, now>>

-----------------------------------------------------------------------------
(* claim, claim_allowed, claim_kind                                        *)

Grant(w, j) ==
    /\ Written(j, "running", hash[j].attempts + 1, w)
    /\ Unqueue(j)
    /\ running' = [running EXCEPT ![j] = now]
    /\ worker' = [worker EXCEPT ![w] =
         [IdleWorker EXCEPT !.pc = "busy", !.job = j, !.attempt = hash[j].attempts + 1]]

GiveUp(w) == worker' = [worker EXCEPT ![w] = IdleWorker]

\* claim(): the head of the general queue, repaired when it does not belong.
Head(w) ==
    LET present == {j \in Jobs : queued[j] # Out} IN
    /\ worker[w].pc = "head"
    /\ \/ /\ present = {}
          /\ GiveUp(w)
          /\ UNCHANGED <<hash, sets>>
       \/ \E j \in present :
            /\ \A i \in present : queued[j] <= queued[i]
            /\ \/ /\ hash[j].status = "queued" /\ Generic(hash[j]) /\ HasBudget(hash[j])
                  /\ Grant(w, j)
               \/ /\ hash[j].status = "queued" /\ Generic(hash[j]) /\ ~HasBudget(hash[j])
                  /\ Written(j, "failed", hash[j].attempts, hash[j].claimed_by)
                  /\ Unqueue(j)
                  /\ UNCHANGED <<running, worker>>
               \/ /\ hash[j].status # "queued"
                  /\ Unqueue(j)
                  /\ UNCHANGED <<hash, running, worker>>
               \/ /\ hash[j].status = "queued" /\ ~Generic(hash[j])
                  /\ queued' = [queued EXCEPT ![j] = Out]
                  /\ UNCHANGED <<hash, queued_kind, running, worker>>
    /\ UNCHANGED <<deployment, dedupe, caller, sweep, now>>

\* claim_allowed(): the kind with the oldest head, for claim_kind to try.
Choose(w) ==
    LET candidates == {j \in Jobs : /\ queued_kind[j] # Out
                                    /\ hash[j].plan.kind \in deployment.serves[w]} IN
    /\ worker[w].pc = "choose"
    /\ \/ /\ candidates = {} \/ worker[w].tries = MaxTries
          /\ GiveUp(w)
       \/ /\ worker[w].tries < MaxTries
          /\ \E j \in candidates :
               /\ \A i \in candidates : queued_kind[j] <= queued_kind[i]
               /\ Scan(w, hash[j].plan.kind, worker[w].tries + 1)
    /\ UNCHANGED <<deployment, hash, sets, dedupe, caller, sweep, now>>

\* claim_kind(): the next candidate of the list, leased or dropped from the set.
Try(w) ==
    /\ worker[w].pc = "walk"
    /\ \E e \in worker[w].todo :
         LET j == e[2] IN
         /\ \A f \in worker[w].todo : e[1] <= f[1]
         /\ \/ /\ hash[j].status = "queued" /\ HasBudget(hash[j])
               /\ Grant(w, j)
            \/ /\ ~(hash[j].status = "queued" /\ HasBudget(hash[j]))
               /\ queued_kind' = [queued_kind EXCEPT ![j] = Out]
               /\ worker' = [worker EXCEPT ![w].todo = @ \ {e}]
               /\ UNCHANGED <<hash, queued, running>>
    /\ UNCHANGED <<deployment, dedupe, caller, sweep, now>>

WalkDone(w) ==
    /\ worker[w].pc = "walk"
    /\ worker[w].todo = {}
    /\ IF deployment.serves[w] \cap DedicatedKinds = {}
         THEN worker' = [worker EXCEPT ![w].pc = "choose", ![w].kind = NoKind]
         ELSE GiveUp(w)
    /\ UNCHANGED <<deployment, hash, sets, dedupe, caller, sweep, now>>

-----------------------------------------------------------------------------
(* heartbeat, finish, cancel_owned, cancel_queued                          *)

Owns(w, j) == hash[j].status = "running" /\ hash[j].claimed_by = w

Heartbeat(w) ==
    LET j == worker[w].job IN
    /\ worker[w].pc = "busy"
    /\ Owns(w, j)
    /\ running' = [running EXCEPT ![j] = now]
    /\ UNCHANGED <<deployment, hash, queued, queued_kind, dedupe, worker, caller, sweep, now>>

\* The worker is done; the hash moves only if it still names this worker.
Settle(w, status) ==
    LET j == worker[w].job IN
    /\ worker[w].pc = "busy"
    /\ \/ /\ Owns(w, j)
          /\ Written(j, status, hash[j].attempts, NoWorker)
          /\ running' = [running EXCEPT ![j] = Out]
          /\ IF status = "queued" THEN Requeue(j, now) ELSE UNCHANGED <<queued, queued_kind>>
       \/ ~Owns(w, j) /\ UNCHANGED <<hash, sets>>
    /\ GiveUp(w)
    /\ UNCHANGED <<deployment, dedupe, caller, sweep, now>>

Finish(w) ==
    \/ Settle(w, "completed")
    \/ Settle(w, IF HasBudget(hash[worker[w].job]) THEN "queued" ELSE "failed")

CancelOwned(w) == Settle(w, "cancelled")

\* cancel_queued lists the campaign's jobs, then cancels them one by one.
CancelBegin(cam) ==
    /\ sweep[cam] = {}
    /\ sweep' = [sweep EXCEPT ![cam] =
                   {j \in Jobs \ Absent : hash[j].plan.campaign = cam}]
    /\ UNCHANGED <<deployment, hash, sets, dedupe, worker, caller, now>>

\* Mutant: the status of the entry is not read again under WATCH.
Cancellable_Trusted(j) == hash[j].status \notin Terminal

Cancellable(j) == hash[j].status = "queued"

CancelOne(cam, j) ==
    /\ j \in sweep[cam]
    /\ sweep' = [sweep EXCEPT ![cam] = @ \ {j}]
    /\ \/ /\ Cancellable(j)
          /\ Written(j, "cancelled", hash[j].attempts, NoWorker)
          /\ Unqueue(j)
       \/ ~Cancellable(j) /\ UNCHANGED <<hash, queued, queued_kind>>
    /\ UNCHANGED <<deployment, running, dedupe, worker, caller, now>>

\* The process dies anywhere in a claim or in its work, and starts over.
Crash(w) ==
    /\ worker[w].pc # "idle"
    /\ GiveUp(w)
    /\ UNCHANGED <<deployment, hash, sets, dedupe, caller, sweep, now>>

Tick ==
    /\ now < MaxTime
    /\ now' = now + 1
    /\ UNCHANGED <<deployment, hash, sets, dedupe, worker, caller, sweep>>

Next ==
    \/ \E c \in deployment.callers :
         (\E p \in deployment.plans : EnqueueBegin(c, p)) \/ EnqueueExec(c)
    \/ \E w \in Workers :
         \/ BeginClaim(w)
         \/ \E j \in Jobs : RecoverOne(w, j)
         \/ RecoverDone(w)
         \/ Head(w)
         \/ Choose(w)
         \/ Try(w)
         \/ WalkDone(w)
         \/ Heartbeat(w)
         \/ Finish(w)
         \/ CancelOwned(w)
         \/ Crash(w)
    \/ \E cam \in Campaigns : CancelBegin(cam) \/ \E j \in Jobs : CancelOne(cam, j)
    \/ Tick

Spec == Init /\ [][Next]_vars

-----------------------------------------------------------------------------
(* Properties                                                              *)

\* The dedupe index names, for every key, the only job that bears it: enqueue
\* never finds its index inconsistent and never inserts a key twice.
DedupeExact ==
    /\ \A k \in DedupeKeys :
         dedupe[k] # NoJob => dedupe[k] \notin Absent /\ KeyOf(hash[dedupe[k]].plan) = k
    /\ \A j \in Jobs \ Absent :
         hash[j].plan.dedupe_key # NoKey => dedupe[KeyOf(hash[j].plan)] = j

\* The indexes always tell the truth about the hashes: a queued job is in the
\* set of its kind (and in the general one unless its kind is dedicated), a
\* running job has a lease, no other job is anywhere, and the dedupe index is
\* exact.  A job missing from its set would never be claimed again, one too
\* many would be leased twice.
IndexesAgree ==
    /\ TypeOK
    /\ DedupeExact
    /\ \A j \in Jobs :
         LET r == hash[j] IN
         /\ queued_kind[j] # Out <=> r.status = "queued"
         /\ queued[j] # Out <=> r.status = "queued" /\ Generic(r)
         /\ running[j] # Out <=> r.status = "running"

\* A job is taken from a worker only by that worker, or when its lease, as last
\* renewed, has run out: a renewal that beats the recovery's WATCH saves it.
LeaseNotStolen ==
    [][\A j \in Jobs :
         LET w == hash[j].claimed_by IN
         hash[j].status = "running" /\ hash'[j].claimed_by # w =>
            \/ running[j] <= now - Lease
            \/ worker[w].pc = "busy" /\ worker'[w].pc = "idle"]_vars

\* The Redis queue implements the same ledger as the SQLite queue.
Ledger == INSTANCE JobLedger WITH
    ledger <- [j \in Jobs |->
                 [status   |-> hash[j].status,
                  attempts |-> hash[j].attempts,
                  budget   |-> IF j \in Absent THEN 0 ELSE hash[j].plan.max_attempts,
                  owner    |-> hash[j].claimed_by]]

ImplementsLedger == Ledger!LedgerSpec
=============================================================================
