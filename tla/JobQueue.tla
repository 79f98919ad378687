------------------------------- MODULE JobQueue -------------------------------
(***************************************************************************)
(* The SQLite job queue (backend/app/jobqueue.py) and the workers that     *)
(* lease jobs from it.                                                     *)
(*                                                                         *)
(* Every public operation is one transaction under BEGIN IMMEDIATE (or one *)
(* autocommitted statement), hence one action; the only operation of more  *)
(* than one transaction is a deduplicated enqueue, which looks the key up, *)
(* inserts, and looks it up again when the unique index refuses the row.   *)
(*                                                                         *)
(* Time: the code compares claimed_at with now - lease.  The model keeps   *)
(* the age of the claim instead, which Tick advances and which stops one   *)
(* past the lease, since every older claim is treated alike.               *)
(*                                                                         *)
(* created_at orders the claims; job identifiers are handed out in that    *)
(* order, so the identifier stands for both.                               *)
(***************************************************************************)
EXTENDS Integers

CONSTANTS
    MaxJobs,        \* bound: how many rows may ever be inserted
    Workers,        \* worker identities
    Callers,        \* processes that enqueue (API requests, planners)
    Campaigns,
    Kinds,          \* job kinds
    DedicatedKinds, \* kinds excluded from claim(): pentagi_flow, pentagi_status
    Serves,         \* Serves[w]: the kinds worker w asks claim_allowed for
    Plans,          \* the enqueue requests that callers make
    MaxBudget,      \* largest max_attempts (5 in the code)
    Lease,          \* XBOW_JOB_LEASE_SECONDS, in ticks
    NoWorker, NoJob, NoKey

Jobs == 1..MaxJobs

ASSUME QueueAssumption ==
    /\ MaxJobs \in Nat /\ MaxBudget \in Nat /\ Lease \in Nat
    /\ NoWorker \notin Workers
    /\ NoJob \notin Jobs
    /\ DedicatedKinds \subseteq Kinds
    /\ Serves \in [Workers -> SUBSET Kinds]
    /\ \A p \in Plans :
         /\ p.campaign \in Campaigns
         /\ p.kind \in Kinds
         /\ p.max_attempts \in 1..MaxBudget

VARIABLES
    jobs,      \* the jobs table
    held,      \* held[w]: the claim worker w believes it is working on
    call       \* call[c]: where caller c is inside enqueue, and its last answer

vars == <<jobs, held, call>>

TERMINAL == {"completed", "failed", "cancelled"}

Row ==
    [status: {"absent", "queued", "running"} \cup TERMINAL,
     plan: Plans \cup {NoJob},
     attempts: 0..MaxBudget,
     claimed_by: Workers \cup {NoWorker},
     age: -1..(Lease + 1)]            \* -1 when claimed_at is NULL

\* A claim is a job and the attempt it was granted as.
Claim == [job: Jobs, attempt: 1..MaxBudget] \cup {NoJob}

CallState ==
    [pc: {"idle", "insert", "reread"},
     plan: Plans \cup {NoJob},
     answer: Jobs \cup {NoJob, 0}]    \* 0: refused, the key has another payload

TypeOK ==
    /\ jobs \in [Jobs -> Row]
    /\ held \in [Workers -> Claim]
    /\ call \in [Callers -> CallState]

AbsentRow ==
    [status |-> "absent", plan |-> NoJob, attempts |-> 0,
     claimed_by |-> NoWorker, age |-> -1]

QueuedRow(p) ==
    [status |-> "queued", plan |-> p, attempts |-> 0,
     claimed_by |-> NoWorker, age |-> -1]

Init ==
    /\ jobs = [j \in Jobs |-> AbsentRow]
    /\ held = [w \in Workers |-> NoJob]
    /\ call = [c \in Callers |-> [pc |-> "idle", plan |-> NoJob, answer |-> NoJob]]

Present(j) == jobs[j].status # "absent"

-----------------------------------------------------------------------------
(* enqueue                                                                 *)

\* The rows the unique index jobs_dedupe would clash with.
SameKey(p) ==
    {j \in Jobs : /\ Present(j)
                  /\ p.dedupe_key # NoKey
                  /\ jobs[j].plan.campaign = p.campaign
                  /\ jobs[j].plan.kind = p.kind
                  /\ jobs[j].plan.dedupe_key = p.dedupe_key}

\* A key met again answers with its row, or is refused when the payload differs.
AnswerFor(p, j) == IF jobs[j].plan.payload = p.payload THEN j ELSE 0

Answered(c, a) == call' = [call EXCEPT ![c].pc = "idle", ![c].answer = a]

\* The first lookup, in a transaction of its own.
EnqueueLookup(c, p) ==
    /\ call[c].pc = "idle"
    /\ \/ /\ SameKey(p) = {}
          /\ call' = [call EXCEPT ![c] = [pc |-> "insert", plan |-> p, answer |-> NoJob]]
       \/ \E j \in SameKey(p) :
            call' = [call EXCEPT ![c] = [pc |-> "idle", plan |-> p,
                                         answer |-> AnswerFor(p, j)]]
    /\ UNCHANGED <<jobs, held>>

\* The next identifier, later in created_at than every row.
Fresh(j) == ~Present(j) /\ \A i \in 1..(j - 1) : Present(i)

\* Mutant: without the unique index every insert succeeds.
EnqueueInsert_NoIndex(c) ==
    /\ call[c].pc = "insert"
    /\ \E j \in Jobs :
         /\ Fresh(j)
         /\ jobs' = [jobs EXCEPT ![j] = QueuedRow(call[c].plan)]
         /\ Answered(c, j)
    /\ UNCHANGED held

\* The INSERT: refused by the unique index when another caller was faster.
EnqueueInsert(c) ==
    LET p == call[c].plan IN
    /\ call[c].pc = "insert"
    /\ \/ /\ SameKey(p) # {}
          /\ call' = [call EXCEPT ![c].pc = "reread"]
          /\ UNCHANGED jobs
       \/ /\ SameKey(p) = {}
          /\ \E j \in Jobs :
               /\ Fresh(j)
               /\ jobs' = [jobs EXCEPT ![j] = QueuedRow(p)]
               /\ Answered(c, j)
    /\ UNCHANGED held

EnqueueReread(c) ==
    /\ call[c].pc = "reread"
    /\ \E j \in SameKey(call[c].plan) : Answered(c, AnswerFor(call[c].plan, j))
    /\ UNCHANGED <<jobs, held>>

-----------------------------------------------------------------------------
(* claims, leases and their recovery                                       *)

Released(r, status) ==
    [status |-> status, plan |-> r.plan, attempts |-> r.attempts,
     claimed_by |-> NoWorker, age |-> -1]

\* Mutant: the last attempt is granted once more.
HasBudget_OffByOne(r) == r.attempts <= r.plan.max_attempts

HasBudget(r) == r.attempts < r.plan.max_attempts

Expired(r) == r.status = "running" /\ r.age > Lease

\* Mutant: an abandoned job whose budget is spent is left running.
Recovered_KeepsExhausted ==
    [j \in Jobs |->
        IF Expired(jobs[j]) /\ HasBudget(jobs[j])
          THEN Released(jobs[j], "queued")
          ELSE jobs[j]]

\* The table after _recover_expired_leases, which every claim runs first.
Recovered ==
    [j \in Jobs |->
        IF Expired(jobs[j])
          THEN Released(jobs[j], IF HasBudget(jobs[j]) THEN "queued" ELSE "failed")
          ELSE jobs[j]]

RecoverExpiredLeases ==
    /\ jobs' = Recovered
    /\ UNCHANGED <<held, call>>

Eligible(kinds) ==
    {j \in Jobs : /\ Recovered[j].status = "queued"
                  /\ Recovered[j].plan.kind \in kinds
                  /\ HasBudget(Recovered[j])}

Leased(r, w) ==
    [status |-> "running", plan |-> r.plan, attempts |-> r.attempts + 1,
     claimed_by |-> w, age |-> 0]

\* One transaction: recover, pick the oldest eligible row, lease it to w.
ClaimFrom(w, kinds) ==
    /\ held[w] = NoJob
    /\ \/ /\ Eligible(kinds) = {}
          /\ jobs' = Recovered
          /\ UNCHANGED held
       \/ \E j \in Eligible(kinds) :
            /\ \A i \in Eligible(kinds) : j <= i
            /\ jobs' = [Recovered EXCEPT ![j] = Leased(@, w)]
            /\ held' = [held EXCEPT ![w] = [job |-> j, attempt |-> jobs[j].attempts + 1]]
    /\ UNCHANGED call

\* A worker without a role: claim().
ClaimAny(w) == Serves[w] = {} /\ ClaimFrom(w, Kinds \ DedicatedKinds)

\* A general or scanner worker: claim_allowed().
ClaimAllowed(w) ==
    /\ Serves[w] \ DedicatedKinds # {}
    /\ ClaimFrom(w, Serves[w] \ DedicatedKinds)

\* A PentAGI worker: claim_kind().
ClaimKind(w) == \E k \in Serves[w] \cap DedicatedKinds : ClaimFrom(w, {k})

\* Mutant: claimed_by is not compared.
Owns_AnyRunning(w, j) == jobs[j].status = "running"

\* The WHERE clause of heartbeat, cancel_owned and finish.
Owns(w, j) == jobs[j].status = "running" /\ jobs[j].claimed_by = w

\* The renewal is refused when the lease is lost; an expired one that nobody
\* has recovered yet is renewed.
Heartbeat(w) ==
    /\ held[w] # NoJob
    /\ Owns(w, held[w].job)
    /\ jobs' = [jobs EXCEPT ![held[w].job].age = 0]
    /\ UNCHANGED <<held, call>>

\* The worker is done with its claim, whether or not the row is still its own.
Settle(w, status) ==
    /\ held[w] # NoJob
    /\ jobs' = IF Owns(w, held[w].job)
                 THEN [jobs EXCEPT ![held[w].job] = Released(@, status)]
                 ELSE jobs
    /\ held' = [held EXCEPT ![w] = NoJob]
    /\ UNCHANGED call

\* Mutant: a failed job is requeued whatever its attempts.
Finish_AlwaysRequeues(w, success) ==
    Settle(w, IF success THEN "completed" ELSE "queued")

Finish(w, success) ==
    Settle(w, CASE success -> "completed"
                [] ~success /\ HasBudget(jobs[held[w].job]) -> "queued"
                [] OTHER -> "failed")

CancelOwned(w) == Settle(w, "cancelled")

CancelQueued(cam) ==
    /\ jobs' = [j \in Jobs |->
                  IF jobs[j].status = "queued" /\ jobs[j].plan.campaign = cam
                    THEN Released(jobs[j], "cancelled")
                    ELSE jobs[j]]
    /\ UNCHANGED <<held, call>>

\* The process dies and comes back with its identity and without its claim.
Crash(w) ==
    /\ held[w] # NoJob
    /\ held' = [held EXCEPT ![w] = NoJob]
    /\ UNCHANGED <<jobs, call>>

Tick ==
    /\ jobs' = [j \in Jobs |->
                  IF jobs[j].status = "running" /\ jobs[j].age <= Lease
                    THEN [jobs[j] EXCEPT !.age = @ + 1]
                    ELSE jobs[j]]
    /\ UNCHANGED <<held, call>>

Claims(w) == ClaimAny(w) \/ ClaimAllowed(w) \/ ClaimKind(w)
Finishes(w) == (\E success \in BOOLEAN : Finish(w, success)) \/ CancelOwned(w)

Next ==
    \/ \E c \in Callers : \/ \E p \in Plans : EnqueueLookup(c, p)
                          \/ EnqueueInsert(c)
                          \/ EnqueueReread(c)
    \/ \E w \in Workers : Claims(w) \/ Heartbeat(w) \/ Finishes(w) \/ Crash(w)
    \/ \E cam \in Campaigns : CancelQueued(cam)
    \/ RecoverExpiredLeases
    \/ Tick

Spec == Init /\ [][Next]_vars

\* Workers poll in an endless loop and are restarted when they die; a handler
\* is bounded by its own timeouts; time passes.
Fairness ==
    /\ \A w \in Workers : WF_vars(Claims(w)) /\ WF_vars(Finishes(w))
    /\ WF_vars(Tick)

LiveSpec == Spec /\ Fairness

-----------------------------------------------------------------------------
(* Properties                                                              *)

\* The queue never reaches a state that queue_recovery calls critical: an
\* owner and a claim time exactly on running rows, attempts within the budget
\* and strictly below it on every queued row (or the job could never be
\* claimed again and never fail).
RowConsistent(r) ==
    /\ (r.status = "running") <=> (r.claimed_by # NoWorker)
    /\ (r.status = "running") <=> (r.age >= 0)
    /\ r.status # "absent" => r.attempts <= r.plan.max_attempts
    /\ r.status = "queued" => r.attempts < r.plan.max_attempts
    /\ r.status = "running" => r.attempts >= 1

NoCriticalIssue == \A j \in Jobs : RowConsistent(jobs[j])

\* A worker whose claim is of the row's latest attempt is its owner as long as
\* the row runs: two workers never both believe, rightly, that they own a job.
LatestClaimOwns ==
    \A w \in Workers :
        held[w] # NoJob =>
            LET r == jobs[held[w].job] IN
            /\ held[w].attempt <= r.attempts
            /\ r.status = "running" /\ held[w].attempt = r.attempts => r.claimed_by = w

\* At most one row per (campaign, kind, dedupe_key), whatever the callers'
\* lookups and inserts interleave, and every caller is told the row that bears
\* its key and its payload.
DedupeExact ==
    /\ \A i, j \in Jobs : Present(i) /\ j \in SameKey(jobs[i].plan) => i = j
    /\ \A c \in Callers :
         call[c].answer \in Jobs =>
            LET p == call[c].plan
                q == jobs[call[c].answer].plan IN
            /\ Present(call[c].answer)
            /\ <<q.campaign, q.kind, q.dedupe_key, q.payload>>
                 = <<p.campaign, p.kind, p.dedupe_key, p.payload>>

\* The result of a job is the one its latest claim reports: a worker that lost
\* its lease can neither complete nor requeue what another worker has claimed.
StaleClaimHarmless ==
    [][\A w \in Workers :
         /\ held[w] # NoJob
         /\ held'[w] = NoJob
         /\ held[w].attempt # jobs[held[w].job].attempts
         => UNCHANGED jobs]_vars

\* The queue implements the ledger.
Ledger == INSTANCE JobLedger WITH
    ledger <- [j \in Jobs |->
                 [status   |-> jobs[j].status,
                  attempts |-> jobs[j].attempts,
                  budget   |-> IF Present(j) THEN jobs[j].plan.max_attempts ELSE 0,
                  owner    |-> jobs[j].claimed_by]]

ImplementsLedger == Ledger!LedgerSpec

\* Under crashes at any moment, every job that is queued or running is settled:
\* a lost lease is recovered and the retry budget is finite.
EveryJobSettles ==
    \A j \in Jobs : jobs[j].status \in {"queued", "running"} ~> jobs[j].status \in TERMINAL
=============================================================================
