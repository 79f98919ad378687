-------------------------- MODULE RedisJobQueueProofs --------------------------
(***************************************************************************)
(* Proofs about the Redis queue.  What each EXEC writes is one edge of one *)
(* job; the lists that claims and cancellations walk may be as old as they *)
(* like, because every entry is checked again where it is used.            *)
(***************************************************************************)
EXTENDS RedisJobQueue, TLAPS

-----------------------------------------------------------------------------
(* The inductive invariant                                                 *)

\* A hash and its place in the sorted sets.  Beyond IndexesAgree: a queued job
\* has budget left, no attempt is spent past the budget, and only a running job
\* names a worker.
RowOK(r, q, qk, run) ==
    /\ qk # Out <=> r.status = "queued"
    /\ q # Out <=> r.status = "queued" /\ Generic(r)
    /\ run # Out <=> r.status = "running"
    /\ r.status = "absent" => r.attempts = 0
    /\ r.status # "absent" => r.plan \in Plans /\ r.attempts <= r.plan.max_attempts
    /\ r.status = "queued" => HasBudget(r)
    /\ r.status # "running" => r.claimed_by = NoWorker

RowsOK == \A j \in Jobs : RowOK(hash[j], queued[j], queued_kind[j], running[j])

\* A recovery's cutoff only grows older; a worker that works has a job.
WorkersOK ==
    \A w \in Workers :
        /\ worker[w].pc = "recover" => worker[w].cutoff <= now - Lease
        /\ worker[w].pc = "busy" => worker[w].job \in Jobs

IInv == TypeOK /\ DedupeExact /\ RowsOK /\ WorkersOK

-----------------------------------------------------------------------------
(* The edges of a hash                                                     *)

\* r with another status, attempts and owner: the campaign, kind, key and
\* budget of a job never change.
Made(r, status, attempts, owner) ==
    [status |-> status, plan |-> r.plan, attempts |-> attempts, claimed_by |-> owner]

HashEdge(r, s) ==
    \/ /\ r.status = "absent"
       /\ \E p \in Plans : s = [status |-> "queued", plan |-> p, attempts |-> 0,
                                claimed_by |-> NoWorker]
    \/ /\ r.status = "queued" /\ HasBudget(r)
       /\ \E w \in Workers : s = Made(r, "running", r.attempts + 1, w)
    \/ /\ r.status = "running" /\ HasBudget(r)
       /\ s = Made(r, "queued", r.attempts, NoWorker)
    \/ /\ r.status = "running"
       /\ s = Made(r, "completed", r.attempts, NoWorker)
    \/ /\ r.status = "running" /\ ~HasBudget(r)
       /\ s = Made(r, "failed", r.attempts, NoWorker)
    \/ /\ r.status \in {"queued", "running"}
       /\ s = Made(r, "cancelled", r.attempts, NoWorker)

\* What a step shows of the jobs: each moves along an edge, and leaves the
\* worker that runs it only by that worker or after its lease.
Edges == \A j \in Jobs : hash'[j] = hash[j] \/ HashEdge(hash[j], hash'[j])

NotStolen ==
    \A j \in Jobs :
         LET w == hash[j].claimed_by IN
         hash[j].status = "running" /\ hash'[j].claimed_by # w =>
            \/ running[j] <= now - Lease
            \/ worker[w].pc = "busy" /\ worker'[w].pc = "idle"

Step == IInv' /\ Edges /\ NotStolen

LEMMA Bounds ==
    /\ MaxBudget \in Nat /\ Lease \in Nat /\ MaxTime \in Nat /\ MaxTries \in Nat
    /\ NoWorker \notin Workers /\ NoJob \notin Jobs /\ NoKind \notin Kinds
    /\ \A p \in Plans : p.kind \in Kinds /\ p.max_attempts \in 1..MaxBudget
BY RedisAssumption

LEMMA InitIInv == Init => IInv
<1> SUFFICES ASSUME Init PROVE IInv
  OBVIOUS
<1>1. TypeOK
  <2>1. [j \in Jobs |-> [status |-> "absent", plan |-> NoJob, attempts |-> 0,
                         claimed_by |-> NoWorker]] \in [Jobs -> Hash]
    BY Bounds DEF Hash
  <2>2. IdleWorker \in Worker
    BY Bounds DEF IdleWorker, Worker
  <2> QED
    BY <2>1, <2>2, Bounds DEF Init, TypeOK, Score, Out, Times
<1>2. DedupeExact
  BY DEF Init, DedupeExact, Absent
<1>3. RowsOK
  BY Bounds DEF Init, RowsOK, RowOK, Out, HasBudget
<1>4. WorkersOK
  BY DEF Init, WorkersOK, IdleWorker
<1> QED
  BY <1>1, <1>2, <1>3, <1>4 DEF IInv

-----------------------------------------------------------------------------
(* Steps that leave the jobs alone                                         *)

\* The scores that a worker or a caller may write.
LEMMA TimesAreScores == now \in Times => now \in Score /\ now # Out
BY Bounds DEF Times, Score, Out

LEMMA JobsAlone ==
    ASSUME IInv, UNCHANGED <<hash, sets, dedupe>>, TypeOK', WorkersOK'
    PROVE  Step
<1>1. DedupeExact'
  BY DEF IInv, DedupeExact, Absent
<1>2. RowsOK'
  BY DEF IInv, RowsOK, sets
<1> QED
  BY <1>1, <1>2 DEF Step, IInv, Edges, NotStolen

LEMMA EnqueueBeginGood ==
    ASSUME IInv, NEW c \in Callers, NEW p \in Plans, EnqueueBegin(c, p)
    PROVE  Step
<1>1. TypeOK'
  BY DEF IInv, TypeOK, EnqueueBegin, sets
<1>2. WorkersOK'
  BY DEF IInv, WorkersOK, EnqueueBegin
<1> QED
  BY <1>1, <1>2, JobsAlone DEF EnqueueBegin

LEMMA CancelBeginGood ==
    ASSUME IInv, NEW cam \in Campaigns, CancelBegin(cam)
    PROVE  Step
<1>1. TypeOK'
  BY DEF IInv, TypeOK, CancelBegin, sets
<1>2. WorkersOK'
  BY DEF IInv, WorkersOK, CancelBegin
<1> QED
  BY <1>1, <1>2, JobsAlone DEF CancelBegin

LEMMA TickGood ==
    ASSUME IInv, Tick
    PROVE  Step
<1>1. TypeOK'
  BY Bounds DEF IInv, TypeOK, Tick, sets, Times
<1>2. WorkersOK'
  BY Bounds DEF IInv, WorkersOK, TypeOK, Worker, Tick, Times
<1> QED
  BY <1>1, <1>2, JobsAlone DEF Tick

\* Only worker w moves, to a state v that is good.
WorkerGood(v) ==
    /\ v \in Worker
    /\ v.pc = "recover" => v.cutoff <= now - Lease
    /\ v.pc = "busy" => v.job \in Jobs

LEMMA WorkerMoves ==
    ASSUME IInv, NEW w \in Workers, NEW v, WorkerGood(v),
           worker' = [worker EXCEPT ![w] = v], now' = now
    PROVE  worker' \in [Workers -> Worker] /\ WorkersOK'
<1>1. worker' \in [Workers -> Worker]
  BY DEF IInv, TypeOK, WorkerGood
<1>2. \A u \in Workers : worker'[u] = IF u = w THEN v ELSE worker[u]
  BY DEF IInv, TypeOK
<1> QED
  BY <1>1, <1>2 DEF IInv, WorkersOK, WorkerGood

LEMMA IdleGood == WorkerGood(IdleWorker)
BY Bounds DEF WorkerGood, IdleWorker, Worker

\* A step of one worker that touches nothing else.
LEMMA WorkerOnly ==
    ASSUME IInv, NEW w \in Workers, NEW v, WorkerGood(v),
           worker' = [worker EXCEPT ![w] = v],
           UNCHANGED <<deployment, hash, sets, dedupe, caller, sweep, now>>
    PROVE  Step
<1>1. worker' \in [Workers -> Worker] /\ WorkersOK'
  BY WorkerMoves
<1>2. TypeOK'
  BY <1>1 DEF IInv, TypeOK, sets
<1> QED
  BY <1>1, <1>2, JobsAlone

LEMMA ScanGood ==
    ASSUME IInv, NEW w \in Workers, NEW kind \in Kinds \cup {NoKind},
           NEW tries \in 0..MaxTries, Scan(w, kind, tries),
           UNCHANGED <<deployment, hash, sets, dedupe, caller, sweep, now>>
    PROVE  Step
<1> DEFINE S == {j \in Jobs : running[j] # Out /\ running[j] <= now - Lease}
           c == now - Lease
           v == [IdleWorker EXCEPT
                   !.pc = "recover", !.kind = kind, !.tries = tries, !.cutoff = c, !.stale = S]
<1>1. c \in -Lease..MaxTime /\ c <= now - Lease /\ S \in SUBSET Jobs
  BY Bounds DEF IInv, TypeOK, Times
<1>2. worker' = [worker EXCEPT ![w] = v]
  BY DEF Scan
<1> HIDE DEF S, c
<1>3. IdleWorker \in Worker
  BY IdleGood DEF WorkerGood
<1>4. v \in Worker /\ v.pc = "recover" /\ v.cutoff = c
  BY <1>1, <1>3 DEF Worker
<1>5. WorkerGood(v)
  BY <1>1, <1>4 DEF WorkerGood
<1> QED
  BY <1>2, <1>5, WorkerOnly

LEMMA BeginClaimGood ==
    ASSUME IInv, NEW w \in Workers, BeginClaim(w)
    PROVE  Step
<1>1. deployment.serves[w] \subseteq Kinds
  BY RedisAssumption DEF IInv, TypeOK, BeginClaim
<1>2. 0 \in 0..MaxTries
  BY Bounds
<1> QED
  BY <1>1, <1>2, ScanGood DEF BeginClaim

LEMMA RecoverDoneGood ==
    ASSUME IInv, NEW w \in Workers, RecoverDone(w)
    PROVE  Step
<1>1. worker[w] \in Worker
  BY DEF IInv, TypeOK
<1>2. ASSUME NEW T \in SUBSET (Times \X Jobs),
             worker' = [worker EXCEPT ![w].pc = "walk", ![w].todo = T]
      PROVE  Step
  <2> DEFINE v == [worker[w] EXCEPT !.pc = "walk", !.todo = T]
  <2>1. WorkerGood(v)
    BY <1>1 DEF WorkerGood, Worker
  <2>2. worker' = [worker EXCEPT ![w] = v]
    BY <1>2
  <2> QED
    BY <2>1, <2>2, WorkerOnly DEF RecoverDone
<1>3. ASSUME NEW pc \in {"head", "choose"}, worker' = [worker EXCEPT ![w].pc = pc]
      PROVE  Step
  <2> DEFINE v == [worker[w] EXCEPT !.pc = pc]
  <2>1. WorkerGood(v)
    BY <1>1 DEF WorkerGood, Worker
  <2>2. worker' = [worker EXCEPT ![w] = v]
    BY <1>3
  <2> QED
    BY <2>1, <2>2, WorkerOnly DEF RecoverDone
<1>4. \A j \in Jobs : queued_kind[j] # Out => queued_kind[j] \in Times
  BY DEF IInv, TypeOK, Score
<1>5. CASE worker[w].kind # NoKind
  <2> DEFINE T == {<<queued_kind[j], j>> :
                     j \in {i \in Jobs : /\ queued_kind[i] # Out
                                         /\ hash[i].plan.kind = worker[w].kind}}
  <2>1. T \in SUBSET (Times \X Jobs)
    BY <1>4
  <2>2. worker' = [worker EXCEPT ![w].pc = "walk", ![w].todo = T]
    BY <1>5 DEF RecoverDone
  <2> QED
    BY <1>2, <2>1, <2>2
<1>6. CASE worker[w].kind = NoKind
  BY <1>3, <1>6 DEF RecoverDone
<1> QED
  BY <1>5, <1>6

LEMMA ChooseGood ==
    ASSUME IInv, NEW w \in Workers, Choose(w)
    PROVE  Step
<1>1. CASE GiveUp(w)
  BY <1>1, IdleGood, WorkerOnly DEF GiveUp, Choose
<1>2. ASSUME NEW j \in Jobs, queued_kind[j] # Out, worker[w].tries < MaxTries,
             Scan(w, hash[j].plan.kind, worker[w].tries + 1)
      PROVE  Step
  <2>1. hash[j].plan \in Plans
    BY <1>2 DEF IInv, RowsOK, RowOK
  <2>2. hash[j].plan.kind \in Kinds
    BY <2>1, Bounds
  <2>3. worker[w].tries + 1 \in 0..MaxTries
    BY <1>2, Bounds DEF IInv, TypeOK, Worker
  <2> QED
    BY <1>2, <2>2, <2>3, ScanGood DEF Choose
<1> QED
  BY <1>1, <1>2 DEF Choose

LEMMA WalkDoneGood ==
    ASSUME IInv, NEW w \in Workers, WalkDone(w)
    PROVE  Step
<1>1. CASE GiveUp(w)
  BY <1>1, IdleGood, WorkerOnly DEF GiveUp, WalkDone
<1>2. CASE worker' = [worker EXCEPT ![w].pc = "choose", ![w].kind = NoKind]
  <2> DEFINE v == [worker[w] EXCEPT !.pc = "choose", !.kind = NoKind]
  <2>1. worker[w] \in Worker
    BY DEF IInv, TypeOK
  <2>2. WorkerGood(v)
    BY <2>1 DEF WorkerGood, Worker
  <2>3. worker' = [worker EXCEPT ![w] = v]
    BY <1>2
  <2> QED
    BY <2>2, <2>3, WorkerOnly DEF WalkDone
<1> QED
  BY <1>1, <1>2 DEF WalkDone

LEMMA CrashGood ==
    ASSUME IInv, NEW w \in Workers, Crash(w)
    PROVE  Step
BY IdleGood, WorkerOnly DEF GiveUp, Crash

-----------------------------------------------------------------------------
(* Steps that move one job                                                 *)

Elsewhere(j) ==
    \A i \in Jobs \ {j} : /\ hash'[i] = hash[i] /\ queued'[i] = queued[i]
                          /\ queued_kind'[i] = queued_kind[i] /\ running'[i] = running[i]

SetsTyped ==
    /\ queued' \in [Jobs -> Score] /\ queued_kind' \in [Jobs -> Score]
    /\ running' \in [Jobs -> Score]

\* One job that exists moves along an edge, its indexes with it.
LEMMA OneMoves ==
    ASSUME IInv, NEW j \in Jobs, Elsewhere(j), SetsTyped,
           hash' \in [Jobs -> Hash],
           RowOK(hash'[j], queued'[j], queued_kind'[j], running'[j]),
           hash[j].status # "absent", hash'[j].status # "absent",
           hash'[j].plan = hash[j].plan,
           hash'[j] = hash[j] \/ HashEdge(hash[j], hash'[j]),
           worker' \in [Workers -> Worker], WorkersOK',
           sweep' \in [Campaigns -> SUBSET Jobs],
           UNCHANGED <<deployment, dedupe, caller, now>>,
           NotStolen
    PROVE  Step
<1>1. TypeOK'
  BY DEF IInv, TypeOK, SetsTyped
<1>2. RowsOK'
  BY DEF IInv, RowsOK, Elsewhere
<1>3. \A i \in Jobs : /\ (i \in Absent') = (i \in Absent)
                      /\ i \notin Absent => hash'[i].plan = hash[i].plan
  BY DEF Absent, Elsewhere
<1>4. DedupeExact'
  <2>1. ASSUME NEW k \in DedupeKeys, dedupe'[k] # NoJob
        PROVE  dedupe'[k] \notin Absent' /\ KeyOf(hash'[dedupe'[k]].plan) = k
    <3>1. dedupe'[k] = dedupe[k] /\ dedupe[k] \in Jobs
      BY <2>1 DEF IInv, TypeOK
    <3>2. dedupe[k] \notin Absent /\ KeyOf(hash[dedupe[k]].plan) = k
      BY <2>1, <3>1 DEF IInv, DedupeExact
    <3> QED
      BY <1>3, <3>1, <3>2
  <2>2. ASSUME NEW i \in Jobs \ Absent', hash'[i].plan.dedupe_key # NoKey
        PROVE  dedupe'[KeyOf(hash'[i].plan)] = i
    BY <1>3, <2>2 DEF IInv, DedupeExact
  <2> QED
    BY <2>1, <2>2 DEF DedupeExact
<1>5. Edges
  BY DEF Edges, Elsewhere
<1> QED
  BY <1>1, <1>2, <1>4, <1>5 DEF Step, IInv

\* What a block writes about a job.
LEMMA WrittenIs ==
    ASSUME IInv, NEW j \in Jobs, NEW s \in {"queued", "running"} \cup Terminal,
           NEW a \in 0..MaxBudget, NEW o \in Workers \cup {NoWorker}, Written(j, s, a, o)
    PROVE  /\ hash' \in [Jobs -> Hash]
           /\ hash'[j] = Made(hash[j], s, a, o)
           /\ hash'[j].status = s /\ hash'[j].attempts = a /\ hash'[j].claimed_by = o
           /\ hash'[j].plan = hash[j].plan
           /\ \A i \in Jobs \ {j} : hash'[i] = hash[i]
<1>1. hash[j] \in Hash
  BY DEF IInv, TypeOK
<1>2. hash'[j] = Made(hash[j], s, a, o)
  BY <1>1 DEF IInv, TypeOK, Written, Made, Hash
<1>3. Made(hash[j], s, a, o) \in Hash
  BY <1>1 DEF Made, Hash
<1>4. \A i \in Jobs \ {j} : hash'[i] = hash[i]
  BY DEF IInv, TypeOK, Written
<1>5. hash' \in [Jobs -> Hash]
  BY <1>2, <1>3, <1>4 DEF IInv, TypeOK, Written
<1> QED
  BY <1>2, <1>4, <1>5 DEF Made

\* The facts about a row that the arithmetic of budgets needs.
LEMMA RowFacts ==
    ASSUME IInv, NEW j \in Jobs, hash[j].status # "absent"
    PROVE  /\ hash[j] \in Hash /\ hash[j].attempts \in 0..MaxBudget
           /\ hash[j].plan \in Plans /\ hash[j].plan.max_attempts \in 1..MaxBudget
           /\ hash[j].attempts <= hash[j].plan.max_attempts
           /\ RowOK(hash[j], queued[j], queued_kind[j], running[j])
           /\ queued[j] \in Score /\ queued_kind[j] \in Score /\ running[j] \in Score
           /\ now \in Score /\ now # Out /\ Out \in Score
<1>1. hash[j] \in Hash /\ RowOK(hash[j], queued[j], queued_kind[j], running[j])
  BY DEF IInv, TypeOK, RowsOK
<1>2. hash[j].attempts \in 0..MaxBudget
  BY <1>1 DEF Hash
<1>3. hash[j].plan \in Plans /\ hash[j].attempts <= hash[j].plan.max_attempts
  BY <1>1 DEF RowOK
<1>4. now \in Score /\ now # Out /\ Out \in Score
  BY TimesAreScores DEF IInv, TypeOK, Score
<1> QED
  BY <1>1, <1>2, <1>3, <1>4, Bounds DEF IInv, TypeOK

\* Only job j moves, and it is not taken from a worker.
LEMMA NotTaken ==
    ASSUME NEW j \in Jobs, \A i \in Jobs \ {j} : hash'[i] = hash[i],
           hash[j].status # "running"
    PROVE  NotStolen
BY DEF NotStolen

LEMMA UnqueueIs ==
    ASSUME IInv, NEW j \in Jobs, Unqueue(j)
    PROVE  /\ queued' \in [Jobs -> Score] /\ queued_kind' \in [Jobs -> Score]
           /\ queued'[j] = Out /\ queued_kind'[j] = Out
           /\ \A i \in Jobs \ {j} : queued'[i] = queued[i] /\ queued_kind'[i] = queued_kind[i]
BY DEF Unqueue, IInv, TypeOK, Score

LEMMA GrantGood ==
    ASSUME IInv, NEW w \in Workers, NEW j \in Jobs, hash[j].status = "queued",
           HasBudget(hash[j]), Grant(w, j),
           UNCHANGED <<deployment, dedupe, caller, sweep, now>>
    PROVE  Step
<1> DEFINE a == hash[j].attempts + 1
           v == [IdleWorker EXCEPT !.pc = "busy", !.job = j, !.attempt = a]
<1>1. a \in 0..MaxBudget /\ a <= hash[j].plan.max_attempts /\ a = hash[j].attempts + 1
  <2>1. /\ hash[j].attempts \in 0..MaxBudget /\ hash[j].plan.max_attempts \in 1..MaxBudget
        /\ hash[j].attempts < hash[j].plan.max_attempts
    BY RowFacts DEF HasBudget
  <2> QED
    BY <2>1, Bounds
<1>2. Written(j, "running", a, w) /\ worker' = [worker EXCEPT ![w] = v]
  BY DEF Grant
<1>3. running' = [running EXCEPT ![j] = now] /\ Unqueue(j)
  BY DEF Grant
<1> HIDE DEF a
<1>4. /\ hash' \in [Jobs -> Hash]
      /\ hash'[j] = Made(hash[j], "running", a, w)
      /\ hash'[j].status = "running" /\ hash'[j].attempts = a /\ hash'[j].claimed_by = w
      /\ hash'[j].plan = hash[j].plan
      /\ \A i \in Jobs \ {j} : hash'[i] = hash[i]
  <2>1. w \in Workers \cup {NoWorker} /\ "running" \in {"queued", "running"} \cup Terminal
    OBVIOUS
  <2> QED
    BY <1>1, <1>2, <2>1, WrittenIs
<1>5. v \in Worker /\ v.pc = "busy" /\ v.job = j
  <2>1. IdleWorker \in Worker
    BY IdleGood DEF WorkerGood
  <2> QED
    BY <1>1, <2>1 DEF Worker
<1>6. worker' \in [Workers -> Worker] /\ WorkersOK'
  <2>1. WorkerGood(v)
    BY <1>5 DEF WorkerGood
  <2> QED
    BY <1>2, <2>1, WorkerMoves
<1>7. SetsTyped /\ running'[j] = now /\ \A i \in Jobs \ {j} : running'[i] = running[i]
  <2>1. running' \in [Jobs -> Score]
    BY <1>3, RowFacts DEF IInv, TypeOK
  <2>2. running'[j] = now /\ \A i \in Jobs \ {j} : running'[i] = running[i]
    BY <1>3 DEF IInv, TypeOK
  <2> QED
    BY <1>3, <2>1, <2>2, UnqueueIs DEF SetsTyped
<1>8. Elsewhere(j)
  BY <1>3, <1>4, <1>7, UnqueueIs DEF Elsewhere
<1>9. RowOK(hash'[j], queued'[j], queued_kind'[j], running'[j])
  BY <1>1, <1>3, <1>4, <1>7, UnqueueIs, RowFacts DEF RowOK, Generic
<1>10. HashEdge(hash[j], hash'[j])
  <2>1. \E u \in Workers : hash'[j] = Made(hash[j], "running", hash[j].attempts + 1, u)
    BY <1>1, <1>4
  <2> QED
    BY <2>1 DEF HashEdge
<1>11. NotStolen
  BY <1>4, NotTaken
<1> QED
  BY <1>4, <1>6, <1>7, <1>8, <1>9, <1>10, <1>11, OneMoves DEF IInv, TypeOK

LEMMA CancelledGood ==
    ASSUME IInv, NEW j \in Jobs, hash[j].status = "queued",
           Written(j, "cancelled", hash[j].attempts, NoWorker), Unqueue(j),
           sweep' \in [Campaigns -> SUBSET Jobs],
           UNCHANGED <<deployment, running, dedupe, worker, caller, now>>
    PROVE  Step
<1> DEFINE a == hash[j].attempts
<1>1. a \in 0..MaxBudget /\ a <= hash[j].plan.max_attempts
  BY RowFacts
<1>2. /\ hash' \in [Jobs -> Hash]
      /\ hash'[j] = Made(hash[j], "cancelled", a, NoWorker)
      /\ hash'[j].status = "cancelled" /\ hash'[j].attempts = a
      /\ hash'[j].claimed_by = NoWorker /\ hash'[j].plan = hash[j].plan
      /\ \A i \in Jobs \ {j} : hash'[i] = hash[i]
  BY <1>1, WrittenIs DEF Terminal
<1>3. SetsTyped /\ Elsewhere(j)
  BY <1>2, UnqueueIs DEF SetsTyped, Elsewhere, IInv, TypeOK
<1>4. RowOK(hash'[j], queued'[j], queued_kind'[j], running'[j])
  BY <1>1, <1>2, UnqueueIs, RowFacts DEF RowOK, Generic
<1>5. HashEdge(hash[j], hash'[j])
  BY <1>2 DEF HashEdge
<1>6. worker' \in [Workers -> Worker] /\ WorkersOK'
  BY DEF IInv, TypeOK, WorkersOK
<1>7. NotStolen
  BY <1>2, NotTaken
<1> QED
  BY <1>2, <1>3, <1>4, <1>5, <1>6, <1>7, OneMoves DEF IInv, TypeOK

\* A running job is let go: by its worker, or by the recovery.
LEMMA ReleasedGood ==
    ASSUME IInv, NEW j \in Jobs, hash[j].status = "running",
           NEW s \in {"queued", "failed", "completed", "cancelled"},
           s = "queued" => HasBudget(hash[j]), s = "failed" => ~HasBudget(hash[j]),
           Written(j, s, hash[j].attempts, NoWorker),
           running' = [running EXCEPT ![j] = Out],
           IF s = "queued" THEN Requeue(j, now) ELSE UNCHANGED <<queued, queued_kind>>,
           worker' \in [Workers -> Worker], WorkersOK',
           UNCHANGED <<deployment, dedupe, caller, sweep, now>>,
           NotStolen
    PROVE  Step
<1> DEFINE a == hash[j].attempts
<1>1. a \in 0..MaxBudget /\ a <= hash[j].plan.max_attempts
  BY RowFacts
<1>2. /\ hash' \in [Jobs -> Hash]
      /\ hash'[j] = Made(hash[j], s, a, NoWorker)
      /\ hash'[j].status = s /\ hash'[j].attempts = a
      /\ hash'[j].claimed_by = NoWorker /\ hash'[j].plan = hash[j].plan
      /\ \A i \in Jobs \ {j} : hash'[i] = hash[i]
  BY <1>1, WrittenIs DEF Terminal
<1>3. /\ running' \in [Jobs -> Score] /\ running'[j] = Out
      /\ \A i \in Jobs \ {j} : running'[i] = running[i]
  BY RowFacts DEF IInv, TypeOK
<1>4. /\ queued' \in [Jobs -> Score] /\ queued_kind' \in [Jobs -> Score]
      /\ \A i \in Jobs \ {j} : queued'[i] = queued[i] /\ queued_kind'[i] = queued_kind[i]
  BY RowFacts DEF IInv, TypeOK, Requeue
<1>5. SetsTyped /\ Elsewhere(j)
  BY <1>2, <1>3, <1>4 DEF SetsTyped, Elsewhere
<1>6. queued[j] = Out /\ queued_kind[j] = Out
  BY RowFacts DEF RowOK
<1>7. RowOK(hash'[j], queued'[j], queued_kind'[j], running'[j])
  <2>1. CASE s = "queued"
    <3>1. /\ queued_kind'[j] = now
          /\ queued'[j] = IF Generic(hash[j]) THEN now ELSE Out
      BY <1>6, <2>1 DEF Requeue, IInv, TypeOK
    <3> QED
      BY <1>1, <1>2, <1>3, <2>1, <3>1, RowFacts DEF RowOK, Generic, HasBudget
  <2>2. CASE s # "queued"
    <3>1. queued'[j] = Out /\ queued_kind'[j] = Out
      BY <1>6, <2>2
    <3> QED
      BY <1>1, <1>2, <1>3, <2>2, <3>1, RowFacts DEF RowOK
  <2> QED
    BY <2>1, <2>2
<1>8. HashEdge(hash[j], hash'[j])
  BY <1>2 DEF HashEdge
<1> QED
  BY <1>2, <1>5, <1>7, <1>8, OneMoves DEF IInv, TypeOK

-----------------------------------------------------------------------------
(* The actions                                                             *)

LEMMA RecoverOneGood ==
    ASSUME IInv, NEW w \in Workers, NEW j \in Jobs, RecoverOne(w, j)
    PROVE  Step
<1> DEFINE v == [worker[w] EXCEPT !.stale = @ \ {j}]
<1>1. worker[w] \in Worker
  BY DEF IInv, TypeOK
<1>2. WorkerGood(v)
  <2>1. v \in Worker /\ v.pc = "recover" /\ v.cutoff = worker[w].cutoff
    BY <1>1 DEF Worker, RecoverOne
  <2> QED
    BY <2>1 DEF WorkerGood, IInv, WorkersOK
<1>3. worker' = [worker EXCEPT ![w] = v] /\ now' = now
  BY DEF RecoverOne
<1>4. worker' \in [Workers -> Worker] /\ WorkersOK'
  BY <1>2, <1>3, WorkerMoves
<1>5. CASE ~StillStale(w, j)
  BY <1>2, <1>3, <1>5, WorkerOnly DEF RecoverOne
<1>6. CASE StillStale(w, j)
  <2>1. hash[j].status = "running" /\ running[j] <= now - Lease
    <3>1. running[j] \in Int /\ worker[w].cutoff \in Int /\ now - Lease \in Int
      BY <1>1, Bounds DEF IInv, TypeOK, Worker, Score, Times, Out
    <3>2. worker[w].cutoff <= now - Lease
      BY DEF IInv, WorkersOK, RecoverOne
    <3> QED
      BY <1>6, <3>1, <3>2 DEF StillStale
  <2>2. \A i \in Jobs \ {j} : hash'[i] = hash[i]
    BY <1>6 DEF RecoverOne, Written, IInv, TypeOK
  <2>3. NotStolen
    BY <2>1, <2>2 DEF NotStolen
  <2>4. CASE HasBudget(hash[j])
    BY <1>4, <1>6, <2>1, <2>3, <2>4, ReleasedGood DEF RecoverOne
  <2>5. CASE ~HasBudget(hash[j])
    BY <1>4, <1>6, <2>1, <2>3, <2>5, ReleasedGood DEF RecoverOne
  <2> QED
    BY <2>4, <2>5
<1> QED
  BY <1>5, <1>6

\* What is at the head of the general queue belongs there: the repairs of claim
\* find nothing to do.
LEMMA HeadGood ==
    ASSUME IInv, NEW w \in Workers, Head(w)
    PROVE  Step
<1>1. CASE GiveUp(w) /\ UNCHANGED <<hash, sets>>
  BY <1>1, IdleGood, WorkerOnly DEF GiveUp, Head
<1>2. ASSUME NEW j \in Jobs, queued[j] # Out
      PROVE  hash[j].status = "queued" /\ Generic(hash[j]) /\ HasBudget(hash[j])
  BY <1>2 DEF IInv, RowsOK, RowOK
<1>3. ASSUME NEW j \in Jobs, queued[j] # Out, Grant(w, j)
      PROVE  Step
  BY <1>2, <1>3, GrantGood DEF Head
<1> QED
  BY <1>1, <1>2, <1>3 DEF Head

LEMMA TryGood ==
    ASSUME IInv, NEW w \in Workers, Try(w)
    PROVE  Step
<1>1. worker[w] \in Worker
  BY DEF IInv, TypeOK
<1>2. PICK e \in worker[w].todo :
        \/ /\ hash[e[2]].status = "queued" /\ HasBudget(hash[e[2]])
           /\ Grant(w, e[2])
        \/ /\ ~(hash[e[2]].status = "queued" /\ HasBudget(hash[e[2]]))
           /\ queued_kind' = [queued_kind EXCEPT ![e[2]] = Out]
           /\ worker' = [worker EXCEPT ![w].todo = @ \ {e}]
           /\ UNCHANGED <<hash, queued, running>>
  BY DEF Try
<1>3. e[2] \in Jobs
  BY <1>1 DEF Worker
<1>4. CASE Grant(w, e[2]) /\ hash[e[2]].status = "queued" /\ HasBudget(hash[e[2]])
  BY <1>3, <1>4, GrantGood DEF Try
<1>5. CASE ~(hash[e[2]].status = "queued" /\ HasBudget(hash[e[2]]))
  <2> DEFINE v == [worker[w] EXCEPT !.todo = @ \ {e}]
  <2>1. queued_kind[e[2]] = Out
    BY <1>3, <1>5 DEF IInv, RowsOK, RowOK
  <2>2. UNCHANGED <<hash, sets>>
    BY <1>2, <1>3, <1>5, <2>1 DEF sets, IInv, TypeOK
  <2>3. WorkerGood(v)
    BY <1>1 DEF WorkerGood, Worker, Try
  <2>4. worker' = [worker EXCEPT ![w] = v]
    BY <1>2, <1>5
  <2> QED
    BY <2>2, <2>3, <2>4, WorkerOnly DEF Try
<1> QED
  BY <1>2, <1>4, <1>5

LEMMA HeartbeatGood ==
    ASSUME IInv, NEW w \in Workers, Heartbeat(w)
    PROVE  Step
<1> DEFINE j == worker[w].job
<1>1. j \in Jobs /\ hash[j].status = "running"
  BY DEF Heartbeat, Owns, IInv, WorkersOK
<1>2. running' = [running EXCEPT ![j] = now]
  BY DEF Heartbeat
<1>3. UNCHANGED <<deployment, hash, queued, queued_kind, dedupe, worker, caller, sweep, now>>
  BY DEF Heartbeat
<1> HIDE DEF j
<1>4. /\ running' \in [Jobs -> Score] /\ running'[j] = now /\ now # Out
      /\ \A i \in Jobs \ {j} : running'[i] = running[i]
  BY <1>1, <1>2, RowFacts DEF IInv, TypeOK
<1>5. SetsTyped /\ Elsewhere(j)
  BY <1>3, <1>4 DEF SetsTyped, Elsewhere, IInv, TypeOK
<1>6. RowOK(hash'[j], queued'[j], queued_kind'[j], running'[j])
  BY <1>1, <1>3, <1>4, RowFacts DEF RowOK
<1>7. NotStolen
  BY <1>3 DEF NotStolen
<1>8. WorkersOK' /\ worker' \in [Workers -> Worker] /\ sweep' \in [Campaigns -> SUBSET Jobs]
  BY <1>3 DEF IInv, TypeOK, WorkersOK
<1>9. hash' \in [Jobs -> Hash] /\ hash'[j] = hash[j] /\ hash[j].status # "absent"
  BY <1>1, <1>3 DEF IInv, TypeOK
<1> QED
  BY <1>1, <1>3, <1>5, <1>6, <1>7, <1>8, <1>9, OneMoves

LEMMA SettleGood ==
    ASSUME IInv, NEW w \in Workers,
           NEW s \in {"queued", "failed", "completed", "cancelled"}, Settle(w, s),
           s = "queued" => HasBudget(hash[worker[w].job]),
           s = "failed" => ~HasBudget(hash[worker[w].job])
    PROVE  Step
<1> DEFINE j == worker[w].job
<1>1. j \in Jobs /\ worker[w].pc = "busy"
  BY DEF Settle, IInv, WorkersOK
<1>2. GiveUp(w) /\ UNCHANGED <<deployment, dedupe, caller, sweep, now>>
  BY DEF Settle
<1>3. worker' \in [Workers -> Worker] /\ WorkersOK'
  BY <1>2, IdleGood, WorkerMoves DEF GiveUp
<1>4. worker'[w].pc = "idle"
  BY <1>2 DEF GiveUp, IInv, TypeOK, IdleWorker
<1>5. CASE ~Owns(w, j)
  BY <1>2, <1>5, IdleGood, WorkerOnly DEF Settle, GiveUp
<1>6. CASE Owns(w, j)
  <2>1. /\ Written(j, s, hash[j].attempts, NoWorker)
        /\ running' = [running EXCEPT ![j] = Out]
        /\ IF s = "queued" THEN Requeue(j, now) ELSE UNCHANGED <<queued, queued_kind>>
        /\ hash[j].status = "running" /\ hash[j].claimed_by = w
    BY <1>6 DEF Settle, Owns
  <2>2. s = "queued" => HasBudget(hash[j])
    OBVIOUS
  <2>3. s = "failed" => ~HasBudget(hash[j])
    OBVIOUS
  <2> HIDE DEF j
  <2>4. \A i \in Jobs \ {j} : hash'[i] = hash[i]
    BY <1>1, <2>1 DEF Written, IInv, TypeOK
  <2>5. NotStolen
    BY <1>1, <1>4, <2>1, <2>4 DEF NotStolen
  <2> QED
    BY <1>1, <1>2, <1>3, <2>1, <2>2, <2>3, <2>5, ReleasedGood
<1> QED
  BY <1>5, <1>6

LEMMA FinishGood ==
    ASSUME IInv, NEW w \in Workers, Finish(w) \/ CancelOwned(w)
    PROVE  Step
<1>1. CASE Settle(w, "completed") \/ Settle(w, "cancelled")
  BY <1>1, SettleGood
<1>2. CASE HasBudget(hash[worker[w].job]) /\ Settle(w, "queued")
  BY <1>2, SettleGood
<1>3. CASE ~HasBudget(hash[worker[w].job]) /\ Settle(w, "failed")
  BY <1>3, SettleGood
<1> QED
  BY <1>1, <1>2, <1>3 DEF Finish, CancelOwned

LEMMA CancelOneGood ==
    ASSUME IInv, NEW cam \in Campaigns, NEW j \in Jobs, CancelOne(cam, j)
    PROVE  Step
<1>1. sweep' \in [Campaigns -> SUBSET Jobs]
  BY DEF CancelOne, IInv, TypeOK
<1>2. CASE Cancellable(j)
  BY <1>1, <1>2, CancelledGood DEF CancelOne, Cancellable
<1>3. CASE ~Cancellable(j)
  <2>1. UNCHANGED <<deployment, hash, sets, dedupe, worker, caller, now>>
    BY <1>3 DEF CancelOne, sets
  <2>2. TypeOK'
    BY <1>1, <2>1 DEF IInv, TypeOK, sets
  <2>3. WorkersOK'
    BY <2>1 DEF IInv, WorkersOK
  <2> QED
    BY <2>1, <2>2, <2>3, JobsAlone
<1> QED
  BY <1>2, <1>3

\* A new job: its key was free, so nobody else bears it.
LEMMA EnqueueNewGood ==
    ASSUME IInv, NEW c \in Callers, NEW p \in Plans, p = caller[c].plan,
           ~(p.dedupe_key # NoKey /\ dedupe[KeyOf(p)] # NoJob),
           EnqueueNew(c, p), UNCHANGED <<deployment, running, worker, sweep, now>>
    PROVE  Step
<1>1. PICK j \in Jobs :
        /\ Fresh(j)
        /\ hash' = [hash EXCEPT ![j].status = "queued", ![j].plan = p]
        /\ queued' = IF p.kind \in DedicatedKinds THEN queued
                       ELSE [queued EXCEPT ![j] = caller[c].score]
        /\ queued_kind' = [queued_kind EXCEPT ![j] = caller[c].score]
        /\ dedupe' = IF p.dedupe_key = NoKey THEN dedupe
                       ELSE [dedupe EXCEPT ![KeyOf(p)] = j]
        /\ caller' = [caller EXCEPT ![c].plan = NoJob, ![c].answer = j]
  BY DEF EnqueueNew
<1>2. /\ hash[j] \in Hash /\ hash[j].status = "absent" /\ hash[j].attempts = 0
      /\ hash[j].claimed_by = NoWorker /\ queued[j] = Out /\ running[j] = Out
  BY <1>1 DEF Fresh, Absent, IInv, TypeOK, RowsOK, RowOK
<1>3. caller[c].score \in Score /\ caller[c].score # Out
  BY Bounds DEF IInv, TypeOK, Score, Times, Out
<1>4. p.max_attempts \in 1..MaxBudget
  BY Bounds
<1>5. hash'[j] = [status |-> "queued", plan |-> p, attempts |-> 0, claimed_by |-> NoWorker]
  BY <1>1, <1>2 DEF IInv, TypeOK, Hash
<1>6. hash' \in [Jobs -> Hash] /\ \A i \in Jobs \ {j} : hash'[i] = hash[i]
  <2>1. hash'[j] \in Hash
    BY <1>5, Bounds DEF Hash
  <2>2. \A i \in Jobs \ {j} : hash'[i] = hash[i]
    BY <1>1 DEF IInv, TypeOK
  <2>3. hash' = [i \in Jobs |-> hash'[i]]
    BY <1>1 DEF IInv, TypeOK
  <2> QED
    BY <2>1, <2>2, <2>3 DEF IInv, TypeOK
<1>7. /\ queued' \in [Jobs -> Score] /\ queued_kind' \in [Jobs -> Score]
      /\ queued_kind'[j] = caller[c].score
      /\ queued'[j] = IF p.kind \in DedicatedKinds THEN Out ELSE caller[c].score
      /\ \A i \in Jobs \ {j} : queued'[i] = queued[i] /\ queued_kind'[i] = queued_kind[i]
  BY <1>1, <1>2, <1>3 DEF IInv, TypeOK
<1>8. p.dedupe_key # NoKey => KeyOf(p) \in DedupeKeys /\ dedupe[KeyOf(p)] = NoJob
  BY DEF DedupeKeys
<1>9. TypeOK'
  <2>1. dedupe' \in [DedupeKeys -> Jobs \cup {NoJob}]
    BY <1>1, <1>8 DEF IInv, TypeOK
  <2>2. caller' \in [Callers -> [plan: Plans \cup {NoJob}, score: Times,
                                 answer: Jobs \cup {NoJob}]]
    <3>1. caller[c] \in [plan: Plans \cup {NoJob}, score: Times, answer: Jobs \cup {NoJob}]
      BY DEF IInv, TypeOK
    <3>2. [caller[c] EXCEPT !.plan = NoJob, !.answer = j]
             \in [plan: Plans \cup {NoJob}, score: Times, answer: Jobs \cup {NoJob}]
      BY <3>1
    <3>3. caller' = [caller EXCEPT ![c] = [caller[c] EXCEPT !.plan = NoJob, !.answer = j]]
      BY <1>1
    <3> QED
      BY <3>2, <3>3 DEF IInv, TypeOK
  <2> QED
    BY <1>6, <1>7, <2>1, <2>2 DEF IInv, TypeOK
<1>10. RowsOK'
  <2>1. RowOK(hash'[j], queued'[j], queued_kind'[j], running'[j])
    BY <1>2, <1>3, <1>4, <1>5, <1>7 DEF RowOK, Generic, HasBudget
  <2> QED
    BY <1>6, <1>7, <2>1 DEF IInv, RowsOK
<1>11. DedupeExact'
  <2>1. \A i \in Jobs : i \in Absent' <=> i \in Absent /\ i # j
    BY <1>5, <1>6 DEF Absent
  <2>2. j \in Absent
    BY <1>1 DEF Fresh
  <2>3. \A k \in DedupeKeys : dedupe[k] \in Jobs \cup {NoJob}
    BY DEF IInv, TypeOK
  <2>4. ASSUME NEW k \in DedupeKeys, dedupe'[k] # NoJob
        PROVE  dedupe'[k] \notin Absent' /\ KeyOf(hash'[dedupe'[k]].plan) = k
    <3>1. CASE p.dedupe_key # NoKey /\ k = KeyOf(p)
      <4>1. dedupe'[k] = j
        BY <1>1, <3>1 DEF IInv, TypeOK
      <4> QED
        BY <1>5, <2>1, <3>1, <4>1
    <3>2. CASE ~(p.dedupe_key # NoKey /\ k = KeyOf(p))
      <4>1. dedupe'[k] = dedupe[k]
        BY <1>1, <3>2 DEF IInv, TypeOK
      <4>2. dedupe[k] \in Jobs /\ dedupe[k] \notin Absent /\ KeyOf(hash[dedupe[k]].plan) = k
        BY <2>3, <2>4, <4>1 DEF IInv, DedupeExact
      <4> QED
        BY <1>6, <2>1, <2>2, <4>1, <4>2
    <3> QED
      BY <3>1, <3>2
  <2>5. ASSUME NEW i \in Jobs \ Absent', hash'[i].plan.dedupe_key # NoKey
        PROVE  dedupe'[KeyOf(hash'[i].plan)] = i
    <3>1. CASE i = j
      BY <1>1, <1>5, <1>8, <2>5, <3>1 DEF IInv, TypeOK
    <3>2. CASE i # j
      <4>1. hash'[i] = hash[i] /\ i \notin Absent
        BY <1>6, <2>1, <3>2
      <4>2. dedupe[KeyOf(hash[i].plan)] = i /\ hash[i].plan.dedupe_key # NoKey
        BY <2>5, <4>1 DEF IInv, DedupeExact
      <4>3. KeyOf(hash[i].plan) \in DedupeKeys
        <5>1. hash[i].plan \in Plans
          BY <4>1 DEF IInv, RowsOK, RowOK, Absent
        <5> QED
          BY <4>2, <5>1 DEF DedupeKeys
      <4>4. p.dedupe_key # NoKey => KeyOf(hash[i].plan) # KeyOf(p)
        BY <1>8, <4>2, Bounds
      <4> QED
        BY <1>1, <4>1, <4>2, <4>3, <4>4 DEF IInv, TypeOK
    <3> QED
      BY <3>1, <3>2
  <2> QED
    BY <2>4, <2>5 DEF DedupeExact
<1>12. WorkersOK'
  BY DEF IInv, WorkersOK
<1>13. Edges
  <2>1. HashEdge(hash[j], hash'[j])
    BY <1>2, <1>5 DEF HashEdge
  <2> QED
    BY <1>6, <2>1 DEF Edges
<1>14. NotStolen
  BY <1>2, <1>6, NotTaken
<1> QED
  BY <1>9, <1>10, <1>11, <1>12, <1>13, <1>14 DEF Step, IInv

LEMMA EnqueueExecGood ==
    ASSUME IInv, NEW c \in Callers, EnqueueExec(c)
    PROVE  Step
<1> DEFINE p == caller[c].plan
           known == p.dedupe_key # NoKey /\ dedupe[KeyOf(p)] # NoJob
<1>1. p \in Plans
  BY DEF EnqueueExec, IInv, TypeOK
<1>2. CASE ~known
  BY <1>1, <1>2, EnqueueNewGood DEF EnqueueExec
<1>3. CASE known
  <2>1. KeyOf(p) \in DedupeKeys
    BY <1>1, <1>3 DEF DedupeKeys
  <2>2. dedupe[KeyOf(p)] \in Jobs
    BY <1>3, <2>1 DEF IInv, TypeOK
  <2>3. PICK a \in Jobs \cup {NoJob} :
          caller' = [caller EXCEPT ![c].plan = NoJob, ![c].answer = a]
    BY <1>3, <2>2 DEF EnqueueExec
  <2>4. UNCHANGED <<deployment, hash, sets, dedupe, worker, sweep, now>>
    BY <1>3 DEF EnqueueExec, sets
  <2>5. TypeOK'
    <3> DEFINE R == [plan: Plans \cup {NoJob}, score: Times, answer: Jobs \cup {NoJob}]
               r == [caller[c] EXCEPT !.plan = NoJob, !.answer = a]
    <3>1. caller \in [Callers -> R] /\ caller[c] \in R
      BY DEF IInv, TypeOK
    <3>2. r \in R
      BY <3>1
    <3>3. caller' = [caller EXCEPT ![c] = r]
      BY <2>3
    <3> HIDE DEF r
    <3>4. caller' \in [Callers -> R]
      BY <3>1, <3>2, <3>3
    <3> QED
      BY <2>4, <3>4 DEF IInv, TypeOK, sets
  <2>6. WorkersOK'
    BY <2>4 DEF IInv, WorkersOK
  <2> QED
    BY <2>4, <2>5, <2>6, JobsAlone
<1> QED
  BY <1>2, <1>3

LEMMA NextGood ==
    ASSUME IInv, [Next]_vars
    PROVE  Step
<1>1. CASE UNCHANGED vars
  <2>1. UNCHANGED <<deployment, hash, sets, dedupe, worker, caller, sweep, now>>
    BY <1>1 DEF vars, sets
  <2>2. TypeOK'
    BY <2>1 DEF IInv, TypeOK, sets
  <2>3. WorkersOK'
    BY <2>1 DEF IInv, WorkersOK
  <2> QED
    BY <2>1, <2>2, <2>3, JobsAlone
<1>2. ASSUME NEW c \in deployment.callers,
             (\E p \in deployment.plans : EnqueueBegin(c, p)) \/ EnqueueExec(c)
      PROVE  Step
  <2>1. c \in Callers /\ deployment.plans \subseteq Plans
    <3>1. deployment \in Deployments
      BY DEF IInv, TypeOK
    <3>2. deployment.callers \subseteq Callers
      BY <3>1, RedisAssumption
    <3>3. deployment.plans \subseteq Plans
      BY <3>1 DEF Plans
    <3> QED
      BY <1>2, <3>2, <3>3
  <2> QED
    BY <1>2, <2>1, EnqueueBeginGood, EnqueueExecGood
<1>3. ASSUME NEW w \in Workers,
             \/ BeginClaim(w)
             \/ \E j \in Jobs : RecoverOne(w, j)
             \/ RecoverDone(w)
             \/ Head(w)
             \/ Choose(w)
             \/ Try(w)
             \/ WalkDone(w)
             \/ Heartbeat(w)
             \/ Finish(w)
             \/ CancelOwned(w)
             \/ Crash(w)
      PROVE  Step
  BY <1>3, BeginClaimGood, RecoverOneGood, RecoverDoneGood, HeadGood, ChooseGood, TryGood,
     WalkDoneGood, HeartbeatGood, FinishGood, CrashGood
<1> QED
  BY <1>1, <1>2, <1>3, CancelBeginGood, CancelOneGood, TickGood DEF Next

LEMMA IInvCorrect == Spec => []IInv
<1>1. IInv /\ [Next]_vars => IInv'
  BY NextGood DEF Step
<1> QED
  BY InitIInv, <1>1, PTL DEF Spec

-----------------------------------------------------------------------------
(* Theorems                                                                *)

\* Whatever lists claims and cancellations walk, the sorted sets and the dedupe
\* index always agree with the hashes (every WATCH .. EXEC block of
\* RedisJobQueue): no queued job is unreachable, no job is leased twice.
THEOREM IndexesCorrect == Spec => []IndexesAgree
<1>1. IInv => IndexesAgree
  BY DEF IInv, RowsOK, RowOK, IndexesAgree
<1> QED
  BY <1>1, IInvCorrect, PTL

\* No live lease is taken from its worker, however old the list of stale leases
\* that a recovery walks (recover_expired_leases).
THEOREM LeasesKept == Spec => LeaseNotStolen
<1>1. ASSUME IInv, [Next]_vars
      PROVE  [\A j \in Jobs :
                LET w == hash[j].claimed_by IN
                hash[j].status = "running" /\ hash'[j].claimed_by # w =>
                   \/ running[j] <= now - Lease
                   \/ worker[w].pc = "busy" /\ worker'[w].pc = "idle"]_vars
  BY <1>1, NextGood DEF Step, NotStolen
<1> QED
  BY <1>1, IInvCorrect, PTL DEF Spec, LeaseNotStolen

-----------------------------------------------------------------------------
(* The ledger                                                              *)

\* The ledger's row of a hash.
Abs(r) ==
    [status   |-> r.status,
     attempts |-> r.attempts,
     budget   |-> IF r.status = "absent" THEN 0 ELSE r.plan.max_attempts,
     owner    |-> r.claimed_by]

LEMMA AbsTyped ==
    ASSUME NEW r \in Hash, r.status # "absent" => r.plan \in Plans
    PROVE  Abs(r) \in Ledger!LedgerRow
<1>1. r.status # "absent" => r.plan.max_attempts \in 0..MaxBudget
  <2>1. r.status # "absent" => r.plan.max_attempts \in 1..MaxBudget
    BY Bounds
  <2> QED
    BY <2>1, Bounds
<1>2. (IF r.status = "absent" THEN 0 ELSE r.plan.max_attempts) \in 0..MaxBudget
  BY <1>1, Bounds
<1> QED
  BY <1>2 DEF Abs, Hash, Ledger!LedgerRow, Terminal, Ledger!Terminal

\* Every edge of a hash is an edge of the ledger.
LEMMA AbsEdge ==
    ASSUME IInv, NEW j \in Jobs, NEW s, HashEdge(hash[j], s)
    PROVE  Ledger!Edge(Abs(hash[j]), Abs(s))
<1> DEFINE r == hash[j]
           Goal == Ledger!Edge(Abs(r), Abs(s))
<1>1. ASSUME r.status = "absent", NEW p \in Plans,
             s = [status |-> "queued", plan |-> p, attempts |-> 0, claimed_by |-> NoWorker]
      PROVE  Goal
  <2>1. p.max_attempts \in 1..MaxBudget
    BY Bounds
  <2>2. Abs(s) = [status |-> "queued", attempts |-> 0, budget |-> p.max_attempts,
                  owner |-> NoWorker]
    BY <1>1 DEF Abs
  <2>3. Abs(r).status = "absent"
    BY <1>1 DEF Abs
  <2> QED
    BY <2>1, <2>2, <2>3 DEF Ledger!Edge, Ledger!Submitted
<1>2. ASSUME r.status # "absent", NEW t, t # "absent", NEW a, NEW o, s = Made(r, t, a, o)
      PROVE  /\ Abs(s) = Ledger!Moved(Abs(r), t, a, o)
             /\ Abs(r).status = r.status /\ Abs(r).attempts = r.attempts
             /\ Abs(r).budget = r.plan.max_attempts
  BY <1>2 DEF Abs, Made, Ledger!Moved
<1>3. r.status # "absent" => /\ r.attempts \in 0..MaxBudget
                             /\ r.plan.max_attempts \in 1..MaxBudget
                             /\ r.attempts <= r.plan.max_attempts
  BY RowFacts
<1>4. ASSUME r.status = "queued", HasBudget(r), NEW w \in Workers,
             s = Made(r, "running", r.attempts + 1, w)
      PROVE  Goal
  <2>1. /\ Abs(s) = Ledger!Moved(Abs(r), "running", Abs(r).attempts + 1, w)
        /\ Abs(r).status = "queued" /\ Abs(r).attempts < Abs(r).budget
    BY <1>2, <1>4 DEF HasBudget
  <2> QED
    BY <2>1 DEF Ledger!Edge, Ledger!Granted
<1>5. ASSUME r.status = "running", HasBudget(r), s = Made(r, "queued", r.attempts, NoWorker)
      PROVE  Goal
  <2>1. /\ Abs(s) = Ledger!Moved(Abs(r), "queued", Abs(r).attempts, NoWorker)
        /\ Abs(r).status = "running" /\ Abs(r).attempts < Abs(r).budget
    BY <1>2, <1>5 DEF HasBudget
  <2> QED
    BY <2>1 DEF Ledger!Edge, Ledger!Returned
<1>6. ASSUME r.status = "running", s = Made(r, "completed", r.attempts, NoWorker)
      PROVE  Goal
  <2>1. /\ Abs(s) = Ledger!Moved(Abs(r), "completed", Abs(r).attempts, NoWorker)
        /\ Abs(r).status = "running"
    BY <1>2, <1>6
  <2> QED
    BY <2>1 DEF Ledger!Edge, Ledger!Completed
<1>7. ASSUME r.status = "running", ~HasBudget(r), s = Made(r, "failed", r.attempts, NoWorker)
      PROVE  Goal
  <2>1. r.attempts = r.plan.max_attempts
    BY <1>3, <1>7, Bounds DEF HasBudget
  <2>2. /\ Abs(s) = Ledger!Moved(Abs(r), "failed", Abs(r).attempts, NoWorker)
        /\ Abs(r).status = "running" /\ Abs(r).attempts = Abs(r).budget
    BY <1>2, <1>7, <2>1
  <2> QED
    BY <2>2 DEF Ledger!Edge, Ledger!Exhausted
<1>8. ASSUME r.status \in {"queued", "running"}, s = Made(r, "cancelled", r.attempts, NoWorker)
      PROVE  Goal
  <2>1. /\ Abs(s) = Ledger!Moved(Abs(r), "cancelled", Abs(r).attempts, NoWorker)
        /\ Abs(r).status \in {"queued", "running"}
    BY <1>2, <1>8
  <2> QED
    BY <2>1 DEF Ledger!Edge, Ledger!Cancelled
<1> QED
  BY <1>1, <1>4, <1>5, <1>6, <1>7, <1>8 DEF HashEdge

\* The Redis queue implements the ledger of the SQLite queue: the same budgets,
\* exclusive grants and final statuses, for every interleaving of its blocks.
THEOREM RedisImplementsLedger == Spec => ImplementsLedger
<1> DEFINE rows == [j \in Jobs |->
                      [status   |-> hash[j].status,
                       attempts |-> hash[j].attempts,
                       budget   |-> IF j \in Absent THEN 0 ELSE hash[j].plan.max_attempts,
                       owner    |-> hash[j].claimed_by]]
<1>1. Init => Ledger!LedgerInit
  BY DEF Init, Ledger!LedgerInit, Absent
<1>2. IInv /\ [Next]_vars => [Ledger!LedgerNext]_rows
  <2> SUFFICES ASSUME IInv, [Next]_vars PROVE Ledger!LedgerNext
    OBVIOUS
  <2>1. IInv' /\ Edges
    BY NextGood DEF Step
  <2>2. \A j \in Jobs : Abs(hash'[j]) \in Ledger!LedgerRow
    <3>1. \A j \in Jobs : /\ hash'[j] \in Hash
                          /\ hash'[j].status # "absent" => hash'[j].plan \in Plans
      BY <2>1 DEF IInv, TypeOK, RowsOK, RowOK
    <3> QED
      BY <3>1, AbsTyped
  <2>3. \A j \in Jobs : \/ Abs(hash'[j]) = Abs(hash[j])
                        \/ Ledger!Edge(Abs(hash[j]), Abs(hash'[j]))
    BY <2>1, AbsEdge DEF Edges
  <2> QED
    BY <2>2, <2>3 DEF Ledger!LedgerNext, Abs, Absent
<1> QED
  BY <1>1, <1>2, IInvCorrect, PTL DEF Spec, ImplementsLedger, Ledger!LedgerSpec
=============================================================================
