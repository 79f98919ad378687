---------------------------- MODULE JobQueueProofs ----------------------------
(***************************************************************************)
(* Proofs about JobQueue, for every number of jobs, workers and callers,   *)
(* every retry budget and every lease.  The invariant is a statement about *)
(* single rows (RowOK) plus the claims that workers remember; the row      *)
(* operators are shown to keep RowOK once, and the actions cite them.      *)
(***************************************************************************)
EXTENDS JobQueue, TLAPS

\* What is true of one row: its type, its plan, and queue_recovery's verdict.
RowOK(r) ==
    /\ r \in Row
    /\ r.status # "absent" => r.plan \in Plans
    /\ r.status = "absent" => r.attempts = 0
    /\ RowConsistent(r)

\* A caller past its lookup remembers one of the plans.
CallsOK ==
    /\ call \in [Callers -> CallState]
    /\ \A c \in Callers : call[c].pc # "idle" => call[c].plan \in Plans

TableOK == jobs = [j \in Jobs |-> jobs[j]] /\ \A j \in Jobs : RowOK(jobs[j])

\* Conversely the row that names a worker knows that worker's claim as its
\* latest attempt: what finish compares (claimed_by) is as good as the attempt.
OwnerHoldsLatest ==
    \A w \in Workers :
        held[w] # NoJob /\ Owns(w, held[w].job) =>
            held[w].attempt = jobs[held[w].job].attempts

\* The inductive invariant: TypeOK alone is not inductive, since the bound on
\* attempts depends on a queued row being strictly below its budget.
IInv ==
    /\ TableOK
    /\ held \in [Workers -> Claim]
    /\ CallsOK
    /\ LatestClaimOwns
    /\ OwnerHoldsLatest

-----------------------------------------------------------------------------

\* The bounds of the model are numbers, and every plan stays within them.
LEMMA Bounds ==
    /\ MaxBudget \in Nat /\ Lease \in Nat /\ MaxJobs \in Nat
    /\ NoWorker \notin Workers
    /\ \A p \in Plans : p.max_attempts \in 1..MaxBudget
BY QueueAssumption DEF QueueAssumption

\* Giving a claim or a place in the queue up keeps a row consistent, provided
\* it is requeued only below its budget (Released: finish, cancel, recovery).
LEMMA ReleasedKeepsRow ==
    ASSUME NEW r, RowOK(r), r.status \in {"queued", "running"},
           NEW st, st \in TERMINAL \/ (st = "queued" /\ HasBudget(r))
    PROVE  /\ RowOK(Released(r, st))
           /\ Released(r, st).attempts = r.attempts
           /\ Released(r, st).status = st
<1> DEFINE s == Released(r, st)
<1>1. r \in Row /\ r.plan \in Plans /\ r.plan.max_attempts \in 1..MaxBudget
  BY Bounds DEF RowOK
<1>2. /\ s.status = st /\ s.plan = r.plan /\ s.attempts = r.attempts
      /\ s.claimed_by = NoWorker /\ s.age = -1
  BY <1>1 DEF Row, Released
<1>3. s \in Row
  BY <1>1, Bounds DEF Row, Released, TERMINAL
<1>4. RowConsistent(s)
  BY <1>1, <1>2 DEF RowOK, RowConsistent, HasBudget, TERMINAL
<1> QED
  BY <1>1, <1>2, <1>3, <1>4 DEF RowOK, TERMINAL

\* Leasing an eligible row keeps it consistent and spends one attempt.
LEMMA LeasedKeepsRow ==
    ASSUME NEW r, RowOK(r), r.status = "queued", HasBudget(r), NEW w \in Workers
    PROVE  /\ RowOK(Leased(r, w))
           /\ Leased(r, w).attempts = r.attempts + 1
           /\ Leased(r, w).claimed_by = w
<1>1. r.plan \in Plans /\ r.plan.max_attempts \in 1..MaxBudget
  BY Bounds DEF RowOK
<1>2. r.attempts \in 0..MaxBudget /\ r.attempts + 1 <= r.plan.max_attempts
  BY <1>1, Bounds DEF RowOK, Row, HasBudget
<1> QED
  BY <1>1, <1>2, Bounds DEF RowOK, Row, RowConsistent, Leased

\* The recovery that precedes every claim keeps every row consistent, moves no
\* attempt count, and leaves alone the rows that still run after it.
LEMMA RecoveryKeepsRows ==
    ASSUME TableOK
    PROVE  /\ Recovered = [j \in Jobs |-> Recovered[j]]
           /\ \A j \in Jobs :
                /\ RowOK(Recovered[j])
                /\ Recovered[j].attempts = jobs[j].attempts
                /\ Recovered[j].status = "running" => Recovered[j] = jobs[j]
<1>1. Recovered = [j \in Jobs |-> Recovered[j]]
  BY DEF Recovered
<1>2. ASSUME NEW j \in Jobs
      PROVE  /\ RowOK(Recovered[j])
             /\ Recovered[j].attempts = jobs[j].attempts
             /\ Recovered[j].status = "running" => Recovered[j] = jobs[j]
  <2> DEFINE st == IF HasBudget(jobs[j]) THEN "queued" ELSE "failed"
  <2>1. RowOK(jobs[j])
    BY DEF TableOK
  <2>2. CASE Expired(jobs[j])
    <3>1. Recovered[j] = Released(jobs[j], st)
      BY <2>2 DEF Recovered
    <3>2. /\ RowOK(Released(jobs[j], st))
          /\ Released(jobs[j], st).attempts = jobs[j].attempts
          /\ Released(jobs[j], st).status = st
      BY <2>1, <2>2, ReleasedKeepsRow DEF Expired, TERMINAL
    <3> QED
      BY <3>1, <3>2
  <2>3. CASE ~Expired(jobs[j])
    BY <2>1, <2>3 DEF Recovered
  <2> QED
    BY <2>2, <2>3
<1> QED
  BY <1>1, <1>2

-----------------------------------------------------------------------------
(* One lemma per group of actions: what each leaves of the invariant.      *)

\* A step that changes no row and no claim keeps them.
LEMMA CallStep ==
    ASSUME IInv, CallsOK', UNCHANGED <<jobs, held>>
    PROVE  IInv'
BY DEF IInv, TableOK, RowOK, RowConsistent, LatestClaimOwns, OwnerHoldsLatest, Owns

\* enqueue: the lookups only move the caller; the insert adds a queued row with
\* no attempt spent, at an identifier no claim can hold as its latest attempt.
LEMMA EnqueueKeepsIInv ==
    ASSUME IInv, NEW c \in Callers,
           \/ \E p \in Plans : EnqueueLookup(c, p)
           \/ EnqueueInsert(c)
           \/ EnqueueReread(c)
    PROVE  IInv'
<1>1. ASSUME NEW p \in Plans, EnqueueLookup(c, p) PROVE IInv'
  <2>1. CallsOK'
    BY <1>1 DEF IInv, CallsOK, CallState, EnqueueLookup, AnswerFor, SameKey
  <2> QED
    BY <1>1, <2>1, CallStep DEF EnqueueLookup
<1>2. ASSUME EnqueueInsert(c) PROVE IInv'
  <2>1. CASE UNCHANGED jobs
    <3>1. CallsOK'
      BY <1>2 DEF IInv, CallsOK, CallState, EnqueueInsert, Answered
    <3> QED
      BY <1>2, <2>1, <3>1, CallStep DEF EnqueueInsert
  <2>2. ASSUME NEW j \in Jobs, Fresh(j), Answered(c, j),
               jobs' = [jobs EXCEPT ![j] = QueuedRow(call[c].plan)]
        PROVE  IInv'
    <3>1. call[c].plan \in Plans
      BY <1>2 DEF IInv, CallsOK, EnqueueInsert
    <3>2. RowOK(QueuedRow(call[c].plan))
      BY <3>1, Bounds DEF RowOK, Row, RowConsistent, QueuedRow
    <3>3. TableOK'
      BY <2>2, <3>2 DEF IInv, TableOK
    <3>4. CallsOK'
      <4> DEFINE r == [call[c] EXCEPT !.pc = "idle", !.answer = j]
      <4>1. call \in [Callers -> CallState] /\ call[c] \in CallState
        BY DEF IInv, CallsOK
      <4>2. r \in CallState /\ r.pc = "idle"
        BY <2>2, <4>1 DEF CallState
      <4>3. call' = [call EXCEPT ![c] = r]
        BY <2>2 DEF Answered
      <4> HIDE DEF r
      <4> QED
        BY <4>1, <4>2, <4>3 DEF IInv, CallsOK
    <3>5. ASSUME NEW w \in Workers, held[w] # NoJob
          PROVE  held[w].job \in Jobs /\ held[w].job # j
      <4>1. held[w].job \in Jobs /\ held[w].attempt \in 1..MaxBudget
        BY <3>5 DEF IInv, Claim
      <4>2. held[w].attempt <= jobs[held[w].job].attempts
        BY <3>5 DEF IInv, LatestClaimOwns
      <4>3. jobs[j].attempts = 0
        BY <2>2 DEF IInv, TableOK, RowOK, Fresh, Present
      <4> QED
        BY <4>1, <4>2, <4>3, Bounds
    <3>6. LatestClaimOwns' /\ OwnerHoldsLatest'
      <4>1. held' = held
        BY <1>2 DEF EnqueueInsert
      <4>2. \A w \in Workers : held[w] # NoJob => jobs'[held[w].job] = jobs[held[w].job]
        BY <2>2, <3>5 DEF IInv, TableOK
      <4> QED
        BY <4>1, <4>2 DEF IInv, LatestClaimOwns, OwnerHoldsLatest, Owns
    <3> QED
      BY <1>2, <3>3, <3>4, <3>6 DEF IInv, EnqueueInsert
  <2> QED
    BY <1>2, <2>1, <2>2 DEF EnqueueInsert
<1>3. ASSUME EnqueueReread(c) PROVE IInv'
  <2>1. PICK j \in Jobs : Answered(c, AnswerFor(call[c].plan, j))
    BY <1>3 DEF EnqueueReread, SameKey
  <2>2. AnswerFor(call[c].plan, j) \in Jobs \cup {NoJob, 0}
    BY DEF AnswerFor
  <2>3. CallsOK'
    BY <2>1, <2>2 DEF IInv, CallsOK, CallState, Answered
  <2> QED
    BY <1>3, <2>3, CallStep DEF EnqueueReread
<1> QED
  BY <1>1, <1>2, <1>3

\* A step that replaces the table by one of consistent rows, in which no held
\* row lost an attempt or, at the same attempt, runs for another owner.
LEMMA RowStep ==
    ASSUME IInv, TableOK', UNCHANGED call,
           \A u \in Workers : held'[u] = held[u] \/ held'[u] = NoJob,
           held' \in [Workers -> Claim],
           \A j \in Jobs :
             /\ jobs'[j].attempts = jobs[j].attempts
             /\ jobs'[j].status = "running" =>
                  jobs[j].status = "running" /\ jobs'[j].claimed_by = jobs[j].claimed_by
    PROVE  IInv'
<1>1. CallsOK'
  BY DEF IInv, CallsOK
<1>2. ASSUME NEW u \in Workers, held'[u] # NoJob
      PROVE  /\ held'[u].attempt <= jobs'[held'[u].job].attempts
             /\ jobs'[held'[u].job].status = "running"
                /\ held'[u].attempt = jobs'[held'[u].job].attempts
                => jobs'[held'[u].job].claimed_by = u
  <2>1. held'[u] = held[u]
    BY <1>2
  <2>2. held[u].job \in Jobs
    BY <1>2, <2>1 DEF IInv, Claim
  <2> QED
    BY <1>2, <2>1, <2>2 DEF IInv, LatestClaimOwns
<1>3. LatestClaimOwns'
  BY <1>2 DEF LatestClaimOwns
<1>4. OwnerHoldsLatest'
  <2> SUFFICES ASSUME NEW u \in Workers, held'[u] # NoJob, Owns(u, held[u].job)'
               PROVE  held'[u].attempt = jobs'[held'[u].job].attempts
    BY DEF OwnerHoldsLatest
  <2>1. held'[u] = held[u] /\ held[u].job \in Jobs
    BY DEF IInv, Claim
  <2> QED
    BY <2>1 DEF IInv, OwnerHoldsLatest, Owns
<1> QED
  BY <1>1, <1>3, <1>4 DEF IInv

\* A claim: the recovered table, then one eligible row leased at a new attempt,
\* which no other worker can hold.
LEMMA ClaimKeepsIInv ==
    ASSUME IInv, NEW w \in Workers, NEW kinds, ClaimFrom(w, kinds)
    PROVE  IInv'
<1>1. TableOK
  BY DEF IInv
<1>2. CASE jobs' = Recovered /\ UNCHANGED held
  <2>1. TableOK'
    BY <1>1, <1>2, RecoveryKeepsRows DEF TableOK
  <2>2. held' \in [Workers -> Claim]
    BY <1>2 DEF IInv
  <2> QED
    BY <1>1, <1>2, <2>1, <2>2, RecoveryKeepsRows, RowStep DEF ClaimFrom
<1>3. ASSUME NEW j \in Eligible(kinds),
             jobs' = [Recovered EXCEPT ![j] = Leased(@, w)],
             held' = [held EXCEPT ![w] = [job |-> j, attempt |-> jobs[j].attempts + 1]]
      PROVE  IInv'
  <2>1. j \in Jobs /\ Recovered[j].status = "queued" /\ HasBudget(Recovered[j])
    BY <1>3 DEF Eligible
  <2>2. /\ RowOK(Leased(Recovered[j], w))
        /\ Leased(Recovered[j], w).attempts = jobs[j].attempts + 1
        /\ Leased(Recovered[j], w).claimed_by = w
    BY <1>1, <2>1, RecoveryKeepsRows, LeasedKeepsRow
  <2>3. /\ jobs'[j] = Leased(Recovered[j], w)
        /\ \A i \in Jobs : i # j => jobs'[i] = Recovered[i]
        /\ jobs' = [i \in Jobs |-> jobs'[i]]
    BY <1>1, <1>3, <2>1, RecoveryKeepsRows
  <2>4. TableOK'
    BY <1>1, <2>2, <2>3, RecoveryKeepsRows DEF TableOK
  <2>5. jobs[j].attempts \in Nat /\ jobs[j].attempts + 1 \in 1..MaxBudget
    <3>1. Leased(Recovered[j], w).attempts \in 0..MaxBudget
      BY <2>2 DEF RowOK, Row
    <3>2. jobs[j].attempts \in 0..MaxBudget
      BY <1>1, <2>1 DEF TableOK, RowOK, Row
    <3> QED
      BY <2>2, <3>1, <3>2, Bounds
  <2>6. held' \in [Workers -> Claim]
    BY <1>3, <2>1, <2>5 DEF IInv, Claim
  <2>7. CallsOK'
    BY DEF IInv, CallsOK, ClaimFrom
  <2>8. LatestClaimOwns'
    <3> SUFFICES ASSUME NEW u \in Workers, held'[u] # NoJob
                 PROVE  /\ held'[u].attempt <= jobs'[held'[u].job].attempts
                        /\ jobs'[held'[u].job].status = "running"
                           /\ held'[u].attempt = jobs'[held'[u].job].attempts
                           => jobs'[held'[u].job].claimed_by = u
      BY DEF LatestClaimOwns
    <3>1. CASE u = w
      <4>1. held'[u] = [job |-> j, attempt |-> jobs[j].attempts + 1]
        BY <1>3, <3>1 DEF IInv
      <4> QED
        BY <2>2, <2>3, <2>5, <3>1, <4>1, Bounds
    <3>2. CASE u # w
      <4>1. held'[u] = held[u]
        BY <1>3, <3>2 DEF IInv
      <4>2. held[u].job \in Jobs /\ held[u].attempt \in 1..MaxBudget
        BY <4>1 DEF IInv, Claim
      <4>3. held[u].attempt <= jobs[held[u].job].attempts
        BY <4>1 DEF IInv, LatestClaimOwns
      <4>4. CASE held[u].job = j
        BY <2>2, <2>3, <2>5, <4>1, <4>2, <4>3, <4>4, Bounds
      <4>5. CASE held[u].job # j
        BY <1>1, <2>3, <4>1, <4>2, <4>5, RecoveryKeepsRows DEF IInv, LatestClaimOwns
      <4> QED
        BY <4>4, <4>5
    <3> QED
      BY <3>1, <3>2
  <2>9. OwnerHoldsLatest'
    <3> SUFFICES ASSUME NEW u \in Workers, held'[u] # NoJob, Owns(u, held[u].job)'
                 PROVE  held'[u].attempt = jobs'[held'[u].job].attempts
      BY DEF OwnerHoldsLatest
    <3>1. CASE u = w
      <4>1. held'[u] = [job |-> j, attempt |-> jobs[j].attempts + 1]
        BY <1>3, <3>1 DEF IInv
      <4> QED
        BY <2>2, <2>3, <4>1
    <3>2. CASE u # w
      <4>1. held'[u] = held[u] /\ held[u].job \in Jobs
        BY <1>3, <3>2 DEF IInv, Claim
      <4>2. held[u].job # j
        BY <2>2, <2>3, <3>2, <4>1 DEF Owns
      <4> QED
        BY <1>1, <2>3, <4>1, <4>2, RecoveryKeepsRows DEF IInv, OwnerHoldsLatest, Owns
    <3> QED
      BY <3>1, <3>2
  <2> QED
    BY <2>4, <2>6, <2>7, <2>8, <2>9 DEF IInv
<1> QED
  BY <1>2, <1>3 DEF ClaimFrom

\* A heartbeat moves the age of an owned row and nothing else.
LEMMA HeartbeatKeepsIInv ==
    ASSUME IInv, NEW w \in Workers, Heartbeat(w)
    PROVE  IInv'
<1>1. held[w].job \in Jobs
  BY DEF IInv, Claim, Heartbeat
<1>2. jobs' = [jobs EXCEPT ![held[w].job] = [@ EXCEPT !.age = 0]]
  BY DEF Heartbeat
<1>3. RowOK([jobs[held[w].job] EXCEPT !.age = 0])
  BY <1>1, Bounds DEF IInv, TableOK, RowOK, Row, RowConsistent, Heartbeat, Owns
<1>4. TableOK'
  BY <1>1, <1>2, <1>3 DEF IInv, TableOK
<1>5. \A j \in Jobs : /\ jobs'[j].attempts = jobs[j].attempts
                      /\ jobs'[j].status = jobs[j].status
                      /\ jobs'[j].claimed_by = jobs[j].claimed_by
  BY <1>1, <1>2 DEF IInv, TableOK, RowOK, Row
<1> QED
  BY <1>4, <1>5, RowStep DEF IInv, Heartbeat

\* finish and cancel_owned: the row is released only if it is still owned.
LEMMA SettleKeepsIInv ==
    ASSUME IInv, NEW w \in Workers, held[w] # NoJob,
           NEW st, st \in TERMINAL \/ (st = "queued" /\ HasBudget(jobs[held[w].job])),
           Settle(w, st)
    PROVE  IInv'
<1> DEFINE j == held[w].job
<1>1. j \in Jobs
  BY DEF IInv, Claim
<1>2. /\ held' \in [Workers -> Claim]
      /\ \A u \in Workers : held'[u] = held[u] \/ held'[u] = NoJob
  BY DEF IInv, Claim, Settle
<1>3. CASE Owns(w, j)
  <2>1. jobs' = [jobs EXCEPT ![j] = Released(@, st)]
    BY <1>3 DEF Settle
  <2>2. RowOK(jobs[j]) /\ jobs[j].status \in {"queued", "running"}
    BY <1>1, <1>3 DEF IInv, TableOK, Owns
  <2>3. /\ RowOK(Released(jobs[j], st))
        /\ Released(jobs[j], st).attempts = jobs[j].attempts
        /\ Released(jobs[j], st).status # "running"
    BY <2>2, ReleasedKeepsRow DEF TERMINAL
  <2>4. TableOK'
    BY <1>1, <2>1, <2>3 DEF IInv, TableOK
  <2>5. \A i \in Jobs : /\ jobs'[i].attempts = jobs[i].attempts
                        /\ jobs'[i].status = "running" => jobs'[i] = jobs[i]
    BY <1>1, <2>1, <2>3 DEF IInv, TableOK
  <2> QED
    BY <1>2, <2>4, <2>5, RowStep DEF Settle
<1>4. CASE ~Owns(w, j)
  <2>1. jobs' = jobs
    BY <1>4 DEF Settle
  <2>2. TableOK'
    BY <2>1 DEF IInv, TableOK, RowOK, RowConsistent
  <2> QED
    BY <1>2, <2>1, <2>2, RowStep DEF Settle
<1> QED
  BY <1>3, <1>4

\* cancel_queued and the standalone recovery release rows, never lease any.
LEMMA BulkReleaseKeepsIInv ==
    ASSUME IInv, (\E cam \in Campaigns : CancelQueued(cam)) \/ RecoverExpiredLeases
    PROVE  IInv'
<1>1. TableOK
  BY DEF IInv
<1>2. ASSUME NEW cam \in Campaigns, CancelQueued(cam) PROVE IInv'
  <2>1. ASSUME NEW j \in Jobs
        PROVE  /\ RowOK(jobs'[j])
               /\ jobs'[j].attempts = jobs[j].attempts
               /\ jobs'[j].status = "running" => jobs'[j] = jobs[j]
    <3>1. RowOK(jobs[j])
      BY <1>1 DEF TableOK
    <3>2. CASE jobs[j].status = "queued" /\ jobs[j].plan.campaign = cam
      <4>1. jobs'[j] = Released(jobs[j], "cancelled")
        BY <1>2, <3>2 DEF CancelQueued
      <4> QED
        BY <3>1, <3>2, <4>1, ReleasedKeepsRow DEF TERMINAL
    <3>3. CASE ~(jobs[j].status = "queued" /\ jobs[j].plan.campaign = cam)
      BY <1>2, <3>1, <3>3 DEF CancelQueued
    <3> QED
      BY <3>2, <3>3
  <2>2. TableOK'
    BY <1>2, <2>1 DEF TableOK, CancelQueued
  <2> QED
    BY <1>2, <2>1, <2>2, RowStep DEF IInv, CancelQueued
<1>3. ASSUME RecoverExpiredLeases PROVE IInv'
  <2>1. TableOK'
    BY <1>1, <1>3, RecoveryKeepsRows DEF TableOK, RecoverExpiredLeases
  <2> QED
    BY <1>1, <1>3, <2>1, RecoveryKeepsRows, RowStep DEF IInv, RecoverExpiredLeases
<1> QED
  BY <1>2, <1>3

\* Time only ages the leases of running rows.
LEMMA TickKeepsIInv == IInv /\ Tick => IInv'
<1> SUFFICES ASSUME IInv, Tick PROVE IInv'
  OBVIOUS
<1>1. ASSUME NEW j \in Jobs
      PROVE  /\ RowOK(jobs'[j])
             /\ jobs'[j].attempts = jobs[j].attempts
             /\ jobs'[j].status = jobs[j].status
             /\ jobs'[j].claimed_by = jobs[j].claimed_by
  <2>1. RowOK(jobs[j])
    BY DEF IInv, TableOK
  <2>2. CASE jobs[j].status = "running" /\ jobs[j].age <= Lease
    <3>1. jobs'[j] = [jobs[j] EXCEPT !.age = jobs[j].age + 1]
      BY <2>2 DEF Tick
    <3>2. jobs[j].age \in -1..(Lease + 1) /\ jobs[j].age >= 0
      BY <2>1, <2>2 DEF RowOK, Row, RowConsistent
    <3>3. jobs[j].age + 1 \in -1..(Lease + 1) /\ jobs[j].age + 1 >= 0
      BY <2>2, <3>2, Bounds
    <3> QED
      BY <2>1, <2>2, <3>1, <3>3 DEF RowOK, Row, RowConsistent
  <2>3. CASE ~(jobs[j].status = "running" /\ jobs[j].age <= Lease)
    BY <2>1, <2>3 DEF Tick
  <2> QED
    BY <2>2, <2>3
<1>2. TableOK'
  BY <1>1 DEF TableOK, Tick
<1> QED
  BY <1>1, <1>2, RowStep DEF IInv, Tick

\* A crash forgets the claim; the row waits for its lease to run out.
LEMMA CrashKeepsIInv ==
    ASSUME IInv, NEW w \in Workers, Crash(w)
    PROVE  IInv'
<1>1. TableOK'
  BY DEF IInv, TableOK, RowOK, RowConsistent, Crash
<1>2. held' \in [Workers -> Claim]
  BY DEF IInv, Claim, Crash
<1> QED
  BY <1>1, <1>2, RowStep DEF IInv, Crash

LEMMA InitIInv == Init => IInv
<1> SUFFICES ASSUME Init PROVE IInv
  OBVIOUS
<1>1. RowOK(AbsentRow)
  BY Bounds DEF RowOK, Row, RowConsistent, AbsentRow
<1>2. TableOK
  BY <1>1 DEF Init, TableOK
<1> QED
  BY <1>2 DEF Init, IInv, Claim, CallsOK, CallState, LatestClaimOwns, OwnerHoldsLatest

LEMMA FinishesKeepIInv ==
    ASSUME IInv, NEW w \in Workers, Finishes(w)
    PROVE  IInv'
<1>1. ASSUME NEW success \in BOOLEAN, Finish(w, success) PROVE IInv'
  <2> DEFINE st == CASE success -> "completed"
                     [] ~success /\ HasBudget(jobs[held[w].job]) -> "queued"
                     [] OTHER -> "failed"
  <2>1. Settle(w, st) /\ held[w] # NoJob
    BY <1>1 DEF Finish, Settle
  <2>2. st \in TERMINAL \/ (st = "queued" /\ HasBudget(jobs[held[w].job]))
    BY DEF TERMINAL
  <2> HIDE DEF st
  <2> QED
    BY <2>1, <2>2, SettleKeepsIInv
<1>2. ASSUME CancelOwned(w) PROVE IInv'
  BY <1>2, SettleKeepsIInv DEF CancelOwned, Settle, TERMINAL
<1> QED
  BY <1>1, <1>2 DEF Finishes

LEMMA NextIInv == IInv /\ [Next]_vars => IInv'
<1> SUFFICES ASSUME IInv, [Next]_vars PROVE IInv'
  OBVIOUS
<1>1. ASSUME NEW c \in Callers,
             \/ \E p \in Plans : EnqueueLookup(c, p)
             \/ EnqueueInsert(c)
             \/ EnqueueReread(c)
      PROVE  IInv'
  BY <1>1, EnqueueKeepsIInv
<1>2. ASSUME NEW w \in Workers, Claims(w) PROVE IInv'
  BY <1>2, ClaimKeepsIInv DEF Claims, ClaimAny, ClaimAllowed, ClaimKind
<1>3. ASSUME NEW w \in Workers, Heartbeat(w) PROVE IInv'
  BY <1>3, HeartbeatKeepsIInv
<1>4. ASSUME NEW w \in Workers, Finishes(w) PROVE IInv'
  BY <1>4, FinishesKeepIInv
<1>5. ASSUME NEW w \in Workers, Crash(w) PROVE IInv'
  BY <1>5, CrashKeepsIInv
<1>6. CASE (\E cam \in Campaigns : CancelQueued(cam)) \/ RecoverExpiredLeases
  BY <1>6, BulkReleaseKeepsIInv
<1>7. CASE Tick
  BY <1>7, TickKeepsIInv
<1>8. CASE UNCHANGED vars
  BY <1>8 DEF vars, IInv, TableOK, RowOK, RowConsistent, CallsOK, LatestClaimOwns,
              OwnerHoldsLatest, Owns
<1> QED
  BY <1>1, <1>2, <1>3, <1>4, <1>5, <1>6, <1>7, <1>8 DEF Next

-----------------------------------------------------------------------------

\* The table, the claims and the calls stay well formed in every reachable state.
THEOREM TypeCorrect == Spec => []TypeOK
<1>1. IInv => TypeOK
  BY DEF IInv, TypeOK, TableOK, RowOK, CallsOK
<1> QED
  BY <1>1, InitIInv, NextIInv, PTL DEF Spec

\* No sequence of queue operations, lease expiries and crashes produces a row
\* that queue_recovery reports as critical.
THEOREM QueueConsistent == Spec => []NoCriticalIssue
<1>1. IInv => NoCriticalIssue
  BY DEF IInv, TableOK, RowOK, NoCriticalIssue
<1> QED
  BY <1>1, InitIInv, NextIInv, PTL DEF Spec

\* A worker holding a running row's latest claim is the worker the row names.
THEOREM OwnershipSound == Spec => []LatestClaimOwns
<1>1. IInv => LatestClaimOwns
  BY DEF IInv
<1> QED
  BY <1>1, InitIInv, NextIInv, PTL DEF Spec

-----------------------------------------------------------------------------
(* A stale worker changes nothing.                                         *)

\* Only a worker's own finish, cancel or crash lets go of its claim, and the
\* first two write the row only while the worker still owns it, which
\* OwnerHoldsLatest makes the same as holding its latest attempt.
THEOREM StaleWorkersHarmless == Spec => StaleClaimHarmless
<1> DEFINE A == \A w \in Workers :
                  /\ held[w] # NoJob
                  /\ held'[w] = NoJob
                  /\ held[w].attempt # jobs[held[w].job].attempts
                  => UNCHANGED jobs
<1>1. IInv /\ [Next]_vars => [A]_vars
  <2> SUFFICES ASSUME IInv, Next,
                      NEW w \in Workers, held[w] # NoJob, held'[w] = NoJob,
                      held[w].attempt # jobs[held[w].job].attempts
               PROVE  UNCHANGED jobs
    BY DEF vars
  <2>1. ~Owns(w, held[w].job)
    BY DEF IInv, OwnerHoldsLatest
  <2>2. ASSUME NEW u \in Workers, NEW st, Settle(u, st) PROVE UNCHANGED jobs
    <3>1. u = w
      BY <2>2 DEF Settle, IInv
    <3> QED
      BY <2>1, <2>2, <3>1 DEF Settle
  <2>3. ASSUME NEW u \in Workers, Finishes(u) PROVE UNCHANGED jobs
    BY <2>2, <2>3 DEF Finishes, Finish, CancelOwned
  <2>4. ASSUME NEW u \in Workers, NEW kinds, ClaimFrom(u, kinds) PROVE FALSE
    <3>1. held[u] = NoJob /\ u # w
      BY <2>4 DEF ClaimFrom
    <3>2. held'[w] = held[w]
      BY <2>4, <3>1 DEF ClaimFrom, IInv
    <3> QED
      BY <3>2
  <2>5. ASSUME NEW u \in Workers, Claims(u) PROVE FALSE
    BY <2>4, <2>5 DEF Claims, ClaimAny, ClaimAllowed, ClaimKind
  <2>6. ASSUME NEW u \in Workers, Crash(u) PROVE UNCHANGED jobs
    BY <2>6 DEF Crash
  <2>7. ASSUME held' = held PROVE FALSE
    BY <2>7
  <2> QED
    BY <2>3, <2>5, <2>6, <2>7
       DEF Next, EnqueueLookup, EnqueueInsert, EnqueueReread, Heartbeat, CancelQueued,
           RecoverExpiredLeases, Tick
<1> QED
  BY <1>1, InitIInv, NextIInv, PTL DEF Spec, StaleClaimHarmless

-----------------------------------------------------------------------------
(* The queue implements the ledger.                                        *)

\* What the ledger sees of a row.
Abs(r) ==
    [status   |-> r.status,
     attempts |-> r.attempts,
     budget   |-> IF r.status # "absent" THEN r.plan.max_attempts ELSE 0,
     owner    |-> r.claimed_by]

LEMMA AbsTyped == \A r : RowOK(r) => Abs(r) \in Ledger!LedgerRow
BY Bounds DEF RowOK, Row, Abs, Ledger!LedgerRow, TERMINAL, Ledger!Terminal

\* Every way to give a claim up is an edge of the ledger.
LEMMA ReleasedEdge ==
    ASSUME NEW r, RowOK(r), NEW st,
           \/ r.status = "running" /\ st = "completed"
           \/ r.status = "running" /\ st = "queued" /\ HasBudget(r)
           \/ r.status = "running" /\ st = "failed" /\ ~HasBudget(r)
           \/ r.status \in {"queued", "running"} /\ st = "cancelled"
    PROVE  Ledger!Edge(Abs(r), Abs(Released(r, st)))
<1>1. r.plan.max_attempts \in 1..MaxBudget /\ r.attempts \in 0..MaxBudget
  BY Bounds DEF RowOK, Row
<1>2. Abs(r) = [status |-> r.status, attempts |-> r.attempts,
                budget |-> r.plan.max_attempts, owner |-> r.claimed_by]
  BY DEF Abs
<1>3. Abs(Released(r, st)) = [status |-> st, attempts |-> r.attempts,
                budget |-> r.plan.max_attempts, owner |-> NoWorker]
  BY DEF Abs, Released
<1>4. Abs(Released(r, st)) = Ledger!Moved(Abs(r), st, Abs(r).attempts, NoWorker)
  BY <1>2, <1>3 DEF Ledger!Moved
<1>5. CASE st = "completed"
  BY <1>2, <1>4, <1>5 DEF Ledger!Edge, Ledger!Completed
<1>6. CASE st = "queued"
  BY <1>1, <1>2, <1>4, <1>6 DEF Ledger!Edge, Ledger!Returned, HasBudget
<1>7. CASE st = "failed"
  <2>1. r.attempts = r.plan.max_attempts
    BY <1>1, <1>7, Bounds DEF RowOK, RowConsistent, HasBudget
  <2> QED
    BY <1>2, <1>4, <1>7, <2>1 DEF Ledger!Edge, Ledger!Exhausted
<1>8. CASE st = "cancelled"
  BY <1>2, <1>4, <1>8 DEF Ledger!Edge, Ledger!Cancelled
<1> QED
  BY <1>5, <1>6, <1>7, <1>8

LEMMA LeasedEdge ==
    ASSUME NEW r, RowOK(r), r.status \in {"queued", "running"}, HasBudget(r),
           NEW w \in Workers
    PROVE  Ledger!Edge(Abs(r), Abs(Leased(r, w)))
<1>1. r.plan.max_attempts \in 1..MaxBudget /\ r.attempts \in 0..MaxBudget
  BY Bounds DEF RowOK, Row
<1>2. Abs(r) = [status |-> r.status, attempts |-> r.attempts,
                budget |-> r.plan.max_attempts, owner |-> r.claimed_by]
  BY DEF Abs
<1>3. Abs(Leased(r, w)) = [status |-> "running", attempts |-> r.attempts + 1,
                           budget |-> r.plan.max_attempts, owner |-> w]
  BY DEF Abs, Leased
<1> QED
  BY <1>1, <1>2, <1>3 DEF Ledger!Edge, Ledger!Granted, Ledger!Moved, HasBudget

\* Every step moves every job along an edge of the ledger, or not at all.
LEMMA StepEdges ==
    ASSUME IInv, Next, NEW j \in Jobs
    PROVE  Abs(jobs'[j]) = Abs(jobs[j]) \/ Ledger!Edge(Abs(jobs[j]), Abs(jobs'[j]))
<1> DEFINE Goal == Abs(jobs'[j]) = Abs(jobs[j]) \/ Ledger!Edge(Abs(jobs[j]), Abs(jobs'[j]))
<1>1. RowOK(jobs[j]) /\ TableOK
  BY DEF IInv, TableOK
<1>2. ASSUME NEW c \in Callers, EnqueueInsert(c), ~UNCHANGED jobs PROVE Goal
  <2>1. PICK i \in Jobs : Fresh(i) /\ jobs' = [jobs EXCEPT ![i] = QueuedRow(call[c].plan)]
    BY <1>2 DEF EnqueueInsert
  <2>2. CASE i = j
    <3>1. call[c].plan.max_attempts \in 1..MaxBudget
      BY <1>2, Bounds DEF IInv, CallsOK, EnqueueInsert
    <3>2. Abs(jobs'[j]) = [status |-> "queued", attempts |-> 0,
                           budget |-> call[c].plan.max_attempts, owner |-> NoWorker]
      BY <1>1, <2>1, <2>2 DEF Abs, QueuedRow, TableOK
    <3>3. Abs(jobs[j]).status = "absent"
      BY <2>1, <2>2 DEF Abs, Fresh, Present
    <3> QED
      BY <3>1, <3>2, <3>3 DEF Ledger!Edge, Ledger!Submitted
  <2>3. CASE i # j
    BY <1>1, <2>1, <2>3 DEF TableOK
  <2> QED
    BY <2>2, <2>3
<1>3. ASSUME jobs'[j] = Recovered[j] PROVE Goal
  <2>1. CASE Expired(jobs[j])
    <3>1. jobs[j].status = "running"
      BY <2>1 DEF Expired
    <3> QED
      BY <1>1, <1>3, <2>1, <3>1, ReleasedEdge DEF Recovered
  <2>2. CASE ~Expired(jobs[j])
    BY <1>3, <2>2 DEF Recovered
  <2> QED
    BY <2>1, <2>2
<1>4. ASSUME NEW w \in Workers, NEW kinds, ClaimFrom(w, kinds) PROVE Goal
  <2>1. CASE jobs' = Recovered
    BY <1>3, <2>1
  <2>2. ASSUME NEW i \in Eligible(kinds), jobs' = [Recovered EXCEPT ![i] = Leased(@, w)]
        PROVE  Goal
    <3>1. i # j => jobs'[j] = Recovered[j]
      BY <1>1, <2>2, RecoveryKeepsRows
    <3>2. CASE i = j
      <4>1. jobs'[j] = Leased(Recovered[j], w)
        BY <1>1, <2>2, <3>2, RecoveryKeepsRows
      <4>2. Leased(Recovered[j], w) = Leased(jobs[j], w)
        BY DEF Leased, Recovered, Released
      <4>3. jobs[j].status \in {"queued", "running"} /\ HasBudget(jobs[j])
        BY <2>2, <3>2 DEF Eligible, Recovered, Expired, Released, HasBudget
      <4> QED
        BY <1>1, <4>1, <4>2, <4>3, LeasedEdge
    <3> QED
      BY <1>3, <3>1, <3>2
  <2> QED
    BY <1>4, <2>1, <2>2 DEF ClaimFrom
<1>5. ASSUME NEW w \in Workers, NEW st, Settle(w, st),
             \/ st \in {"completed", "cancelled"}
             \/ st = "queued" /\ HasBudget(jobs[held[w].job])
             \/ st = "failed" /\ ~HasBudget(jobs[held[w].job])
      PROVE  Goal
  <2>1. held[w].job \in Jobs
    BY <1>5 DEF Settle, IInv, Claim
  <2>2. CASE Owns(w, held[w].job) /\ held[w].job = j
    <3>1. jobs'[j] = Released(jobs[j], st) /\ jobs[j].status = "running"
      BY <1>1, <1>5, <2>2 DEF Settle, Owns, TableOK
    <3> QED
      BY <1>1, <1>5, <2>2, <3>1, ReleasedEdge
  <2>3. CASE ~(Owns(w, held[w].job) /\ held[w].job = j)
    BY <1>1, <1>5, <2>1, <2>3 DEF Settle, TableOK
  <2> QED
    BY <2>2, <2>3
<1>6. ASSUME NEW w \in Workers, Finishes(w) PROVE Goal
  <2>1. ASSUME NEW success \in BOOLEAN, Finish(w, success) PROVE Goal
    <3>1. CASE success
      BY <1>5, <2>1, <3>1 DEF Finish
    <3>2. CASE ~success /\ HasBudget(jobs[held[w].job])
      BY <1>5, <2>1, <3>2 DEF Finish
    <3>3. CASE ~success /\ ~HasBudget(jobs[held[w].job])
      BY <1>5, <2>1, <3>3 DEF Finish
    <3> QED
      BY <3>1, <3>2, <3>3
  <2> QED
    BY <1>5, <1>6, <2>1 DEF Finishes, CancelOwned
<1>7. ASSUME NEW w \in Workers, Heartbeat(w) PROVE Goal
  <2>1. /\ jobs'[j].status = jobs[j].status /\ jobs'[j].attempts = jobs[j].attempts
        /\ jobs'[j].plan = jobs[j].plan /\ jobs'[j].claimed_by = jobs[j].claimed_by
    BY <1>1, <1>7 DEF Heartbeat, TableOK, RowOK, Row, IInv, Claim
  <2> QED
    BY <2>1 DEF Abs
<1>8. ASSUME Tick PROVE Goal
  <2>1. /\ jobs'[j].status = jobs[j].status /\ jobs'[j].attempts = jobs[j].attempts
        /\ jobs'[j].plan = jobs[j].plan /\ jobs'[j].claimed_by = jobs[j].claimed_by
    BY <1>1, <1>8 DEF Tick, RowOK, Row
  <2> QED
    BY <2>1 DEF Abs
<1>9. ASSUME NEW cam \in Campaigns, CancelQueued(cam) PROVE Goal
  BY <1>1, <1>9, ReleasedEdge DEF CancelQueued
<1>10. ASSUME RecoverExpiredLeases PROVE Goal
  BY <1>3, <1>10 DEF RecoverExpiredLeases
<1>11. ASSUME NEW w \in Workers, Claims(w) PROVE Goal
  BY <1>4, <1>11 DEF Claims, ClaimAny, ClaimAllowed, ClaimKind
<1>12. ASSUME UNCHANGED jobs PROVE Goal
  BY <1>12
<1> QED
  BY <1>2, <1>6, <1>7, <1>8, <1>9, <1>10, <1>11, <1>12
     DEF Next, EnqueueLookup, EnqueueReread, Crash

\* The SQLite queue implements the ledger: budgets, attempts, exclusive grants
\* and final statuses, for every step of every caller, worker and recovery.
THEOREM QueueImplementsLedger == Spec => ImplementsLedger
<1> DEFINE abs == [j \in Jobs |-> Abs(jobs[j])]
<1>1. Init => Ledger!LedgerInit
  BY DEF Init, AbsentRow, Ledger!LedgerInit, Present
<1>2. IInv /\ IInv' /\ [Next]_vars => [Ledger!LedgerNext]_(abs)
  <2>1. ASSUME UNCHANGED vars PROVE abs' = abs
    BY <2>1 DEF vars
  <2>2. ASSUME IInv, IInv', Next PROVE Ledger!LedgerNext
    <3>1. \A j \in Jobs : Abs(jobs'[j]) \in Ledger!LedgerRow
      BY <2>2, AbsTyped DEF IInv, TableOK
    <3>2. \A j \in Jobs : \/ Abs(jobs'[j]) = Abs(jobs[j])
                          \/ Ledger!Edge(Abs(jobs[j]), Abs(jobs'[j]))
      BY <2>2, StepEdges
    <3> QED
      BY <3>1, <3>2 DEF Ledger!LedgerNext, Abs, Present
  <2> QED
    BY <2>1, <2>2
<1> QED
  BY <1>1, <1>2, InitIInv, NextIInv, PTL
     DEF Spec, ImplementsLedger, Ledger!LedgerSpec, Abs, Present

-----------------------------------------------------------------------------
(* One job per dedupe key                                                  *)

\* No row comes or goes, and none changes what it was enqueued for.
PlansKept ==
    \A j \in Jobs : /\ jobs'[j].plan = jobs[j].plan
                    /\ jobs'[j].status = "absent" <=> jobs[j].status = "absent"

LEMMA DedupeKept ==
    ASSUME DedupeExact, PlansKept, call' = call
    PROVE  DedupeExact'
<1>1. \A j \in Jobs : Present(j)' <=> Present(j)
  BY DEF PlansKept, Present
<1>2. \A i, j \in Jobs : (j \in SameKey(jobs[i].plan))' <=> j \in SameKey(jobs[i].plan)
  BY <1>1 DEF SameKey, PlansKept
<1>3. ASSUME NEW i \in Jobs, NEW j \in Jobs, Present(i)', (j \in SameKey(jobs[i].plan))'
      PROVE  i = j
  BY <1>1, <1>2, <1>3 DEF DedupeExact
<1>4. ASSUME NEW c \in Callers, call'[c].answer \in Jobs
      PROVE  LET p == call'[c].plan
                 q == jobs'[call'[c].answer].plan IN
             /\ Present(call[c].answer)'
             /\ <<q.campaign, q.kind, q.dedupe_key, q.payload>>
                  = <<p.campaign, p.kind, p.dedupe_key, p.payload>>
  BY <1>1, <1>4 DEF DedupeExact, PlansKept
<1> QED
  BY <1>3, <1>4 DEF DedupeExact

\* Claims, ends, cancellations, recoveries and time keep every plan.
LEMMA WorkKeepsPlans ==
    ASSUME IInv,
           \/ \E w \in Workers : Claims(w) \/ Heartbeat(w) \/ Finishes(w) \/ Crash(w)
           \/ \E cam \in Campaigns : CancelQueued(cam)
           \/ RecoverExpiredLeases
           \/ Tick
    PROVE  PlansKept /\ call' = call
<1>1. \A j \in Jobs : Recovered[j].plan = jobs[j].plan
                      /\ (Recovered[j].status = "absent" <=> jobs[j].status = "absent")
  BY DEF Recovered, Expired, Released
<1>2. ASSUME NEW w \in Workers, NEW kinds, ClaimFrom(w, kinds) PROVE PlansKept
  <2>1. CASE jobs' = Recovered
    BY <1>1, <2>1 DEF PlansKept
  <2>2. ASSUME NEW i \in Eligible(kinds), jobs' = [Recovered EXCEPT ![i] = Leased(@, w)]
        PROVE  PlansKept
    <3>1. i \in Jobs /\ Recovered[i].status = "queued"
      BY DEF Eligible
    <3>2. \A j \in Jobs : jobs'[j] = IF j = i THEN Leased(Recovered[i], w) ELSE Recovered[j]
      BY <2>2, <3>1 DEF Recovered
    <3> QED
      BY <1>1, <3>1, <3>2 DEF PlansKept, Leased
  <2> QED
    BY <1>2, <2>1, <2>2 DEF ClaimFrom
<1>3. ASSUME NEW w \in Workers, NEW st, st # "absent", Settle(w, st) PROVE PlansKept
  <2>1. held[w].job \in Jobs
    BY <1>3 DEF Settle, IInv, Claim
  <2>2. CASE Owns(w, held[w].job)
    <3>1. jobs' = [jobs EXCEPT ![held[w].job] = Released(jobs[held[w].job], st)]
      BY <1>3, <2>2 DEF Settle
    <3>2. /\ jobs'[held[w].job] = Released(jobs[held[w].job], st)
          /\ \A j \in Jobs \ {held[w].job} : jobs'[j] = jobs[j]
      BY <2>1, <3>1 DEF IInv, TableOK
    <3> QED
      BY <1>3, <2>2, <3>2 DEF PlansKept, Released, Owns
  <2>3. CASE ~Owns(w, held[w].job)
    BY <1>3, <2>3 DEF Settle, PlansKept
  <2> QED
    BY <2>2, <2>3
<1>4. ASSUME NEW w \in Workers, Finishes(w) PROVE PlansKept
  <2>1. PICK st \in TERMINAL \cup {"queued"} : Settle(w, st)
    BY <1>4 DEF Finishes, Finish, CancelOwned, TERMINAL
  <2>2. st # "absent"
    BY DEF TERMINAL
  <2> QED
    BY <1>3, <2>1, <2>2
<1>5. ASSUME NEW w \in Workers, Heartbeat(w) PROVE PlansKept
  <2>1. held[w].job \in Jobs
    BY <1>5 DEF Heartbeat, IInv, Claim
  <2> QED
    BY <1>5, <2>1 DEF Heartbeat, PlansKept, IInv, TableOK, RowOK, Row
<1>6. ASSUME Tick PROVE PlansKept
  BY <1>6 DEF Tick, PlansKept, IInv, TableOK, RowOK, Row
<1>7. ASSUME NEW cam \in Campaigns, CancelQueued(cam) PROVE PlansKept
  BY <1>7 DEF CancelQueued, PlansKept, Released
<1>8. ASSUME RecoverExpiredLeases PROVE PlansKept
  BY <1>1, <1>8 DEF RecoverExpiredLeases, PlansKept
<1>9. ASSUME NEW w \in Workers, Crash(w) PROVE PlansKept
  BY <1>9 DEF Crash, PlansKept
<1>10. ASSUME NEW w \in Workers, Claims(w) PROVE PlansKept
  BY <1>2, <1>10 DEF Claims, ClaimAny, ClaimAllowed, ClaimKind
<1>11. call' = call
  BY DEF Claims, ClaimAny, ClaimAllowed, ClaimKind, ClaimFrom, Heartbeat, Finishes, Finish,
         CancelOwned, Settle, Crash, CancelQueued, RecoverExpiredLeases, Tick
<1> QED
  BY <1>4, <1>5, <1>6, <1>7, <1>8, <1>9, <1>10, <1>11

\* What a caller may be answered with.
AnswerOK(x) ==
    x.answer \in Jobs =>
        /\ jobs[x.answer].status # "absent"
        /\ jobs[x.answer].plan.campaign = x.plan.campaign
        /\ jobs[x.answer].plan.kind = x.plan.kind
        /\ jobs[x.answer].plan.dedupe_key = x.plan.dedupe_key
        /\ jobs[x.answer].plan.payload = x.plan.payload

OneRowPerKey == \A i, j \in Jobs : Present(i) /\ j \in SameKey(jobs[i].plan) => i = j

LEMMA DedupeParts == DedupeExact <=> OneRowPerKey /\ \A c \in Callers : AnswerOK(call[c])
BY DEF DedupeExact, OneRowPerKey, AnswerOK, Present

LEMMA DedupePartsNext ==
    ASSUME OneRowPerKey', \A c \in Callers : AnswerOK(call[c])'
    PROVE  DedupeExact'
BY DEF DedupeExact, OneRowPerKey, AnswerOK, Present

\* The table stays and one caller is answered.
LEMMA AnswerKeeps ==
    ASSUME IInv, DedupeExact, NEW c \in Callers, NEW x, AnswerOK(x),
           jobs' = jobs, call' = [call EXCEPT ![c] = x]
    PROVE  DedupeExact'
<1>1. OneRowPerKey'
  BY DedupeParts DEF OneRowPerKey, Present, SameKey
<1>2. \A b \in Callers : call'[b] = IF b = c THEN x ELSE call[b]
  BY DEF IInv, CallsOK
<1>3. \A b \in Callers : AnswerOK(call[b])'
  BY <1>2, DedupeParts DEF AnswerOK
<1> QED
  BY <1>1, <1>3, DedupePartsNext

LEMMA FoundAnswer ==
    ASSUME NEW p, NEW j \in SameKey(p), NEW x, x.plan = p, x.answer = AnswerFor(p, j)
    PROVE  AnswerOK(x)
<1>1. 0 \notin Jobs
  BY Bounds DEF Jobs
<1> QED
  BY <1>1 DEF AnswerOK, AnswerFor, SameKey, Present

LEMMA EnqueueKeepsDedupe ==
    ASSUME IInv, DedupeExact, NEW c \in Callers,
           \/ \E p \in Plans : EnqueueLookup(c, p)
           \/ EnqueueInsert(c)
           \/ EnqueueReread(c)
    PROVE  DedupeExact'
<1>1. call[c] \in CallState /\ AnswerOK(call[c])
  BY DedupeParts DEF IInv, CallsOK
<1>2. ASSUME NEW p \in Plans, EnqueueLookup(c, p) PROVE DedupeExact'
  <2>1. CASE call' = [call EXCEPT ![c] = [pc |-> "insert", plan |-> p, answer |-> NoJob]]
    <3>1. AnswerOK([pc |-> "insert", plan |-> p, answer |-> NoJob])
      BY QueueAssumption DEF AnswerOK
    <3> QED
      BY <1>2, <2>1, <3>1, AnswerKeeps DEF EnqueueLookup
  <2>2. ASSUME NEW j \in SameKey(p),
               call' = [call EXCEPT ![c] = [pc |-> "idle", plan |-> p,
                                            answer |-> AnswerFor(p, j)]]
        PROVE  DedupeExact'
    <3>1. AnswerOK([pc |-> "idle", plan |-> p, answer |-> AnswerFor(p, j)])
      BY FoundAnswer
    <3> QED
      BY <1>2, <2>2, <3>1, AnswerKeeps DEF EnqueueLookup
  <2> QED
    BY <1>2, <2>1, <2>2 DEF EnqueueLookup
<1>3. ASSUME EnqueueReread(c) PROVE DedupeExact'
  <2>1. PICK j \in SameKey(call[c].plan) : Answered(c, AnswerFor(call[c].plan, j))
    BY <1>3 DEF EnqueueReread
  <2> DEFINE a == AnswerFor(call[c].plan, j)
             x == [call[c] EXCEPT !.pc = "idle", !.answer = a]
  <2>2. a = AnswerFor(call[c].plan, j)
    OBVIOUS
  <2>3. call' = [call EXCEPT ![c].pc = "idle", ![c].answer = a]
    BY <2>1 DEF Answered
  <2> HIDE DEF a
  <2>4. x.plan = call[c].plan /\ x.answer = a
    BY <1>1 DEF CallState
  <2>5. call' = [call EXCEPT ![c] = x]
    BY <2>3
  <2> HIDE DEF x
  <2>6. AnswerOK(x)
    BY <2>2, <2>4, FoundAnswer
  <2> QED
    BY <1>3, <2>5, <2>6, AnswerKeeps DEF EnqueueReread
<1>4. ASSUME EnqueueInsert(c) PROVE DedupeExact'
  <2> DEFINE p == call[c].plan
  <2>1. CASE call' = [call EXCEPT ![c].pc = "reread"] /\ UNCHANGED jobs
    <3> DEFINE x == [call[c] EXCEPT !.pc = "reread"]
    <3>1. x.plan = call[c].plan /\ x.answer = call[c].answer
      BY <1>1 DEF CallState
    <3>2. AnswerOK(x)
      BY <1>1, <3>1 DEF AnswerOK
    <3>3. call' = [call EXCEPT ![c] = x]
      BY <2>1
    <3> QED
      BY <2>1, <3>2, <3>3, AnswerKeeps
  <2>2. ASSUME SameKey(p) = {}, NEW j \in Jobs, Fresh(j), Answered(c, j),
               jobs' = [jobs EXCEPT ![j] = QueuedRow(p)]
        PROVE  DedupeExact'
    <3>1. \A i \in Jobs : jobs'[i] = IF i = j THEN QueuedRow(p) ELSE jobs[i]
      BY <2>2 DEF IInv, TableOK
    <3>2. jobs'[j].status = "queued" /\ jobs'[j].plan = p /\ jobs[j].status = "absent"
      BY <2>2, <3>1 DEF QueuedRow, Fresh, Present
    <3>3. OneRowPerKey'
      <4> SUFFICES ASSUME NEW i \in Jobs, NEW k \in Jobs, Present(i)',
                          (k \in SameKey(jobs[i].plan))', i # k
                   PROVE  FALSE
        BY DEF OneRowPerKey
      <4>1. /\ jobs'[i].status # "absent" /\ jobs'[k].status # "absent"
            /\ jobs'[i].plan.dedupe_key # NoKey
            /\ jobs'[k].plan.campaign = jobs'[i].plan.campaign
            /\ jobs'[k].plan.kind = jobs'[i].plan.kind
            /\ jobs'[k].plan.dedupe_key = jobs'[i].plan.dedupe_key
        BY DEF SameKey, Present
      <4>2. CASE i = j
        <5>1. k \in SameKey(p)
          BY <3>1, <3>2, <4>1, <4>2 DEF SameKey, Present
        <5> QED
          BY <2>2, <5>1
      <4>3. CASE k = j
        <5>1. i \in SameKey(p)
          BY <3>1, <3>2, <4>1, <4>3 DEF SameKey, Present
        <5> QED
          BY <2>2, <5>1
      <4>4. CASE i # j /\ k # j
        <5>1. Present(i) /\ k \in SameKey(jobs[i].plan)
          BY <3>1, <4>1, <4>4 DEF SameKey, Present
        <5> QED
          BY <5>1, DedupeParts DEF OneRowPerKey
      <4> QED
        BY <4>2, <4>3, <4>4
    <3>4. /\ call'[c].plan = p /\ call'[c].answer = j
          /\ \A b \in Callers \ {c} : call'[b] = call[b]
      BY <1>1, <2>2 DEF Answered, IInv, CallsOK, CallState
    <3>5. \A b \in Callers : AnswerOK(call[b])'
      <4>1. AnswerOK(call[c])'
        BY <3>2, <3>4 DEF AnswerOK
      <4>2. ASSUME NEW b \in Callers \ {c} PROVE AnswerOK(call[b])'
        <5>1. AnswerOK(call[b]) /\ call'[b] = call[b]
          BY <3>4, DedupeParts
        <5>2. call[b].answer \in Jobs =>
                call[b].answer # j /\ jobs'[call[b].answer] = jobs[call[b].answer]
          BY <3>1, <3>2, <5>1 DEF AnswerOK
        <5> QED
          BY <5>1, <5>2 DEF AnswerOK
      <4> QED
        BY <4>1, <4>2
    <3> QED
      BY <3>3, <3>5, DedupePartsNext
  <2> QED
    BY <1>4, <2>1, <2>2 DEF EnqueueInsert
<1> QED
  BY <1>2, <1>3, <1>4

\* A dedupe key has one row, and a caller is answered with a row that bears what
\* it asked for, whoever wins the race between lookup and insert (enqueue and
\* its unique index).
THEOREM DedupeCorrect == Spec => []DedupeExact
<1>1. Init => DedupeExact
  BY QueueAssumption DEF Init, DedupeExact, Present, AbsentRow
<1>2. IInv /\ DedupeExact /\ [Next]_vars => DedupeExact'
  <2> SUFFICES ASSUME IInv, DedupeExact, [Next]_vars PROVE DedupeExact'
    OBVIOUS
  <2>1. CASE UNCHANGED vars
    BY <2>1, DedupeKept DEF vars, PlansKept
  <2>2. CASE Next
    BY <2>2, EnqueueKeepsDedupe, WorkKeepsPlans, DedupeKept DEF Next
  <2> QED
    BY <2>1, <2>2
<1> QED
  BY <1>1, <1>2, InitIInv, NextIInv, PTL DEF Spec
=============================================================================
