------------------------------ MODULE JobLedger ------------------------------
(***************************************************************************)
(* What a durable job queue promises, whichever store keeps it: the life   *)
(* of every job, one row per job and nothing else.  A job is queued with a *)
(* retry budget, granted to one worker at a time, every grant spends one   *)
(* attempt, and once a job is completed, failed or cancelled it never      *)
(* moves again.  A single transaction of the implementation may move       *)
(* several jobs (a lease recovery does), so a step moves any set of jobs,  *)
(* each along one legal edge.                                              *)
(*                                                                         *)
(* JobQueue (SQLite) and RedisJobQueue are both shown to implement it.     *)
(***************************************************************************)
EXTENDS Naturals

CONSTANTS
    Jobs,          \* job identifiers
    Workers,       \* worker identities
    MaxBudget,     \* the largest max_attempts a caller may ask for
    NoWorker       \* the owner of a job that nobody runs

VARIABLE ledger    \* the row of every job

Terminal == {"completed", "failed", "cancelled"}

LedgerRow ==
    [status: {"absent", "queued", "running"} \cup Terminal,
     attempts: 0..MaxBudget,
     budget: 0..MaxBudget,
     owner: Workers \cup {NoWorker}]

LedgerTypeOK == ledger \in [Jobs -> LedgerRow]

LedgerInit ==
    ledger = [j \in Jobs |->
                [status |-> "absent", attempts |-> 0, budget |-> 0, owner |-> NoWorker]]

-----------------------------------------------------------------------------
(* The edges of one job: r is its row before the step, s after it.         *)

\* A job never changes its budget.
Moved(r, status, attempts, owner) ==
    [status |-> status, attempts |-> attempts, budget |-> r.budget, owner |-> owner]

Submitted(r, s) ==
    /\ r.status = "absent"
    /\ \E b \in 1..MaxBudget :
         s = [status |-> "queued", attempts |-> 0, budget |-> b, owner |-> NoWorker]

\* A grant spends one attempt of the budget.  It starts from a queued job, or
\* from the abandoned claim of a worker whose lease the same transaction ends.
Granted(r, s) ==
    /\ r.status \in {"queued", "running"}
    /\ r.attempts < r.budget
    /\ \E w \in Workers :
         s = Moved(r, "running", r.attempts + 1, w)

Returned(r, s) ==
    /\ r.status = "running"
    /\ r.attempts < r.budget
    /\ s = Moved(r, "queued", r.attempts, NoWorker)

Completed(r, s) ==
    /\ r.status = "running"
    /\ s = Moved(r, "completed", r.attempts, NoWorker)

Exhausted(r, s) ==
    /\ r.status = "running"
    /\ r.attempts = r.budget
    /\ s = Moved(r, "failed", r.attempts, NoWorker)

Cancelled(r, s) ==
    /\ r.status \in {"queued", "running"}
    /\ s = Moved(r, "cancelled", r.attempts, NoWorker)

Edge(r, s) ==
    \/ Submitted(r, s)
    \/ Granted(r, s)
    \/ Returned(r, s)
    \/ Completed(r, s)
    \/ Exhausted(r, s)
    \/ Cancelled(r, s)

LedgerNext ==
    /\ ledger' \in [Jobs -> LedgerRow]
    /\ \A j \in Jobs : ledger'[j] = ledger[j] \/ Edge(ledger[j], ledger'[j])

LedgerSpec == LedgerInit /\ [][LedgerNext]_ledger
=============================================================================
