--------------------------- MODULE CampaignRecord ---------------------------
(***************************************************************************)
(* The shared state of one campaign and the operations every process of    *)
(* the system performs on it: the campaign document, saved by comparing    *)
(* versions; its event list, which only grows; the jobs of the campaign,   *)
(* one per dedupe key; and the observation graph the planner reads.        *)
(* CampaignApi and CampaignWorker add the processes.                       *)
(*                                                                         *)
(* A job is named by what its dedupe key says: the finding a validation    *)
(* is for, the request a report answers, the graph fingerprint a scan or a *)
(* recon task was planned from.  JobQueue says how the queue itself works; *)
(* here a job is its ledger row.                                           *)
(***************************************************************************)
EXTENDS Naturals, Sequences, FiniteSets

CONSTANTS
    Findings,      \* findings anybody may report or a scanner may discover
    Clients,       \* requests to the control plane, one handler run each
    Workers,       \* campaign workers
    Scenarios,     \* [requests, rules, faults]: the kind of request each client
                   \* makes (or "none"), the campaign's rules, and the deaths,
                   \* lost leases and failures of work there are at most
    MaxTries,      \* rounds of a compare-and-save loop (3 in the code)
    MaxScans,      \* the planner's budget of scan jobs (XBOW_PLANNER_MAX_SCANS)
    NoWorker       \* the owner of a job nobody runs

RequestKinds == {"none", "start", "add", "validate", "report", "outbox", "cancel"}

ASSUME RecordAssumption ==
    /\ Clients \cap Workers = {}
    /\ NoWorker \notin Workers
    /\ MaxTries \in Nat \ {0}
    /\ MaxScans \in Nat \ {0}
    /\ \A s \in Scenarios :
         /\ s.requests \in [Clients -> RequestKinds]
         /\ s.rules.scannable \in BOOLEAN
         /\ s.rules.enriched \subseteq {"seeded", "known", "mapped"}
         /\ s.rules.inflight \in Nat \ {0}
         /\ s.faults \in Nat
    /\ IsFiniteSet(Findings) /\ IsFiniteSet(Clients)

VARIABLES
    doc,           \* the campaign document: state, finding statuses, events
    version,       \* its version column
    jobs,          \* the row of every job key
    graph,         \* what the observation graph holds
    rules,         \* [scannable, enriched, inflight]: the rule automated_scanning,
                   \* the stages whose surface is rich enough to scan, and the
                   \* planner's budget of live jobs; no handler changes them
    proc,          \* the local state of every process
    faults         \* how many faults may still happen

vars == <<doc, version, jobs, graph, rules, proc, faults>>
shared == <<doc, version, jobs, graph, rules>>

Processes == Clients \cup Workers

-----------------------------------------------------------------------------
(* Requests and jobs.                                                      *)

Key(kind, of) == [kind |-> kind, of |-> of]
Start(c)      == Key("start", c)
Validation(f) == Key("validation", f)
Manual(c)     == Key("report", c)
Completion    == Key("report", "completed")
Scan(stage)   == Key("scan", stage)
Recon(stage)  == Key("recon", stage)
Browser(stage) == Key("browser", stage)
NoKey         == Key("none", "none")

\* What recon tasks, browser flows, reports and dry runs add to the graph changes
\* its fingerprint: the stages stand for successive fingerprints.  Work done
\* again adds nothing.
Stages == {"seeded", "known", "mapped"}
Grown(stage) ==
    {stage} \cup CASE stage = "seeded" -> {"known"}
                   [] OTHER -> {"mapped"}

JobKeys ==
    {Validation(f) : f \in Findings} \cup {Manual(c) : c \in Clients} \cup {Completion}
      \cup {Scan(s) : s \in Stages} \cup {Recon(s) : s \in Stages}
      \cup {Browser(s) : s \in Stages}

MaxAttempts == 2   \* every job of a campaign is enqueued with max_attempts=2

JobRow(status, attempts, owner) ==
    [status |-> status, attempts |-> attempts, owner |-> owner]
NoJob == JobRow("absent", 0, NoWorker)

Queued(k)    == jobs[k].status = "queued"
Running(k)   == jobs[k].status = "running"
Completed(k) == jobs[k].status = "completed"
Live(k)      == Queued(k) \/ Running(k)
Known(k)     == k \in JobKeys /\ jobs[k].status # "absent"

\* Enqueuing a key that was used before returns that job, whatever became of it.
Enqueued(k) == IF Known(k) THEN jobs ELSE [jobs EXCEPT ![k] = JobRow("queued", 0, NoWorker)]

CancelQueued ==
    [k \in JobKeys |-> IF Queued(k) THEN JobRow("cancelled", jobs[k].attempts, NoWorker)
                                    ELSE jobs[k]]

-----------------------------------------------------------------------------
(* The document.                                                           *)

States   == {"ready", "running", "validating", "completed", "failed", "cancelled"}
Resolved == {"confirmed", "rejected"}
Statuses == {"absent", "validation_required"} \cup Resolved

Event(type, key) == [type |-> type, kind |-> key.kind, of |-> key.of]

\* The event of a request and of its completion: campaign_start_requested and
\* campaign_started, validation_requested and validation_queued,
\* report_requested and report_queued or campaign_completed.
Requested(key)  == Event("requested", key)
Reconciled(key) == Event("reconciled", key)
Outcome(key, status) ==
    [type |-> "worker_outcome", kind |-> key.kind, of |-> key.of, status |-> status]

Has(d, e) == \E i \in DOMAIN d.events : d.events[i] = e

Present(d)  == {f \in Findings : d.findings[f] # "absent"}
Settled(d)  == \A f \in Present(d) : d.findings[f] \in Resolved
AllResolved(d) == Present(d) # {} /\ Settled(d)

\* The requests of a kind whose completion event is missing.
FirstAt(d, key) ==
    CHOOSE i \in DOMAIN d.events :
      /\ d.events[i] = Requested(key)
      /\ \A j \in DOMAIN d.events : d.events[j] = Requested(key) => i <= j

PendingKeys(d, keys) == {k \in keys : Has(d, Requested(k)) /\ ~Has(d, Reconciled(k))}

\* Mutant: every request makes a new intent.
X_PendingOr(d, keys, new) == new

\* The latest request of keys that is still pending, or new when there is none.
PendingOr(d, keys, new) ==
    LET pending == PendingKeys(d, keys) IN
    IF pending = {} THEN new
    ELSE CHOOSE k \in pending : \A l \in pending : FirstAt(d, l) <= FirstAt(d, k)

\* The field idle is not the program's: it names the jobs nobody ran when the
\* campaign was cancelled, for NoWorkAfterCancel of Campaign.
Edited(d, state, findings, events) ==
    [d EXCEPT !.state = state, !.findings = findings, !.events = d.events \o events]

EmptyDoc == [state |-> "ready", findings |-> [f \in Findings |-> "absent"], events |-> <<>>,
             idle |-> {}]

-----------------------------------------------------------------------------
(* Processes.  A process holds the document and the version it last read.  *)

At(pc, req) ==
    [pc |-> pc, req |-> req, doc |-> EmptyDoc, ver |-> 0, plan |-> {}, seen |-> {},
     mode |-> "none", tries |-> 0]

\* p reads the campaign and continues at pc.
Loaded(p, pc) == [proc[p] EXCEPT !.pc = pc, !.doc = doc, !.ver = version]

\* p is done with what it read and continues at pc, or leaves its work there.
Goto(p, pc)  == proc' = [proc EXCEPT ![p] = At(pc, proc[p].req)]
Leave(p, pc) == proc' = [proc EXCEPT ![p] = At(pc, NoKey)]

\* One more round of a compare-and-save loop, or else when there were enough.
Retry(p, pc, else) ==
    proc' = [proc EXCEPT ![p] =
               IF proc[p].tries + 1 < MaxTries
               THEN [At(pc, proc[p].req) EXCEPT !.tries = proc[p].tries + 1]
               ELSE At(else, NoKey)]

\* Mutant: save whatever the version is.
X_Unchanged(p) == TRUE

\* save_campaign(document, expected_version): the write happens only when
\* nobody saved since p read the campaign.
Unchanged(p) == proc[p].ver = version
Commit(d)    == doc' = d /\ version' = version + 1

-----------------------------------------------------------------------------
(* The planner: the job sets advance_campaign may enqueue for the document *)
(* d it was given and the graph and queue it reads.  Empty means stop,     *)
(* which budgets and the autonomy gate may always decide.                  *)

Unattempted == graph.found \ (graph.observed \cup graph.attempted)

\* Failed jobs and a spent budget block the autonomy gate, whatever is planned.
GateBlocked ==
    \/ ~rules.scannable
    \/ \E k \in JobKeys : jobs[k].status = "failed"
    \/ Cardinality({k \in JobKeys : k.kind = "scan" /\ Known(k)}) >= MaxScans
    \/ Cardinality({k \in JobKeys : Live(k)}) >= rules.inflight

Plans(d) ==
    {{}} \cup
    IF GateBlocked \/ graph.found # Present(d) THEN {}
    ELSE IF graph.found # {}
    THEN IF Unattempted = {} THEN {}
         ELSE {{Validation(f) : f \in S} : S \in SUBSET (Present(d) \ graph.observed)}
    ELSE IF graph.scanned THEN {}
    ELSE IF graph.stage \in rules.enriched THEN {{Scan(graph.stage)}}
    ELSE {{Recon(graph.stage)}, {Recon(graph.stage), Browser(graph.stage)}}

-----------------------------------------------------------------------------
(* One queue.enqueue of the plan p is carrying out.                        *)
Enqueue(p, k) ==
    /\ k \in proc[p].plan
    /\ jobs' = Enqueued(k)
    /\ proc' = [proc EXCEPT ![p] = [proc[p] EXCEPT !.plan = proc[p].plan \ {k}]]
    /\ UNCHANGED <<doc, version, graph, rules, faults>>

\* Something goes wrong: the model's bound on how often.
Fault   == faults > 0 /\ faults' = faults - 1
NoFault == UNCHANGED faults

\* A worker's lease runs out: the next queue operation recovers the job.  That
\* is a fault unless the worker is gone.
Abandoned(k) == Running(k) /\ proc[jobs[k].owner].req # k

LeaseExpires(k) ==
    /\ Running(k)
    /\ jobs' = [jobs EXCEPT ![k] =
                  JobRow(IF jobs[k].attempts < MaxAttempts THEN "queued" ELSE "failed",
                         jobs[k].attempts, NoWorker)]
    /\ UNCHANGED <<doc, version, graph, rules, proc>>
    /\ IF Abandoned(k) THEN NoFault ELSE Fault

RecordInit ==
    /\ doc = EmptyDoc
    /\ version = 1
    /\ jobs = [k \in JobKeys |-> NoJob]
    /\ graph = [found |-> {}, attempted |-> {}, observed |-> {}, scanned |-> FALSE,
                stage |-> "seeded"]
    /\ \E s \in Scenarios :
         /\ rules = s.rules
         /\ faults = s.faults
         /\ proc = [p \in Processes |-> IF p \in Workers THEN At("idle", NoKey)
                                        ELSE At("ready", Key(s.requests[p], "none"))]
=============================================================================
