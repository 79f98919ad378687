--------------------------- MODULE CampaignWorker ---------------------------
(***************************************************************************)
(* A campaign worker (worker_service.py): it claims a job, reads the       *)
(* campaign, does the job's work against the target, saves the document it *)
(* read with the result in it, plans the next step, finishes the job and   *)
(* logs the outcome.  The lease is kept by a thread of its own: losing it  *)
(* shows only when the job is finished.                                    *)
(***************************************************************************)
EXTENDS CampaignRecord

Job(w) == proc[w].req
Copy(w) == proc[w].doc
Quiet  == UNCHANGED shared /\ NoFault

\* Stop working on the job and finish it as mode says.
Close(w, mode) == proc' = [proc EXCEPT ![w] = [At("close", Job(w)) EXCEPT !.mode = mode]]

Claim(w, k) ==
    /\ proc[w].pc = "idle"
    /\ Queued(k)
    /\ jobs[k].attempts < MaxAttempts
    /\ jobs' = [jobs EXCEPT ![k] = JobRow("running", jobs[k].attempts + 1, w)]
    /\ proc' = [proc EXCEPT ![w] = At("load", k)]
    /\ UNCHANGED <<doc, version, graph, rules, faults>>

\* Mutant: the job's body does not look at the cancel.
X_Load(w) ==
    /\ proc[w].pc = "load"
    /\ LET k == Job(w) IN
       IF k.kind = "validation" /\ doc.findings[k.of] = "absent" THEN Close(w, "failed")
       ELSE IF \/ k.kind \in {"validation", "browser"} /\ doc.state = "completed"
               \/ k.kind = "validation" /\ doc.findings[k.of] # "validation_required"
       THEN Close(w, "cancelled")
       ELSE proc' = [proc EXCEPT ![w] = Loaded(w, "work")]
    /\ Quiet

\* The job body's read and its guards: a cancelled campaign cancels the job, a
\* stale validation or browser flow too, and a missing finding is an error.
Load(w) ==
    /\ proc[w].pc = "load"
    /\ LET k == Job(w) IN
       IF doc.state = "cancelled" THEN Close(w, "cancelled")
       ELSE IF k.kind = "validation" /\ doc.findings[k.of] = "absent" THEN Close(w, "failed")
       ELSE IF \/ k.kind \in {"validation", "browser"} /\ doc.state = "completed"
               \/ k.kind = "validation" /\ doc.findings[k.of] # "validation_required"
       THEN Close(w, "cancelled")
       ELSE proc' = [proc EXCEPT ![w] = Loaded(w, "work")]
    /\ Quiet

\* The work fails: the scanner exits, the target does not answer, policy forbids.
WorkFails(w) ==
    /\ proc[w].pc = "work"
    /\ Close(w, "failed")
    /\ UNCHANGED shared /\ Fault

ToSave(w, mode, seen) ==
    [proc[w] EXCEPT !.pc = "save", !.mode = mode, !.seen = seen,
                    !.plan = {Validation(f) : f \in seen}]

\* A scan in dry run leaves an asset in the graph and no findings.
DryRun(w) ==
    /\ proc[w].pc = "work" /\ Job(w).kind = "scan"
    /\ \E stage \in Grown(graph.stage) : graph' = [graph EXCEPT !.stage = stage]
    /\ proc' = [proc EXCEPT ![w] = ToSave(w, "dry_run", {})]
    /\ UNCHANGED <<doc, version, jobs, rules, faults>>

\* ingest_scanner_run: every finding goes into the graph, the unknown ones into
\* the worker's copy of the document and, one by one, into the queue.
Ingest(w, found) ==
    /\ proc[w].pc = "work" /\ Job(w).kind = "scan"
    /\ graph' = [graph EXCEPT !.found = graph.found \cup found, !.scanned = TRUE]
    /\ proc' = [proc EXCEPT ![w] = ToSave(w, "scanned", found \ Present(Copy(w)))]
    /\ UNCHANGED <<doc, version, jobs, rules, faults>>

\* process_validation: the probe of the target is recorded in the graph, as
\* independent evidence only when it observed the finding.
Probe(w, observed) ==
    /\ proc[w].pc = "work" /\ Job(w).kind = "validation"
    /\ LET f == {Job(w).of} IN
       graph' = [graph EXCEPT !.found = graph.found \cup f,
                              !.attempted = graph.attempted \cup f,
                              !.observed = IF observed THEN graph.observed \cup f
                                           ELSE graph.observed]
    /\ proc' = [proc EXCEPT ![w] = ToSave(w, "done", {})]
    /\ UNCHANGED <<doc, version, jobs, rules, faults>>

\* The work of a job that only adds to the graph.
Explore(w, kind) ==
    /\ proc[w].pc = "work" /\ Job(w).kind = kind
    /\ \E stage \in Grown(graph.stage) : graph' = [graph EXCEPT !.stage = stage]
    /\ proc' = [proc EXCEPT ![w] = ToSave(w, "done", {})]
    /\ UNCHANGED <<doc, version, jobs, rules, faults>>

\* process_recon_task and process_browser_flow record what they saw,
\* process_report the artifact it stored, the same one when it is run again.
ReconTask(w)   == Explore(w, "recon")
BrowserFlow(w) == Explore(w, "browser")
WriteReport(w) == Explore(w, "report")

\* The findings a scan enqueues before the document that holds them is saved.
IngestEnqueue(w, k) ==
    /\ proc[w].pc = "save"
    /\ Enqueue(w, k)

\* Mutant: a job that is run again is logged again.
X_Result(w) ==
    LET d == Copy(w)
        findings == [f \in Findings |-> IF f \in proc[w].seen THEN "validation_required"
                                        ELSE d.findings[f]]
        scanned == Edited(d, d.state, findings,
                          <<Event(IF proc[w].mode = "dry_run" THEN "dry_run" ELSE "processed",
                                  Job(w))>>)
    IN  [scanned EXCEPT !.state =
           CASE proc[w].mode = "dry_run" -> "ready"
             [] proc[w].mode = "scanned" -> IF Settled(scanned) THEN "completed"
                                            ELSE "validating"
             [] OTHER -> d.state]

\* What the job leaves in the document w read.
Result(w) ==
    LET d == Copy(w)
        findings == [f \in Findings |-> IF f \in proc[w].seen THEN "validation_required"
                                        ELSE d.findings[f]]
        event == Event(IF proc[w].mode = "dry_run" THEN "dry_run" ELSE "processed", Job(w))
        scanned == Edited(d, d.state, findings, IF Has(d, event) THEN <<>> ELSE <<event>>)
    IN  [scanned EXCEPT !.state =
           CASE proc[w].mode = "dry_run" -> "ready"
             [] proc[w].mode = "scanned" -> IF Settled(scanned) THEN "completed"
                                            ELSE "validating"
             [] OTHER -> d.state]

\* Mutant: the document is saved before its findings are enqueued.
X_Save(w) ==
    /\ proc[w].pc = "save"
    /\ IF Unchanged(w)
       THEN Commit(Result(w)) /\ Goto(w, "advance")
       ELSE UNCHANGED <<doc, version>> /\ Close(w, "failed")
    /\ UNCHANGED <<jobs, graph, rules, faults>>

Save(w) ==
    /\ proc[w].pc = "save" /\ proc[w].plan = {}
    /\ IF Unchanged(w)
       THEN Commit(Result(w)) /\ Goto(w, "advance")
       ELSE UNCHANGED <<doc, version>> /\ Close(w, "failed")
    /\ UNCHANGED <<jobs, graph, rules, faults>>

\* advance_campaign on a fresh read.  Another worker may hold the planner lock:
\* then the job is finished without planning, and without the read.
Advance(w) ==
    /\ proc[w].pc = "advance"
    /\ IF doc.state = "cancelled" THEN Close(w, "cancelled")
       ELSE \E plan \in Plans(doc) :
              proc' = [proc EXCEPT ![w] = [proc[w] EXCEPT !.pc = "enqueue", !.plan = plan]]
    /\ Quiet

\* A lease heartbeat that failed meanwhile turns the work done into a failure.
Complete(w) ==
    /\ UNCHANGED shared
    /\ \/ Close(w, "completed") /\ NoFault
       \/ Close(w, "failed") /\ Fault

AdvanceSkipped(w) ==
    /\ proc[w].pc = "advance"
    /\ Complete(w)

AdvanceEnqueue(w) ==
    /\ proc[w].pc = "enqueue"
    /\ \/ \E k \in proc[w].plan : Enqueue(w, k)
       \/ proc[w].plan = {} /\ Complete(w)

\* finish and cancel_owned: they act only for the worker that owns the job.
Owns(w) == Running(Job(w)) /\ jobs[Job(w)].owner = w

\* Mutant: a job of a cancelled campaign goes back to the queue.
X_Final(w) ==
    IF \/ proc[w].mode = "cancelled"
       \/ proc[w].mode = "failed" /\ jobs[Job(w)].attempts < MaxAttempts
    THEN "queued"
    ELSE proc[w].mode

Final(w) ==
    IF proc[w].mode = "failed" /\ jobs[Job(w)].attempts < MaxAttempts THEN "queued"
    ELSE proc[w].mode

Finish(w) ==
    /\ proc[w].pc = "close"
    /\ IF Owns(w)
       THEN /\ jobs' = [jobs EXCEPT ![Job(w)] =
                          JobRow(Final(w), jobs[Job(w)].attempts, NoWorker)]
            /\ proc' = [proc EXCEPT ![w] = [At("outcome", Job(w)) EXCEPT !.mode = Final(w)]]
       ELSE jobs' = jobs /\ Leave(w, "idle")
    /\ UNCHANGED <<doc, version, graph, rules, faults>>

\* _record_worker_outcome: no guard on the campaign's state.
OutcomeOf(w) == Outcome(Job(w), proc[w].mode)

OutcomeRead(w) ==
    /\ proc[w].pc = "outcome"
    /\ IF Has(doc, OutcomeOf(w)) THEN Leave(w, "idle")
       ELSE proc' = [proc EXCEPT ![w] = Loaded(w, "log")]
    /\ Quiet

OutcomeSave(w) ==
    /\ proc[w].pc = "log"
    /\ IF Unchanged(w)
       THEN /\ Commit(Edited(Copy(w), Copy(w).state, Copy(w).findings, <<OutcomeOf(w)>>))
            /\ Leave(w, "idle")
       ELSE /\ UNCHANGED <<doc, version>>
            /\ proc' = [proc EXCEPT ![w] =
                 IF proc[w].tries + 1 < MaxTries
                 THEN [At("outcome", Job(w)) EXCEPT !.mode = proc[w].mode,
                                                    !.tries = proc[w].tries + 1]
                 ELSE At("idle", NoKey)]
    /\ UNCHANGED <<jobs, graph, rules, faults>>

\* The worker process dies; the supervisor starts it again.
WorkerDies(w) ==
    /\ proc[w].pc # "idle"
    /\ Leave(w, "idle")
    /\ UNCHANGED shared /\ Fault

Work(w) ==
    \/ Load(w) \/ WorkFails(w) \/ DryRun(w)
    \/ \E found \in SUBSET Findings : Ingest(w, found)
    \/ \E observed \in BOOLEAN : Probe(w, observed)
    \/ ReconTask(w) \/ BrowserFlow(w) \/ WriteReport(w)
    \/ \E k \in JobKeys : IngestEnqueue(w, k)
    \/ Save(w) \/ Advance(w) \/ AdvanceSkipped(w) \/ AdvanceEnqueue(w)
    \/ Finish(w) \/ OutcomeRead(w) \/ OutcomeSave(w)
=============================================================================
