----------------------------- MODULE CampaignApi -----------------------------
(***************************************************************************)
(* The control plane's handlers that change a campaign (main.py).  A       *)
(* handler reads the campaign, saves it, enqueues, and records what it     *)
(* enqueued, each in a transaction of its own, so every pc below is a      *)
(* point where another handler or a worker may come in between.            *)
(***************************************************************************)
EXTENDS CampaignRecord

Done(c)   == Leave(c, "done")
Ready(c, request) == proc[c].pc = "ready" /\ proc[c].req.kind = request
ReadOnly  == UNCHANGED shared /\ NoFault
Snapshot(c) == proc[c].doc

\* Take the campaign just read to pc on behalf of req.
Take(c, pc, req) ==
    proc' = [proc EXCEPT ![c] = [Loaded(c, pc) EXCEPT !.req = req]]

\* Save d and go on to pc; a version conflict is a 409 and ends the handler.
SaveThen(c, d, pc) ==
    /\ IF Unchanged(c)
       THEN Commit(d) /\ IF pc = "done" THEN Done(c) ELSE Goto(c, pc)
       ELSE UNCHANGED <<doc, version>> /\ Done(c)
    /\ UNCHANGED <<jobs, graph, rules, faults>>

\* campaign.events.append(...) and nothing else.
Logged(d, e) == Edited(d, d.state, d.findings, <<e>>)

Closed == doc.state \in {"cancelled", "completed"}

-----------------------------------------------------------------------------
(* POST /start                                                             *)

StartKeys == {Start(c) : c \in Clients}

StartRead(c) ==
    /\ Ready(c, "start")
    /\ LET req == PendingOr(doc, StartKeys, Start(c)) IN
       IF doc.state \notin {"ready", "failed"} THEN Done(c)
       ELSE IF ~rules.scannable THEN Take(c, "block", req)
       ELSE Take(c, IF Has(doc, Requested(req)) THEN "plan" ELSE "intent", req)
    /\ ReadOnly

StartBlocked(c) ==
    /\ proc[c].pc = "block"
    /\ SaveThen(c, Logged(Snapshot(c), Event("blocked", NoKey)), "done")

\* _record_campaign_start_intent
SaveIntent(c) ==
    /\ proc[c].pc = "intent" /\ proc[c].req.kind = "start"
    /\ SaveThen(c, Logged(Snapshot(c), Requested(proc[c].req)), "plan")

\* The campaign is read again, whatever its state, and handed to the planner;
\* a planner that enqueues nothing ends the handler with planner_start_blocked.
StartPlan(c) ==
    /\ proc[c].pc = "plan"
    /\ \E plan \in Plans(doc) :
         IF plan = {} THEN Done(c)
         ELSE proc' = [proc EXCEPT ![c] = [proc[c] EXCEPT !.pc = "enqueue", !.plan = plan]]
    /\ ReadOnly

Enqueues(c) ==
    /\ proc[c].pc = "enqueue"
    /\ \/ \E k \in proc[c].plan : Enqueue(c, k)
       \/ proc[c].plan = {} /\ Goto(c, "reconcile") /\ ReadOnly

-----------------------------------------------------------------------------
(* A request for one job is saved, and the campaign read again before the  *)
(* job is enqueued.                                                        *)

\* _record_report_request, and the request that add_finding saves for a finding
\* that is there already.
SaveRequest(c) ==
    /\ proc[c].pc = "intent" /\ proc[c].req.kind # "start"
    /\ SaveThen(c, Logged(Snapshot(c), Requested(proc[c].req)), "check")

\* The second read of a handler that asks for a job of this kind.
Reread(c, kind, refused) ==
    /\ proc[c].pc = "check" /\ proc[c].req.kind = kind
    /\ IF refused THEN Done(c)
       ELSE proc' = [proc EXCEPT ![c] =
                       [proc[c] EXCEPT !.pc = "enqueue", !.plan = {proc[c].req}]]
    /\ ReadOnly

CheckFinding(c) ==
    Reread(c, "validation",
           Closed \/ doc.findings[proc[c].req.of] # "validation_required")

CheckReport(c) == Reread(c, "report", doc.state = "cancelled")

(* _reconcile_campaign_started, _reconcile_validation_queued and           *)
(* _reconcile_report_job: read, append the completion event, save, and     *)
(* start over when somebody else saved first.                              *)

\* Mutant: a start is recorded whatever the campaign's state.
X_Refused(req) ==
    CASE req.kind = "start"      -> FALSE
      [] req.kind = "validation" -> Closed \/ doc.findings[req.of] # "validation_required"
      [] req.kind = "report"     -> doc.state = "cancelled"

Refused(req) ==
    CASE req.kind = "start"      -> doc.state \notin {"ready", "failed", "running"}
      [] req.kind = "validation" -> Closed \/ doc.findings[req.of] # "validation_required"
      [] req.kind = "report"     -> doc.state = "cancelled"

Reconcile(c) ==
    /\ proc[c].pc = "reconcile"
    /\ LET req == proc[c].req IN
       IF Refused(req) \/ Has(doc, Reconciled(req)) THEN Done(c)
       ELSE Take(c, "record", req)
    /\ ReadOnly

StateAfter(d, req) ==
    IF req.kind = "start" THEN "running"
    ELSE IF req = Completion THEN "completed"
    ELSE d.state

Record(c) ==
    /\ proc[c].pc = "record"
    /\ LET d == Snapshot(c)  req == proc[c].req IN
       IF Unchanged(c)
       THEN /\ Commit(Edited(d, StateAfter(d, req), d.findings, <<Reconciled(req)>>))
            /\ Done(c)
       ELSE UNCHANGED <<doc, version>> /\ Retry(c, "reconcile", "done")
    /\ UNCHANGED <<jobs, graph, rules, faults>>

-----------------------------------------------------------------------------
(* POST /cancel                                                            *)

CancelRead(c) ==
    /\ Ready(c, "cancel")
    /\ IF Closed THEN Done(c) ELSE Take(c, "cancel", NoKey)
    /\ ReadOnly

CancelSave(c) ==
    /\ proc[c].pc = "cancel"
    /\ LET d == Snapshot(c) IN
       SaveThen(c, [Edited(d, "cancelled", d.findings, <<Event("cancelled", NoKey)>>)
                      EXCEPT !.idle = {k \in JobKeys : ~Running(k) /\ ~Completed(k)}],
                "drop")

CancelDrop(c) ==
    /\ proc[c].pc = "drop"
    /\ jobs' = CancelQueued
    /\ Done(c)
    /\ UNCHANGED <<doc, version, graph, rules, faults>>

-----------------------------------------------------------------------------
(* POST /findings                                                          *)

AddRead(c, f) ==
    /\ Ready(c, "add")
    /\ LET req == Validation(f) IN
       IF Closed THEN Done(c)
       ELSE IF doc.findings[f] = "absent" THEN Take(c, "new", req)
       ELSE IF Has(doc, Reconciled(req)) THEN Done(c)
       ELSE Take(c, IF Has(doc, Requested(req)) THEN "check" ELSE "intent", req)
    /\ ReadOnly

AddSave(c) ==
    /\ proc[c].pc = "new"
    /\ LET d == Snapshot(c)  req == proc[c].req IN
       SaveThen(c, Edited(d, "validating", [d.findings EXCEPT ![req.of] = "validation_required"],
                          <<Event("received", req), Requested(req)>>),
                "check")

-----------------------------------------------------------------------------
(* POST /findings/{id}/validate: a reviewer's verdict.  again says that    *)
(* the same validator repeats a verdict already given.                     *)

\* Mutant: a verdict needs no independent evidence.
X_ValidateRead(c, f, verdict, again) ==
    /\ Ready(c, "validate")
    /\ LET status == doc.findings[f]  req == Validation(f) IN
       IF \/ doc.state = "cancelled"
          \/ status = "absent"
          \/ status \in Resolved \ {verdict}
       THEN Done(c)
       ELSE IF status = verdict /\ again
       THEN IF AllResolved(doc) THEN Take(c, "ensure", Completion) ELSE Done(c)
       ELSE proc' = [proc EXCEPT ![c] =
                       [Loaded(c, "verdict") EXCEPT !.req = req, !.mode = verdict]]
    /\ ReadOnly

ValidateRead(c, f, verdict, again) ==
    /\ Ready(c, "validate")
    /\ LET status == doc.findings[f]  req == Validation(f) IN
       IF \/ doc.state = "cancelled"
          \/ status = "absent"
          \/ f \notin graph.observed
          \/ status \in Resolved \ {verdict}
       THEN Done(c)
       ELSE IF status = verdict /\ again
       THEN IF AllResolved(doc) THEN Take(c, "ensure", Completion) ELSE Done(c)
       ELSE proc' = [proc EXCEPT ![c] =
                       [Loaded(c, "verdict") EXCEPT !.req = req, !.mode = verdict]]
    /\ ReadOnly

\* The document a verdict leaves: the last verdict completes the campaign and
\* asks for its report in the same save.
WithVerdict(d, f, verdict) ==
    LET findings == [d.findings EXCEPT ![f] = verdict]
        validated == <<Event("validated", Validation(f))>>
    IN  IF \A g \in Present(d) : findings[g] \in Resolved
        THEN Edited(d, "completed", findings, validated \o <<Requested(Completion)>>)
        ELSE Edited(d, d.state, findings, validated)

VerdictSave(c) ==
    /\ proc[c].pc = "verdict"
    /\ LET d == WithVerdict(Snapshot(c), proc[c].req.of, proc[c].mode) IN
       SaveThen(c, d, IF AllResolved(d) THEN "complete" ELSE "done")

CompleteRead(c) ==
    /\ proc[c].pc = "complete"
    /\ Take(c, "ensure", Completion)
    /\ ReadOnly

\* _ensure_completion_report, up to its enqueue.
Ensure(c) ==
    /\ proc[c].pc = "ensure"
    /\ LET d == Snapshot(c) IN
       IF Has(d, Reconciled(Completion)) THEN Done(c) /\ ReadOnly
       ELSE IF ~Has(d, Requested(Completion))
       THEN SaveThen(c, Edited(d, "completed", d.findings, <<Requested(Completion)>>), "check")
       ELSE IF d.state # "completed"
       THEN SaveThen(c, Edited(d, "completed", d.findings, <<>>), "check")
       ELSE Goto(c, "check") /\ ReadOnly

-----------------------------------------------------------------------------
(* POST /reports                                                           *)

ReportRead(c) ==
    /\ Ready(c, "report")
    /\ LET req == PendingOr(doc, {Manual(d) : d \in Clients}, Manual(c)) IN
       IF doc.state = "cancelled" THEN Done(c)
       ELSE Take(c, IF Has(doc, Requested(req)) THEN "check" ELSE "intent", req)
    /\ ReadOnly

-----------------------------------------------------------------------------
(* POST /outbox/reconcile-local: requests whose job is in the queue but    *)
(* whose completion event was never saved get that event.                  *)

OutboxRead(c) ==
    /\ \/ Ready(c, "outbox")
       \/ proc[c].pc = "reread"
    /\ IF doc.state = "cancelled" THEN Done(c) ELSE Take(c, "diagnose", NoKey)
    /\ ReadOnly

\* Mutant: a pending request is repaired though its job was never enqueued.
X_Diagnose(c) ==
    /\ proc[c].pc = "diagnose"
    /\ LET repairable == PendingKeys(Snapshot(c), JobKeys) IN
       IF repairable = {} THEN Done(c)
       ELSE proc' = [proc EXCEPT ![c] = [proc[c] EXCEPT !.pc = "repair", !.plan = repairable]]
    /\ ReadOnly

Diagnose(c) ==
    /\ proc[c].pc = "diagnose"
    /\ LET repairable == {k \in PendingKeys(Snapshot(c), JobKeys) : Known(k)} IN
       IF repairable = {} THEN Done(c)
       ELSE proc' = [proc EXCEPT ![c] = [proc[c] EXCEPT !.pc = "repair", !.plan = repairable]]
    /\ ReadOnly

\* The repaired completions, in the order of their requests.
Repairs(d, keys) ==
    LET Place(k) == Cardinality({l \in keys : FirstAt(d, l) <= FirstAt(d, k)})
    IN  [i \in 1..Cardinality(keys) |-> Reconciled(CHOOSE k \in keys : Place(k) = i)]

Repair(c) ==
    /\ proc[c].pc = "repair"
    /\ LET d == Snapshot(c) IN
       IF Unchanged(c)
       THEN Commit(Edited(d, d.state, d.findings, Repairs(d, proc[c].plan))) /\ Done(c)
       ELSE UNCHANGED <<doc, version>> /\ Retry(c, "reread", "done")
    /\ UNCHANGED <<jobs, graph, rules, faults>>

-----------------------------------------------------------------------------
\* The process that runs the handler dies.
HandlerDies(c) ==
    /\ proc[c].pc \notin {"ready", "done"}
    /\ Done(c)
    /\ UNCHANGED shared /\ Fault

Handler(c) ==
    \/ StartRead(c) \/ StartBlocked(c) \/ SaveIntent(c) \/ StartPlan(c)
    \/ Enqueues(c) \/ SaveRequest(c) \/ CheckFinding(c) \/ CheckReport(c)
    \/ Reconcile(c) \/ Record(c)
    \/ CancelRead(c) \/ CancelSave(c) \/ CancelDrop(c)
    \/ \E f \in Findings : AddRead(c, f)
    \/ AddSave(c)
    \/ \E f \in Findings, verdict \in Resolved, again \in BOOLEAN :
         ValidateRead(c, f, verdict, again)
    \/ VerdictSave(c) \/ CompleteRead(c) \/ Ensure(c)
    \/ ReportRead(c)
    \/ OutboxRead(c) \/ Diagnose(c) \/ Repair(c)
=============================================================================
