---------------------------- MODULE BatchCoordinator ----------------------------
(***************************************************************************)
(* HackerOne batches (backend/app/hackerone_batch.py and the batch         *)
(* handlers of hackerone_api.py).                                          *)
(*                                                                         *)
(* A batch is a versioned document that lists campaigns to be run one      *)
(* after the other or all at once.  Whoever reconciles it (every loop of   *)
(* the general workers, every GET of the batch) works on a copy: it looks  *)
(* at the campaigns of the running members, starts campaigns, and then     *)
(* saves the copy under the version it read.  The campaigns are started    *)
(* BEFORE the save, so a save that is refused, and a coordinator that      *)
(* dies, leave campaigns behind that the document calls ready.             *)
(*                                                                         *)
(* Of a campaign only what the coordinators can see is kept: its state,    *)
(* its start requests and its job counts (Campaign has the rest).          *)
(***************************************************************************)
EXTENDS Naturals, FiniteSets

CONSTANTS
    Size,           \* how many campaigns the batch has (1..20)
    Coordinators,   \* general workers and GET handlers
    Loops,          \* those of them that are workers and come back for ever
    MaxRounds,      \* rounds of reconcile_hackerone_batch (3)
    MaxAttempts,    \* _REMOTE_REVALIDATION_MAX_ATTEMPTS (8)
    Scenarios       \* what happens around the batch, see BatchAssumption

Members == 1..Size      \* in the order of the batch
Modes == {"sequential", "parallel"}

ASSUME BatchAssumption ==
    /\ Size \in Nat \ {0}
    /\ Loops \subseteq Coordinators
    /\ MaxRounds \in Nat \ {0} /\ MaxAttempts \in Nat \ {0}
    /\ \A s \in Scenarios : /\ s.mode \in Modes
                            /\ s.active \subseteq Coordinators
                            /\ s.answers \subseteq {"ok", "review", "unavailable"}
                            /\ s.scans \subseteq {"ready", "validating", "completed"}
                            /\ s.reviewed \subseteq Members \* whose findings get a last verdict
                            /\ s.faults \in Nat     \* crashes, conflicts, failures
                            /\ s.jobs \in Nat       \* jobs after the first, per campaign
                            /\ s.aborts \in Nat     \* POST .../cancel, of the batch or a campaign
                            /\ s.expires \in BOOLEAN \* may a campaign's runtime run out?

VARIABLES
    scenario,   \* the one this behaviour runs; never changes
    batch,      \* the saved document
    campaign,   \* what coordinators see of each member's campaign
    coord,      \* each coordinator inside reconcile_hackerone_batch
    cancel,     \* the handler of POST .../cancel
    faults,     \* how many more things may go wrong
    aborts      \* how many more cancels may come

vars == <<scenario, batch, campaign, coord, cancel, faults, aborts>>

TerminalStatuses == {"done", "review", "blocked", "cancelled"}
Statuses         == {"ready", "running"} \cup TerminalStatuses
Startable        == {"ready", "failed"}
Live(m)          == campaign[m].queued + campaign[m].running > 0

\* A reason is kept only as to who gave it: a start, or a cancel that failed.
Member == [status: Statuses, attempts: 0..MaxAttempts, reason: {"none", "start", "cancel"}]

FirstReady(ms) == {m \in Members : /\ ms[m].status = "ready"
                                   /\ \A i \in 1..(m - 1) : ms[i].status # "ready"}
RunningIn(ms)  == {m \in Members : ms[m].status = "running"}
ReadyIn(ms)    == {m \in Members : ms[m].status = "ready"}

BatchState(ms) ==
    IF \A m \in Members : ms[m].status \in TerminalStatuses THEN "completed"
    ELSE IF RunningIn(ms) # {} THEN "running" ELSE "queued"

\* Mutant: the running members are forgotten.
X_ToStart(ms) ==
    IF scenario.mode = "parallel" THEN ReadyIn(ms) ELSE FirstReady(ms)

\* Both modes try members in their order; sequential at most one, and none
\* while another one runs.
ToStart(ms) ==
    CASE scenario.mode = "parallel"   -> ReadyIn(ms)
      [] scenario.mode = "sequential" -> IF RunningIn(ms) = {} THEN FirstReady(ms) ELSE {}

Least(S) == CHOOSE m \in S : \A i \in S : m <= i

IdleCoord == [pc |-> "idle", round |-> 0, state |-> "queued", fresh |-> FALSE,
              members |-> [m \in Members |-> [status |-> "ready", attempts |-> 0,
                                              reason |-> "none"]],
              todo |-> {}, request |-> 0, changed |-> FALSE]

NoCancel == [pc |-> "idle", fresh |-> FALSE, members |-> IdleCoord.members, todo |-> {}]

Init ==
    \E s \in Scenarios :
      /\ scenario = s
      /\ faults = s.faults
      /\ aborts = s.aborts
      /\ batch = [state |-> "queued", members |-> IdleCoord.members]
      /\ campaign = [m \in Members |-> [state |-> "ready", asked |-> 0, started |-> 0,
                                        queued |-> 0, running |-> 0, ended |-> "none",
                                        left |-> s.jobs, scanned |-> FALSE,
                                        spent |-> FALSE, stopped |-> FALSE,
                                        review |-> IF m \in s.reviewed THEN "due" ELSE "none",
                                        overruled |-> FALSE]]
      /\ coord = [c \in Coordinators |-> IdleCoord]
      /\ cancel = NoCancel

Fault == faults > 0 /\ faults' = faults - 1

-----------------------------------------------------------------------------
(* reconcile_hackerone_batch: read, settle the running members             *)

\* Running members are settled in turn, then the members to start are known.
Settling(l) ==
    IF l.todo # {} THEN [l EXCEPT !.pc = "settle"]
                   ELSE [l EXCEPT !.pc = "start", !.todo = ToStart(l.members)]

Goto(c, pc) == coord' = [coord EXCEPT ![c].pc = pc]

\* What a coordinator does when it returns: a worker comes back later.
Returned(c) == [IdleCoord EXCEPT !.pc = IF c \in Loops THEN "idle" ELSE "gone"]
Return(c)   == coord' = [coord EXCEPT ![c] = Returned(c)]

Read(c) ==
    /\ c \in scenario.active
    /\ coord[c].pc = "idle"
    /\ \/ /\ batch.state \in {"completed", "cancelled"}
          /\ c \notin Loops
          /\ Return(c)
       \/ /\ batch.state \notin {"completed", "cancelled"}
          /\ coord' = [coord EXCEPT ![c] =
               Settling([IdleCoord EXCEPT !.round = coord[c].round + 1, !.state = batch.state,
                                          !.fresh = TRUE, !.members = batch.members,
                                          !.todo = RunningIn(batch.members)])]
    /\ UNCHANGED <<scenario, aborts, batch, campaign, cancel, faults>>

Settled(c, m, status) ==
    coord' = [coord EXCEPT ![c] =
                Settling([coord[c] EXCEPT !.members[m].status = status,
                                          !.todo = coord[c].todo \ {m},
                                          !.changed = coord[c].changed
                                                        \/ status # "running"])]

\* _member_finished: first the state of the campaign ...
FinalOf(state) ==
    CASE state = "cancelled" -> "cancelled"
      [] state = "failed"    -> "blocked"
      [] state = "completed" -> "done"
      [] OTHER               -> "running"

SettleState(c) ==
    LET m == Least(coord[c].todo) IN
    /\ coord[c].pc = "settle"
    /\ IF FinalOf(campaign[m].state) # "running"
         THEN Settled(c, m, FinalOf(campaign[m].state))
         ELSE Goto(c, "count")
    /\ UNCHANGED <<scenario, aborts, batch, campaign, cancel, faults>>

\* ... and if that is open, its jobs.
SettleJobs(c) ==
    LET m == Least(coord[c].todo) IN
    /\ coord[c].pc = "count"
    /\ Settled(c, m, CASE Live(m) \/ campaign[m].ended = "none" -> "running"
                       [] ~Live(m) /\ campaign[m].ended = "failed" -> "review"
                       [] ~Live(m) /\ campaign[m].ended = "fine"   -> "done")
    /\ UNCHANGED <<scenario, aborts, batch, campaign, cancel, faults>>

-----------------------------------------------------------------------------
(* _start_member, for the members to be started in turn                    *)

Following(c) == Least(coord[c].todo)

\* _clear_retry_state goes with every outcome but a scheduled retry.
Outcome(c, status, reason, attempts) ==
    LET m == Following(c) IN
    coord' = [coord EXCEPT ![c].members[m] = [status |-> status, attempts |-> attempts,
                                              reason |-> reason],
                           ![c].todo = @ \ {m}, ![c].pc = "start", ![c].request = 0,
                           ![c].changed = TRUE]

\* Not due yet: the delay of the last failed revalidation has not passed.
NotDue(c) ==
    /\ coord[c].pc = "start" /\ coord[c].todo # {}
    /\ coord[c].members[Following(c)].attempts > 0
    /\ coord' = [coord EXCEPT ![c].todo = @ \ {Following(c)}]
    /\ UNCHANGED <<scenario, aborts, batch, campaign, cancel, faults>>

\* Mutant: the retry budget is not enforced.
X_ScheduleRetry(c) ==
    Outcome(c, "ready", "start",
            LET n == coord[c].members[Following(c)].attempts + 1
            IN  IF n >= MaxAttempts THEN MaxAttempts ELSE n)

ScheduleRetry(c) ==
    LET n == coord[c].members[Following(c)].attempts + 1 IN
    IF n >= MaxAttempts THEN Outcome(c, "review", "start", 0)
                        ELSE Outcome(c, "ready", "start", n)

\* The program's snapshot at HackerOne: as reviewed, changed, or not to be had.
Revalidate(c) ==
    /\ coord[c].pc = "start" /\ coord[c].todo # {}
    /\ \/ "ok" \in scenario.answers /\ Goto(c, "ask")
       \/ "review" \in scenario.answers /\ Outcome(c, "review", "start", 0)
       \/ "unavailable" \in scenario.answers /\ ScheduleRetry(c)
    /\ UNCHANGED <<scenario, aborts, batch, campaign, cancel, faults>>

\* start_campaign up to the saved intent: the pending request, or a new one.
Ask(c) ==
    LET m == Following(c)
        k == campaign[m]
        request == IF k.asked > k.started THEN k.asked ELSE k.asked + 1
    IN
    /\ coord[c].pc = "ask"
    /\ IF k.state \in Startable
         THEN /\ campaign' = [campaign EXCEPT ![m].asked = request]
              /\ coord' = [coord EXCEPT ![c].pc = "plan", ![c].request = request]
         ELSE Goto(c, "refused") /\ UNCHANGED campaign
    /\ UNCHANGED <<scenario, aborts, batch, cancel, faults>>

\* The planner stops, for good or until an operator helps: the runtime, counted
\* from the campaign's creation, is spent; a job of the campaign has failed, which
\* closes the autonomy gate; the circuit breaker is open, a budget is used up or
\* there is nothing left to plan (stopped); or the campaign is closed.  The start
\* reports it as a 409.
PlannerRefuses(m) ==
    \/ campaign[m].spent
    \/ campaign[m].ended = "failed"
    \/ campaign[m].stopped
    \/ campaign[m].state \in {"cancelled", "completed"}

\* The planner puts the first job; asked again it finds the jobs of the
\* campaign, or has another one to put.
Plan(c) ==
    LET m == Following(c) IN
    /\ coord[c].pc = "plan"
    /\ \/ PlannerRefuses(m) /\ Goto(c, "refused") /\ UNCHANGED campaign
       \/ /\ ~PlannerRefuses(m)
          /\ Goto(c, "confirm")
          /\ \/ /\ Live(m) \/ campaign[m].ended # "none"
                /\ UNCHANGED campaign
             \/ /\ ~Live(m) /\ campaign[m].ended = "none"
                /\ campaign' = [campaign EXCEPT ![m].queued = 1]
             \/ /\ ~Live(m) /\ campaign[m].ended # "none" /\ campaign[m].left > 0
                /\ campaign' = [campaign EXCEPT ![m].queued = 1, ![m].left = @ - 1]
    /\ UNCHANGED <<scenario, aborts, batch, cancel, faults>>

\* _reconcile_campaign_started.
Confirm(c) ==
    LET m == Following(c)
        k == campaign[m]
    IN
    /\ coord[c].pc = "confirm"
    /\ \/ /\ k.started >= coord[c].request
          /\ Outcome(c, "running", "none", 0)
          /\ UNCHANGED campaign
       \/ /\ k.started < coord[c].request
          /\ k.state \in Startable \cup {"running"}
          /\ campaign' = [campaign EXCEPT ![m].state = "running",
                                          ![m].started = coord[c].request]
          /\ Outcome(c, "running", "none", 0)
       \/ /\ k.started < coord[c].request
          /\ k.state \notin Startable \cup {"running"}
          /\ Goto(c, "refused")
          /\ UNCHANGED campaign
    /\ UNCHANGED <<scenario, aborts, batch, cancel, faults>>

\* A save of the start conflicts, or this planning has nothing to schedule: 409.
Conflict(c) ==
    /\ coord[c].pc \in {"ask", "plan", "confirm"}
    /\ Goto(c, "refused")
    /\ Fault
    /\ UNCHANGED <<scenario, aborts, batch, campaign, cancel>>

\* The policy forbids the start: 403.
Forbidden(c) ==
    /\ coord[c].pc = "ask" /\ campaign[Following(c)].state \in Startable
    /\ Goto(c, "forbidden")
    /\ Fault
    /\ UNCHANGED <<scenario, aborts, batch, campaign, cancel>>

\* Any other exception.
Broken(c) ==
    /\ coord[c].pc \in {"ask", "plan", "confirm"}
    /\ Outcome(c, "blocked", "start", 0)
    /\ Fault
    /\ UNCHANGED <<scenario, aborts, batch, campaign, cancel>>

\* After an error the state is read again and decides what became of the
\* member; only a conflict (409) is tried again.
Refused(c) ==
    LET state == campaign[Following(c)].state IN
    /\ coord[c].pc \in {"refused", "forbidden"}
    /\ CASE state = "running"   -> Outcome(c, "running", "none", 0)
         [] state = "completed" -> Outcome(c, "done", "none", 0)
         [] state = "cancelled" -> Outcome(c, "cancelled", "none", 0)
         [] state \in Startable /\ coord[c].pc = "refused" -> Outcome(c, "ready", "start", 0)
         [] OTHER               -> Outcome(c, "blocked", "start", 0)
    /\ UNCHANGED <<scenario, aborts, batch, campaign, cancel, faults>>

-----------------------------------------------------------------------------
(* the save, under the version that was read                               *)

\* The version is a counter that every save raises: a copy has the current one
\* until the next save, by whomever.
AllStale == [d \in Coordinators |-> [coord[d] EXCEPT !.fresh = FALSE]]

\* Mutant: the update does not compare versions.
X_Current(copy) == TRUE

Current(copy) == copy.fresh

NextState(c) == BatchState(coord[c].members)

Changed(c) == coord[c].changed \/ NextState(c) # coord[c].state

Save(c) ==
    /\ coord[c].pc = "start" /\ coord[c].todo = {}
    /\ \/ /\ ~Changed(c)
          /\ Return(c)
          /\ UNCHANGED <<batch, cancel>>
       \/ /\ Changed(c) /\ Current(coord[c])
          /\ batch' = [state |-> NextState(c), members |-> coord[c].members]
          /\ coord' = [AllStale EXCEPT ![c] = Returned(c)]
          /\ cancel' = [cancel EXCEPT !.fresh = FALSE]
       \/ /\ Changed(c) /\ ~Current(coord[c])
          /\ IF coord[c].round < MaxRounds
               THEN coord' = [coord EXCEPT ![c] = [IdleCoord EXCEPT !.round = coord[c].round]]
               ELSE Return(c)
          /\ UNCHANGED <<batch, cancel>>
    /\ UNCHANGED <<scenario, aborts, campaign, faults>>

\* The worker or the API process dies between two of these steps.
Dies(c) ==
    /\ coord[c].pc \notin {"idle", "gone"}
    /\ Return(c)
    /\ Fault
    /\ UNCHANGED <<scenario, aborts, batch, campaign, cancel>>

-----------------------------------------------------------------------------
(* cancel_hackerone_batch                                                  *)

CancelRead ==
    /\ cancel.pc = "idle" /\ aborts > 0 /\ aborts' = aborts - 1
    /\ batch.state # "cancelled"
    /\ cancel' = [pc |-> "members", fresh |-> TRUE, members |-> batch.members,
                  todo |-> {m \in Members :
                              batch.members[m].status \notin {"done", "cancelled"}}]
    /\ UNCHANGED <<scenario, batch, campaign, coord, faults>>

CancelCampaign(m) ==
    campaign' = [campaign EXCEPT ![m].state = "cancelled", ![m].queued = 0,
                                 ![m].ended = IF campaign[m].queued > 0 /\ @ = "none"
                                                THEN "fine" ELSE @]

\* Mutant: a cancel that failed leaves no reason.
X_MarkCancelled(m, reason) ==
    cancel' = [cancel EXCEPT !.members[m].status = "cancelled", !.todo = @ \ {m}]

MarkCancelled(m, reason) ==
    cancel' = [cancel EXCEPT !.members[m].status = "cancelled", !.todo = @ \ {m},
                             !.members[m].reason = IF reason = "none" THEN @ ELSE reason]

\* One member: its campaign is cancelled, or already was, or cannot be because
\* it is completed or its save conflicts; the member is marked all the same.
CancelMember ==
    LET m == Least(cancel.todo) IN
    /\ cancel.pc = "members" /\ cancel.todo # {}
    /\ \/ /\ campaign[m].state \notin {"completed", "cancelled"}
          /\ CancelCampaign(m) /\ MarkCancelled(m, "none")
          /\ UNCHANGED faults
       \/ /\ campaign[m].state = "cancelled"
          /\ MarkCancelled(m, "none")
          /\ UNCHANGED <<campaign, faults>>
       \/ /\ campaign[m].state = "completed"
          /\ MarkCancelled(m, "cancel")
          /\ UNCHANGED <<campaign, faults>>
       \/ /\ campaign[m].state \notin {"completed", "cancelled"}
          /\ MarkCancelled(m, "cancel")
          /\ Fault /\ UNCHANGED campaign
    /\ UNCHANGED <<scenario, aborts, batch, coord>>

CancelSave ==
    /\ cancel.pc = "members" /\ cancel.todo = {}
    /\ cancel' = NoCancel
    /\ IF Current(cancel)
         THEN /\ batch' = [state |-> "cancelled", members |-> cancel.members]
              /\ coord' = AllStale
         ELSE UNCHANGED <<batch, coord>>
    /\ UNCHANGED <<scenario, aborts, campaign, faults>>

CancelDies ==
    /\ cancel.pc = "members"
    /\ cancel' = NoCancel
    /\ Fault
    /\ UNCHANGED <<scenario, aborts, batch, campaign, coord>>

-----------------------------------------------------------------------------
(* The campaigns run on: what their workers, reviewers and the clock do.    *)

Others == <<scenario, batch, coord, cancel, faults>>
Working(m) == campaign[m].running > 0

Claimed(m) ==
    /\ campaign[m].queued > 0
    /\ campaign' = [campaign EXCEPT ![m].queued = @ - 1, ![m].running = @ + 1,
                                    ![m].scanned = FALSE]
    /\ UNCHANGED <<Others, aborts>>

\* A scan moves the campaign on, once: nothing found, findings to validate, or a
\* dry run, after which the campaign is ready again.  A scan that is run again
\* reopens a completed campaign; only a cancelled one is left alone.
Scanned(m) ==
    /\ Working(m) /\ ~campaign[m].scanned
    /\ campaign[m].state # "cancelled"
    /\ \E state \in scenario.scans :
         campaign' = [campaign EXCEPT ![m].state = state, ![m].scanned = TRUE]
    /\ UNCHANGED <<Others, aborts>>

\* The planner at the end of a job, before the job is finished.
FollowedUp(m) ==
    /\ Working(m) /\ ~PlannerRefuses(m) /\ campaign[m].left > 0
    /\ campaign' = [campaign EXCEPT ![m].queued = @ + 1, ![m].left = @ - 1]
    /\ UNCHANGED <<Others, aborts>>

Finished(m) ==
    /\ Working(m)
    /\ \E result \in {"fine", "failed"} :
         campaign' = [campaign EXCEPT ![m].running = @ - 1,
                                      ![m].ended = IF @ = "failed" THEN @ ELSE result]
    /\ UNCHANGED <<Others, aborts>>

\* The worker of a job dies and its lease runs out: the job is queued again.
Requeued(m) ==
    /\ Working(m)
    /\ campaign' = [campaign EXCEPT ![m].running = @ - 1, ![m].queued = @ + 1]
    /\ faults > 0 /\ faults' = faults - 1
    /\ UNCHANGED <<scenario, batch, coord, cancel, aborts>>

\* The breaker opens, a budget is used up, or the graph leaves nothing to plan ...
Stopped(m) ==
    /\ ~campaign[m].stopped
    /\ campaign' = [campaign EXCEPT ![m].stopped = TRUE]
    /\ faults > 0 /\ faults' = faults - 1
    /\ UNCHANGED <<scenario, batch, coord, cancel, aborts>>

\* ... until an operator resets the breaker or somebody adds to the graph.
Resumed(m) ==
    /\ campaign[m].stopped
    /\ campaign' = [campaign EXCEPT ![m].stopped = FALSE]
    /\ UNCHANGED <<Others, aborts>>

\* validate_finding, the last verdict: saved, with the state completed, only if
\* the campaign was not cancelled; the job of the report is still to come.
Judged(m) ==
    /\ campaign[m].review = "due" /\ campaign[m].started > 0
    /\ campaign[m].state # "cancelled"
    /\ campaign' = [campaign EXCEPT ![m].state = "completed", ![m].review = "judged"]
    /\ UNCHANGED <<Others, aborts>>

\* _ensure_completion_report on a new read of the campaign, which does not ask
\* whether it was cancelled meanwhile: any other state becomes completed.
Overrules(m) ==
    /\ campaign[m].review = "judged"
    /\ campaign' = [campaign EXCEPT ![m].state = "completed", ![m].review = "ensured",
                                    ![m].overruled = @ \/ campaign[m].state = "cancelled"]
    /\ UNCHANGED <<Others, aborts>>

\* The report is queued unless the campaign, read once more, is cancelled ...
Reported(m) ==
    /\ campaign[m].review = "ensured"
    /\ campaign' = IF campaign[m].state = "cancelled"
                      THEN [campaign EXCEPT ![m].review = "none"]
                      ELSE [campaign EXCEPT ![m].queued = @ + 1, ![m].review = "queued"]
    /\ UNCHANGED <<Others, aborts>>

\* ... and its completion event saved, with the state completed, on the same terms.
Recorded(m) ==
    /\ campaign[m].review = "queued"
    /\ campaign' = [campaign EXCEPT ![m].review = "none",
                       ![m].state = IF @ = "cancelled" THEN @ ELSE "completed"]
    /\ UNCHANGED <<Others, aborts>>

\* The handler of the verdict meets a conflict or dies; it may be called again.
ReviewEnds(m) ==
    /\ campaign[m].review \in {"judged", "ensured", "queued"}
    /\ campaign' = [campaign EXCEPT ![m].review = "due"]
    /\ faults > 0 /\ faults' = faults - 1
    /\ UNCHANGED <<scenario, batch, coord, cancel, aborts>>

CampaignCancelled(m) ==
    /\ aborts > 0 /\ aborts' = aborts - 1
    /\ campaign[m].state \notin {"completed", "cancelled"}
    /\ CancelCampaign(m)
    /\ UNCHANGED Others

\* XBOW_CAMPAIGN_MAX_RUNTIME_SECONDS (6 hours) after the campaigns were created,
\* which they all were when the batch was launched.
RuntimeSpent ==
    /\ scenario.expires
    /\ \E m \in Members : batch.members[m].status # "ready"
    /\ \A m \in Members : ~campaign[m].spent
    /\ campaign' = [m \in Members |-> [campaign[m] EXCEPT !.spent = TRUE]]
    /\ UNCHANGED <<Others, aborts>>

-----------------------------------------------------------------------------

Reconciles(c) ==
    \/ Read(c) \/ SettleState(c) \/ SettleJobs(c)
    \/ NotDue(c) \/ Revalidate(c)
    \/ Ask(c) \/ Plan(c) \/ Confirm(c) \/ Refused(c)
    \/ Conflict(c) \/ Forbidden(c) \/ Broken(c)
    \/ Save(c)

Cancels == CancelRead \/ CancelMember \/ CancelSave \/ CancelDies

Works(m) == Claimed(m) \/ Scanned(m) \/ FollowedUp(m) \/ Finished(m) \/ Requeued(m)

Reviews(m) == Judged(m) \/ Overrules(m) \/ Reported(m) \/ Recorded(m) \/ ReviewEnds(m)

Next ==
    \/ \E c \in Coordinators : Reconciles(c) \/ Dies(c)
    \/ Cancels
    \/ \E m \in Members : \/ Works(m) \/ Reviews(m) \/ CampaignCancelled(m)
                          \/ Stopped(m) \/ Resumed(m)
    \/ RuntimeSpent

Spec == Init /\ [][Next]_vars

\* Workers loop for ever and claim and finish what is queued; a retry is due at
\* some time; handlers run to their end.
Fairness ==
    /\ \A c \in Coordinators : WF_vars(Reconciles(c)) /\ SF_vars(Revalidate(c))
                                                     /\ SF_vars(Save(c))
    /\ WF_vars(CancelMember) /\ WF_vars(CancelSave)
    /\ \A m \in Members : WF_vars(Claimed(m)) /\ WF_vars(Finished(m))

LiveSpec == Spec /\ Fairness

-----------------------------------------------------------------------------
(* Properties.                                                             *)

\* What is saved is one plan, though every coordinator works on its own copy and
\* starts campaigns before it saves: the state is the one the members imply, a
\* retry is scheduled only for a ready member and within the budget, and a
\* sequential batch runs one member at a time (reconcile_hackerone_batch).
DocumentConsistent ==
    /\ batch.members \in [Members -> Member]
    /\ batch.state # "cancelled" => batch.state = BatchState(batch.members)
    /\ \A m \in Members :
         batch.members[m].attempts > 0 => batch.members[m].status \in {"ready", "cancelled"}
    /\ scenario.mode = "sequential" => Cardinality(RunningIn(batch.members)) <= 1

\* What a batch has settled stays settled: a member that is done, for review,
\* blocked or cancelled is never put back by a coordinator that read the batch
\* before; only the cancellation of the batch still marks it.
SettledStays ==
    [][ \A m \in Members :
          batch.members[m].status \in TerminalStatuses =>
             batch'.members[m].status \in {batch.members[m].status, "cancelled"} ]_batch

\* A cancelled member whose cancel did not fail has a cancelled campaign, however
\* the cancellation interleaved with starts that were under way: only the handler
\* of a last verdict can have completed it since (_ensure_completion_report).
CancelIsHonest ==
    \A m \in Members :
      batch.members[m].status = "cancelled" /\ batch.members[m].reason # "cancel"
        => campaign[m].state = "cancelled" \/ campaign[m].overruled

\* The next member's campaign can be started, but the planner has a reason not to.
Stuck(m) ==
    /\ batch.members[m].status = "ready"
    /\ campaign[m].state \in Startable
    /\ PlannerRefuses(m)

\* A batch ends, though its coordinators die, conflict and retry, unless again and
\* again the planner refuses a campaign it is about to start: that is answered
\* like a conflict, and tried again without limit (_start_member).
BatchEnds ==
    <>[](\A m \in Members : ~Stuck(m)) => <>(batch.state \in {"completed", "cancelled"})

\* README.md:353 "when its queued/running worker jobs drain, the server starts
\* the next reviewed campaign": the next one does not stay ready for ever.
NextIsStarted ==
    \A m \in Members :
      (batch.state = "queued" /\ m \in FirstReady(batch.members))
        ~> (batch.members[m].status # "ready" \/ batch.state = "cancelled")
=============================================================================
