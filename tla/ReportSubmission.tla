--------------------------- MODULE ReportSubmission ---------------------------
(***************************************************************************)
(* One report artifact of a campaign from its approval to HackerOne and    *)
(* back: the two approval APIs (submission_api.py, report_approval_api.py),*)
(* the recorded submission, the direct submission to HackerOne             *)
(* (hackerone_api.submit_hackerone_report) and the worker that copies the  *)
(* remote status into the campaign (hackerone_report_sync_worker.py).      *)
(*                                                                         *)
(* Everything is an event of the campaign document, saved under its        *)
(* version: a save whose version has moved answers 409 and changes         *)
(* nothing.  A handler that commits has therefore read the document it     *)
(* replaces, and a read with its save is one step here; NothingLost of     *)
(* Campaign.tla is about the version check itself.  What lies between two  *)
(* saves of one handler, or outside the document, is a step of its own.    *)
(*                                                                         *)
(* A basis stands for what report_basis_digest covers: the report's bytes, *)
(* the confirmed findings and the rules.                                   *)
(***************************************************************************)
EXTENDS Integers, Sequences, FiniteSets

CONSTANTS
    Bases,          \* [id, confirmed, ready, direct]: states of findings and rules
    Reviewers,
    Submitters,     \* requests to submit-to-hackerone in progress
    Platforms,      \* what a person names when marking a report submitted
    Activities,     \* sequence of "state", "needs-info" and "comment": what
                    \* happens to a report at HackerOne
    Bounds          \* [bases, cancels, events, reports, activities]: what one
                    \* behaviour has at most of each

ASSUME SubmissionAssumption ==
    /\ \A b \in Bases : /\ b.confirmed \in Nat
                        /\ b.ready \in BOOLEAN
                        /\ b.direct \in BOOLEAN
    /\ Activities \in Seq({"state", "needs-info", "comment"})
    /\ \A b \in Bounds : /\ b.bases \subseteq Bases
                         /\ b.cancels \in BOOLEAN
                         /\ {b.events, b.reports} \subseteq Nat
                         /\ b.activities \in 0..Len(Activities)

VARIABLES
    bound,          \* the bounds of this behaviour
    basis,          \* the current findings and rules of the campaign
    cancelled,      \* the campaign is cancelled
    events,         \* the events of the report in the campaign document
    synced,         \* its status and activity events, which only the worker reads
    request,        \* [Submitters -> the submission request in progress]
    remote,         \* the reports at HackerOne, in the order they were made
    worker          \* what the sync worker has fetched and not yet recorded

vars == <<bound, basis, cancelled, events, synced, request, remote, worker>>

Idle == [at |-> "idle", attempt |-> 0]
Nothing == [report |-> 0, seen |-> 0]

----------------------------------------------------------------------------
(* report_approval.py and submission_state.py *)
ApprovalTypes == {"report_approved", "report_approval_revoked"}

Where(types) == {i \in DOMAIN events : events[i].type \in types}

Latest(S) == IF S = {} THEN 0 ELSE CHOOSE i \in S : \A j \in S : j <= i

LatestApproval == Latest(Where(ApprovalTypes))

ApprovalStands ==
    LatestApproval > 0 /\ events[LatestApproval].type = "report_approved"

\* Mutant: an approval outlives a change of the findings or rules.
Approved_AnyBasis == ApprovalStands

(* approval_status: the latest approval, while its basis is still current. *)
Approved == ApprovalStands /\ events[LatestApproval].basis = basis

ApprovedBy(r) == Approved /\ events[LatestApproval].by = r

(* submission_status: a submission counts for the approval it follows. *)
CurrentSubmissions == {i \in Where({"report_submitted"}) : i > LatestApproval}

Submitted == Approved /\ CurrentSubmissions # {}

AwaitsSubmission == Approved /\ CurrentSubmissions = {}

Record(e) == Len(events) < bound.events /\ events' = Append(events, e)

----------------------------------------------------------------------------
(* submission_api.approve_report: the confirmed findings must be ready for *)
(* review; a cancelled campaign is not refused.                            *)
ApproveWhenReady(r) ==
    /\ basis.confirmed > 0
    /\ basis.ready
    /\ ~ ApprovedBy(r)
    /\ Record([type |-> "report_approved", by |-> r, basis |-> basis])
    /\ UNCHANGED <<bound, basis, cancelled, synced, request, remote, worker>>

(* report_approval_api.approve_report: no look at the findings. *)
Approve(r) ==
    /\ ~ cancelled
    /\ ~ ApprovedBy(r)
    /\ Record([type |-> "report_approved", by |-> r, basis |-> basis])
    /\ UNCHANGED <<bound, basis, cancelled, synced, request, remote, worker>>

(* submission_api.revoke_report_approval: also without any approval. *)
RevokeAny ==
    /\ LatestApproval > 0 => ApprovalStands
    /\ Record([type |-> "report_approval_revoked"])
    /\ UNCHANGED <<bound, basis, cancelled, synced, request, remote, worker>>

(* report_approval_api.revoke_report_approval *)
RevokeActive ==
    /\ ~ cancelled
    /\ ApprovalStands
    /\ Record([type |-> "report_approval_revoked"])
    /\ UNCHANGED <<bound, basis, cancelled, synced, request, remote, worker>>

(* mark_report_submitted: a person records a submission made elsewhere. *)
MarkSubmitted(platform) ==
    /\ AwaitsSubmission
    /\ Record([type |-> "report_submitted", platform |-> platform])
    /\ UNCHANGED <<bound, basis, cancelled, synced, request, remote, worker>>

(* The findings or rules of the campaign change, or it is cancelled. *)
Edit(b) ==
    /\ ~ cancelled
    /\ b \in bound.bases \ {basis}
    /\ basis' = b
    /\ UNCHANGED <<bound, cancelled, events, synced, request, remote, worker>>

Cancel ==
    /\ bound.cancels
    /\ ~ cancelled
    /\ cancelled' = TRUE
    /\ UNCHANGED <<bound, basis, events, synced, request, remote, worker>>

----------------------------------------------------------------------------
(* submit_hackerone_report *)
Resolutions == {"hackerone_report_submitted", "hackerone_submission_rejected"}

(* Attempts are known by their place among the events (request_id). *)
Resolved(i) == \E j \in Where(Resolutions) : j > i /\ events[j].attempt = i

LatestAttempt == Latest(Where({"hackerone_submission_attempted"}))

(* _unresolved_hackerone_attempt *)
Unresolved == LatestAttempt > 0 /\ ~ Resolved(LatestAttempt)

\* Mutant: an unresolved attempt does not block the next one.
MayAttempt_Retry ==
    /\ ~ Submitted
    /\ Approved
    /\ basis.direct

MayAttempt ==
    /\ ~ Submitted
    /\ ~ Unresolved
    /\ Approved
    /\ basis.direct

(* The attempt is saved before anything is sent; the outgoing report is    *)
(* made of the document it was saved with.                                 *)
Attempt(s) ==
    /\ request[s].at = "idle"
    /\ MayAttempt
    /\ Record([type |-> "hackerone_submission_attempted", basis |-> basis])
    /\ request' = [request EXCEPT
         ![s] = [at |-> "posting", attempt |-> Len(events) + 1]]
    /\ UNCHANGED <<bound, basis, cancelled, synced, remote, worker>>

(* What was sent for attempt i. *)
Sent(i) == events[i].basis

NewReport(s) ==
    Append(remote, [attempt |-> request[s].attempt, seen |-> 0])

(* HackerOne creates the report and its answer comes back. *)
PostAccepted(s) ==
    /\ request[s].at = "posting"
    /\ Len(remote) < bound.reports
    /\ remote' = NewReport(s)
    /\ request' = [request EXCEPT ![s].at = "accepted"]
    /\ UNCHANGED <<bound, basis, cancelled, events, synced, worker>>

(* HackerOne answers 4xx: there is no report. *)
PostRefused(s) ==
    /\ request[s].at = "posting"
    /\ request' = [request EXCEPT ![s].at = "refused"]
    /\ UNCHANGED <<bound, basis, cancelled, events, synced, remote, worker>>

(* A timeout, a 5xx or an invalid answer: the report may exist or not, and *)
(* the attempt stays unresolved.                                           *)
PostUnknown(s) ==
    /\ request[s].at = "posting"
    /\ \/ Len(remote) < bound.reports /\ remote' = NewReport(s)
       \/ remote' = remote
    /\ request' = [request EXCEPT ![s] = Idle]
    /\ UNCHANGED <<bound, basis, cancelled, events, synced, worker>>

(* The report just made for request s. *)
ReportOf(s) == CHOOSE k \in DOMAIN remote : remote[k].attempt = request[s].attempt

(* The campaign is read again and both events are added to it: not one     *)
(* check of submission_status or of the approval is made again.            *)
RecordAccepted(s) ==
    /\ request[s].at = "accepted"
    /\ Len(events) + 2 <= bound.events
    /\ events' = events \o
         <<[type |-> "hackerone_report_submitted", attempt |-> request[s].attempt,
            report |-> ReportOf(s)],
           [type |-> "report_submitted", platform |-> "hackerone"]>>
    /\ request' = [request EXCEPT ![s] = Idle]
    /\ UNCHANGED <<bound, basis, cancelled, synced, remote, worker>>

RecordRefused(s) ==
    /\ request[s].at = "refused"
    /\ Record([type |-> "hackerone_submission_rejected", attempt |-> request[s].attempt])
    /\ request' = [request EXCEPT ![s] = Idle]
    /\ UNCHANGED <<bound, basis, cancelled, synced, remote, worker>>

(* The second save meets another one, or the process dies. *)
Abandon(s) ==
    /\ request[s].at # "idle"
    /\ request' = [request EXCEPT ![s] = Idle]
    /\ UNCHANGED <<bound, basis, cancelled, events, synced, remote, worker>>

----------------------------------------------------------------------------
(* HackerOne: something happens to report k. *)
RemoteActivity(k) ==
    /\ remote[k].seen < bound.activities
    /\ remote' = [remote EXCEPT ![k].seen = @ + 1]
    /\ UNCHANGED <<bound, basis, cancelled, events, synced, request, worker>>

(* latest_remote_submission: 0 when nothing was submitted. *)
RemoteSubmission ==
    LET i == Latest(Where({"hackerone_report_submitted"})) IN
    IF i = 0 THEN 0 ELSE events[i].report

(* The worker lists the campaigns and fetches the report of a submission. *)
Fetch ==
    /\ worker = Nothing
    /\ RemoteSubmission > 0
    /\ worker' = [report |-> RemoteSubmission, seen |-> remote[RemoteSubmission].seen]
    /\ UNCHANGED <<bound, basis, cancelled, events, synced, request, remote>>

(* The latest recorded event of this kind. *)
LastOf(kind) ==
    LET i == Latest({j \in DOMAIN synced : synced[j].kind = kind}) IN
    IF i = 0 THEN Nothing ELSE synced[i]

(* The place of the latest of the fetched activities of this kind. *)
Newest(kind, n) == Latest({i \in 1..n : Activities[i] = kind})

\* Mutant: a status already recorded is never replaced.
StatusEvent_Once(f) ==
    IF LastOf("status").report = f.report
    THEN <<>> ELSE <<[kind |-> "status", report |-> f.report, seen |-> f.seen]>>

(* _changed: the tracked timestamps move with every activity. *)
StatusEvent(f) ==
    IF LastOf("status") = [kind |-> "status", report |-> f.report, seen |-> f.seen]
    THEN <<>> ELSE <<[kind |-> "status", report |-> f.report, seen |-> f.seen]>>

NeedsInfoEvent(f) ==
    LET a == Newest("needs-info", f.seen) IN
    IF a = 0 \/ LastOf("needs-info") = [kind |-> "needs-info", report |-> f.report, seen |-> a]
    THEN <<>> ELSE <<[kind |-> "needs-info", report |-> f.report, seen |-> a]>>

\* Mutant: the activities already observed are recorded again.
Unseen_Again(f) == {a \in 1..f.seen : Activities[a] = "comment"}

(* The activities of the report that have no event yet. *)
Unseen(f) ==
    {a \in 1..f.seen : /\ Activities[a] = "comment"
                       /\ \A i \in DOMAIN synced :
                            synced[i] # [kind |-> "comment", report |-> f.report, seen |-> a]}

(* The one sequence of the numbers of S, in order. *)
InOrder(S) ==
    {q \in [1..Cardinality(S) -> S] :
        /\ \A a \in S : \E i \in DOMAIN q : q[i] = a
        /\ \A i, j \in DOMAIN q : i < j => q[i] < q[j]}

(* Their events, oldest first. *)
CommentEvents(f) ==
    {[i \in DOMAIN q |-> [kind |-> "comment", report |-> f.report, seen |-> q[i]]] :
        q \in InOrder(Unseen(f))}

(* _sync_submission after the fetch: only for the latest submission still. *)
Sync ==
    /\ worker # Nothing
    /\ worker' = Nothing
    /\ \/ /\ worker.report = RemoteSubmission
          /\ \E comments \in CommentEvents(worker) :
               synced' = synced \o StatusEvent(worker) \o NeedsInfoEvent(worker) \o comments
       \/ /\ worker.report # RemoteSubmission
          /\ synced' = synced
    /\ UNCHANGED <<bound, basis, cancelled, events, request, remote>>

(* HackerOne does not answer, the save meets another one or the process    *)
(* dies: what was fetched is dropped, and the next round fetches again.    *)
SyncLost ==
    /\ worker # Nothing
    /\ worker' = Nothing
    /\ UNCHANGED <<bound, basis, cancelled, events, synced, request, remote>>

----------------------------------------------------------------------------
Init ==
    /\ bound \in Bounds
    /\ basis \in bound.bases
    /\ cancelled = FALSE
    /\ events = <<>>
    /\ synced = <<>>
    /\ request = [s \in Submitters |-> Idle]
    /\ remote = <<>>
    /\ worker = Nothing

Next ==
    \/ \E r \in Reviewers : ApproveWhenReady(r) \/ Approve(r)
    \/ RevokeAny \/ RevokeActive
    \/ \E p \in Platforms : MarkSubmitted(p)
    \/ \E b \in Bases : Edit(b)
    \/ Cancel
    \/ \E s \in Submitters :
         \/ Attempt(s) \/ PostAccepted(s) \/ PostRefused(s) \/ PostUnknown(s)
         \/ RecordAccepted(s) \/ RecordRefused(s) \/ Abandon(s)
    \/ \E k \in DOMAIN remote : RemoteActivity(k)
    \/ Fetch \/ Sync \/ SyncLost

Spec == Init /\ [][Next]_vars

(* The worker's loop goes on for ever, and not every round is lost. *)
FairSpec == Spec /\ WF_vars(Fetch) /\ SF_vars(Sync)

----------------------------------------------------------------------------
Event ==
    [type : {"report_approved"}, by : Reviewers, basis : Bases]
      \union [type : {"report_approval_revoked"}]
      \union [type : {"hackerone_submission_attempted"}, basis : Bases]
      \union [type : {"report_submitted"}, platform : Platforms \union {"hackerone"}]
      \union [type : {"hackerone_submission_rejected"}, attempt : Nat \ {0}]
      \union [type : {"hackerone_report_submitted"}, attempt : Nat \ {0}, report : Nat \ {0}]

TypeOK ==
    /\ bound \in Bounds
    /\ basis \in Bases
    /\ cancelled \in BOOLEAN
    /\ events \in Seq(Event)
    /\ Len(events) <= bound.events
    /\ synced \in Seq([kind : {"status", "needs-info", "comment"}, report : Nat \ {0}, seen : Nat])
    /\ request \in [Submitters -> [at : {"idle", "posting", "accepted", "refused"},
                                   attempt : Nat]]
    /\ remote \in Seq([attempt : Nat \ {0}, seen : 0..Len(Activities)])
    /\ worker \in [report : Nat, seen : Nat]
    /\ \A s \in Submitters : request[s].at # "idle" =>
         /\ request[s].attempt \in Where({"hackerone_submission_attempted"})
         /\ Sent(request[s].attempt) \in Bases

(* The approval that was the latest when attempt i was saved. *)
ApprovalFor(i) == Latest({j \in Where(ApprovalTypes) : j < i})

(* At most one report reaches HackerOne for each approval, however many    *)
(* requests, lost answers, crashes and retries there are: the attempt is   *)
(* saved first and an unresolved one blocks the next.                      *)
OnePostPerApproval ==
    \A k, l \in DOMAIN remote :
        k # l => ApprovalFor(remote[k].attempt) # ApprovalFor(remote[l].attempt)

(* What is at HackerOne is what a person had approved when it was sent:    *)
(* the same findings and rules, not revoked, one confirmed finding.        *)
PostedWasApproved ==
    \A k \in DOMAIN remote :
        LET i == ApprovalFor(remote[k].attempt) IN
        /\ i > 0
        /\ events[i].type = "report_approved"
        /\ events[i].basis = Sent(remote[k].attempt)
        /\ Sent(remote[k].attempt).direct

(* The campaign's record of the remote status never goes back to an        *)
(* earlier state of the same report, and no activity is recorded twice.    *)
SyncedInOrder ==
    \A i, j \in DOMAIN synced :
        (i < j /\ synced[i].kind = synced[j].kind /\ synced[i].report = synced[j].report)
            => synced[i].seen < synced[j].seen

(* What happens to the submitted report at HackerOne is recorded in the    *)
(* campaign, or the campaign has a later submission by then.               *)
RemoteChangeArrives ==
    \A k \in UNION {1..x.reports : x \in Bounds} : \A n \in 1..Len(Activities) :
        (RemoteSubmission = k /\ remote[k].seen = n)
            ~> (\/ RemoteSubmission # k
                \/ \E i \in DOMAIN synced : /\ synced[i].kind = "status"
                                            /\ synced[i].report = k
                                            /\ synced[i].seen >= n)

(* A report counts as submitted to HackerOne only for an approval of what  *)
(* was sent there: an earlier submission does not count for a later one.   *)
SubmittedIsWhatWasSent ==
    \A i \in CurrentSubmissions :
        (Submitted /\ events[i].platform = "hackerone" /\ RemoteSubmission > 0)
            => Sent(remote[RemoteSubmission].attempt) = events[LatestApproval].basis
=============================================================================
