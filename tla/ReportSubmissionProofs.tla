------------------------ MODULE ReportSubmissionProofs ------------------------
(***************************************************************************)
(* Proofs about ReportSubmission, for all reviewers, requests, findings    *)
(* and bounds: what is at HackerOne was approved when it was sent, and     *)
(* every approval sends at most one report.  Both are about the order of   *)
(* events in the campaign document, so the invariant is a list of facts    *)
(* about places in that sequence.  The last part is about the sync worker: *)
(* what a round records is later than everything recorded before it.       *)
(***************************************************************************)
EXTENDS ReportSubmission, FiniteSetTheorems, SequenceTheorems, WellFoundedInduction, TLAPS

Attempts == Where({"hackerone_submission_attempted"})

Active(s) == request[s].at # "idle"

\* The part of TypeOK that the order of events depends on.
LogOK ==
    /\ events \in Seq(Event)
    /\ remote \in Seq([attempt : Nat \ {0}, seen : Nat])
    /\ request \in [Submitters -> [at : {"idle", "posting", "accepted", "refused"},
                                   attempt : Nat]]

TypeOfBasis == bound.bases \subseteq Bases /\ basis \in Bases

\* One request is active at most: its attempt is the latest one and is unresolved,
\* which keeps every other request from attempting.
OneActive ==
    /\ \A s, u \in Submitters : Active(s) /\ Active(u) => s = u
    /\ \A s \in Submitters : Active(s) =>
         /\ request[s].attempt \in Attempts
         /\ \A j \in Attempts : j <= request[s].attempt
         /\ ~ Resolved(request[s].attempt)

\* A report is made for an attempt, for which no other report is made, nor a
\* refusal recorded.
OneReport ==
    /\ \A k \in DOMAIN remote : remote[k].attempt \in Attempts
    /\ \A k, l \in DOMAIN remote : remote[k].attempt = remote[l].attempt => k = l
    /\ \A s \in Submitters : request[s].at \in {"posting", "refused"} =>
         \A k \in DOMAIN remote : remote[k].attempt # request[s].attempt
    /\ \A s \in Submitters : request[s].at = "accepted" =>
         \E k \in DOMAIN remote : remote[k].attempt = request[s].attempt
    /\ \A j \in Where({"hackerone_submission_rejected"}) :
         \A k \in DOMAIN remote : remote[k].attempt # events[j].attempt

\* A refusal is recorded after the attempt it resolves.
RejectedAfter ==
    \A j \in Where({"hackerone_submission_rejected"}) : j > events[j].attempt

\* An accepted report is recorded together with the submission.
AcceptedIsSubmission ==
    \A j \in Where({"hackerone_report_submitted"}) :
        j + 1 \in Where({"report_submitted"})

\* After a report was made nothing is attempted without an approval event in between.
Separated ==
    \A k \in DOMAIN remote : \A j \in Attempts :
        j > remote[k].attempt =>
            \E a \in Where(ApprovalTypes) : remote[k].attempt < a /\ a < j

\* a is the last approval event before place i.
IsApprovalFor(a, i) ==
    /\ a \in Where(ApprovalTypes)
    /\ a < i
    /\ \A b \in Where(ApprovalTypes) : b < i => b <= a

\* What an attempt sends had been approved, and was not revoked since.
Backed ==
    \A i \in Attempts :
        /\ Sent(i).direct
        /\ \E a \in Where(ApprovalTypes) :
             /\ IsApprovalFor(a, i)
             /\ events[a].type = "report_approved"
             /\ events[a].basis = Sent(i)

IInv ==
    /\ LogOK
    /\ OneActive
    /\ OneReport
    /\ RejectedAfter
    /\ AcceptedIsSubmission
    /\ Separated
    /\ Backed

-----------------------------------------------------------------------------

\* A finite set of numbers has a greatest one: the least of the sets of the
\* numbers from some number on, under strict inclusion, starts with it.
LEMMA GreatestExists ==
    ASSUME NEW n \in Nat, NEW S \in SUBSET (1..n), S # {}
    PROVE  \E m \in S : \A i \in S : i <= m
<1> DEFINE From(x) == {y \in S : y >= x}
           T == {From(x) : x \in S}
<1>1. IsFiniteSet(1..n)
  BY FS_Interval
<1>2. IsWellFoundedOn(StrictSubsetOrdering(1..n), SUBSET (1..n))
  BY <1>1, FS_StrictSubsetOrderingWellFounded, FS_FiniteSubsetsOfFinite
<1>3. T \subseteq SUBSET (1..n) /\ T # {}
  OBVIOUS
<1>4. PICK t \in T : \A u \in T : <<u, t>> \notin StrictSubsetOrdering(1..n)
  <2> HIDE DEF T
  <2> QED BY <1>2, <1>3, WFMin
<1>5. PICK m \in S : t = From(m)
  BY <1>4
<1>6. ASSUME NEW i \in S, ~ (i <= m) PROVE FALSE
  <2>0. i \in Nat /\ m \in Nat /\ \A y \in S : y \in Nat
    OBVIOUS
  <2>1. From(i) \subseteq From(m) /\ m \in From(m) /\ m \notin From(i)
    <3>1. i > m
      BY <1>6, <2>0
    <3>2. \A y \in From(i) : y \in From(m)
      BY <3>1, <2>0
    <3>3. m \in From(m) /\ m \notin From(i)
      BY <3>1, <2>0
    <3> QED BY <3>2, <3>3
  <2>2. From(i) \in T /\ From(i) # From(m) /\ From(i) \in SUBSET (1..n) /\ From(m) \in SUBSET (1..n)
    BY <2>1
  <2>3. <<From(i), From(m)>> \in StrictSubsetOrdering(1..n)
    BY <2>1, <2>2 DEF StrictSubsetOrdering
  <2> QED BY <2>2, <2>3, <1>4, <1>5
<1> QED BY <1>6

\* Latest is the greatest element, or 0.
LEMMA LatestIsGreatest ==
    ASSUME NEW n \in Nat, NEW S \in SUBSET (1..n)
    PROVE  /\ S = {} => Latest(S) = 0
           /\ S # {} => Latest(S) \in S /\ \A i \in S : i <= Latest(S)
           /\ Latest(S) > 0 => S # {}
<1>1. S = {} => Latest(S) = 0
  BY DEF Latest
<1>2. ASSUME S # {} PROVE Latest(S) \in S /\ \A i \in S : i <= Latest(S)
  <2>1. \E m : m \in S /\ \A i \in S : i <= m
    BY <1>2, GreatestExists
  <2>2. Latest(S) = CHOOSE m : m \in S /\ \A i \in S : i <= m
    BY <1>2, Zenon DEF Latest
  <2> QED BY <2>1, <2>2, Zenon
<1> QED BY <1>1, <1>2

\* The greatest element is unique.
LEMMA GreatestIsLatest ==
    ASSUME NEW S \in SUBSET Nat, NEW m \in S, \A i \in S : i <= m
    PROVE  Latest(S) = m
<1>1. Latest(S) = CHOOSE i : i \in S /\ \A j \in S : j <= i
  BY Zenon DEF Latest
<1>2. Latest(S) \in S /\ \A j \in S : j <= Latest(S)
  BY <1>1, Zenon
<1>3. Latest(S) \in Nat /\ m \in Nat /\ Latest(S) <= m /\ m <= Latest(S)
  BY <1>2
<1> QED BY <1>3

\* Places of events are numbers, up to the length of the log.
LEMMA Places ==
    ASSUME LogOK, NEW types
    PROVE  /\ Len(events) \in Nat
           /\ DOMAIN events = 1..Len(events)
           /\ Where(types) \in SUBSET (1..Len(events))
           /\ Where(types) \in SUBSET Nat
BY DEF LogOK, Where

-----------------------------------------------------------------------------
(* Appending to the log.                                                   *)

\* A record of each kind is an event.
LEMMA EventKinds ==
    /\ \A r \in Reviewers, b \in Bases :
         [type |-> "report_approved", by |-> r, basis |-> b] \in Event
    /\ [type |-> "report_approval_revoked"] \in Event
    /\ \A b \in Bases : [type |-> "hackerone_submission_attempted", basis |-> b] \in Event
    /\ \A p \in Platforms \union {"hackerone"} :
         [type |-> "report_submitted", platform |-> p] \in Event
    /\ \A i \in Nat \ {0} :
         [type |-> "hackerone_submission_rejected", attempt |-> i] \in Event
    /\ \A i, k \in Nat \ {0} :
         [type |-> "hackerone_report_submitted", attempt |-> i, report |-> k] \in Event
BY DEF Event

\* What Record does to the log.
LEMMA RecordAppends ==
    ASSUME LogOK, NEW e \in Event, Record(e)
    PROVE  /\ events' \in Seq(Event)
           /\ Len(events') = Len(events) + 1
           /\ DOMAIN events' = 1..(Len(events) + 1)
           /\ events'[Len(events) + 1] = e
           /\ \A i \in 1..Len(events) : events'[i] = events[i]
BY DEF LogOK, Record

\* An approval, a revocation or a submission recorded by hand keeps the invariant.
LEMMA PlainEventKeeps ==
    ASSUME IInv, NEW e \in Event, Record(e), UNCHANGED <<request, remote>>,
           e.type \in ApprovalTypes \union {"report_submitted"}
    PROVE  IInv'
<1> DEFINE n == Len(events)
<1>1. /\ n \in Nat /\ events' \in Seq(Event) /\ DOMAIN events = 1..n
      /\ DOMAIN events' = 1..(n + 1) /\ events'[n + 1] = e
      /\ \A i \in 1..n : events'[i] = events[i]
  BY RecordAppends, Places DEF IInv
<1>2. \A i : i \in Attempts' <=> i \in Attempts
  BY <1>1 DEF Attempts, Where, ApprovalTypes
<1>3. \A i : i \in Where(Resolutions)' <=> i \in Where(Resolutions)
  BY <1>1 DEF Where, ApprovalTypes, Resolutions
<1>4. \A i \in 1..n : i \in Where(ApprovalTypes)' <=> i \in Where(ApprovalTypes)
  BY <1>1 DEF Where
<1>5. /\ Attempts \subseteq 1..n /\ Where(ApprovalTypes) \subseteq 1..n
      /\ Where(Resolutions) \subseteq 1..n
  BY <1>1 DEF Attempts, Where
<1>6. LogOK'
  BY <1>1 DEF IInv, LogOK
<1>7. OneActive'
  <2>1. \A s \in Submitters : Active(s)' <=> Active(s)
    BY DEF Active
  <2>2. \A i \in Attempts : Resolved(i)' <=> Resolved(i)
    BY <1>1, <1>3, <1>5 DEF Resolved
  <2> QED BY <1>2, <2>1, <2>2 DEF IInv, OneActive
<1>8. OneReport' /\ RejectedAfter'
  <2>1. \A i : i \in Where({"hackerone_submission_rejected"})'
               <=> i \in Where({"hackerone_submission_rejected"})
    BY <1>1 DEF Where, ApprovalTypes
  <2>2. \A i \in Where({"hackerone_submission_rejected"}) : events'[i] = events[i]
    BY <1>1 DEF Where
  <2> QED BY <1>2, <2>1, <2>2 DEF IInv, OneReport, RejectedAfter
<1>9. AcceptedIsSubmission'
  <2>1. \A i : i \in Where({"hackerone_report_submitted"})'
               <=> i \in Where({"hackerone_report_submitted"})
    BY <1>1 DEF Where, ApprovalTypes
  <2>2. \A i : i \in Where({"report_submitted"}) => i \in Where({"report_submitted"})'
    BY <1>1 DEF Where
  <2> QED BY <2>1, <2>2 DEF IInv, AcceptedIsSubmission
<1>10. Separated'
  BY <1>2, <1>4, <1>5 DEF IInv, Separated
<1>11. Backed'
  <2>1. \A i \in Attempts : Sent(i)' = Sent(i)
    BY <1>1, <1>5 DEF Sent
  <2>2. ASSUME NEW i \in Attempts, NEW a \in Where(ApprovalTypes), IsApprovalFor(a, i)
        PROVE  IsApprovalFor(a, i)' /\ events'[a] = events[a]
    <3>1. \A b \in Where(ApprovalTypes)' : b < i => b \in Where(ApprovalTypes)
      BY <1>1, <1>4, <1>5 DEF Where
    <3> QED BY <2>2, <3>1, <1>1, <1>4, <1>5 DEF IsApprovalFor
  <2> QED BY <1>2, <1>4, <1>5, <2>1, <2>2 DEF IInv, Backed
<1> QED BY <1>6, <1>7, <1>8, <1>9, <1>10, <1>11 DEF IInv
-----------------------------------------------------------------------------
(* The steps of a submission.                                              *)

\* An approval that stands is the last approval event so far.
LEMMA ApprovedMeans ==
    ASSUME IInv, Approved
    PROVE  /\ LatestApproval \in Where(ApprovalTypes)
           /\ \A b \in Where(ApprovalTypes) : b <= LatestApproval
           /\ events[LatestApproval].type = "report_approved"
           /\ events[LatestApproval].basis = basis
<1>1. LatestApproval > 0 /\ Where(ApprovalTypes) \in SUBSET (1..Len(events)) /\ Len(events) \in Nat
  BY Places DEF IInv, Approved, ApprovalStands
<1>2. /\ LatestApproval \in Where(ApprovalTypes)
      /\ \A b \in Where(ApprovalTypes) : b <= LatestApproval
  BY <1>1, LatestIsGreatest DEF LatestApproval
<1> QED BY <1>2 DEF Approved, ApprovalStands

\* When an attempt is made every earlier report lies before an approval event: the
\* last attempt is resolved, by a submission that would count now or a refusal.
LEMMA AttemptNeedsApproval ==
    ASSUME IInv, MayAttempt, NEW k \in DOMAIN remote
    PROVE  \E a \in Where(ApprovalTypes) : remote[k].attempt < a
<1> DEFINE i == remote[k].attempt
<1>1. /\ Approved /\ ~ Unresolved /\ ~ Submitted
      /\ LatestApproval \in Where(ApprovalTypes)
  BY ApprovedMeans DEF MayAttempt
<1>2. /\ Attempts \in SUBSET (1..Len(events)) /\ Len(events) \in Nat
      /\ Where(ApprovalTypes) \in SUBSET (1..Len(events))
      /\ i \in Attempts /\ DOMAIN events = 1..Len(events)
  BY Places DEF IInv, OneReport, Attempts
<1>3. /\ LatestAttempt \in Attempts /\ LatestAttempt > 0 /\ i <= LatestAttempt
      /\ LatestAttempt \in Nat /\ i \in Nat
  <2>1. LatestAttempt = Latest(Attempts) /\ Attempts # {}
    BY <1>2 DEF LatestAttempt, Attempts
  <2>2. Latest(Attempts) \in Attempts /\ \A j \in Attempts : j <= Latest(Attempts)
    BY <1>2, <2>1, LatestIsGreatest
  <2>3. \A j \in Attempts : j \in Nat /\ j > 0
    BY <1>2
  <2> HIDE DEF i
  <2> QED BY <1>2, <2>1, <2>2, <2>3
<1>4. CASE i < LatestAttempt
  BY <1>2, <1>3, <1>4 DEF IInv, Separated
<1>5. CASE i = LatestAttempt
  <2>1. PICK j \in Where(Resolutions) : j > i /\ events[j].attempt = i
    BY <1>1, <1>3, <1>5 DEF Unresolved, Resolved
  <2>2. j \notin Where({"hackerone_submission_rejected"})
    BY <2>1 DEF IInv, OneReport
  <2>3. j \in Where({"hackerone_report_submitted"})
    BY <2>1, <2>2 DEF Where, Resolutions
  <2>4. j + 1 \in Where({"report_submitted"})
    BY <2>3 DEF IInv, AcceptedIsSubmission
  <2>5. ~ (j + 1 > LatestApproval)
    BY <1>1, <2>4 DEF Submitted, CurrentSubmissions
  <2>6. j \in Nat /\ i \in Nat /\ LatestApproval \in Nat
    <3>1. j \in DOMAIN events
      BY <2>1 DEF Where
    <3> QED BY <3>1, <1>1, <1>2, <1>3
  <2>7. i < LatestApproval
    BY <2>1, <2>5, <2>6
  <2> QED BY <2>7, <1>1
<1> QED BY <1>2, <1>3, <1>4, <1>5

LEMMA AttemptKeeps ==
    ASSUME IInv, TypeOfBasis, NEW s \in Submitters, Attempt(s)
    PROVE  IInv'
<1>0. PICK n : n = Len(events)
  OBVIOUS
<1> DEFINE e == [type |-> "hackerone_submission_attempted", basis |-> basis]
<1>1. e \in Event
  BY EventKinds DEF TypeOfBasis
<1>2. /\ n \in Nat /\ events' \in Seq(Event) /\ DOMAIN events = 1..n
      /\ DOMAIN events' = 1..(n + 1) /\ events'[n + 1] = e
      /\ \A i \in 1..n : events'[i] = events[i]
  BY <1>0, <1>1, RecordAppends, Places DEF IInv, Attempt
<1>3. Attempts' = Attempts \union {n + 1}
  BY <1>2 DEF Attempts, Where
<1>4. /\ Where(Resolutions)' = Where(Resolutions)
      /\ Where(ApprovalTypes)' = Where(ApprovalTypes)
      /\ Where({"hackerone_submission_rejected"})' = Where({"hackerone_submission_rejected"})
      /\ Where({"hackerone_report_submitted"})' = Where({"hackerone_report_submitted"})
      /\ Where({"report_submitted"})' = Where({"report_submitted"})
  BY <1>2 DEF Where, Resolutions, ApprovalTypes
<1>5. /\ Attempts \subseteq 1..n /\ Where(Resolutions) \subseteq 1..n
      /\ Where(ApprovalTypes) \subseteq 1..n
      /\ Where({"hackerone_submission_rejected"}) \subseteq 1..n
  BY <1>2 DEF Attempts, Where
<1>6. /\ request' = [request EXCEPT ![s] = [at |-> "posting", attempt |-> n + 1]]
      /\ remote' = remote /\ MayAttempt /\ basis' = basis
  BY <1>0 DEF Attempt
<1>7. LogOK'
  BY <1>2, <1>6 DEF IInv, LogOK
<1>8. \A u \in Submitters : ~ Active(u)
  <2> SUFFICES ASSUME NEW u \in Submitters, Active(u) PROVE FALSE
    OBVIOUS
  <2>1. /\ request[u].attempt \in Attempts /\ ~ Resolved(request[u].attempt)
        /\ \A j \in Attempts : j <= request[u].attempt
    BY DEF IInv, OneActive
  <2>2. LatestAttempt = request[u].attempt
    <3>1. Attempts \in SUBSET Nat
      BY <1>5, <1>2
    <3> QED BY <2>1, <3>1, GreatestIsLatest DEF LatestAttempt, Attempts
  <2>3. request[u].attempt > 0
    <3>1. request[u].attempt \in 1..n /\ n \in Nat
      BY <2>1, <1>5, <1>2
    <3> QED BY <3>1
  <2>4. LatestAttempt > 0 /\ ~ Resolved(LatestAttempt)
    BY <2>1, <2>2, <2>3, Zenon
  <2> QED BY <2>4, <1>6 DEF MayAttempt, Unresolved
<1>9. OneActive'
  <2>1. \A u \in Submitters : Active(u)' <=> u = s
    BY <1>6, <1>8 DEF Active, IInv, LogOK
  <2>2. request'[s].attempt = n + 1
    BY <1>6 DEF IInv, LogOK
  <2>3. ~ Resolved(n + 1)'
    BY <1>4, <1>5, <1>2 DEF Resolved
  <2>4. ~ Resolved(request[s].attempt)'
    BY <2>2, <2>3 DEF Resolved
  <2>5. /\ request'[s].attempt \in Attempts'
        /\ \A j \in Attempts' : j <= request'[s].attempt
    <3>1. n + 1 \in Attempts'
      BY <1>3
    <3>2. ASSUME NEW j \in Attempts' PROVE j <= n + 1
      <4>1. j \in 1..n \/ j = n + 1
        BY <1>3, <1>5, <3>2
      <4>2. n \in Nat
        BY <1>2
      <4> QED BY <4>1, <4>2
    <3> QED BY <2>2, <3>1, <3>2, Zenon
  <2> QED BY <2>1, <2>4, <2>5 DEF OneActive, Resolved
<1>10. OneReport' /\ RejectedAfter'
  <2>1. \A k \in DOMAIN remote : remote[k].attempt \in 1..n
    BY <1>5 DEF IInv, OneReport
  <2>2. \A u \in Submitters : request'[u].at \in {"posting", "refused"}
                              => request'[u].attempt = n + 1
    BY <1>6, <1>8 DEF Active, IInv, LogOK
  <2>4. \A u \in Submitters : request'[u].at # "accepted"
    BY <1>6, <1>8 DEF Active, IInv, LogOK
  <2>3. \A j \in Where({"hackerone_submission_rejected"}) : events'[j] = events[j]
    BY <1>2, <1>5
  <2> QED BY <2>1, <2>2, <2>3, <2>4, <1>2, <1>3, <1>4, <1>6 DEF IInv, OneReport, RejectedAfter
<1>11. AcceptedIsSubmission'
  BY <1>4 DEF IInv, AcceptedIsSubmission
<1>12. Separated'
  <2>1. \A k \in DOMAIN remote :
          \E a \in Where(ApprovalTypes) : remote[k].attempt < a /\ a < n + 1
    BY <1>5, <1>6, <1>2, AttemptNeedsApproval
  <2> QED BY <2>1, <1>3, <1>4, <1>6 DEF IInv, Separated
<1>13. Backed'
  <2>1. \A i \in Attempts : Sent(i)' = Sent(i)
    BY <1>2, <1>5 DEF Sent
  <2>2. \A a \in Where(ApprovalTypes) : events'[a] = events[a]
    BY <1>2, <1>5
  <2>3. \A i, a : IsApprovalFor(a, i)' <=> IsApprovalFor(a, i)
    BY <1>4 DEF IsApprovalFor
  <2>4. Sent(n + 1)' = basis /\ basis.direct
    BY <1>2, <1>6 DEF Sent, MayAttempt
  <2>5. /\ LatestApproval \in Where(ApprovalTypes)
        /\ \A b \in Where(ApprovalTypes) : b <= LatestApproval
        /\ events[LatestApproval].type = "report_approved"
        /\ events[LatestApproval].basis = basis
    BY <1>6, ApprovedMeans DEF MayAttempt
  <2>6. IsApprovalFor(LatestApproval, n + 1)
    BY <2>5, <1>5, <1>2 DEF IsApprovalFor
  <2>7. \A i \in Attempts : /\ Sent(i)'.direct
                            /\ \E a \in Where(ApprovalTypes)' :
                                 /\ IsApprovalFor(a, i)'
                                 /\ events'[a].type = "report_approved"
                                 /\ events'[a].basis = Sent(i)'
    BY <2>1, <2>2, <2>3, <1>4 DEF IInv, Backed
  <2>8. /\ Sent(n + 1)'.direct
        /\ \E a \in Where(ApprovalTypes)' :
             /\ IsApprovalFor(a, n + 1)'
             /\ events'[a].type = "report_approved"
             /\ events'[a].basis = Sent(n + 1)'
    BY <2>2, <2>3, <2>4, <2>5, <2>6, <1>4
  <2> QED BY <2>7, <2>8, <1>3 DEF Backed
<1> QED BY <1>7, <1>9, <1>10, <1>11, <1>12, <1>13 DEF IInv

\* Steps that leave log and reports alone: a request is given up, or refused.
LEMMA RequestOnlyKeeps ==
    ASSUME IInv, UNCHANGED <<events, remote>>, NEW s \in Submitters,
           \/ request' = [request EXCEPT ![s] = Idle]
           \/ /\ request[s].at = "posting"
              /\ request' = [request EXCEPT ![s].at = "refused"]
    PROVE  IInv'
<1>1. request' \in [Submitters -> [at : {"idle", "posting", "accepted", "refused"},
                                   attempt : Nat]]
  <2>1. /\ request[s].at \in {"idle", "posting", "accepted", "refused"}
        /\ request[s].attempt \in Nat /\ request[s] = [at |-> request[s].at,
                                                     attempt |-> request[s].attempt]
        /\ request \in [Submitters -> [at : {"idle", "posting", "accepted", "refused"},
                                       attempt : Nat]]
    BY DEF IInv, LogOK
  <2>2. CASE request' = [request EXCEPT ![s] = Idle]
    BY <2>1, <2>2 DEF Idle
  <2>3. CASE request' = [request EXCEPT ![s].at = "refused"]
    <3>1. request' = [request EXCEPT ![s] = [at |-> "refused",
                                             attempt |-> request[s].attempt]]
      BY <2>1, <2>3
    <3> QED BY <2>1, <3>1
  <2> QED BY <2>2, <2>3
<1>2. \A u \in Submitters :
        \/ request'[u] = request[u]
        \/ request'[u].at = "idle"
        \/ /\ request'[u].at = "refused" /\ request[u].at = "posting"
           /\ request'[u].attempt = request[u].attempt
  BY DEF IInv, LogOK, Idle
<1>3. /\ Attempts' = Attempts
      /\ Where(Resolutions)' = Where(Resolutions)
      /\ Where(ApprovalTypes)' = Where(ApprovalTypes)
      /\ Where({"hackerone_submission_rejected"})' = Where({"hackerone_submission_rejected"})
      /\ Where({"hackerone_report_submitted"})' = Where({"hackerone_report_submitted"})
      /\ Where({"report_submitted"})' = Where({"report_submitted"})
  BY DEF Attempts, Where, Resolutions, ApprovalTypes
<1>4. LogOK'
  BY <1>1 DEF IInv, LogOK
<1>5. OneActive'
  <2>1. \A u \in Submitters : Active(u)' => Active(u) /\ request'[u].attempt = request[u].attempt
    BY <1>2 DEF Active
  <2>2. \A i : Resolved(i)' <=> Resolved(i)
    BY <1>3 DEF Resolved
  <2>3. \A u \in Submitters : Active(u)' =>
           /\ request'[u].attempt \in Attempts'
           /\ \A j \in Attempts' : j <= request'[u].attempt
           /\ ~ Resolved(request[u].attempt)'
    <3> SUFFICES ASSUME NEW u \in Submitters, Active(u)'
                 PROVE  /\ request'[u].attempt \in Attempts'
                        /\ \A j \in Attempts' : j <= request'[u].attempt
                        /\ ~ Resolved(request[u].attempt)'
      OBVIOUS
    <3>1. Active(u) /\ request'[u].attempt = request[u].attempt
      BY <2>1
    <3>2. ~ Resolved(request[u].attempt)
      BY <3>1 DEF IInv, OneActive
    <3> QED BY <3>1, <3>2, <1>3 DEF IInv, OneActive, Resolved
  <2> QED BY <2>1, <2>3 DEF IInv, OneActive
<1>6. OneReport'
  BY <1>2, <1>3 DEF IInv, OneReport
<1>7. AcceptedIsSubmission' /\ Separated' /\ RejectedAfter'
  BY <1>3 DEF IInv, AcceptedIsSubmission, Separated, RejectedAfter
<1>8. Backed'
  BY <1>3 DEF IInv, Backed, Sent, IsApprovalFor
<1> QED BY <1>4, <1>5, <1>6, <1>7, <1>8 DEF IInv

\* The report that a request makes is the only one of its attempt, and the latest.
LEMMA PostKeeps ==
    ASSUME IInv, UNCHANGED events, NEW s \in Submitters, request[s].at = "posting",
           remote' = NewReport(s),
           \/ request' = [request EXCEPT ![s] = Idle]
           \/ request' = [request EXCEPT ![s].at = "accepted"]
    PROVE  IInv'
<1>0. PICK n : n = Len(remote)
  OBVIOUS
<1>1. request' \in [Submitters -> [at : {"idle", "posting", "accepted", "refused"},
                                   attempt : Nat]]
  <2>1. /\ request[s].at \in {"idle", "posting", "accepted", "refused"}
        /\ request[s].attempt \in Nat /\ request[s] = [at |-> request[s].at,
                                                     attempt |-> request[s].attempt]
        /\ request \in [Submitters -> [at : {"idle", "posting", "accepted", "refused"},
                                       attempt : Nat]]
    BY DEF IInv, LogOK
  <2>2. CASE request' = [request EXCEPT ![s] = Idle]
    BY <2>1, <2>2 DEF Idle
  <2>3. CASE request' = [request EXCEPT ![s].at = "accepted"]
    <3>1. request' = [request EXCEPT ![s] = [at |-> "accepted",
                                             attempt |-> request[s].attempt]]
      BY <2>1, <2>3
    <3> QED BY <2>1, <3>1
  <2> QED BY <2>2, <2>3
<1>2. \A u \in Submitters :
        \/ request'[u] = request[u] /\ u # s
        \/ request'[u].at = "idle"
        \/ /\ request'[u].at = "accepted" /\ u = s
           /\ request'[u].attempt = request[u].attempt
  BY DEF IInv, LogOK, Idle
<1>3. /\ Attempts' = Attempts
      /\ Where(Resolutions)' = Where(Resolutions)
      /\ Where(ApprovalTypes)' = Where(ApprovalTypes)
      /\ Where({"hackerone_submission_rejected"})' = Where({"hackerone_submission_rejected"})
      /\ Where({"hackerone_report_submitted"})' = Where({"hackerone_report_submitted"})
      /\ Where({"report_submitted"})' = Where({"report_submitted"})
  BY DEF Attempts, Where, Resolutions, ApprovalTypes
<1>4. /\ Active(s) /\ request[s].attempt \in Attempts
      /\ \A j \in Attempts : j <= request[s].attempt
      /\ ~ Resolved(request[s].attempt)
      /\ Attempts \in SUBSET Nat /\ request[s].attempt \in Nat \ {0}
      /\ \A u \in Submitters \ {s} : ~ Active(u)
  <2>1. /\ Active(s) /\ request[s].attempt \in Attempts
        /\ \A j \in Attempts : j <= request[s].attempt
        /\ ~ Resolved(request[s].attempt)
        /\ \A u \in Submitters \ {s} : ~ Active(u)
    BY DEF IInv, OneActive, Active
  <2>2. Attempts \in SUBSET (1..Len(events)) /\ Len(events) \in Nat
    BY Places DEF IInv, Attempts
  <2>3. request[s].attempt \in 1..Len(events)
    BY <2>1, <2>2
  <2> QED BY <2>1, <2>2, <2>3
<1>5. /\ n \in Nat /\ DOMAIN remote = 1..n /\ DOMAIN remote' = 1..(n + 1)
      /\ remote' \in Seq([attempt : Nat \ {0}, seen : Nat])
      /\ remote'[n + 1].attempt = request[s].attempt
      /\ \A k \in 1..n : remote'[k] = remote[k]
  BY <1>0, <1>4 DEF IInv, LogOK, NewReport
<1>12. /\ \A k \in DOMAIN remote' : k \in DOMAIN remote \/ k = n + 1
       /\ \A k \in DOMAIN remote : remote'[k] = remote[k] /\ k \in DOMAIN remote'
       /\ n + 1 \in DOMAIN remote' /\ n + 1 \notin DOMAIN remote
  BY <1>5
<1>6. LogOK'
  BY <1>1, <1>5 DEF IInv, LogOK
<1>7. OneActive'
  <2>1. \A u \in Submitters : Active(u)' => u = s /\ request'[u].attempt = request[u].attempt
    BY <1>2, <1>4 DEF Active
  <2>2. ~ Resolved(request[s].attempt)' \/ ~ Active(s)'
    <3>1. CASE Active(s)'
      <4>1. request'[s].attempt = request[s].attempt
        BY <2>1, <3>1
      <4> QED BY <4>1, <1>3, <1>4 DEF Resolved
    <3> QED BY <3>1
  <2> QED BY <2>1, <2>2, <1>3, <1>4 DEF OneActive, Resolved
<1>8. OneReport'
  <2>1. \A k \in DOMAIN remote' : remote'[k].attempt \in Attempts'
    BY <1>3, <1>4, <1>5, <1>12 DEF IInv, OneReport
  <2>2. \A k \in DOMAIN remote : remote[k].attempt # request[s].attempt
    BY DEF IInv, OneReport
  <2>3. \A k, l \in DOMAIN remote' : remote'[k].attempt = remote'[l].attempt => k = l
    <3> SUFFICES ASSUME NEW k \in DOMAIN remote', NEW l \in DOMAIN remote',
                        remote'[k].attempt = remote'[l].attempt
                 PROVE  k = l
      OBVIOUS
    <3>1. \A i \in DOMAIN remote : remote'[i].attempt # remote'[n + 1].attempt
      BY <1>5, <1>12, <2>2
    <3>2. CASE k \in DOMAIN remote /\ l \in DOMAIN remote
      BY <3>2, <1>12 DEF IInv, OneReport
    <3>3. CASE k = n + 1 \/ l = n + 1
      BY <3>1, <3>3, <1>12
    <3> QED BY <3>2, <3>3, <1>12
  <2>4. \A u \in Submitters : request'[u].at \notin {"posting", "refused"}
    BY <1>2, <1>4 DEF Active
  <2>5. \A u \in Submitters : request'[u].at = "accepted" =>
          \E k \in DOMAIN remote' : remote'[k].attempt = request'[u].attempt
    <3>1. \A u \in Submitters : request'[u].at = "accepted" =>
             request'[u].attempt = request[s].attempt
      BY <1>2, <1>4 DEF Active
    <3>2. n + 1 \in DOMAIN remote' /\ remote'[n + 1].attempt = request[s].attempt
      BY <1>5
    <3> QED BY <3>1, <3>2
  <2>6. \A j \in Where({"hackerone_submission_rejected"}) :
          events[j].attempt # request[s].attempt
    <3> SUFFICES ASSUME NEW j \in Where({"hackerone_submission_rejected"}),
                        events[j].attempt = request[s].attempt
                 PROVE  FALSE
      OBVIOUS
    <3>1. j \in Where(Resolutions)
      BY DEF Where, Resolutions
    <3>2. ~ (j > request[s].attempt)
      BY <3>1, <1>4 DEF Resolved
    <3> QED BY <3>2 DEF IInv, RejectedAfter
  <2>7. \A j \in Where({"hackerone_submission_rejected"})' :
          \A k \in DOMAIN remote' : remote'[k].attempt # events'[j].attempt
    <3> SUFFICES ASSUME NEW j \in Where({"hackerone_submission_rejected"}),
                        NEW k \in DOMAIN remote'
                 PROVE  remote'[k].attempt # events[j].attempt
      BY <1>3
    <3>1. CASE k \in DOMAIN remote
      BY <3>1, <1>12 DEF IInv, OneReport
    <3>2. CASE k = n + 1
      BY <3>2, <2>6, <1>5
    <3> QED BY <3>1, <3>2, <1>12
  <2> QED BY <2>1, <2>3, <2>4, <2>5, <2>7 DEF OneReport
<1>9. AcceptedIsSubmission' /\ RejectedAfter'
  BY <1>3 DEF IInv, AcceptedIsSubmission, RejectedAfter
<1>10. Separated'
  <2>1. \A j \in Attempts' : ~ (j > remote'[n + 1].attempt)
    BY <1>3, <1>4, <1>5
  <2> QED BY <2>1, <1>3, <1>12 DEF IInv, Separated
<1>11. Backed'
  BY <1>3 DEF IInv, Backed, Sent, IsApprovalFor
<1> QED BY <1>6, <1>7, <1>8, <1>9, <1>10, <1>11 DEF IInv

\* The events of an accepted or refused request resolve its attempt.
LEMMA RefusalKeeps ==
    ASSUME IInv, UNCHANGED remote, NEW s \in Submitters, request[s].at = "refused",
           request' = [request EXCEPT ![s] = Idle],
           Record([type |-> "hackerone_submission_rejected", attempt |-> request[s].attempt])
    PROVE  IInv'
<1>0. PICK n : n = Len(events)
  OBVIOUS
<1> DEFINE i == request[s].attempt
           e == [type |-> "hackerone_submission_rejected", attempt |-> i]
<1>1. /\ Active(s) /\ i \in Attempts /\ Attempts \in SUBSET (1..n) /\ n \in Nat
      /\ i \in Nat \ {0} /\ i <= n /\ \A u \in Submitters \ {s} : ~ Active(u)
  <2>1. Active(s) /\ i \in Attempts /\ \A u \in Submitters \ {s} : ~ Active(u)
    BY DEF IInv, OneActive, Active
  <2>2. Attempts \in SUBSET (1..n) /\ n \in Nat
    BY <1>0, Places DEF IInv, Attempts
  <2>3. i \in 1..n
    BY <2>1, <2>2
  <2> QED BY <2>1, <2>2, <2>3
<1>2. /\ events' \in Seq(Event) /\ DOMAIN events = 1..n
      /\ DOMAIN events' = 1..(n + 1) /\ events'[n + 1] = e
      /\ \A j \in 1..n : events'[j] = events[j]
  <2>1. e \in Event
    BY <1>1, EventKinds
  <2>2. Record(e)
    OBVIOUS
  <2> HIDE DEF e
  <2> QED BY <1>0, <2>1, <2>2, RecordAppends, Places DEF IInv
<1>3. /\ Attempts' = Attempts
      /\ Where(ApprovalTypes)' = Where(ApprovalTypes)
      /\ Where({"hackerone_submission_rejected"})'
           = Where({"hackerone_submission_rejected"}) \union {n + 1}
      /\ Where({"hackerone_report_submitted"})' = Where({"hackerone_report_submitted"})
      /\ Where({"report_submitted"})' = Where({"report_submitted"})
  BY <1>1, <1>2 DEF Attempts, Where, ApprovalTypes
<1>4. /\ \A j \in Where({"hackerone_submission_rejected"}) : events'[j] = events[j]
      /\ \A j \in Where(ApprovalTypes) : events'[j] = events[j]
      /\ \A j \in Attempts : events'[j] = events[j]
  BY <1>1, <1>2 DEF Attempts, Where
<1>5. request' \in [Submitters -> [at : {"idle", "posting", "accepted", "refused"},
                                   attempt : Nat]]
      /\ \A u \in Submitters : request'[u].at = "idle"
  BY <1>1 DEF IInv, LogOK, Active, Idle
<1>6. LogOK'
  BY <1>2, <1>5 DEF IInv, LogOK
<1>7. OneActive'
  BY <1>5 DEF OneActive, Active
<1>8. OneReport'
  <2>1. \A k \in DOMAIN remote : remote[k].attempt # i
    BY DEF IInv, OneReport
  <2>2. events'[n + 1].attempt = i
    BY <1>2
  <2> HIDE DEF i
  <2> QED BY <1>3, <1>4, <1>5, <2>1, <2>2 DEF IInv, OneReport
<1>9. RejectedAfter'
  <2>1. n + 1 > events'[n + 1].attempt
    BY <1>1, <1>2
  <2> QED BY <2>1, <1>3, <1>4 DEF IInv, RejectedAfter
<1>10. AcceptedIsSubmission' /\ Separated'
  BY <1>3 DEF IInv, AcceptedIsSubmission, Separated
<1>11. Backed'
  BY <1>3, <1>4 DEF IInv, Backed, Sent, IsApprovalFor
<1> QED BY <1>6, <1>7, <1>8, <1>9, <1>10, <1>11 DEF IInv

LEMMA AcceptanceKeeps ==
    ASSUME IInv, NEW s \in Submitters, RecordAccepted(s)
    PROVE  IInv'
<1>0. PICK n : n = Len(events)
  OBVIOUS
<1> DEFINE i == request[s].attempt
           e == [type |-> "hackerone_report_submitted", attempt |-> i,
                 report |-> ReportOf(s)]
           f == [type |-> "report_submitted", platform |-> "hackerone"]
<1>1. /\ Active(s) /\ i \in Attempts /\ Attempts \in SUBSET (1..n) /\ n \in Nat
      /\ i \in Nat \ {0} /\ \A u \in Submitters \ {s} : ~ Active(u)
  <2>1. Active(s) /\ i \in Attempts /\ \A u \in Submitters \ {s} : ~ Active(u)
    BY DEF IInv, OneActive, Active, RecordAccepted
  <2>2. Attempts \in SUBSET (1..n) /\ n \in Nat
    BY <1>0, Places DEF IInv, Attempts
  <2>3. i \in 1..n
    BY <2>1, <2>2
  <2> QED BY <2>1, <2>2, <2>3
<1>2. /\ events' \in Seq(Event) /\ DOMAIN events = 1..n
      /\ DOMAIN events' = 1..(n + 2) /\ events'[n + 1] = e /\ events'[n + 2] = f
      /\ \A j \in 1..n : events'[j] = events[j]
  <2>1. ReportOf(s) \in Nat \ {0}
    <3>1. \E k \in DOMAIN remote : remote[k].attempt = i
      BY DEF IInv, OneReport, RecordAccepted
    <3>2. ReportOf(s) \in DOMAIN remote
      BY <3>1 DEF ReportOf
    <3> QED BY <3>2 DEF IInv, LogOK
  <2>2. e \in Event /\ f \in Event
    BY <1>1, <2>1, EventKinds
  <2>3. events' = events \o <<e, f>> /\ events \in Seq(Event)
    BY DEF RecordAccepted, IInv, LogOK
  <2> HIDE DEF e, f
  <2> QED BY <1>0, <2>2, <2>3
<1>3. /\ Attempts' = Attempts
      /\ Where(ApprovalTypes)' = Where(ApprovalTypes)
      /\ Where({"hackerone_submission_rejected"})' = Where({"hackerone_submission_rejected"})
      /\ Where({"hackerone_report_submitted"})'
           = Where({"hackerone_report_submitted"}) \union {n + 1}
      /\ Where({"report_submitted"})' = Where({"report_submitted"}) \union {n + 2}
  BY <1>1, <1>2 DEF Attempts, Where, ApprovalTypes
<1>4. /\ \A j \in Where({"hackerone_submission_rejected"}) : events'[j] = events[j]
      /\ \A j \in Where(ApprovalTypes) : events'[j] = events[j]
      /\ \A j \in Attempts : events'[j] = events[j]
  BY <1>1, <1>2 DEF Attempts, Where
<1>5. request' \in [Submitters -> [at : {"idle", "posting", "accepted", "refused"},
                                   attempt : Nat]]
      /\ \A u \in Submitters : request'[u].at = "idle"
  BY <1>1 DEF IInv, LogOK, Active, Idle, RecordAccepted
<1>6. remote' = remote
  BY DEF RecordAccepted
<1>7. LogOK'
  BY <1>2, <1>5, <1>6 DEF IInv, LogOK
<1>8. OneActive'
  BY <1>5 DEF OneActive, Active
<1>9. OneReport' /\ RejectedAfter'
  BY <1>3, <1>4, <1>5, <1>6 DEF IInv, OneReport, RejectedAfter
<1>10. AcceptedIsSubmission'
  <2>1. (n + 1) + 1 = n + 2
    BY <1>1
  <2> QED BY <2>1, <1>3 DEF IInv, AcceptedIsSubmission
<1>11. Separated'
  BY <1>3, <1>6 DEF IInv, Separated
<1>12. Backed'
  BY <1>3, <1>4 DEF IInv, Backed, Sent, IsApprovalFor
<1> QED BY <1>7, <1>8, <1>9, <1>10, <1>11, <1>12 DEF IInv

\* What happens at HackerOne changes no attempt.
LEMMA ActivityKeeps ==
    ASSUME IInv, NEW k \in DOMAIN remote, RemoteActivity(k)
    PROVE  IInv'
<1>1. /\ events' = events /\ request' = request
      /\ remote' \in Seq([attempt : Nat \ {0}, seen : Nat])
      /\ DOMAIN remote' = DOMAIN remote
      /\ \A l \in DOMAIN remote : remote'[l].attempt = remote[l].attempt
  <2>1. /\ remote \in Seq([attempt : Nat \ {0}, seen : Nat])
        /\ remote[k] \in [attempt : Nat \ {0}, seen : Nat]
    <3> DEFINE Report == [attempt : Nat \ {0}, seen : Nat]
    <3>1. remote \in Seq(Report)
      BY DEF IInv, LogOK
    <3> HIDE DEF Report
    <3>2. remote[k] \in Report
      BY <3>1
    <3> QED BY <3>1, <3>2 DEF Report
  <2>2. remote[k].attempt \in Nat \ {0} /\ remote[k].seen + 1 \in Nat
    BY <2>1
  <2> DEFINE r == [attempt |-> remote[k].attempt, seen |-> remote[k].seen + 1]
  <2>3. remote' = [remote EXCEPT ![k] = r]
    <3>1. remote' = [remote EXCEPT ![k] = [remote[k] EXCEPT !.seen = remote[k].seen + 1]]
      BY DEF RemoteActivity
    <3>2. [remote[k] EXCEPT !.seen = remote[k].seen + 1] = r
      BY <2>1
    <3> QED BY <3>1, <3>2
  <2>4. r \in [attempt : Nat \ {0}, seen : Nat] /\ r.attempt = remote[k].attempt
    BY <2>2
  <2> HIDE DEF r
  <2>5. remote' \in Seq([attempt : Nat \ {0}, seen : Nat]) /\ DOMAIN remote' = DOMAIN remote
    BY <2>1, <2>3, <2>4
  <2>6. \A l \in DOMAIN remote : remote'[l].attempt = remote[l].attempt
    BY <2>3, <2>4
  <2> QED BY <2>5, <2>6 DEF RemoteActivity
<1>2. /\ Attempts' = Attempts
      /\ Where(Resolutions)' = Where(Resolutions)
      /\ Where(ApprovalTypes)' = Where(ApprovalTypes)
      /\ Where({"hackerone_submission_rejected"})' = Where({"hackerone_submission_rejected"})
      /\ Where({"hackerone_report_submitted"})' = Where({"hackerone_report_submitted"})
      /\ Where({"report_submitted"})' = Where({"report_submitted"})
  BY <1>1 DEF Attempts, Where, Resolutions, ApprovalTypes
<1>3. LogOK' /\ OneReport' /\ RejectedAfter'
  <2>1. LogOK'
    BY <1>1 DEF IInv, LogOK
  <2>2. OneReport'
    <3>1. /\ \A m \in DOMAIN remote' : remote'[m].attempt \in Attempts'
          /\ \A m, l \in DOMAIN remote' : remote'[m].attempt = remote'[l].attempt => m = l
      BY <1>1, <1>2 DEF IInv, OneReport
    <3>2. /\ \A s \in Submitters : request'[s].at \in {"posting", "refused"} =>
               \A m \in DOMAIN remote' : remote'[m].attempt # request'[s].attempt
          /\ \A s \in Submitters : request'[s].at = "accepted" =>
               \E m \in DOMAIN remote' : remote'[m].attempt = request'[s].attempt
      BY <1>1 DEF IInv, OneReport
    <3>3. \A j \in Where({"hackerone_submission_rejected"})' :
            \A m \in DOMAIN remote' : remote'[m].attempt # events'[j].attempt
      BY <1>1, <1>2 DEF IInv, OneReport
    <3> QED BY <3>1, <3>2, <3>3 DEF OneReport
  <2> QED BY <2>1, <2>2, <1>1, <1>2 DEF IInv, RejectedAfter
<1>4. OneActive'
  BY <1>1, <1>2 DEF IInv, OneActive, Active, Resolved
<1>5. AcceptedIsSubmission' /\ Separated'
  BY <1>1, <1>2 DEF IInv, AcceptedIsSubmission, Separated
<1>6. Backed'
  BY <1>1, <1>2 DEF IInv, Backed, Sent, IsApprovalFor
<1> QED BY <1>3, <1>4, <1>5, <1>6 DEF IInv

\* The worker and edits of the campaign leave the log and the requests alone.
LEMMA UnchangedKeeps ==
    ASSUME IInv, UNCHANGED <<events, request, remote>>
    PROVE  IInv'
BY DEF IInv, LogOK, OneActive, OneReport, RejectedAfter, AcceptedIsSubmission, Separated,
       Backed, Attempts, Where, Active, Resolved, Sent, IsApprovalFor

-----------------------------------------------------------------------------
(* The theorems.                                                           *)

LEMMA BasisCorrect == Spec => []TypeOfBasis
<1>1. Init => TypeOfBasis
  BY SubmissionAssumption DEF SubmissionAssumption, Init, TypeOfBasis
<1>2. TypeOfBasis /\ [Next]_vars => TypeOfBasis'
  BY DEF TypeOfBasis, Next, vars, ApproveWhenReady, Approve, RevokeAny, RevokeActive,
     MarkSubmitted, Edit, Cancel, Attempt, PostAccepted, PostRefused, PostUnknown,
     RecordAccepted, RecordRefused, Abandon, RemoteActivity, Fetch, Sync, SyncLost
<1> QED BY <1>1, <1>2, PTL DEF Spec

LEMMA InitIInv == Init => IInv
<1> SUFFICES ASSUME Init PROVE IInv
  OBVIOUS
<1>1. /\ events = <<>> /\ remote = <<>> /\ request = [s \in Submitters |-> Idle]
      /\ \A types : Where(types) = {}
  BY DEF Init, Where
<1>2. LogOK
  BY <1>1 DEF LogOK, Idle
<1>3. OneActive /\ OneReport
  BY <1>1 DEF OneActive, OneReport, Active, Idle
<1> QED BY <1>1, <1>2, <1>3
        DEF IInv, RejectedAfter, AcceptedIsSubmission, Separated, Backed, Attempts

\* The invariant is inductive.
LEMMA Invariance == Spec => []IInv
<1>1. Init => IInv
  BY InitIInv
<1>2. IInv /\ TypeOfBasis /\ [Next]_vars => IInv'
  <2> SUFFICES ASSUME IInv, TypeOfBasis, [Next]_vars PROVE IInv'
    OBVIOUS
  <2>1. ASSUME NEW r \in Reviewers, ApproveWhenReady(r) \/ Approve(r) PROVE IInv'
    <3> DEFINE e == [type |-> "report_approved", by |-> r, basis |-> basis]
    <3>1. e \in Event /\ e.type \in ApprovalTypes
      BY EventKinds DEF TypeOfBasis, ApprovalTypes
    <3>2. Record(e) /\ UNCHANGED <<request, remote>>
      BY <2>1 DEF ApproveWhenReady, Approve
    <3> HIDE DEF e
    <3> QED BY <3>1, <3>2, PlainEventKeeps
  <2>2. ASSUME RevokeAny \/ RevokeActive PROVE IInv'
    <3> DEFINE e == [type |-> "report_approval_revoked"]
    <3>1. e \in Event /\ e.type \in ApprovalTypes
      BY EventKinds DEF ApprovalTypes
    <3>2. Record(e) /\ UNCHANGED <<request, remote>>
      BY <2>2 DEF RevokeAny, RevokeActive
    <3> HIDE DEF e
    <3> QED BY <3>1, <3>2, PlainEventKeeps
  <2>3. ASSUME NEW p \in Platforms, MarkSubmitted(p) PROVE IInv'
    <3> DEFINE e == [type |-> "report_submitted", platform |-> p]
    <3>1. e \in Event /\ e.type \in {"report_submitted"}
      BY EventKinds
    <3>2. Record(e) /\ UNCHANGED <<request, remote>>
      BY <2>3 DEF MarkSubmitted
    <3> HIDE DEF e
    <3> QED BY <3>1, <3>2, PlainEventKeeps
  <2>4. ASSUME NEW s \in Submitters, Attempt(s) PROVE IInv'
    BY <2>4, AttemptKeeps
  <2>5. ASSUME NEW s \in Submitters, PostAccepted(s) PROVE IInv'
    BY <2>5, PostKeeps DEF PostAccepted
  <2>6. ASSUME NEW s \in Submitters, PostRefused(s) \/ Abandon(s) PROVE IInv'
    BY <2>6, RequestOnlyKeeps DEF PostRefused, Abandon
  <2>7. ASSUME NEW s \in Submitters, PostUnknown(s) PROVE IInv'
    <3>1. CASE remote' = NewReport(s)
      BY <2>7, <3>1, PostKeeps DEF PostUnknown
    <3>2. CASE remote' = remote
      BY <2>7, <3>2, RequestOnlyKeeps DEF PostUnknown
    <3> QED BY <2>7, <3>1, <3>2 DEF PostUnknown
  <2>8. ASSUME NEW s \in Submitters, RecordAccepted(s) PROVE IInv'
    BY <2>8, AcceptanceKeeps
  <2>9. ASSUME NEW s \in Submitters, RecordRefused(s) PROVE IInv'
    BY <2>9, RefusalKeeps DEF RecordRefused
  <2>10. ASSUME NEW k \in DOMAIN remote, RemoteActivity(k) PROVE IInv'
    BY <2>10, ActivityKeeps
  <2>11. ASSUME \/ \E b \in Bases : Edit(b)
                \/ Cancel \/ Fetch \/ Sync \/ SyncLost \/ UNCHANGED vars
         PROVE  IInv'
    BY <2>11, UnchangedKeeps DEF Edit, Cancel, Fetch, Sync, SyncLost, vars
  <2> QED BY <2>1, <2>2, <2>3, <2>4, <2>5, <2>6, <2>7, <2>8, <2>9, <2>10, <2>11 DEF Next
<1> QED BY <1>1, <1>2, BasisCorrect, PTL DEF Spec

\* The approval that IsApprovalFor names is ApprovalFor.
LEMMA ApprovalForIs ==
    ASSUME IInv, NEW i, NEW a, IsApprovalFor(a, i)
    PROVE  ApprovalFor(i) = a
<1>1. Where(ApprovalTypes) \in SUBSET Nat
  BY Places DEF IInv
<1> DEFINE S == {j \in Where(ApprovalTypes) : j < i}
<1>2. S \in SUBSET Nat /\ a \in S /\ \A b \in S : b <= a
  BY <1>1 DEF IsApprovalFor
<1>3. ApprovalFor(i) = Latest(S)
  BY DEF ApprovalFor
<1> HIDE DEF S
<1> QED BY <1>2, <1>3, GreatestIsLatest

\* What reaches HackerOne had been approved as it was sent, and not revoked: no
\* interleaving of edits, revocations and requests with submit_hackerone_report
\* sends anything else.
THEOREM PostedCorrect == Spec => []PostedWasApproved
<1>1. IInv => PostedWasApproved
  <2> SUFFICES ASSUME IInv, NEW k \in DOMAIN remote
               PROVE  LET i == ApprovalFor(remote[k].attempt) IN
                      /\ i > 0
                      /\ events[i].type = "report_approved"
                      /\ events[i].basis = Sent(remote[k].attempt)
                      /\ Sent(remote[k].attempt).direct
    BY DEF PostedWasApproved
  <2>1. remote[k].attempt \in Attempts
    BY DEF IInv, OneReport
  <2>2. PICK a \in Where(ApprovalTypes) :
          /\ IsApprovalFor(a, remote[k].attempt)
          /\ events[a].type = "report_approved"
          /\ events[a].basis = Sent(remote[k].attempt)
    BY <2>1 DEF IInv, Backed
  <2>3. ApprovalFor(remote[k].attempt) = a
    BY <2>2, ApprovalForIs
  <2>4. a > 0
    BY Places DEF IInv
  <2> QED BY <2>1, <2>2, <2>3, <2>4 DEF IInv, Backed
<1> QED BY <1>1, Invariance, PTL

\* However often requests are repeated, lost or cut off, one approval sends at most
\* one report: hackerone_api saves the attempt first and refuses the next one while
\* it is unresolved.
THEOREM OnePostCorrect == Spec => []OnePostPerApproval
<1>1. IInv => OnePostPerApproval
  <2> SUFFICES ASSUME IInv, NEW k \in DOMAIN remote, NEW l \in DOMAIN remote, k # l,
                      ApprovalFor(remote[k].attempt) = ApprovalFor(remote[l].attempt)
               PROVE  FALSE
    BY DEF OnePostPerApproval
  <2>1. /\ remote[k].attempt \in Attempts /\ remote[l].attempt \in Attempts
        /\ remote[k].attempt # remote[l].attempt
    BY DEF IInv, OneReport
  <2>2. Attempts \in SUBSET Nat /\ Where(ApprovalTypes) \in SUBSET Nat
    BY Places DEF IInv, Attempts
  <2>3. ASSUME NEW x \in DOMAIN remote, NEW y \in DOMAIN remote,
               remote[x].attempt \in Attempts, remote[y].attempt \in Attempts,
               remote[x].attempt < remote[y].attempt
        PROVE  ApprovalFor(remote[x].attempt) # ApprovalFor(remote[y].attempt)
    <3>1. PICK b \in Where(ApprovalTypes) : remote[x].attempt < b /\ b < remote[y].attempt
      BY <2>3, <2>2 DEF IInv, Separated
    <3>2. PICK a : IsApprovalFor(a, remote[x].attempt)
      BY <2>3 DEF IInv, Backed
    <3>3. PICK c : IsApprovalFor(c, remote[y].attempt)
      BY <2>3 DEF IInv, Backed
    <3>4. a < remote[x].attempt /\ b <= c /\ a \in Nat /\ b \in Nat /\ c \in Nat
      BY <3>1, <3>2, <3>3, <2>2 DEF IsApprovalFor
    <3>5. remote[x].attempt \in Nat
      BY <2>2, <2>3
    <3>6. a # c
      BY <3>1, <3>4, <3>5
    <3> QED BY <3>2, <3>3, <3>6, ApprovalForIs
  <2>4. remote[k].attempt < remote[l].attempt \/ remote[l].attempt < remote[k].attempt
    <3>1. remote[k].attempt \in Nat /\ remote[l].attempt \in Nat
      BY <2>1, <2>2
    <3> QED BY <2>1, <3>1
  <2> QED BY <2>1, <2>3, <2>4
<1> QED BY <1>1, Invariance, PTL

-----------------------------------------------------------------------------
(* The sync worker: what it records is later than what it recorded before. *)

Entry == [kind : {"status", "needs-info", "comment"}, report : Nat \ {0}, seen : Nat]

\* Event e of the worker may stand before event f.
Before(e, f) ==
    e.kind = f.kind => e.report < f.report \/ (e.report = f.report /\ e.seen < f.seen)

Sorted(s) == \A i, j \in DOMAIN s : i < j => Before(s[i], s[j])

AllBefore(s, t) == \A i \in DOMAIN s, j \in DOMAIN t : Before(s[i], t[j])

\* No comment is recorded before an earlier one of the same report.
NoGap(s) ==
    \A i \in DOMAIN s : s[i].kind = "comment" =>
      \A a \in 1..s[i].seen : Activities[a] = "comment" =>
        \E j \in DOMAIN s : s[j] = [kind |-> "comment", report |-> s[i].report, seen |-> a]

\* The report that the worker follows is the latest of those recorded: an accepted
\* request that has still to be recorded made a later one.
SubmissionOK ==
    /\ RemoteSubmission \in {0} \union DOMAIN remote
    /\ \A s \in Submitters, k \in DOMAIN remote :
         request[s].at = "accepted" /\ remote[k].attempt = request[s].attempt
           => RemoteSubmission <= k

\* What the worker holds is of a report recorded by now, and had happened to it.
FetchOK ==
    /\ worker \in [report : Nat, seen : Nat]
    /\ worker # Nothing => /\ worker.report \in DOMAIN remote
                           /\ worker.report <= RemoteSubmission
                           /\ worker.seen <= remote[worker.report].seen

\* A recorded event had happened to its report when the worker last fetched it.
EntryOK(e) ==
    /\ e.report \in DOMAIN remote /\ e.report <= RemoteSubmission
    /\ e.seen <= remote[e.report].seen
    /\ worker.report = e.report => e.seen <= worker.seen
    /\ e.kind = "needs-info" => e.seen > 0 /\ Activities[e.seen] = "needs-info"

EntriesOK == \A i \in DOMAIN synced : EntryOK(synced[i])

SyncInv ==
    /\ IInv
    /\ SubmissionOK
    /\ FetchOK
    /\ synced \in Seq(Entry)
    /\ Sorted(synced)
    /\ NoGap(synced)
    /\ EntriesOK

-----------------------------------------------------------------------------
(* Sequences.                                                              *)

LEMMA JoinedParts ==
    ASSUME NEW s \in Seq(Entry), NEW t \in Seq(Entry)
    PROVE  /\ s \o t \in Seq(Entry)
           /\ Len(s) \in Nat /\ DOMAIN s = 1..Len(s) /\ DOMAIN t = 1..Len(t)
           /\ \A i \in DOMAIN s : i \in DOMAIN (s \o t) /\ (s \o t)[i] = s[i]
           /\ \A i \in DOMAIN t : /\ Len(s) + i \in DOMAIN (s \o t)
                                  /\ (s \o t)[Len(s) + i] = t[i]
           /\ \A i \in DOMAIN (s \o t) :
                i \in DOMAIN s \/ (i - Len(s) \in DOMAIN t /\ i = Len(s) + (i - Len(s)))
OBVIOUS

LEMMA JoinedSorted ==
    ASSUME NEW s \in Seq(Entry), NEW t \in Seq(Entry),
           Sorted(s), Sorted(t), AllBefore(s, t)
    PROVE  Sorted(s \o t)
<1> DEFINE u == s \o t
           n == Len(s)
<1>1. /\ n \in Nat /\ DOMAIN s = 1..n /\ DOMAIN t = 1..Len(t) /\ Len(t) \in Nat
      /\ \A i \in DOMAIN s : u[i] = s[i]
      /\ \A i \in DOMAIN t : u[n + i] = t[i]
      /\ \A i \in DOMAIN u : i \in DOMAIN s \/ (i - n \in DOMAIN t /\ i = n + (i - n))
  BY JoinedParts
<1>2. DOMAIN u \subseteq Nat
  BY JoinedParts
<1> HIDE DEF u, n
<1> SUFFICES ASSUME NEW i \in DOMAIN u, NEW j \in DOMAIN u, i < j
             PROVE  Before(u[i], u[j])
  BY DEF Sorted, u
<1>3. CASE i \in DOMAIN s /\ j \in DOMAIN s
  BY <1>1, <1>3 DEF Sorted
<1>4. CASE i \in DOMAIN s /\ j \notin DOMAIN s
  BY <1>1, <1>4 DEF AllBefore
<1>5. CASE i \notin DOMAIN s
  <2>1. j \notin DOMAIN s
    BY <1>1, <1>2, <1>5
  <2>2. PICK x \in DOMAIN t, y \in DOMAIN t : i = n + x /\ j = n + y
    BY <1>1, <1>5, <2>1
  <2>3. x < y
    BY <1>1, <2>2
  <2> QED
    BY <1>1, <2>2, <2>3 DEF Sorted
<1> QED
  BY <1>3, <1>4, <1>5

LEMMA JoinedBefore ==
    ASSUME NEW s \in Seq(Entry), NEW t \in Seq(Entry), NEW u,
           AllBefore(s, u), AllBefore(t, u)
    PROVE  AllBefore(s \o t, u)
<1>1. \A i \in DOMAIN (s \o t) : \/ \E j \in DOMAIN s : (s \o t)[i] = s[j]
                                 \/ \E j \in DOMAIN t : (s \o t)[i] = t[j]
  BY JoinedParts
<1> QED
  BY <1>1 DEF AllBefore

\* Events of another kind may stand anywhere.
LEMMA OtherKind ==
    ASSUME NEW s, NEW t,
           \A i \in DOMAIN s, j \in DOMAIN t : s[i].kind # t[j].kind
    PROVE  AllBefore(s, t)
BY DEF AllBefore, Before

-----------------------------------------------------------------------------
(* The latest recorded submission.                                         *)

LEMMA SubmissionStays ==
    ASSUME LogOK,
           \/ events' = events
           \/ \E e \in Event : Record(e) /\ e.type # "hackerone_report_submitted"
    PROVE  RemoteSubmission' = RemoteSubmission
<1> DEFINE S == Where({"hackerone_report_submitted"})
<1>1. CASE events' = events
  BY <1>1 DEF RemoteSubmission, Where
<1>2. ASSUME NEW e \in Event, Record(e), e.type # "hackerone_report_submitted"
      PROVE  RemoteSubmission' = RemoteSubmission
  <2>1. /\ Len(events) \in Nat /\ S \in SUBSET (1..Len(events))
        /\ DOMAIN events' = 1..(Len(events) + 1) /\ DOMAIN events = 1..Len(events)
        /\ events'[Len(events) + 1] = e
        /\ \A i \in 1..Len(events) : events'[i] = events[i]
    BY <1>2, RecordAppends, Places
  <2>2. S' = S
    BY <1>2, <2>1 DEF Where
  <2>3. Latest(S) \in S \/ Latest(S) = 0
    BY <2>1, LatestIsGreatest
  <2>4. Latest(S) # 0 => events'[Latest(S)] = events[Latest(S)]
    BY <2>1, <2>3
  <2> HIDE DEF S
  <2>5. /\ RemoteSubmission = IF Latest(S) = 0 THEN 0 ELSE events[Latest(S)].report
        /\ RemoteSubmission' = IF Latest(S') = 0 THEN 0 ELSE events'[Latest(S')].report
    BY DEF RemoteSubmission, S
  <2> QED
    BY <2>2, <2>4, <2>5
<1> QED
  BY <1>1, <1>2

LEMMA SubmissionMoves ==
    ASSUME IInv, SubmissionOK, NEW s \in Submitters, RecordAccepted(s)
    PROVE  RemoteSubmission' \in DOMAIN remote /\ RemoteSubmission <= RemoteSubmission'
<1> DEFINE S == Where({"hackerone_report_submitted"})
           n == Len(events)
           k == ReportOf(s)
<1>1. /\ n \in Nat /\ S \in SUBSET (1..n) /\ DOMAIN events = 1..n /\ events \in Seq(Event)
  BY Places DEF IInv, LogOK
<1>2. k \in DOMAIN remote /\ remote[k].attempt = request[s].attempt
  <2>1. \E l \in DOMAIN remote : remote[l].attempt = request[s].attempt
    BY DEF IInv, OneReport, RecordAccepted
  <2> QED
    BY <2>1 DEF ReportOf
<1>3. RemoteSubmission <= k
  BY <1>2 DEF SubmissionOK, RecordAccepted
<1>4. /\ DOMAIN events' = 1..(n + 2)
      /\ \A i \in 1..n : events'[i] = events[i]
      /\ events'[n + 1].type = "hackerone_report_submitted" /\ events'[n + 1].report = k
      /\ events'[n + 2].type = "report_submitted"
  <2> DEFINE e == [type |-> "hackerone_report_submitted", attempt |-> request[s].attempt,
                   report |-> k]
             f == [type |-> "report_submitted", platform |-> "hackerone"]
  <2>1. events' = events \o <<e, f>>
    BY DEF RecordAccepted
  <2>2. e.type = "hackerone_report_submitted" /\ e.report = k /\ f.type = "report_submitted"
    OBVIOUS
  <2> HIDE DEF e, f
  <2> QED
    BY <1>1, <2>1, <2>2
<1>5. S' \in SUBSET Nat /\ n + 1 \in S' /\ \A i \in S' : i <= n + 1
  BY <1>1, <1>4 DEF Where
<1> HIDE DEF S, k
<1>6. Latest(S') = n + 1
  BY <1>5, GreatestIsLatest
<1>7. RemoteSubmission' = IF Latest(S') = 0 THEN 0 ELSE events'[Latest(S')].report
  BY DEF RemoteSubmission, S
<1> QED
  BY <1>1, <1>2, <1>3, <1>4, <1>6, <1>7

\* Whatever is under way, a report that is not recorded yet is later than those that are.
LEMMA SubmissionKeeps ==
    ASSUME IInv, SubmissionOK, TypeOfBasis, [Next]_vars
    PROVE  /\ SubmissionOK' /\ RemoteSubmission <= RemoteSubmission'
           /\ DOMAIN remote \subseteq DOMAIN remote'
           /\ \A k \in DOMAIN remote : remote[k].seen <= remote'[k].seen
<1>0. /\ LogOK /\ RemoteSubmission \in Nat
      /\ \A k \in DOMAIN remote : k \in Nat /\ remote[k].seen \in Nat
      /\ Len(remote) \in Nat /\ DOMAIN remote = 1..Len(remote)
  <2> DEFINE Report == [attempt : Nat \ {0}, seen : Nat]
  <2>1. remote \in Seq(Report)
    BY DEF IInv, LogOK
  <2>2. \A r \in Report : r.seen \in Nat
    OBVIOUS
  <2> HIDE DEF Report
  <2>3. \A k \in DOMAIN remote : k \in Nat /\ remote[k] \in Report
    BY <2>1
  <2> QED
    BY <2>1, <2>2, <2>3 DEF IInv, SubmissionOK
\* A step that records no submission and makes no report.
<1>1. ASSUME RemoteSubmission' = RemoteSubmission, DOMAIN remote' = DOMAIN remote,
             \A k \in DOMAIN remote : /\ remote'[k].attempt = remote[k].attempt
                                      /\ remote[k].seen <= remote'[k].seen,
             \A s \in Submitters : request'[s].at = "accepted" =>
               request[s].at = "accepted" /\ request'[s].attempt = request[s].attempt
      PROVE  /\ SubmissionOK' /\ RemoteSubmission <= RemoteSubmission'
             /\ DOMAIN remote \subseteq DOMAIN remote'
             /\ \A k \in DOMAIN remote : remote[k].seen <= remote'[k].seen
  BY <1>0, <1>1 DEF SubmissionOK
<1>2. ASSUME UNCHANGED <<remote, request>>,
             \/ events' = events
             \/ \E e \in Event : Record(e) /\ e.type # "hackerone_report_submitted"
      PROVE  /\ SubmissionOK' /\ RemoteSubmission <= RemoteSubmission'
             /\ DOMAIN remote \subseteq DOMAIN remote'
             /\ \A k \in DOMAIN remote : remote[k].seen <= remote'[k].seen
  BY <1>0, <1>1, <1>2, SubmissionStays
<1>3. CASE \/ \E r \in Reviewers : ApproveWhenReady(r) \/ Approve(r)
           \/ RevokeAny \/ RevokeActive \/ \E p \in Platforms : MarkSubmitted(p)
  <2>1. UNCHANGED <<remote, request>>
    BY <1>3 DEF ApproveWhenReady, Approve, RevokeAny, RevokeActive, MarkSubmitted
  <2>2. \E e \in Event : Record(e) /\ e.type # "hackerone_report_submitted"
    <3>1. CASE \E r \in Reviewers : ApproveWhenReady(r) \/ Approve(r)
      <4>1. PICK r \in Reviewers : ApproveWhenReady(r) \/ Approve(r)
        BY <3>1
      <4> DEFINE e == [type |-> "report_approved", by |-> r, basis |-> basis]
      <4>2. Record(e)
        BY <4>1 DEF ApproveWhenReady, Approve
      <4>3. e \in Event /\ e.type # "hackerone_report_submitted"
        BY EventKinds DEF TypeOfBasis
      <4> HIDE DEF e
      <4> QED
        BY <4>2, <4>3
    <3>2. CASE RevokeAny \/ RevokeActive
      <4> DEFINE e == [type |-> "report_approval_revoked"]
      <4>1. Record(e)
        BY <3>2 DEF RevokeAny, RevokeActive
      <4>2. e \in Event /\ e.type # "hackerone_report_submitted"
        BY EventKinds
      <4> HIDE DEF e
      <4> QED
        BY <4>1, <4>2
    <3>3. CASE \E p \in Platforms : MarkSubmitted(p)
      <4>1. PICK p \in Platforms : MarkSubmitted(p)
        BY <3>3
      <4> DEFINE e == [type |-> "report_submitted", platform |-> p]
      <4>2. Record(e)
        BY <4>1 DEF MarkSubmitted
      <4>3. e \in Event /\ e.type # "hackerone_report_submitted"
        BY EventKinds
      <4> HIDE DEF e
      <4> QED
        BY <4>2, <4>3
    <3> QED
      BY <1>3, <3>1, <3>2, <3>3
  <2> QED
    BY <1>2, <2>1, <2>2
<1>4. CASE \E s \in Submitters : Attempt(s)
  <2>1. PICK s \in Submitters : Attempt(s)
    BY <1>4
  <2>2. \E e \in Event : Record(e) /\ e.type # "hackerone_report_submitted"
    <3> DEFINE e == [type |-> "hackerone_submission_attempted", basis |-> basis]
    <3>1. e \in Event /\ e.type # "hackerone_report_submitted"
      BY EventKinds DEF TypeOfBasis
    <3>2. Record(e)
      BY <2>1 DEF Attempt
    <3> HIDE DEF e
    <3> QED
      BY <3>1, <3>2
  <2>3. /\ remote' = remote
        /\ \A u \in Submitters : request'[u].at = "accepted" => request'[u] = request[u]
    BY <2>1 DEF Attempt, IInv, LogOK
  <2> QED
    BY <1>0, <1>1, <2>2, <2>3, SubmissionStays
<1>5. CASE \E s \in Submitters : PostRefused(s) \/ Abandon(s) \/ RecordRefused(s)
  <2>1. PICK s \in Submitters : PostRefused(s) \/ Abandon(s) \/ RecordRefused(s)
    BY <1>5
  <2>2. \/ events' = events
        \/ \E e \in Event : Record(e) /\ e.type # "hackerone_report_submitted"
    <3>1. CASE RecordRefused(s)
      <4>1. request[s].attempt \in Nat \ {0}
        <5>1. request[s].attempt \in Attempts
          BY <3>1 DEF RecordRefused, IInv, OneActive, Active
        <5>2. Attempts \in SUBSET (1..Len(events)) /\ Len(events) \in Nat
          BY <1>0, Places DEF Attempts
        <5>3. request[s].attempt \in 1..Len(events)
          BY <5>1, <5>2
        <5> QED
          BY <5>2, <5>3
      <4> QED
        BY <3>1, <4>1, EventKinds DEF RecordRefused
    <3> QED
      BY <2>1, <3>1 DEF PostRefused, Abandon
  <2>3. /\ remote' = remote
        /\ \A u \in Submitters : request'[u].at = "accepted" => request'[u] = request[u]
    BY <2>1 DEF PostRefused, Abandon, RecordRefused, Idle, IInv, LogOK
  <2> QED
    BY <1>0, <1>1, <2>2, <2>3, SubmissionStays
<1>6. CASE \E s \in Submitters : PostAccepted(s) \/ PostUnknown(s)
  <2>1. PICK s \in Submitters : PostAccepted(s) \/ PostUnknown(s)
    BY <1>6
  <2>2. events' = events /\ RemoteSubmission' = RemoteSubmission /\ request[s].at = "posting"
    BY <1>0, <2>1, SubmissionStays DEF PostAccepted, PostUnknown
  <2>3. CASE PostUnknown(s) /\ remote' = remote
    <3>1. \A u \in Submitters : request'[u].at = "accepted" => request'[u] = request[u]
      BY <2>3 DEF PostUnknown, Idle, IInv, LogOK
    <3> QED
      BY <1>0, <1>1, <2>2, <2>3, <3>1
  <2>4. CASE remote' = NewReport(s)
    <3> DEFINE n == Len(remote)
    <3>1. /\ DOMAIN remote' = 1..(n + 1)
          /\ \A k \in DOMAIN remote : remote'[k] = remote[k]
      BY <1>0, <2>4 DEF NewReport, IInv, LogOK
    <3> HIDE DEF n
    <3>2. \A u \in Submitters : request'[u].at = "accepted" =>
            \/ u # s /\ request'[u] = request[u]
            \/ u = s /\ request'[u].attempt = request[s].attempt
      BY <2>1, <2>2 DEF PostAccepted, PostUnknown, Idle, IInv, LogOK
    <3>3. \A k \in DOMAIN remote : remote[k].attempt # request[s].attempt
      BY <2>2 DEF IInv, OneReport
    <3>4. RemoteSubmission <= n /\ n \in Nat /\ DOMAIN remote = 1..n
      BY <1>0 DEF SubmissionOK, n
    <3>5. ASSUME NEW u \in Submitters, NEW k \in DOMAIN remote',
                 request'[u].at = "accepted", remote'[k].attempt = request'[u].attempt
          PROVE  RemoteSubmission <= k
      <4>1. CASE k = n + 1
        BY <1>0, <3>4, <4>1
      <4>2. CASE k \in DOMAIN remote
        <5>1. request'[u] = request[u]
          BY <3>1, <3>2, <3>3, <3>5, <4>2
        <5> QED
          BY <3>1, <3>5, <4>2, <5>1 DEF SubmissionOK
      <4> QED
        BY <3>1, <3>4, <4>1, <4>2
    <3>6. SubmissionOK'
      BY <2>2, <3>1, <3>4, <3>5 DEF SubmissionOK
    <3> QED
      BY <1>0, <2>2, <3>1, <3>4, <3>6
  <2> QED
    BY <2>1, <2>3, <2>4 DEF PostAccepted, PostUnknown
<1>7. CASE \E s \in Submitters : RecordAccepted(s)
  <2>1. PICK s \in Submitters : RecordAccepted(s)
    BY <1>7
  <2>2. RemoteSubmission' \in DOMAIN remote /\ RemoteSubmission <= RemoteSubmission'
    BY <2>1, SubmissionMoves
  <2>3. \A u \in Submitters : request'[u].at = "idle"
    BY <2>1 DEF RecordAccepted, IInv, LogOK, OneActive, Active, Idle
  <2>4. remote' = remote
    BY <2>1 DEF RecordAccepted
  <2> QED
    BY <1>0, <2>2, <2>3, <2>4 DEF SubmissionOK
<1>8. CASE \E k \in DOMAIN remote : RemoteActivity(k)
  <2>1. PICK k \in DOMAIN remote : RemoteActivity(k)
    BY <1>8
  <2>2. events' = events /\ request' = request /\ DOMAIN remote' = DOMAIN remote
        /\ \A l \in DOMAIN remote : /\ remote'[l].attempt = remote[l].attempt
                                    /\ remote[l].seen <= remote'[l].seen
    <3>1. remote' = [remote EXCEPT ![k] = [remote[k] EXCEPT !.seen = remote[k].seen + 1]]
      BY <2>1 DEF RemoteActivity
    <3> DEFINE Report == [attempt : Nat \ {0}, seen : Nat]
    <3>0. remote \in Seq(Report)
      BY DEF IInv, LogOK
    <3> HIDE DEF Report
    <3>5. remote[k] \in Report
      BY <3>0
    <3>2. remote[k] \in [attempt : Nat \ {0}, seen : Nat]
      BY <3>5 DEF Report
    <3> DEFINE r == [remote[k] EXCEPT !.seen = remote[k].seen + 1]
    <3>3. r.attempt = remote[k].attempt /\ r.seen = remote[k].seen + 1
      BY <3>2
    <3> HIDE DEF r
    <3>4. remote' = [remote EXCEPT ![k] = r]
      BY <3>1 DEF r
    <3> QED
      BY <1>0, <2>1, <3>3, <3>4 DEF RemoteActivity
  <2> QED
    BY <1>0, <1>1, <2>2, SubmissionStays
<1>9. CASE \/ \E b \in Bases : Edit(b)
           \/ Cancel \/ Fetch \/ Sync \/ SyncLost \/ UNCHANGED vars
  BY <1>2, <1>9 DEF Edit, Cancel, Fetch, Sync, SyncLost, vars
<1> QED
  BY <1>3, <1>4, <1>5, <1>6, <1>7, <1>8, <1>9 DEF Next

-----------------------------------------------------------------------------
(* A round of the worker.                                                  *)

In(e, s) == \E i \in DOMAIN s : s[i] = e

LEMMA JoinedIn ==
    ASSUME NEW s \in Seq(Entry), NEW t \in Seq(Entry)
    PROVE  \A e : In(e, s \o t) <=> In(e, s) \/ In(e, t)
<1> DEFINE u == s \o t
           n == Len(s)
<1>1. /\ \A i \in DOMAIN s : i \in DOMAIN u /\ u[i] = s[i]
      /\ \A i \in DOMAIN t : n + i \in DOMAIN u /\ u[n + i] = t[i]
      /\ \A i \in DOMAIN u : i \in DOMAIN s \/ (i - n \in DOMAIN t /\ i = n + (i - n))
  BY JoinedParts
<1> HIDE DEF u, n
<1>2. \A e : In(e, u) <=> In(e, s) \/ In(e, t)
  <2> SUFFICES ASSUME NEW e PROVE In(e, u) <=> In(e, s) \/ In(e, t)
    OBVIOUS
  <2>1. ASSUME NEW i \in DOMAIN u, u[i] = e PROVE In(e, s) \/ In(e, t)
    <3>1. CASE i \in DOMAIN s
      BY <1>1, <2>1, <3>1 DEF In
    <3>2. CASE i - n \in DOMAIN t /\ i = n + (i - n)
      <4>1. u[n + (i - n)] = t[i - n]
        BY <1>1, <3>2
      <4> QED
        BY <2>1, <3>2, <4>1 DEF In
    <3> QED
      BY <1>1, <3>1, <3>2
  <2>2. In(e, s) => In(e, u)
    BY <1>1 DEF In
  <2>3. In(e, t) => In(e, u)
    BY <1>1 DEF In
  <2> QED
    BY <2>1, <2>2, <2>3 DEF In
<1> QED
  BY <1>2 DEF u

\* t is what a round records of this kind, after what is recorded already.
Fresh(t, kind) ==
    /\ t \in Seq(Entry)
    /\ Sorted(t)
    /\ AllBefore(synced, t)
    /\ \A i \in DOMAIN t :
         /\ t[i].kind = kind /\ t[i].report = worker.report /\ t[i].seen <= worker.seen
         /\ kind = "needs-info" => t[i].seen > 0 /\ Activities[t[i].seen] = "needs-info"

LEMMA EntryFields ==
    ASSUME NEW s \in Seq(Entry)
    PROVE  /\ Len(s) \in Nat /\ DOMAIN s = 1..Len(s)
           /\ \A i \in DOMAIN s :
                /\ s[i] \in Entry
                /\ s[i].report \in Nat \ {0} /\ s[i].seen \in Nat
                /\ s[i] = [kind |-> s[i].kind, report |-> s[i].report, seen |-> s[i].seen]
<1>1. Len(s) \in Nat /\ DOMAIN s = 1..Len(s) /\ \A i \in DOMAIN s : s[i] \in Entry
  BY ElementOfSeq, LenProperties
<1> QED
  BY <1>1 DEF Entry

LEMMA LatestOfKind ==
    ASSUME synced \in Seq(Entry), NEW kind, NEW m \in DOMAIN synced, synced[m].kind = kind
    PROVE  \E i \in DOMAIN synced :
             /\ synced[i].kind = kind /\ LastOf(kind) = synced[i]
             /\ \A j \in DOMAIN synced : synced[j].kind = kind => j <= i
<1> DEFINE S == {j \in DOMAIN synced : synced[j].kind = kind}
           n == Len(synced)
<1>1. n \in Nat /\ S \in SUBSET (1..n) /\ S # {} /\ m \in S
  BY EntryFields
<1>2. LastOf(kind) = IF Latest(S) = 0 THEN Nothing ELSE synced[Latest(S)]
  BY DEF LastOf
<1> HIDE DEF S, n
<1>3. Latest(S) \in S /\ \A j \in S : j <= Latest(S)
  BY <1>1, LatestIsGreatest
<1>4. Latest(S) # 0
  BY <1>1, <1>3
<1> QED
  BY <1>2, <1>3, <1>4 DEF S

\* An event of the latest report that differs from the last of its kind, and of which
\* no later one is recorded, is later than all of them.
LEMMA LaterThanLast ==
    ASSUME SyncInv, NEW kind, NEW v \in Nat,
           \A i \in DOMAIN synced :
             synced[i].kind = kind /\ synced[i].report = RemoteSubmission => synced[i].seen <= v,
           LastOf(kind) # [kind |-> kind, report |-> RemoteSubmission, seen |-> v]
    PROVE  \A i \in DOMAIN synced :
             synced[i].kind = kind =>
               \/ synced[i].report < RemoteSubmission
               \/ synced[i].report = RemoteSubmission /\ synced[i].seen < v
<1> SUFFICES ASSUME NEW i \in DOMAIN synced, synced[i].kind = kind,
                    ~(synced[i].report < RemoteSubmission)
             PROVE  synced[i].report = RemoteSubmission /\ synced[i].seen < v
  OBVIOUS
<1>1. /\ RemoteSubmission \in Nat
      /\ \A j \in DOMAIN synced : /\ j \in Nat
                                  /\ synced[j].report \in Nat /\ synced[j].seen \in Nat
                                  /\ synced[j].report <= RemoteSubmission
  <2>1. DOMAIN remote \subseteq Nat
    BY DEF SyncInv, IInv, LogOK
  <2> QED
    BY <2>1, EntryFields DEF SyncInv, SubmissionOK, EntriesOK, EntryOK
<1>2. PICK m \in DOMAIN synced : /\ synced[m].kind = kind /\ LastOf(kind) = synced[m] /\ i <= m
  BY LatestOfKind DEF SyncInv
<1>3. i < m => Before(synced[i], synced[m])
  BY <1>1, <1>2 DEF SyncInv, Sorted
<1>4. synced[m].report = RemoteSubmission /\ synced[i].report = RemoteSubmission
  <2>1. synced[i].report = RemoteSubmission
    BY <1>1
  <2>2. CASE i < m
    BY <1>1, <1>2, <1>3, <2>1, <2>2 DEF Before
  <2>3. CASE i = m
    BY <2>1, <2>3
  <2> QED
    BY <1>1, <1>2, <2>1, <2>2, <2>3
<1>5. synced[m].seen # v
  BY <1>2, <1>4, EntryFields DEF SyncInv
<1>6. synced[m].seen < v
  BY <1>1, <1>2, <1>4, <1>5
<1>7. CASE i < m
  BY <1>1, <1>2, <1>3, <1>4, <1>6, <1>7 DEF Before
<1>8. CASE i = m
  BY <1>4, <1>6, <1>8
<1> QED
  BY <1>1, <1>2, <1>7, <1>8

LEMMA OneFresh ==
    ASSUME SyncInv, NEW e \in Entry, \A i \in DOMAIN synced : Before(synced[i], e),
           e.report = worker.report, e.seen <= worker.seen,
           e.kind = "needs-info" => e.seen > 0 /\ Activities[e.seen] = "needs-info"
    PROVE  Fresh(<<e>>, e.kind) /\ Fresh(<<>>, e.kind)
<1>1. <<e>> \in Seq(Entry) /\ DOMAIN <<e>> = {1} /\ <<e>>[1] = e
  OBVIOUS
<1>2. Fresh(<<e>>, e.kind)
  BY <1>1 DEF Fresh, Sorted, AllBefore
<1>3. <<>> \in Seq(Entry) /\ DOMAIN <<>> = {}
  OBVIOUS
<1> QED
  BY <1>2, <1>3 DEF Fresh, Sorted, AllBefore

LEMMA NoneFresh == ASSUME NEW kind PROVE Fresh(<<>>, kind)
<1>1. <<>> \in Seq(Entry) /\ DOMAIN <<>> = {}
  OBVIOUS
<1> QED
  BY <1>1 DEF Fresh, Sorted, AllBefore

\* The worker holds the report it follows, as it was when it was fetched.
LEMMA Fetched ==
    ASSUME SyncInv, worker # Nothing, worker.report = RemoteSubmission
    PROVE  /\ worker.report \in Nat \ {0} /\ worker.seen \in Nat
           /\ \A i \in DOMAIN synced :
                synced[i].report = RemoteSubmission => synced[i].seen <= worker.seen
<1>1. DOMAIN remote = 1..Len(remote)
  BY DEF SyncInv, IInv, LogOK
<1>2. worker.report \in DOMAIN remote /\ worker.report \in Nat /\ worker.seen \in Nat
  BY DEF SyncInv, FetchOK
<1> QED
  BY <1>1, <1>2 DEF SyncInv, EntriesOK, EntryOK

LEMMA StatusFresh ==
    ASSUME SyncInv, worker # Nothing, worker.report = RemoteSubmission
    PROVE  Fresh(StatusEvent(worker), "status")
<1> DEFINE e == [kind |-> "status", report |-> worker.report, seen |-> worker.seen]
<1>1. /\ e \in Entry /\ e.kind = "status" /\ e.report = worker.report /\ e.seen = worker.seen
      /\ worker.seen \in Nat
  BY Fetched DEF Entry
<1>2. CASE LastOf("status") = e
  BY <1>2, NoneFresh DEF StatusEvent
<1>3. CASE LastOf("status") # e
  <2>1. \A i \in DOMAIN synced :
          synced[i].kind = "status" =>
            \/ synced[i].report < RemoteSubmission
            \/ synced[i].report = RemoteSubmission /\ synced[i].seen < worker.seen
    BY <1>1, <1>3, Fetched, LaterThanLast
  <2>2. StatusEvent(worker) = <<e>>
    BY <1>3 DEF StatusEvent
  <2> HIDE DEF e
  <2>3. \A i \in DOMAIN synced : Before(synced[i], e)
    BY <1>1, <2>1 DEF Before
  <2>4. e.seen <= worker.seen
    BY <1>1
  <2> QED
    BY <1>1, <2>2, <2>3, <2>4, OneFresh
<1> QED
  BY <1>2, <1>3

LEMMA NeedsInfoFresh ==
    ASSUME SyncInv, worker # Nothing, worker.report = RemoteSubmission
    PROVE  Fresh(NeedsInfoEvent(worker), "needs-info")
<1> DEFINE S == {i \in 1..worker.seen : Activities[i] = "needs-info"}
           a == Newest("needs-info", worker.seen)
           e == [kind |-> "needs-info", report |-> worker.report, seen |-> a]
<1>0. worker.report \in Nat \ {0} /\ worker.seen \in Nat
  BY Fetched
<1>1. CASE a = 0 \/ LastOf("needs-info") = e
  BY <1>1, NoneFresh DEF NeedsInfoEvent
<1>2. CASE a # 0 /\ LastOf("needs-info") # e
  <2>1. S \in SUBSET (1..worker.seen) /\ a = Latest(S)
    BY DEF Newest
  <2>2. S = {} => a = 0
    BY <1>0, <2>1, LatestIsGreatest
  <2>3. a \in S /\ \A i \in S : i <= a
    BY <1>0, <1>2, <2>1, <2>2, LatestIsGreatest
  <2>4. a \in Nat /\ a > 0 /\ a <= worker.seen /\ Activities[a] = "needs-info"
    BY <1>0, <2>3
  <2> HIDE DEF a
  <2>5. e \in Entry /\ e.kind = "needs-info" /\ e.report = worker.report /\ e.seen = a
    BY <1>0, <2>4 DEF Entry
  <2>6. \A i \in DOMAIN synced :
          synced[i].kind = "needs-info" /\ synced[i].report = RemoteSubmission
            => synced[i].seen <= a
    <3> SUFFICES ASSUME NEW i \in DOMAIN synced, synced[i].kind = "needs-info",
                        synced[i].report = RemoteSubmission
                 PROVE  synced[i].seen <= a
      OBVIOUS
    <3>1. synced[i].seen \in Nat /\ synced[i].seen <= worker.seen
      BY Fetched, EntryFields DEF SyncInv
    <3>2. synced[i].seen > 0 /\ Activities[synced[i].seen] = "needs-info"
      BY DEF SyncInv, EntriesOK, EntryOK
    <3> QED
      BY <1>0, <2>3, <3>1, <3>2
  <2>7. \A i \in DOMAIN synced :
          synced[i].kind = "needs-info" =>
            \/ synced[i].report < RemoteSubmission
            \/ synced[i].report = RemoteSubmission /\ synced[i].seen < a
    BY <1>2, <2>4, <2>6, LaterThanLast
  <2>8. NeedsInfoEvent(worker) = <<e>>
    BY <1>2 DEF NeedsInfoEvent, a
  <2> HIDE DEF e
  <2>9. \A i \in DOMAIN synced : Before(synced[i], e)
    BY <2>5, <2>7 DEF Before
  <2> QED
    BY <2>4, <2>5, <2>8, <2>9, OneFresh
<1> QED
  BY <1>1, <1>2

LEMMA CommentsFresh ==
    ASSUME SyncInv, worker # Nothing, worker.report = RemoteSubmission,
           NEW t \in CommentEvents(worker)
    PROVE  /\ Fresh(t, "comment")
           /\ \A a \in Unseen(worker) :
                In([kind |-> "comment", report |-> worker.report, seen |-> a], t)
<1> DEFINE U == Unseen(worker)
<1>0. worker.report \in Nat \ {0} /\ worker.seen \in Nat
  BY Fetched
<1>1. PICK q \in InOrder(U) :
        t = [i \in DOMAIN q |-> [kind |-> "comment", report |-> worker.report, seen |-> q[i]]]
  BY DEF CommentEvents
<1>2. U \subseteq 1..worker.seen /\ IsFiniteSet(U)
  <2>1. U \subseteq 1..worker.seen
    BY DEF Unseen
  <2> HIDE DEF U
  <2> QED
    <3>1. worker.seen \in Int /\ 1 \in Int
      BY <1>0
    <3>2. IsFiniteSet(1..worker.seen)
      BY <3>1, FS_Interval, Zenon
    <3> QED
      BY <2>1, <3>2, FS_Subset, Zenon
<1>3. \A a \in U : /\ Activities[a] = "comment"
                   /\ ~In([kind |-> "comment", report |-> worker.report, seen |-> a], synced)
  BY DEF Unseen, In
<1> HIDE DEF U
<1>4. PICK n \in Nat : n = Cardinality(U)
  BY <1>2, FS_CardinalityType
<1>5. /\ q \in [1..n -> U]
      /\ \A a \in U : \E i \in 1..n : q[i] = a
      /\ \A i, j \in 1..n : i < j => q[i] < q[j]
  BY <1>1, <1>4 DEF InOrder
<1>6. /\ DOMAIN t = 1..n
      /\ \A i \in 1..n : /\ t[i] = [kind |-> "comment", report |-> worker.report, seen |-> q[i]]
                         /\ q[i] \in U /\ q[i] \in Nat /\ q[i] <= worker.seen
  <2>1. DOMAIN q = 1..n /\ \A i \in 1..n : q[i] \in U
    BY <1>5
  <2>2. \A a \in U : a \in Nat /\ a <= worker.seen
    BY <1>0, <1>2
  <2> QED
    BY <1>1, <2>1, <2>2
<1>7. \A i \in 1..n : /\ t[i].kind = "comment" /\ t[i].report = worker.report
                      /\ t[i].seen = q[i] /\ t[i] \in Entry
  BY <1>0, <1>6 DEF Entry
<1>8. t \in Seq(Entry)
  <2>1. t = [i \in 1..n |-> t[i]]
    BY <1>1, <1>5
  <2>2. \A i \in 1..n : t[i] \in Entry
    BY <1>7
  <2> QED
    BY <1>4, <2>1, <2>2, IsASeq
<1>9. Sorted(t)
  BY <1>5, <1>6, <1>7 DEF Sorted, Before
<1>10. AllBefore(synced, t)
  <2> SUFFICES ASSUME NEW i \in DOMAIN synced, NEW j \in 1..n, synced[i].kind = "comment"
               PROVE  \/ synced[i].report < worker.report
                      \/ synced[i].report = worker.report /\ synced[i].seen < q[j]
    BY <1>6, <1>7 DEF AllBefore, Before
  <2>1. synced[i].report \in Nat /\ synced[i].seen \in Nat /\ synced[i].report <= worker.report
    BY EntryFields DEF SyncInv, EntriesOK, EntryOK
  <2>2. CASE synced[i].report = worker.report /\ q[j] <= synced[i].seen
    <3>1. q[j] \in 1..synced[i].seen /\ Activities[q[j]] = "comment"
      <4>1. q[j] \in U /\ q[j] \in Nat /\ q[j] \in 1..worker.seen
        BY <1>2, <1>6
      <4>2. q[j] >= 1
        BY <1>0, <4>1
      <4>3. q[j] \in 1..synced[i].seen
        BY <2>1, <2>2, <4>1, <4>2
      <4> QED
        BY <1>3, <4>1, <4>3
    <3>2. In([kind |-> "comment", report |-> worker.report, seen |-> q[j]], synced)
      BY <2>2, <3>1 DEF SyncInv, NoGap, In
    <3> QED
      BY <1>3, <1>6, <3>2
  <2> QED
    BY <1>0, <1>6, <2>1, <2>2
<1>11. \A a \in U : In([kind |-> "comment", report |-> worker.report, seen |-> a], t)
  BY <1>5, <1>6 DEF In
<1> QED
  BY <1>6, <1>7, <1>8, <1>9, <1>10, <1>11 DEF Fresh, U

\* What an event knew stays so: reports and submissions only go on.
LEMMA EntriesStay ==
    ASSUME SyncInv, synced' = synced, RemoteSubmission <= RemoteSubmission',
           RemoteSubmission' \in Nat, DOMAIN remote \subseteq DOMAIN remote',
           \A k \in DOMAIN remote : /\ remote[k].seen <= remote'[k].seen
                                    /\ remote'[k].seen \in Nat,
           worker' = worker \/ worker' = Nothing
    PROVE  FetchOK' /\ EntriesOK'
<1>1. /\ RemoteSubmission \in Nat
      /\ \A k \in DOMAIN remote : k \in Nat \ {0} /\ remote[k].seen \in Nat
  <2> DEFINE Report == [attempt : Nat \ {0}, seen : Nat]
  <2>1. remote \in Seq(Report)
    BY DEF SyncInv, IInv, LogOK
  <2>2. \A r \in Report : r.seen \in Nat
    OBVIOUS
  <2> HIDE DEF Report
  <2>3. \A k \in DOMAIN remote : k \in Nat \ {0} /\ remote[k] \in Report
    BY <2>1
  <2> QED
    BY <2>2, <2>3 DEF SyncInv, SubmissionOK
<1>2. \A i \in DOMAIN synced : synced[i].report \in Nat \ {0} /\ synced[i].seen \in Nat
  BY EntryFields DEF SyncInv
<1>3. worker.report \in Nat /\ worker.seen \in Nat
  BY DEF SyncInv, FetchOK
<1>4. FetchOK'
  <2>1. CASE worker' = Nothing
    BY <2>1 DEF FetchOK, Nothing
  <2>2. CASE worker' = worker /\ worker # Nothing
    BY <1>1, <1>3, <2>2 DEF SyncInv, FetchOK
  <2> QED
    BY <2>1, <2>2
<1>5. \/ worker'.report = worker.report /\ worker'.seen = worker.seen
      \/ worker'.report = 0
  BY DEF Nothing
<1>6. ASSUME NEW i \in DOMAIN synced
      PROVE  EntryOK(synced[i])'
  <2>1. EntryOK(synced[i])
    BY DEF SyncInv, EntriesOK
  <2>2. synced'[i] = synced[i]
    OBVIOUS
  <2> QED
    BY <1>1, <1>2, <1>5, <2>1, <2>2 DEF EntryOK
<1> QED
  BY <1>4, <1>6 DEF EntriesOK

LEMMA FetchKeeps ==
    ASSUME SyncInv, Fetch
    PROVE  FetchOK' /\ EntriesOK'
<1>1. /\ worker' = [report |-> RemoteSubmission, seen |-> remote[RemoteSubmission].seen]
      /\ UNCHANGED <<events, synced, remote>> /\ RemoteSubmission > 0
  BY DEF Fetch
<1>2. RemoteSubmission' = RemoteSubmission /\ RemoteSubmission \in DOMAIN remote
      /\ RemoteSubmission \in Nat
  <2>1. DOMAIN remote \subseteq Nat
    BY DEF SyncInv, IInv, LogOK
  <2> QED
    BY <1>1, <2>1 DEF SyncInv, SubmissionOK, RemoteSubmission, Where
<1>3. remote[RemoteSubmission].seen \in Nat
  <2> DEFINE Report == [attempt : Nat \ {0}, seen : Nat]
  <2>1. remote \in Seq(Report)
    BY DEF SyncInv, IInv, LogOK
  <2>2. \A r \in Report : r.seen \in Nat
    OBVIOUS
  <2> HIDE DEF Report
  <2>3. remote[RemoteSubmission] \in Report
    BY <1>2, <2>1
  <2> QED
    BY <2>2, <2>3
<1>4. worker'.report = RemoteSubmission /\ worker'.seen = remote[RemoteSubmission].seen
      /\ worker' \in [report : Nat, seen : Nat]
  BY <1>1, <1>2, <1>3
<1>5. FetchOK'
  BY <1>1, <1>2, <1>3, <1>4 DEF FetchOK
<1>6. ASSUME NEW i \in DOMAIN synced
      PROVE  EntryOK(synced[i])'
  <2>1. EntryOK(synced[i])
    BY DEF SyncInv, EntriesOK
  <2>2. synced'[i] = synced[i]
    BY <1>1
  <2> QED
    BY <1>1, <1>2, <1>4, <2>1, <2>2 DEF EntryOK
<1> QED
  BY <1>1, <1>5, <1>6 DEF EntriesOK

\* A round that records appends three kinds of events, each in order.
LEMMA RoundKeeps ==
    ASSUME SyncInv, worker # Nothing, worker.report = RemoteSubmission,
           NEW c \in CommentEvents(worker), worker' = Nothing, UNCHANGED <<events, remote>>,
           synced' = synced \o StatusEvent(worker) \o NeedsInfoEvent(worker) \o c
    PROVE  /\ synced' \in Seq(Entry) /\ Sorted(synced') /\ NoGap(synced')
           /\ FetchOK' /\ EntriesOK'
<1> DEFINE s == StatusEvent(worker)
           n == NeedsInfoEvent(worker)
<1>1. Fresh(s, "status") /\ Fresh(n, "needs-info") /\ Fresh(c, "comment")
  BY StatusFresh, NeedsInfoFresh, CommentsFresh
<1>2. \A a \in Unseen(worker) :
        In([kind |-> "comment", report |-> worker.report, seen |-> a], c)
  BY CommentsFresh
<1>3. synced' = ((synced \o s) \o n) \o c
  OBVIOUS
<1> HIDE DEF s, n
<1>4. /\ synced \in Seq(Entry) /\ s \in Seq(Entry) /\ n \in Seq(Entry) /\ c \in Seq(Entry)
      /\ Sorted(synced) /\ Sorted(s) /\ Sorted(n) /\ Sorted(c)
      /\ AllBefore(synced, s) /\ AllBefore(synced, n) /\ AllBefore(synced, c)
  BY <1>1 DEF SyncInv, Fresh
<1>5. AllBefore(s, n) /\ AllBefore(s, c) /\ AllBefore(n, c)
  BY <1>1 DEF Fresh, AllBefore, Before
<1> DEFINE u == synced \o s
           v == u \o n
<1>6. u \in Seq(Entry) /\ Sorted(u) /\ AllBefore(u, n) /\ AllBefore(u, c)
  BY <1>4, <1>5, JoinedParts, JoinedSorted, JoinedBefore
<1>7. \A e : In(e, u) <=> In(e, synced) \/ In(e, s)
  BY <1>4, JoinedIn
<1> HIDE DEF u
<1>8. v \in Seq(Entry) /\ Sorted(v) /\ AllBefore(v, c)
  BY <1>4, <1>5, <1>6, JoinedParts, JoinedSorted, JoinedBefore
<1>9. \A e : In(e, v) <=> In(e, u) \/ In(e, n)
  BY <1>4, <1>6, JoinedIn
<1>10. synced' = v \o c
  BY <1>3 DEF u
<1> HIDE DEF v
<1>11. synced' \in Seq(Entry) /\ Sorted(synced')
  BY <1>4, <1>8, <1>10, JoinedParts, JoinedSorted
<1>12. \A e : In(e, synced') <=> In(e, synced) \/ In(e, s) \/ In(e, n) \/ In(e, c)
  BY <1>4, <1>7, <1>8, <1>9, <1>10, JoinedIn
<1>13. \A e : In(e, s) \/ In(e, n) \/ In(e, c) =>
         /\ e.report = worker.report /\ e.seen <= worker.seen
         /\ e.kind = "needs-info" => e.seen > 0 /\ Activities[e.seen] = "needs-info"
  BY <1>1 DEF Fresh, In
<1>14. RemoteSubmission' = RemoteSubmission /\ remote' = remote
  BY DEF RemoteSubmission, Where
<1>15. FetchOK'
  BY DEF FetchOK, Nothing
<1>16. /\ worker.report \in DOMAIN remote /\ worker.report \in Nat \ {0} /\ worker.seen \in Nat
       /\ worker.seen <= remote[worker.report].seen /\ remote[worker.report].seen \in Nat
  <2> DEFINE Report == [attempt : Nat \ {0}, seen : Nat]
  <2>1. remote \in Seq(Report)
    BY DEF SyncInv, IInv, LogOK
  <2>2. \A r \in Report : r.seen \in Nat
    OBVIOUS
  <2> HIDE DEF Report
  <2>3. worker.report \in DOMAIN remote /\ worker.seen <= remote[worker.report].seen
    BY DEF SyncInv, FetchOK
  <2>4. remote[worker.report] \in Report
    BY <2>1, <2>3
  <2> QED
    BY <2>2, <2>3, <2>4, Fetched
<1>17. EntriesOK'
  <2> SUFFICES ASSUME NEW i \in DOMAIN synced' PROVE EntryOK(synced[i])'
    BY DEF EntriesOK
  <2> DEFINE e == synced'[i]
  <2>1. In(e, synced')
    BY DEF In
  <2>2. e.report \in Nat \ {0} /\ e.seen \in Nat
    BY <1>11, EntryFields
  <2>3. CASE In(e, synced)
    <3>1. EntryOK(e)
      BY <2>3 DEF SyncInv, EntriesOK, In
    <3> QED
      BY <1>14, <2>2, <3>1 DEF EntryOK, Nothing
  <2>4. CASE In(e, s) \/ In(e, n) \/ In(e, c)
    <3>1. /\ e.report = worker.report /\ e.seen <= worker.seen
          /\ e.kind = "needs-info" => e.seen > 0 /\ Activities[e.seen] = "needs-info"
      BY <1>13, <2>4
    <3>2. worker'.report = 0 /\ worker.report <= RemoteSubmission'
      BY <1>14, <1>16 DEF Nothing
    <3> HIDE DEF e
    <3>3. e.report \in DOMAIN remote' /\ e.seen <= remote'[e.report].seen
      <4>1. e.seen <= remote[worker.report].seen
        BY <1>16, <2>2, <3>1
      <4>2. remote' = remote /\ remote[worker.report] = remote[e.report]
        BY <1>14, <3>1
      <4> QED
        BY <1>16, <3>1, <4>1, <4>2
    <3>4. /\ e.report \in DOMAIN remote' /\ e.report <= RemoteSubmission'
          /\ e.seen <= remote'[e.report].seen
          /\ worker'.report = e.report => e.seen <= worker'.seen
          /\ e.kind = "needs-info" => e.seen > 0 /\ Activities[e.seen] = "needs-info"
      BY <1>16, <3>1, <3>2, <3>3
    <3> QED
      BY <3>4 DEF EntryOK, e
  <2> QED
    BY <1>12, <2>1, <2>3, <2>4
<1>18. NoGap(synced')
  <2> SUFFICES ASSUME NEW i \in DOMAIN synced', synced'[i].kind = "comment",
                      NEW a \in 1..synced'[i].seen, Activities[a] = "comment"
               PROVE  In([kind |-> "comment", report |-> synced'[i].report, seen |-> a], synced')
    BY DEF NoGap, In
  <2> DEFINE e == synced'[i]
             x == [kind |-> "comment", report |-> e.report, seen |-> a]
  <2>1. In(e, synced') /\ e.seen \in Nat
    BY <1>11, EntryFields DEF In
  <2>2. CASE In(e, synced)
    <3>1. PICK j \in DOMAIN synced : synced[j] = e
      BY <2>2 DEF In
    <3>2. NoGap(synced)
      BY DEF SyncInv
    <3>3. synced[j].kind = "comment" /\ a \in 1..synced[j].seen
      BY <3>1
    <3>4. \E m \in DOMAIN synced :
            synced[m] = [kind |-> "comment", report |-> synced[j].report, seen |-> a]
      BY <3>2, <3>3 DEF NoGap
    <3>5. In(x, synced)
      BY <3>1, <3>4 DEF In
    <3> QED
      BY <1>12, <3>5
  <2>3. CASE In(e, s) \/ In(e, n) \/ In(e, c)
    <3>1. e.report = worker.report /\ e.seen <= worker.seen
      BY <1>13, <2>3
    <3> HIDE DEF e
    <3>2. a \in 1..worker.seen
      <4>1. a \in Nat /\ a >= 1 /\ a <= e.seen
        BY <2>1 DEF e
      <4>2. worker.seen \in Nat
        BY <1>16
      <4> QED
        BY <2>1, <3>1, <4>1, <4>2
    <3> USE DEF e
    <3>3. CASE In(x, synced)
      BY <1>12, <3>3
    <3>4. CASE ~In(x, synced)
      <4>1. a \in Unseen(worker)
        BY <3>1, <3>2, <3>4 DEF Unseen, In
      <4> QED
        BY <1>2, <1>12, <3>1, <4>1
    <3> QED
      BY <3>3, <3>4
  <2> QED
    BY <1>12, <2>1, <2>2, <2>3
<1> QED
  BY <1>11, <1>15, <1>17, <1>18

-----------------------------------------------------------------------------

LEMMA SyncInvariance == Spec => []SyncInv
<1>1. Init => SyncInv
  <2> SUFFICES ASSUME Init PROVE SyncInv
    OBVIOUS
  <2>1. /\ events = <<>> /\ synced = <<>> /\ worker = Nothing
        /\ request = [s \in Submitters |-> Idle]
        /\ synced \in Seq(Entry) /\ DOMAIN synced = {}
    BY DEF Init
  <2>2. Where({"hackerone_report_submitted"}) = {}
    BY <2>1 DEF Where
  <2>3. RemoteSubmission = 0
    BY <2>2 DEF RemoteSubmission, Latest
  <2>4. SubmissionOK
    BY <2>1, <2>3 DEF SubmissionOK, Idle
  <2>5. FetchOK
    BY <2>1 DEF FetchOK, Nothing
  <2> QED
    BY <2>1, <2>4, <2>5, InitIInv DEF SyncInv, Sorted, NoGap, EntriesOK
<1>2. SyncInv /\ TypeOfBasis /\ IInv' /\ [Next]_vars => SyncInv'
  <2> SUFFICES ASSUME SyncInv, TypeOfBasis, IInv', [Next]_vars PROVE SyncInv'
    OBVIOUS
  <2>1. /\ SubmissionOK' /\ RemoteSubmission <= RemoteSubmission'
        /\ DOMAIN remote \subseteq DOMAIN remote'
        /\ \A k \in DOMAIN remote : remote[k].seen <= remote'[k].seen
    BY SubmissionKeeps DEF SyncInv
  <2>2. /\ RemoteSubmission' \in Nat
        /\ \A k \in DOMAIN remote : remote'[k].seen \in Nat
    <3> DEFINE Report == [attempt : Nat \ {0}, seen : Nat]
    <3>1. remote' \in Seq(Report)
      BY DEF IInv, LogOK
    <3>2. \A r \in Report : r.seen \in Nat
      OBVIOUS
    <3> HIDE DEF Report
    <3>3. \A k \in DOMAIN remote' : k \in Nat /\ remote'[k] \in Report
      BY <3>1
    <3> QED
      BY <2>1, <3>2, <3>3 DEF SubmissionOK
  <2>3. CASE synced' = synced /\ (worker' = worker \/ worker' = Nothing)
    <3>1. FetchOK' /\ EntriesOK'
      BY <2>1, <2>2, <2>3, EntriesStay
    <3> QED
      BY <2>1, <2>3, <3>1 DEF SyncInv, Sorted, NoGap
  <2>4. CASE Fetch
    <3>1. FetchOK' /\ EntriesOK' /\ synced' = synced
      BY <2>4, FetchKeeps DEF Fetch
    <3> QED
      BY <2>1, <3>1 DEF SyncInv, Sorted, NoGap
  <2>5. CASE Sync /\ worker.report = RemoteSubmission
    <3>1. PICK c \in CommentEvents(worker) :
            synced' = synced \o StatusEvent(worker) \o NeedsInfoEvent(worker) \o c
      BY <2>5 DEF Sync
    <3>2. /\ synced' \in Seq(Entry) /\ Sorted(synced') /\ NoGap(synced')
          /\ FetchOK' /\ EntriesOK'
      BY <2>5, <3>1, RoundKeeps DEF Sync
    <3> QED
      BY <2>1, <3>2 DEF SyncInv, Sorted, NoGap
  <2>6. \/ synced' = synced /\ (worker' = worker \/ worker' = Nothing)
        \/ Fetch
        \/ Sync /\ worker.report = RemoteSubmission
    BY DEF Next, vars, ApproveWhenReady, Approve, RevokeAny, RevokeActive,
       MarkSubmitted, Edit, Cancel, Attempt, PostAccepted, PostRefused, PostUnknown,
       RecordAccepted, RecordRefused, Abandon, RemoteActivity, Sync, SyncLost
  <2> QED
    BY <2>3, <2>4, <2>5, <2>6
<1> QED
  BY <1>1, <1>2, BasisCorrect, Invariance, PTL DEF Spec

\* The record of the remote status never goes back, whatever is fetched late, fetched
\* again after a lost save (sync_once) or overtaken by another submission: a round of
\* _sync_submission appends only what is newer than all it recorded of that report.
THEOREM SyncedCorrect == Spec => []SyncedInOrder
<1>1. SyncInv => SyncedInOrder
  <2> SUFFICES ASSUME SyncInv, NEW i \in DOMAIN synced, NEW j \in DOMAIN synced, i < j,
                      synced[i].kind = synced[j].kind, synced[i].report = synced[j].report
               PROVE  synced[i].seen < synced[j].seen
    BY DEF SyncedInOrder
  <2>1. synced[i].report \in Nat /\ synced[j].report \in Nat
    BY EntryFields DEF SyncInv
  <2>2. Before(synced[i], synced[j])
    BY DEF SyncInv, Sorted
  <2> QED
    BY <2>1, <2>2 DEF Before
<1> QED
  BY <1>1, SyncInvariance, PTL

\* The worker follows a later and later report: an accepted request is recorded before
\* another may be attempted, so latest_remote_submission never turns back to an earlier
\* report of the artifact.
THEOREM FollowedAdvances == Spec => [][RemoteSubmission <= RemoteSubmission']_vars
<1>1. SyncInv /\ TypeOfBasis /\ [Next]_vars => [RemoteSubmission <= RemoteSubmission']_vars
  BY SubmissionKeeps DEF SyncInv
<1> QED
  BY <1>1, BasisCorrect, SyncInvariance, PTL DEF Spec
=============================================================================
