------------------------ MODULE BatchCoordinatorProofs ------------------------
(***************************************************************************)
(* Proofs about BatchCoordinator, for every size of the batch, any         *)
(* coordinators, retry budget and scenario.  The document is only ever     *)
(* replaced by a copy, so the invariant says what every copy knows while   *)
(* its owner works on it, fresh or not: it is a plan that could be saved,  *)
(* and a fresh one has not touched what the document calls settled.        *)
(***************************************************************************)
EXTENDS BatchCoordinator, FiniteSetTheorems, WellFoundedInduction, TLAPS

BatchStates    == {"queued", "running", "completed", "cancelled"}
CampaignStates == {"ready", "running", "validating", "completed", "cancelled"}
Settles        == {"settle", "count"}
Asks           == {"ask", "plan", "confirm", "refused", "forbidden"}
Starts         == {"start"} \cup Asks

Plans == [Members -> Member]

Document == [state: BatchStates, members: Plans]

Row == [state: CampaignStates, asked: Nat, started: Nat, queued: Nat, running: Nat,
        ended: {"none", "fine", "failed"}, left: Nat, scanned: BOOLEAN, spent: BOOLEAN,
        stopped: BOOLEAN, review: {"none", "due", "judged", "ensured", "queued"},
        overruled: BOOLEAN]

Copy == [pc: {"idle", "gone"} \cup Settles \cup Starts, round: Nat, state: BatchStates,
         fresh: BOOLEAN, members: Plans, todo: SUBSET Members, request: Nat,
         changed: BOOLEAN]

CancelCopy == [pc: {"idle", "members"}, fresh: BOOLEAN, members: Plans,
               todo: SUBSET Members]

TypeOK ==
    /\ scenario \in Scenarios
    /\ batch \in Document
    /\ campaign \in [Members -> Row]
    /\ coord \in [Coordinators -> Copy]
    /\ cancel \in CancelCopy
    /\ faults \in Nat /\ aborts \in Nat

-----------------------------------------------------------------------------
(* What holds of the members of the document and of every copy of it, in a *)
(* batch of a mode and with campaigns k.                                   *)

\* A retry is pending only for a member that is ready, or was when cancelled.
RetriesReady(ms) ==
    \A m \in Members : ms[m].attempts > 0 => ms[m].status \in {"ready", "cancelled"}

\* A sequential batch has at most one running member.
OneAtATime(ms, mode) ==
    mode = "sequential" => \A a, b \in RunningIn(ms) : a = b

\* A campaign is cancelled, or was until the handler of a verdict completed it.
Held(row) == row.state = "cancelled" \/ row.overruled

\* A cancelled member has such a campaign, or the reason why not.
Honest(ms, k) ==
    \A m \in Members :
      ms[m].status = "cancelled" /\ ms[m].reason # "cancel" => Held(k[m])

MembersOK(ms, mode, k) ==
    ms \in Plans /\ RetriesReady(ms) /\ OneAtATime(ms, mode) /\ Honest(ms, k)

\* A sequential batch is about to start one member, and no other one runs.
StartsAlone(ms, todo, mode) ==
    mode = "sequential" /\ todo # {} =>
      RunningIn(ms) = {} /\ \A a, b \in todo : a = b

\* A copy has left alone what the document, whose members are now, has settled.
LeavesSettled(ms, now) ==
    \A m \in Members : now[m].status \in TerminalStatuses => ms[m].status = now[m].status

\* A coordinator's copy: first it settles running members, then starts ready ones.
CopyOK(l, mode, k, now) ==
    /\ MembersOK(l.members, mode, k)
    /\ l.pc \in Settles => l.todo # {} /\ l.todo \subseteq RunningIn(l.members)
    /\ l.pc \in Starts => /\ l.todo \subseteq ReadyIn(l.members)
                          /\ StartsAlone(l.members, l.todo, mode)
    /\ l.pc \in Asks => l.todo # {}
    /\ l.fresh => LeavesSettled(l.members, now)

\* The cancel handler's copy differs from the document in what it has cancelled.
CancelOK(x, mode, k, now) ==
    /\ MembersOK(x.members, mode, k)
    /\ x.fresh => \A m \in Members :
                     x.members[m].status \in {now[m].status, "cancelled"}

\* The inductive invariant.
IInv ==
    /\ TypeOK
    /\ MembersOK(batch.members, scenario.mode, campaign)
    /\ batch.state # "cancelled" => batch.state = BatchState(batch.members)
    /\ \A c \in Coordinators : CopyOK(coord[c], scenario.mode, campaign, batch.members)
    /\ CancelOK(cancel, scenario.mode, campaign, batch.members)

\* The action of SettledStays.
KeepsSettled ==
    \A m \in Members :
      batch.members[m].status \in TerminalStatuses =>
         batch'.members[m].status \in {batch.members[m].status, "cancelled"}

\* No campaign comes back from being cancelled, unless a verdict overrules the cancel.
StayHeld(k, k2) == \A m \in Members : Held(k[m]) => Held(k2[m])

\* A row with another state has the cancel's traces of an older one.
SameHold(row, old) == row.state = old.state /\ row.overruled = old.overruled

-----------------------------------------------------------------------------
(* Facts about the constants and the operators.                            *)

LEMMA Bounds ==
    /\ Size \in Nat /\ Size > 0 /\ Members \subseteq Nat
    /\ MaxAttempts \in Nat /\ MaxAttempts > 0
    /\ \A s \in Scenarios : s.mode \in Modes /\ s.faults \in Nat /\ s.aborts \in Nat
    /\ \A s \in Scenarios : s.jobs \in Nat
    /\ \A s \in Scenarios : s.scans \subseteq {"ready", "validating", "completed"}
<1>1. Size \in Nat /\ Size > 0 /\ Members \subseteq Nat
  BY BatchAssumption DEF Members
<1>2. MaxAttempts \in Nat /\ MaxAttempts > 0
  BY BatchAssumption
<1>3. ASSUME NEW s \in Scenarios
      PROVE  /\ s.mode \in Modes /\ s.faults \in Nat /\ s.aborts \in Nat /\ s.jobs \in Nat
             /\ s.scans \subseteq {"ready", "validating", "completed"}
  BY BatchAssumption
<1> QED
  BY <1>1, <1>2, <1>3

\* Every set of members that is not empty has a first one.
LEMMA LeastIn ==
    ASSUME NEW S, S \subseteq Members, S # {}
    PROVE  Least(S) \in S /\ Least(S) \in Members
<1>1. S \subseteq Nat
  BY Bounds
<1> DEFINE below == {ss \in Nat \X Nat : ss[1] < ss[2]}
<1>2. IsWellFoundedOn(below, Nat)
  BY NatLessThanWellFounded DEF OpToRel
<1>3. PICK x \in S : \A y \in S : ~(<<y, x>> \in below)
  <2> HIDE DEF below
  <2> QED
    BY <1>1, <1>2, WFMin
<1>4. ASSUME NEW y \in S
      PROVE  x <= y
  <2>1. x \in Nat /\ y \in Nat /\ ~(<<y, x>> \in below)
    BY <1>1, <1>3
  <2>2. y < x => <<y, x>> \in below
    BY <2>1
  <2> HIDE DEF below
  <2> QED
    BY <2>1, <2>2
<1> QED
  BY <1>4 DEF Least

LEMMA FirstReadyOne ==
    ASSUME NEW ms
    PROVE  /\ FirstReady(ms) \subseteq ReadyIn(ms)
           /\ \A a, b \in FirstReady(ms) : a = b
<1>1. FirstReady(ms) \subseteq ReadyIn(ms)
  BY DEF FirstReady, ReadyIn
<1>2. ASSUME NEW a \in FirstReady(ms), NEW b \in FirstReady(ms), a < b
      PROVE  FALSE
  <2>1. a \in 1..(b - 1) /\ ms[a].status = "ready"
    BY <1>2, Bounds DEF FirstReady, Members
  <2> QED
    BY <2>1 DEF FirstReady
<1>3. FirstReady(ms) \subseteq Nat
  BY Bounds DEF FirstReady
<1>4. \A a, b \in FirstReady(ms) : a < b \/ b < a \/ a = b
  BY <1>3
<1> QED
  BY <1>1, <1>2, <1>4

LEMMA ToStartAlone ==
    ASSUME scenario \in Scenarios, NEW ms
    PROVE  ToStart(ms) \subseteq ReadyIn(ms) /\ StartsAlone(ms, ToStart(ms), scenario.mode)
<1>1. scenario.mode \in {"sequential", "parallel"}
  BY Bounds DEF Modes
<1>2. CASE scenario.mode = "parallel"
  <2>1. ToStart(ms) = ReadyIn(ms)
    BY <1>2, Zenon DEF ToStart
  <2> QED
    BY <1>2, <2>1 DEF StartsAlone
<1>3. CASE scenario.mode = "sequential"
  <2>1. ToStart(ms) = IF RunningIn(ms) = {} THEN FirstReady(ms) ELSE {}
    BY <1>3, Zenon DEF ToStart
  <2> QED
    BY <1>3, <2>1, FirstReadyOne DEF StartsAlone
<1> QED
  BY <1>1, <1>2, <1>3

\* The members of a document that only lost a retry, started, or were settled.
LEMMA MembersChange ==
    ASSUME NEW ms, NEW mode, NEW k, MembersOK(ms, mode, k),
           NEW m \in Members, NEW v \in Member,
           v.attempts > 0 => v.status \in {"ready", "cancelled"},
           v.status = "running" /\ mode = "sequential" => RunningIn(ms) \subseteq {m},
           v.status = "cancelled" /\ v.reason # "cancel" => k[m].state = "cancelled"
    PROVE  MembersOK([ms EXCEPT ![m] = v], mode, k)
<1> DEFINE ns == [ms EXCEPT ![m] = v]
<1>1. ms \in Plans /\ ns \in Plans
  BY DEF MembersOK, Plans
<1>2. ns[m] = v /\ \A i \in Members : i # m => ns[i] = ms[i]
  BY <1>1 DEF Plans
<1> HIDE DEF ns
<1>3. RunningIn(ns) \subseteq RunningIn(ms) \cup {m}
  BY <1>2 DEF RunningIn
<1>4. v.status # "running" => RunningIn(ns) = RunningIn(ms) \ {m}
  BY <1>2 DEF RunningIn
<1>5. RetriesReady(ns)
  BY <1>2 DEF RetriesReady, MembersOK
<1>6. OneAtATime(ns, mode)
  BY <1>3, <1>4 DEF OneAtATime, MembersOK
<1>7. Honest(ns, k)
  BY <1>2 DEF Honest, MembersOK, Held
<1> QED
  BY <1>1, <1>5, <1>6, <1>7 DEF MembersOK, ns

\* A plan stays one while no campaign comes back from being cancelled.
LEMMA PlanAges ==
    ASSUME NEW ms, NEW mode, NEW k, NEW k2, MembersOK(ms, mode, k), StayHeld(k, k2)
    PROVE  MembersOK(ms, mode, k2)
BY DEF MembersOK, Honest, StayHeld

LEMMA CopyAges ==
    ASSUME NEW l, NEW mode, NEW k, NEW k2, NEW now,
           CopyOK(l, mode, k, now), StayHeld(k, k2)
    PROVE  CopyOK(l, mode, k2, now)
BY PlanAges DEF CopyOK

\* Before it has read the batch and after it has returned a coordinator has no
\* copy to speak of.
LEMMA Unread ==
    ASSUME NEW mode, NEW k, NEW now
    PROVE  /\ IdleCoord \in Copy
           /\ MembersOK(IdleCoord.members, mode, k)
           /\ NoCancel \in CancelCopy
           /\ CancelOK(NoCancel, mode, k, now)
           /\ \A c : Returned(c) \in Copy /\ CopyOK(Returned(c), mode, k, now)
           /\ \A r \in Nat : LET l == [IdleCoord EXCEPT !.round = r]
                             IN  l \in Copy /\ CopyOK(l, mode, k, now)
<1> DEFINE new == [status |-> "ready", attempts |-> 0, reason |-> "none"]
<1> DEFINE ms == [m \in Members |-> new]
<1>1. new \in Member /\ new.status = "ready" /\ new.attempts = 0
  BY Bounds DEF Member, Statuses
<1>2. ms \in Plans /\ \A m \in Members : ms[m].status = "ready" /\ ms[m].attempts = 0
  BY <1>1 DEF Plans
<1> HIDE DEF ms
<1>3. MembersOK(ms, mode, k)
  BY <1>2 DEF MembersOK, RetriesReady, OneAtATime, Honest, RunningIn
<1>4. /\ IdleCoord \in Copy /\ IdleCoord.members = ms /\ ~IdleCoord.fresh
      /\ IdleCoord.pc = "idle"
  BY <1>2 DEF IdleCoord, Copy, BatchStates, ms
<1>5. NoCancel \in CancelCopy /\ NoCancel.members = ms /\ ~NoCancel.fresh
  BY <1>2, <1>4 DEF NoCancel, CancelCopy
<1>6. ASSUME NEW l \in Copy, l.members = ms, ~l.fresh, l.pc \in {"idle", "gone"}
      PROVE  CopyOK(l, mode, k, now)
  BY <1>3, <1>6 DEF CopyOK, Settles, Starts, Asks
<1>7. ASSUME NEW c
      PROVE  Returned(c) \in Copy /\ CopyOK(Returned(c), mode, k, now)
  <2>1. /\ Returned(c) \in Copy /\ Returned(c).members = ms /\ ~Returned(c).fresh
        /\ Returned(c).pc \in {"idle", "gone"}
    BY <1>4 DEF Returned, Copy
  <2> QED
    BY <2>1, <1>6
<1>8. ASSUME NEW r \in Nat
      PROVE  LET l == [IdleCoord EXCEPT !.round = r]
             IN  l \in Copy /\ CopyOK(l, mode, k, now)
  <2> DEFINE l == [IdleCoord EXCEPT !.round = r]
  <2>1. l \in Copy /\ l.members = ms /\ ~l.fresh /\ l.pc = "idle"
    BY <1>4 DEF Copy
  <2> QED
    BY <2>1, <1>6
<1> QED
  BY <1>3, <1>4, <1>5, <1>7, <1>8 DEF CancelOK

-----------------------------------------------------------------------------
(* What a coordinator does to its copy.                                    *)

\* Moving on, with the same members and the same things to do.
LEMMA MovedTyped ==
    ASSUME NEW l \in Copy, NEW pc \in {"idle", "gone"} \cup Settles \cup Starts
    PROVE  /\ [l EXCEPT !.pc = pc] \in Copy
           /\ [l EXCEPT !.pc = pc].pc = pc
           /\ [l EXCEPT !.pc = pc].members = l.members
           /\ [l EXCEPT !.pc = pc].todo = l.todo
           /\ [l EXCEPT !.pc = pc].fresh = l.fresh
BY DEF Copy

LEMMA Moved ==
    ASSUME NEW l \in Copy, NEW mode, NEW k, NEW now, CopyOK(l, mode, k, now),
           NEW pc, l.todo # {},
           \/ l.pc \in Starts /\ pc \in Starts
           \/ l.pc \in Settles /\ pc \in Settles
    PROVE  /\ [l EXCEPT !.pc = pc] \in Copy
           /\ CopyOK([l EXCEPT !.pc = pc], mode, k, now)
<1> DEFINE n == [l EXCEPT !.pc = pc]
<1>1. /\ n \in Copy /\ n.pc = pc /\ n.members = l.members
      /\ n.todo = l.todo /\ n.fresh = l.fresh
  BY MovedTyped
<1>2. Starts \cap Settles = {} /\ Asks \subseteq Starts
  BY DEF Starts, Settles, Asks
<1> HIDE DEF n
<1>3. CopyOK(n, mode, k, now)
  BY <1>1, <1>2 DEF CopyOK
<1> QED
  BY <1>1, <1>3 DEF n

\* After a member is settled the next one is, or the members to start are known.
LEMMA SettlingOK ==
    ASSUME scenario \in Scenarios,
           NEW l \in Copy, NEW k, NEW now, MembersOK(l.members, scenario.mode, k),
           l.todo \subseteq RunningIn(l.members),
           l.fresh => LeavesSettled(l.members, now)
    PROVE  Settling(l) \in Copy /\ CopyOK(Settling(l), scenario.mode, k, now)
<1>1. CASE l.todo # {}
  <2> DEFINE n == [l EXCEPT !.pc = "settle"]
  <2>1. Settling(l) = n
    BY <1>1 DEF Settling
  <2>2. /\ n \in Copy /\ n.pc = "settle" /\ n.members = l.members
        /\ n.todo = l.todo /\ n.fresh = l.fresh
    BY MovedTyped DEF Settles
  <2> HIDE DEF n
  <2>3. CopyOK(n, scenario.mode, k, now)
    BY <1>1, <2>2 DEF CopyOK, Starts, Asks
  <2> QED
    BY <2>1, <2>2, <2>3
<1>2. CASE l.todo = {}
  <2> DEFINE first == ToStart(l.members)
             n == [l EXCEPT !.pc = "start", !.todo = first]
  <2>1. Settling(l) = n
    BY <1>2 DEF Settling
  <2>2. first \subseteq ReadyIn(l.members) /\ StartsAlone(l.members, first, scenario.mode)
    BY ToStartAlone
  <2>3. first \subseteq Members
    BY <2>2 DEF ReadyIn
  <2> HIDE DEF first
  <2>4. /\ n \in Copy /\ n.pc = "start" /\ n.members = l.members
        /\ n.todo = first /\ n.fresh = l.fresh
    BY <2>3 DEF Copy, Starts
  <2> HIDE DEF n
  <2>5. CopyOK(n, scenario.mode, k, now)
    BY <2>2, <2>4 DEF CopyOK, Settles, Asks
  <2> QED
    BY <2>1, <2>4, <2>5
<1> QED
  BY <1>1, <1>2

\* A member is found running or finished.
LEMMA SettledOK ==
    ASSUME scenario \in Scenarios,
           NEW l \in Copy, NEW k, NEW now, CopyOK(l, scenario.mode, k, now),
           l.pc \in Settles, NEW m, m = Least(l.todo), NEW status \in Statuses,
           status # "ready", status = "cancelled" => k[m].state = "cancelled"
    PROVE  LET n == [l EXCEPT !.members[m].status = status, !.todo = @ \ {m},
                              !.changed = @ \/ status # "running"]
           IN  Settling(n) \in Copy /\ CopyOK(Settling(n), scenario.mode, k, now)
<1> DEFINE ms == l.members
           v  == [ms[m] EXCEPT !.status = status]
           ns == [ms EXCEPT ![m] = v]
           changed == l.changed \/ status # "running"
           n  == [l EXCEPT !.members = ns, !.todo = l.todo \ {m}, !.changed = changed]
<1>1. /\ l.todo # {} /\ l.todo \subseteq RunningIn(ms) /\ l.todo \subseteq Members
      /\ MembersOK(ms, scenario.mode, k) /\ ms \in Plans
      /\ l.fresh => LeavesSettled(ms, now)
  BY DEF CopyOK, RunningIn, MembersOK
<1>2. m \in Members /\ m \in l.todo /\ m \in RunningIn(ms)
  BY <1>1, LeastIn
<1>3. ms[m] \in Member /\ ms[m].status = "running"
  BY <1>1, <1>2 DEF Plans, RunningIn
<1>4. ~(ms[m].attempts > 0)
  BY <1>1, <1>2, <1>3 DEF MembersOK, RetriesReady
<1>5. /\ v \in Member /\ v.status = status /\ v.attempts = ms[m].attempts
      /\ v.reason = ms[m].reason
  BY <1>3 DEF Member
<1>6. scenario.mode = "sequential" => RunningIn(ms) \subseteq {m}
  BY <1>1, <1>2 DEF MembersOK, OneAtATime
<1> HIDE DEF v, ms
<1>7. MembersOK(ns, scenario.mode, k)
  BY <1>1, <1>2, <1>4, <1>5, <1>6, MembersChange
<1>8. ns \in Plans /\ ns[m] = v /\ \A i \in Members : i # m => ns[i] = ms[i]
  BY <1>1, <1>2, <1>7 DEF MembersOK, Plans
<1> HIDE DEF ns
<1>9. l.todo \ {m} \subseteq RunningIn(ns)
  BY <1>1, <1>8 DEF RunningIn
<1>10. l.fresh => LeavesSettled(ns, now)
  BY <1>1, <1>2, <1>3, <1>8 DEF LeavesSettled, TerminalStatuses, ms
<1>11. changed \in BOOLEAN
  BY DEF Copy
<1> HIDE DEF changed
<1>12. /\ n \in Copy /\ n.members = ns /\ n.todo = l.todo \ {m} /\ n.fresh = l.fresh
  BY <1>1, <1>8, <1>11 DEF Copy
<1> HIDE DEF n
<1>13. Settling(n) \in Copy /\ CopyOK(Settling(n), scenario.mode, k, now)
  BY <1>7, <1>9, <1>10, <1>12, SettlingOK
<1> QED
  BY <1>13 DEF n, ns, v, ms, changed

\* A member that was to be started is dealt with.
LEMMA OutcomeOK ==
    ASSUME NEW l \in Copy, NEW mode, NEW k, NEW now, CopyOK(l, mode, k, now),
           l.pc \in Starts, l.todo # {}, NEW m, m = Least(l.todo),
           NEW v \in Member, v.attempts > 0 => v.status = "ready",
           v.status = "cancelled" => k[m].state = "cancelled"
    PROVE  LET n == [l EXCEPT !.members[m] = v, !.todo = @ \ {m}, !.pc = "start",
                              !.request = 0, !.changed = TRUE]
           IN  n \in Copy /\ CopyOK(n, mode, k, now)
<1> DEFINE ms == l.members
           ns == [ms EXCEPT ![m] = v]
           n  == [l EXCEPT !.members = ns, !.todo = l.todo \ {m}, !.pc = "start",
                           !.request = 0, !.changed = TRUE]
<1>1. /\ l.todo \subseteq ReadyIn(ms) /\ l.todo \subseteq Members
      /\ StartsAlone(ms, l.todo, mode) /\ MembersOK(ms, mode, k) /\ ms \in Plans
      /\ l.fresh => LeavesSettled(ms, now)
  BY DEF CopyOK, ReadyIn, MembersOK
<1>2. m \in Members /\ m \in l.todo /\ ms[m].status = "ready"
  BY <1>1, LeastIn DEF ReadyIn
<1> HIDE DEF ms
<1>3. mode = "sequential" => RunningIn(ms) = {} /\ l.todo \ {m} = {}
  BY <1>1, <1>2 DEF StartsAlone
<1>4. MembersOK(ns, mode, k)
  BY <1>1, <1>2, <1>3, MembersChange
<1>5. ns \in Plans /\ ns[m] = v /\ \A i \in Members : i # m => ns[i] = ms[i]
  BY <1>1, <1>2, <1>4 DEF MembersOK, Plans
<1> HIDE DEF ns
<1>6. l.todo \ {m} \subseteq ReadyIn(ns) /\ StartsAlone(ns, l.todo \ {m}, mode)
  BY <1>1, <1>3, <1>5 DEF ReadyIn, StartsAlone
<1>7. l.fresh => LeavesSettled(ns, now)
  BY <1>1, <1>2, <1>5 DEF LeavesSettled, TerminalStatuses
<1>8. /\ n \in Copy /\ n.members = ns /\ n.todo = l.todo \ {m} /\ n.fresh = l.fresh
      /\ n.pc = "start"
  BY <1>1, <1>5 DEF Copy, Starts
<1> HIDE DEF n
<1>9. CopyOK(n, mode, k, now)
  BY <1>4, <1>6, <1>7, <1>8 DEF CopyOK, Settles, Asks
<1> QED
  BY <1>8, <1>9 DEF n, ns, ms

-----------------------------------------------------------------------------
(* Steps that leave the document alone.                                    *)

\* One coordinator moves, and perhaps campaigns that stay cancelled once they are.
LEMMA CoordStep ==
    ASSUME IInv, NEW c \in Coordinators, NEW l \in Copy,
           CopyOK(l, scenario.mode, campaign, batch.members),
           coord' = [coord EXCEPT ![c] = l],
           campaign' \in [Members -> Row], StayHeld(campaign, campaign'),
           UNCHANGED <<scenario, aborts, batch, cancel>>, faults' \in Nat
    PROVE  IInv' /\ KeepsSettled
<1> DEFINE k == campaign
           k2 == campaign'
           mode == scenario.mode
           now == batch.members
<1>1. TypeOK'
  BY DEF IInv, TypeOK
<1>2. coord \in [Coordinators -> Copy]
  BY DEF IInv, TypeOK
<1>3. MembersOK(now, mode, k) /\ \A d \in Coordinators : CopyOK(coord[d], mode, k, now)
  BY DEF IInv
<1>4. MembersOK(cancel.members, mode, k) /\ CancelOK(cancel, mode, k, now)
  BY DEF IInv, CancelOK
<1>5. StayHeld(k, k2)
  OBVIOUS
<1> HIDE DEF k, k2
<1>6. MembersOK(now, mode, k2)
  BY <1>3, <1>5, PlanAges
<1>7. \A d \in Coordinators : CopyOK(coord'[d], mode, k2, now)
  <2> SUFFICES ASSUME NEW d \in Coordinators
               PROVE  CopyOK(coord'[d], mode, k2, now)
    OBVIOUS
  <2>1. coord'[d] = l \/ coord'[d] = coord[d]
    BY <1>2
  <2>2. CopyOK(l, mode, k, now) /\ CopyOK(coord[d], mode, k, now)
    BY <1>3 DEF k
  <2> QED
    BY <2>1, <2>2, <1>5, CopyAges
<1>8. CancelOK(cancel, mode, k2, now)
  BY <1>4, <1>5, PlanAges DEF CancelOK
<1>9. KeepsSettled
  BY DEF KeepsSettled
<1>10. IInv'
  BY <1>1, <1>6, <1>7, <1>8 DEF IInv, k2
<1> QED
  BY <1>9, <1>10

\* Campaigns move, and nobody else.
LEMMA CampaignStep ==
    ASSUME IInv, campaign' \in [Members -> Row], StayHeld(campaign, campaign'),
           UNCHANGED <<scenario, batch, coord, cancel>>, faults' \in Nat, aborts' \in Nat
    PROVE  IInv' /\ KeepsSettled
<1> DEFINE k == campaign
           k2 == campaign'
           mode == scenario.mode
           now == batch.members
<1>1. TypeOK'
  BY DEF IInv, TypeOK
<1>2. /\ MembersOK(now, mode, k) /\ \A d \in Coordinators : CopyOK(coord[d], mode, k, now)
      /\ MembersOK(cancel.members, mode, k) /\ CancelOK(cancel, mode, k, now)
  BY DEF IInv, CancelOK
<1>3. StayHeld(k, k2)
  OBVIOUS
<1> HIDE DEF k, k2
<1>4. /\ MembersOK(now, mode, k2) /\ CancelOK(cancel, mode, k2, now)
      /\ \A d \in Coordinators : CopyOK(coord[d], mode, k2, now)
  BY <1>2, <1>3, PlanAges, CopyAges DEF CancelOK
<1>5. KeepsSettled
  BY DEF KeepsSettled
<1>6. IInv'
  BY <1>1, <1>4 DEF IInv, k2
<1> QED
  BY <1>5, <1>6

LEMMA Types ==
    ASSUME IInv
    PROVE  /\ scenario \in Scenarios /\ faults \in Nat /\ aborts \in Nat
           /\ campaign \in [Members -> Row] /\ StayHeld(campaign, campaign)
           /\ batch \in Document /\ cancel \in CancelCopy
           /\ coord \in [Coordinators -> Copy]
           /\ \A c \in Coordinators :
                coord[c] \in Copy /\ CopyOK(coord[c], scenario.mode, campaign, batch.members)
BY DEF IInv, TypeOK, StayHeld

LEMMA FaultTyped == ASSUME IInv, Fault PROVE faults' \in Nat
BY Types DEF Fault

\* The coordinator goes to another step of the same part of its round.
LEMMA GotoStep ==
    ASSUME IInv, NEW c \in Coordinators, NEW pc, Goto(c, pc), coord[c].todo # {},
           \/ coord[c].pc \in Starts /\ pc \in Starts
           \/ coord[c].pc \in Settles /\ pc \in Settles,
           campaign' \in [Members -> Row], StayHeld(campaign, campaign'),
           UNCHANGED <<scenario, aborts, batch, cancel>>, faults' \in Nat
    PROVE  IInv' /\ KeepsSettled
<1> DEFINE l == [coord[c] EXCEPT !.pc = pc]
<1>1. l \in Copy /\ CopyOK(l, scenario.mode, campaign, batch.members)
  BY Types, Moved
<1>2. coord' = [coord EXCEPT ![c] = l]
  BY Types DEF Goto
<1> HIDE DEF l
<1> QED
  BY <1>1, <1>2, CoordStep

LEMMA OutcomeStep ==
    ASSUME IInv, NEW c \in Coordinators, coord[c].pc \in Starts, coord[c].todo # {},
           NEW status \in Statuses, NEW reason \in {"none", "start"},
           NEW attempts \in 0..MaxAttempts, Outcome(c, status, reason, attempts),
           attempts > 0 => status = "ready",
           status = "cancelled" => campaign[Following(c)].state = "cancelled",
           campaign' \in [Members -> Row], StayHeld(campaign, campaign'),
           UNCHANGED <<scenario, aborts, batch, cancel>>, faults' \in Nat
    PROVE  IInv' /\ KeepsSettled
<1> DEFINE m == Following(c)
           v == [status |-> status, attempts |-> attempts, reason |-> reason]
           l == [coord[c] EXCEPT !.members[m] = v, !.todo = @ \ {m}, !.pc = "start",
                                 !.request = 0, !.changed = TRUE]
<1>1. v \in Member /\ v.attempts = attempts /\ v.status = status
  BY DEF Member
<1>2. coord' = [coord EXCEPT ![c] = l]
  BY Types DEF Outcome
<1>3. m = Least(coord[c].todo)
  BY DEF Following
<1> HIDE DEF v, m
<1>4. v.status = "cancelled" => campaign[m].state = "cancelled"
  BY <1>1 DEF m
<1>5. l \in Copy /\ CopyOK(l, scenario.mode, campaign, batch.members)
  BY <1>1, <1>3, <1>4, Types, OutcomeOK
<1> HIDE DEF l
<1> QED
  BY <1>2, <1>5, CoordStep

LEMMA ReturnStep ==
    ASSUME IInv, NEW c \in Coordinators, Return(c),
           UNCHANGED <<scenario, aborts, batch, campaign, cancel>>, faults' \in Nat
    PROVE  IInv' /\ KeepsSettled
<1>1. Returned(c) \in Copy /\ CopyOK(Returned(c), scenario.mode, campaign, batch.members)
  BY Unread
<1> QED
  BY <1>1, CoordStep, Types DEF Return

LEMMA ReadStep ==
    ASSUME IInv, NEW c \in Coordinators, Read(c)
    PROVE  IInv' /\ KeepsSettled
<1>1. CASE Return(c)
  BY <1>1, ReturnStep, Types DEF Read
<1>2. CASE ~Return(c)
  <2> DEFINE l == [IdleCoord EXCEPT !.round = coord[c].round + 1, !.state = batch.state,
                                    !.fresh = TRUE, !.members = batch.members,
                                    !.todo = RunningIn(batch.members)]
  <2>1. coord' = [coord EXCEPT ![c] = Settling(l)]
    BY <1>2 DEF Read
  <2>2. coord[c].round + 1 \in Nat /\ batch.state \in BatchStates /\ batch.members \in Plans
    BY Types DEF Copy, Document
  <2>3. RunningIn(batch.members) \in SUBSET Members
    BY DEF RunningIn
  <2>4. IdleCoord \in Copy
    BY Unread
  <2> DEFINE round == coord[c].round + 1
             todo  == RunningIn(batch.members)
  <2> HIDE DEF round, todo
  <2>5. /\ l \in Copy /\ l.members = batch.members /\ l.todo = RunningIn(batch.members)
    BY <2>2, <2>3, <2>4 DEF Copy, round, todo
  <2> HIDE DEF l
  <2>6. LeavesSettled(batch.members, batch.members)
    BY DEF LeavesSettled
  <2>7. MembersOK(l.members, scenario.mode, campaign)
    BY <2>5 DEF IInv
  <2>8. /\ Settling(l) \in Copy
        /\ CopyOK(Settling(l), scenario.mode, campaign, batch.members)
    BY <2>5, <2>6, <2>7, SettlingOK, Types
  <2> QED
    BY <2>1, <2>8, CoordStep, Types DEF Read
<1> QED
  BY <1>1, <1>2

\* A member in the copy of a coordinator that settles was settled.
LEMMA SettledStep ==
    ASSUME IInv, NEW c \in Coordinators, coord[c].pc \in Settles, NEW status \in Statuses,
           Settled(c, Least(coord[c].todo), status), status # "ready",
           status = "cancelled" => campaign[Least(coord[c].todo)].state = "cancelled",
           UNCHANGED <<scenario, aborts, batch, campaign, cancel, faults>>
    PROVE  IInv' /\ KeepsSettled
<1> DEFINE m == Least(coord[c].todo)
           n == [coord[c] EXCEPT !.members[m].status = status, !.todo = @ \ {m},
                                 !.changed = @ \/ status # "running"]
<1>1. coord' = [coord EXCEPT ![c] = Settling(n)]
  BY Types DEF Settled
<1>2. /\ Settling(n) \in Copy
      /\ CopyOK(Settling(n), scenario.mode, campaign, batch.members)
  BY Types, SettledOK
<1> HIDE DEF n, m
<1> QED
  BY <1>1, <1>2, CoordStep, Types

LEMMA FinalOfTyped ==
    ASSUME NEW state
    PROVE  /\ FinalOf(state) \in Statuses \ {"ready"}
           /\ FinalOf(state) = "cancelled" => state = "cancelled"
<1>1. \/ state = "cancelled" /\ FinalOf(state) = "cancelled"
      \/ state = "failed" /\ FinalOf(state) = "blocked"
      \/ state = "completed" /\ FinalOf(state) = "done"
      \/ FinalOf(state) = "running"
  BY DEF FinalOf
<1> QED
  BY <1>1 DEF Statuses, TerminalStatuses

LEMMA SettleStateStep ==
    ASSUME IInv, NEW c \in Coordinators, SettleState(c)
    PROVE  IInv' /\ KeepsSettled
<1> DEFINE m == Least(coord[c].todo)
           status == FinalOf(campaign[m].state)
<1>1. status \in Statuses \ {"ready"} /\ (status = "cancelled" => campaign[m].state = "cancelled")
  BY FinalOfTyped
<1>2. coord[c].pc = "settle" /\ coord[c].pc \in Settles /\ coord[c].todo # {}
  BY Types DEF SettleState, Settles, CopyOK
<1>3. CASE status # "running"
  BY <1>1, <1>2, <1>3, SettledStep DEF SettleState
<1>4. CASE status = "running"
  <2>1. Goto(c, "count") /\ "count" \in Settles
    BY <1>4 DEF SettleState, Settles
  <2> QED
    BY <1>2, <2>1, GotoStep, Types DEF SettleState
<1> QED
  BY <1>3, <1>4

LEMMA SettleJobsStep ==
    ASSUME IInv, NEW c \in Coordinators, SettleJobs(c)
    PROVE  IInv' /\ KeepsSettled
<1> DEFINE m == Least(coord[c].todo)
           status == CASE Live(m) \/ campaign[m].ended = "none" -> "running"
                       [] ~Live(m) /\ campaign[m].ended = "failed" -> "review"
                       [] ~Live(m) /\ campaign[m].ended = "fine"   -> "done"
<1>1. coord[c].pc \in Settles /\ coord[c].todo # {} /\ coord[c].todo \subseteq Members
  BY Types DEF SettleJobs, Settles, CopyOK, RunningIn
<1>2. campaign[m].ended \in {"none", "failed", "fine"}
  BY <1>1, LeastIn, Types DEF Row
<1>3. Settled(c, m, status)
  BY DEF SettleJobs
<1>4. status \in {"running", "review", "done"}
  BY <1>2, Zenon
<1> HIDE DEF status
<1> QED
  BY <1>1, <1>3, <1>4, SettledStep DEF SettleJobs, Statuses, TerminalStatuses

-----------------------------------------------------------------------------
(* The start of a member.                                                  *)

LEMMA NotDueStep ==
    ASSUME IInv, NEW c \in Coordinators, NotDue(c)
    PROVE  IInv' /\ KeepsSettled
<1> DEFINE todo == coord[c].todo \ {Following(c)}
           l == [coord[c] EXCEPT !.todo = todo]
<1>1. coord' = [coord EXCEPT ![c] = l]
  BY Types DEF NotDue
<1>2. /\ coord[c] \in Copy /\ coord[c].pc = "start"
      /\ CopyOK(coord[c], scenario.mode, campaign, batch.members)
  BY Types DEF NotDue
<1>3. todo \subseteq coord[c].todo
  OBVIOUS
<1> HIDE DEF todo
<1>4. /\ l \in Copy /\ l.todo = todo /\ l.members = coord[c].members
      /\ l.fresh = coord[c].fresh /\ l.pc = "start"
  BY <1>2, <1>3 DEF Copy
<1> HIDE DEF l
<1>5. CopyOK(l, scenario.mode, campaign, batch.members)
  BY <1>2, <1>3, <1>4 DEF CopyOK, StartsAlone, Starts, Settles, Asks
<1> QED
  BY <1>1, <1>4, <1>5, CoordStep, Types DEF NotDue

\* Who is at one of these steps has a member to start.
LEMMA Asking ==
    ASSUME IInv, NEW c \in Coordinators, coord[c].pc \in Asks
    PROVE  /\ coord[c].pc \in Starts /\ coord[c].todo # {}
           /\ Following(c) \in Members /\ Following(c) = Least(coord[c].todo)
           /\ campaign[Following(c)] \in Row /\ coord[c].request \in Nat
<1>1. /\ coord[c] \in Copy /\ CopyOK(coord[c], scenario.mode, campaign, batch.members)
      /\ campaign \in [Members -> Row]
  BY Types
<1>2. coord[c].pc \in Starts
  BY DEF Starts
<1>3. coord[c].todo # {} /\ coord[c].todo \subseteq Members /\ coord[c].request \in Nat
  BY <1>1, <1>2 DEF CopyOK, ReadyIn, Copy
<1>4. Following(c) \in Members
  BY <1>3, LeastIn DEF Following
<1> QED
  BY <1>1, <1>2, <1>3, <1>4 DEF Following

LEMMA RevalidateStep ==
    ASSUME IInv, NEW c \in Coordinators, Revalidate(c)
    PROVE  IInv' /\ KeepsSettled
<1>1. /\ coord[c].pc \in Starts /\ coord[c].todo # {} /\ "ask" \in Starts
      /\ UNCHANGED <<scenario, aborts, batch, campaign, cancel, faults>>
  BY DEF Revalidate, Starts, Asks
<1>2. CASE Goto(c, "ask")
  BY <1>1, <1>2, GotoStep, Types
<1>3. 0 \in 0..MaxAttempts /\ {"review", "ready"} \subseteq Statuses
  BY Bounds DEF Statuses, TerminalStatuses
<1>4. CASE Outcome(c, "review", "start", 0)
  BY <1>1, <1>3, <1>4, OutcomeStep, Types
<1>5. CASE ScheduleRetry(c)
  <2> DEFINE m == Following(c)
             n == coord[c].members[m].attempts + 1
  <2>1. coord[c] \in Copy /\ coord[c].todo \subseteq ReadyIn(coord[c].members)
    BY <1>1, Types DEF CopyOK
  <2>2. coord[c].members \in Plans /\ m \in Members
    BY <1>1, <2>1, LeastIn DEF Copy, ReadyIn, Following
  <2>3. coord[c].members[m].attempts \in 0..MaxAttempts
    BY <2>2 DEF Plans, Member
  <2>4. \/ Outcome(c, "review", "start", 0)
        \/ ~(n >= MaxAttempts) /\ Outcome(c, "ready", "start", n)
    BY <1>5 DEF ScheduleRetry
  <2>5. ~(n >= MaxAttempts) => n \in 0..MaxAttempts
    BY <2>3, Bounds
  <2> HIDE DEF n
  <2>6. CASE ~(n >= MaxAttempts) /\ Outcome(c, "ready", "start", n)
    BY <1>1, <1>3, <2>5, <2>6, OutcomeStep, Types
  <2> QED
    BY <1>4, <2>4, <2>6
<1> QED
  BY <1>2, <1>4, <1>5 DEF Revalidate

LEMMA AskStep ==
    ASSUME IInv, NEW c \in Coordinators, Ask(c)
    PROVE  IInv' /\ KeepsSettled
<1> DEFINE m == Following(c)
           k == campaign[m]
           request == IF k.asked > k.started THEN k.asked ELSE k.asked + 1
<1>1. coord[c].pc \in Asks /\ "refused" \in Starts /\ "plan" \in Starts /\ "plan" \in Asks
  BY DEF Ask, Asks, Starts
<1>2. /\ m \in Members /\ campaign[m] \in Row /\ coord[c].pc \in Starts
      /\ coord[c].todo # {} /\ campaign \in [Members -> Row]
      /\ coord[c] \in Copy /\ CopyOK(coord[c], scenario.mode, campaign, batch.members)
  BY <1>1, Asking, Types
<1>3. UNCHANGED <<scenario, aborts, batch, cancel, faults>>
  BY DEF Ask
<1>4. CASE k.state \in Startable
  <2>1. request \in Nat
    BY <1>2 DEF Row
  <2>2. /\ campaign' = [campaign EXCEPT ![m].asked = request]
        /\ coord' = [coord EXCEPT ![c].pc = "plan", ![c].request = request]
    BY <1>4 DEF Ask
  <2> HIDE DEF request, m
  <2> DEFINE row == [campaign[m] EXCEPT !.asked = request]
             l == [coord[c] EXCEPT !.pc = "plan", !.request = request]
  <2>3. campaign' = [campaign EXCEPT ![m] = row] /\ coord' = [coord EXCEPT ![c] = l]
    BY <1>2, <2>2, Types
  <2>4. row \in Row /\ SameHold(row, campaign[m])
    BY <1>2, <2>1 DEF Row, SameHold
  <2>5. /\ l \in Copy /\ l.pc = "plan" /\ l.members = coord[c].members
        /\ l.todo = coord[c].todo /\ l.fresh = coord[c].fresh
    BY <1>1, <1>2, <2>1 DEF Copy, Starts
  <2> HIDE DEF row, l
  <2>6. campaign' \in [Members -> Row] /\ StayHeld(campaign, campaign')
    BY <1>2, <2>3, <2>4 DEF StayHeld, SameHold, Held
  <2>7. CopyOK(l, scenario.mode, campaign, batch.members)
    BY <1>1, <1>2, <2>5 DEF CopyOK, Starts, Asks, Settles
  <2> QED
    BY <1>3, <2>3, <2>5, <2>6, <2>7, CoordStep, Types
<1>5. CASE ~(k.state \in Startable)
  <2>1. Goto(c, "refused") /\ UNCHANGED campaign
    BY <1>5 DEF Ask
  <2> QED
    BY <1>1, <1>2, <1>3, <2>1, GotoStep, Types
<1> QED
  BY <1>4, <1>5

LEMMA PlanStep ==
    ASSUME IInv, NEW c \in Coordinators, Plan(c)
    PROVE  IInv' /\ KeepsSettled
<1> DEFINE m == Following(c)
<1>1. coord[c].pc \in Asks /\ "refused" \in Starts /\ "confirm" \in Starts
  BY DEF Plan, Asks, Starts
<1>2. /\ m \in Members /\ campaign[m] \in Row /\ coord[c].pc \in Starts
      /\ coord[c].todo # {} /\ campaign \in [Members -> Row]
  BY <1>1, Asking, Types
<1>3. UNCHANGED <<scenario, aborts, batch, cancel, faults>>
  BY DEF Plan
<1>4. Goto(c, "refused") \/ Goto(c, "confirm")
  BY DEF Plan
<1>5. /\ campaign' \in [Members -> Row]
      /\ StayHeld(campaign, campaign')
  <2>1. CASE UNCHANGED campaign
    BY <1>2, <2>1, Types
  <2>2. CASE campaign' = [campaign EXCEPT ![m].queued = 1]
    <3> DEFINE row == [campaign[m] EXCEPT !.queued = 1]
    <3>1. campaign' = [campaign EXCEPT ![m] = row]
      BY <1>2, <2>2
    <3>2. row \in Row /\ SameHold(row, campaign[m])
      BY <1>2 DEF Row, SameHold
    <3> HIDE DEF row, m
    <3> QED
      BY <1>2, <3>1, <3>2 DEF StayHeld, SameHold, Held
  <2>3. CASE /\ campaign[m].left > 0
             /\ campaign' = [campaign EXCEPT ![m].queued = 1, ![m].left = @ - 1]
    <3> DEFINE left == campaign[m].left - 1
               row == [campaign[m] EXCEPT !.queued = 1, !.left = left]
    <3>1. campaign' = [campaign EXCEPT ![m] = row]
      BY <1>2, <2>3
    <3>2. left \in Nat
      BY <1>2, <2>3 DEF Row
    <3> HIDE DEF left
    <3>3. row \in Row /\ SameHold(row, campaign[m])
      BY <1>2, <3>2 DEF Row, SameHold
    <3> HIDE DEF row, m
    <3> QED
      BY <1>2, <3>1, <3>3 DEF StayHeld, SameHold, Held
  <2> QED
    BY <2>1, <2>2, <2>3 DEF Plan
<1> QED
  BY <1>1, <1>2, <1>3, <1>4, <1>5, GotoStep, Types

LEMMA ConfirmStep ==
    ASSUME IInv, NEW c \in Coordinators, Confirm(c)
    PROVE  IInv' /\ KeepsSettled
<1> DEFINE m == Following(c)
<1>1. coord[c].pc \in Asks /\ "refused" \in Starts
  BY DEF Confirm, Asks, Starts
<1>2. /\ m \in Members /\ campaign[m] \in Row /\ coord[c].pc \in Starts
      /\ coord[c].todo # {} /\ campaign \in [Members -> Row] /\ coord[c].request \in Nat
  BY <1>1, Asking, Types
<1>3. UNCHANGED <<scenario, aborts, batch, cancel, faults>>
  BY DEF Confirm
<1>4. \/ Goto(c, "refused") /\ UNCHANGED campaign
      \/ Outcome(c, "running", "none", 0)
  BY DEF Confirm
<1>5. campaign' \in [Members -> Row] /\ StayHeld(campaign, campaign')
  <2>1. CASE UNCHANGED campaign
    BY <1>2, <2>1, Types
  <2>2. CASE /\ campaign[m].state \in Startable \cup {"running"}
             /\ campaign' = [campaign EXCEPT ![m].state = "running",
                                             ![m].started = coord[c].request]
    <3> DEFINE row == [campaign[m] EXCEPT !.state = "running", !.started = coord[c].request]
    <3>1. campaign' = [campaign EXCEPT ![m] = row]
      BY <1>2, <2>2
    <3>2. row \in Row /\ campaign[m].state # "cancelled" /\ row.overruled = campaign[m].overruled
      BY <1>2, <2>2 DEF Row, CampaignStates, Startable
    <3> HIDE DEF row, m
    <3> QED
      BY <1>2, <3>1, <3>2 DEF StayHeld, Held
  <2> QED
    BY <2>1, <2>2 DEF Confirm
<1>6. 0 \in 0..MaxAttempts /\ "running" \in Statuses
  BY Bounds DEF Statuses
<1>7. CASE Goto(c, "refused")
  BY <1>1, <1>2, <1>3, <1>5, <1>7, GotoStep, Types
<1>8. CASE Outcome(c, "running", "none", 0)
  BY <1>1, <1>2, <1>3, <1>5, <1>6, <1>8, OutcomeStep, Types
<1> QED
  BY <1>4, <1>7, <1>8

LEMMA ConflictStep ==
    ASSUME IInv, NEW c \in Coordinators, Conflict(c) \/ Forbidden(c)
    PROVE  IInv' /\ KeepsSettled
<1>1. /\ coord[c].pc \in Asks /\ {"refused", "forbidden"} \subseteq Starts
      /\ Goto(c, "refused") \/ Goto(c, "forbidden")
      /\ Fault /\ UNCHANGED <<scenario, aborts, batch, campaign, cancel>>
  BY DEF Conflict, Forbidden, Asks, Starts
<1>2. coord[c].pc \in Starts /\ coord[c].todo # {} /\ faults' \in Nat
  BY <1>1, Asking, FaultTyped
<1> QED
  BY <1>1, <1>2, GotoStep, Types

LEMMA BrokenStep ==
    ASSUME IInv, NEW c \in Coordinators, Broken(c)
    PROVE  IInv' /\ KeepsSettled
<1>1. /\ coord[c].pc \in Asks /\ Outcome(c, "blocked", "start", 0)
      /\ Fault /\ UNCHANGED <<scenario, aborts, batch, campaign, cancel>>
  BY DEF Broken, Asks
<1>2. coord[c].pc \in Starts /\ coord[c].todo # {} /\ faults' \in Nat
  BY <1>1, Asking, FaultTyped
<1>3. 0 \in 0..MaxAttempts /\ "blocked" \in Statuses
  BY Bounds DEF Statuses, TerminalStatuses
<1> QED
  BY <1>1, <1>2, <1>3, OutcomeStep, Types

LEMMA RefusedStep ==
    ASSUME IInv, NEW c \in Coordinators, Refused(c)
    PROVE  IInv' /\ KeepsSettled
<1> DEFINE state == campaign[Following(c)].state
<1>1. /\ coord[c].pc \in Asks
      /\ UNCHANGED <<scenario, aborts, batch, campaign, cancel, faults>>
  BY DEF Refused, Asks
<1>2. \/ Outcome(c, "running", "none", 0)
      \/ Outcome(c, "done", "none", 0)
      \/ state = "cancelled" /\ Outcome(c, "cancelled", "none", 0)
      \/ Outcome(c, "ready", "start", 0)
      \/ Outcome(c, "blocked", "start", 0)
  BY Zenon DEF Refused
<1>3. coord[c].pc \in Starts /\ coord[c].todo # {} /\ faults' \in Nat
  BY <1>1, Asking, Types
<1>4. /\ 0 \in 0..MaxAttempts
      /\ {"running", "done", "cancelled", "ready", "blocked"} \subseteq Statuses
  BY Bounds DEF Statuses, TerminalStatuses
<1>5. CASE Outcome(c, "running", "none", 0)
  BY <1>1, <1>3, <1>4, <1>5, OutcomeStep, Types
<1>6. CASE Outcome(c, "done", "none", 0)
  BY <1>1, <1>3, <1>4, <1>6, OutcomeStep, Types
<1>7. CASE state = "cancelled" /\ Outcome(c, "cancelled", "none", 0)
  BY <1>1, <1>3, <1>4, <1>7, OutcomeStep, Types
<1>8. CASE Outcome(c, "ready", "start", 0)
  BY <1>1, <1>3, <1>4, <1>8, OutcomeStep, Types
<1>9. CASE Outcome(c, "blocked", "start", 0)
  BY <1>1, <1>3, <1>4, <1>9, OutcomeStep, Types
<1> QED
  BY <1>2, <1>5, <1>6, <1>7, <1>8, <1>9

-----------------------------------------------------------------------------
(* The save and the crash of a coordinator, and the cancellation.          *)

\* A copy that lost its version promises nothing about the document.
LEMMA StaleCopy ==
    ASSUME NEW l \in Copy, NEW mode, NEW k, NEW now, CopyOK(l, mode, k, now), NEW after
    PROVE  [l EXCEPT !.fresh = FALSE] \in Copy
           /\ CopyOK([l EXCEPT !.fresh = FALSE], mode, k, after)
<1> DEFINE n == [l EXCEPT !.fresh = FALSE]
<1>1. /\ n \in Copy /\ n.pc = l.pc /\ n.members = l.members /\ n.todo = l.todo
      /\ ~n.fresh
  BY DEF Copy
<1> HIDE DEF n
<1>2. CopyOK(n, mode, k, after)
  BY <1>1 DEF CopyOK
<1> QED
  BY <1>1, <1>2 DEF n

LEMMA BatchStateTyped == ASSUME NEW ms PROVE BatchState(ms) \in BatchStates
BY DEF BatchState, BatchStates

LEMMA SaveStep ==
    ASSUME IInv, NEW c \in Coordinators, Save(c)
    PROVE  IInv' /\ KeepsSettled
<1> DEFINE ms == coord[c].members
           round == [IdleCoord EXCEPT !.round = coord[c].round]
<1>1. UNCHANGED <<scenario, aborts, campaign, faults>>
  BY DEF Save
<1>2. \/ Return(c) /\ UNCHANGED <<batch, cancel>>
      \/ coord' = [coord EXCEPT ![c] = round] /\ UNCHANGED <<batch, cancel>>
      \/ /\ coord[c].fresh
         /\ batch' = [state |-> BatchState(ms), members |-> ms]
         /\ coord' = [AllStale EXCEPT ![c] = Returned(c)]
         /\ cancel' = [cancel EXCEPT !.fresh = FALSE]
  BY DEF Save, NextState, Current
<1>3. /\ coord[c] \in Copy /\ coord[c].round \in Nat /\ ms \in Plans
      /\ CopyOK(coord[c], scenario.mode, campaign, batch.members)
  BY Types DEF Copy
<1>4. CASE Return(c) /\ UNCHANGED <<batch, cancel>>
  BY <1>1, <1>4, ReturnStep, Types
<1>5. CASE coord' = [coord EXCEPT ![c] = round] /\ UNCHANGED <<batch, cancel>>
  <2>1. round \in Copy /\ CopyOK(round, scenario.mode, campaign, batch.members)
    BY <1>3, Unread
  <2> HIDE DEF round
  <2> QED
    BY <1>1, <1>5, <2>1, CoordStep, Types
<1>6. CASE /\ coord[c].fresh
           /\ batch' = [state |-> BatchState(ms), members |-> ms]
           /\ coord' = [AllStale EXCEPT ![c] = Returned(c)]
           /\ cancel' = [cancel EXCEPT !.fresh = FALSE]
  <2>1. batch' \in Document /\ batch'.members = ms /\ batch'.state = BatchState(ms)
    BY <1>3, <1>6, BatchStateTyped DEF Document
  <2>2. MembersOK(ms, scenario.mode, campaign) /\ LeavesSettled(ms, batch.members)
    BY <1>3, <1>6 DEF CopyOK
  <2>3. \A d \in Coordinators : /\ coord'[d] \in Copy
                                /\ CopyOK(coord'[d], scenario.mode, campaign, ms)
    <3> TAKE d \in Coordinators
    <3>1. coord'[d] = Returned(c) \/ coord'[d] = [coord[d] EXCEPT !.fresh = FALSE]
      BY <1>6 DEF AllStale
    <3>2. Returned(c) \in Copy /\ CopyOK(Returned(c), scenario.mode, campaign, ms)
      BY Unread
    <3>3. /\ [coord[d] EXCEPT !.fresh = FALSE] \in Copy
          /\ CopyOK([coord[d] EXCEPT !.fresh = FALSE], scenario.mode, campaign, ms)
      BY StaleCopy, Types
    <3> QED
      BY <3>1, <3>2, <3>3
  <2>4. coord' \in [Coordinators -> Copy]
    <3>1. coord' = [d \in Coordinators |-> coord'[d]]
      BY <1>6 DEF AllStale
    <3> QED
      BY <2>3, <3>1
  <2>5. cancel' \in CancelCopy /\ CancelOK(cancel', scenario.mode, campaign, ms)
    <3>1. /\ cancel' \in CancelCopy /\ cancel'.members = cancel.members
          /\ ~cancel'.fresh
      BY <1>6, Types DEF CancelCopy
    <3> QED
      BY <3>1 DEF CancelOK, IInv
  <2>6. TypeOK'
    BY <1>1, <2>1, <2>4, <2>5 DEF IInv, TypeOK
  <2>7. KeepsSettled
    BY <2>1, <2>2 DEF KeepsSettled, LeavesSettled
  <2>8. IInv'
    BY <1>1, <2>1, <2>2, <2>3, <2>5, <2>6 DEF IInv
  <2> QED
    BY <2>7, <2>8
<1> QED
  BY <1>2, <1>4, <1>5, <1>6

LEMMA DiesStep ==
    ASSUME IInv, NEW c \in Coordinators, Dies(c)
    PROVE  IInv' /\ KeepsSettled
BY ReturnStep, FaultTyped DEF Dies

\* The cancel handler moves, and perhaps campaigns that stay cancelled once they are.
LEMMA CancelStep ==
    ASSUME IInv, cancel' \in CancelCopy,
           CancelOK(cancel', scenario.mode, campaign', batch.members),
           campaign' \in [Members -> Row], StayHeld(campaign, campaign'),
           UNCHANGED <<scenario, batch, coord>>, faults' \in Nat, aborts' \in Nat
    PROVE  IInv' /\ KeepsSettled
<1> DEFINE k == campaign
           k2 == campaign'
           mode == scenario.mode
           now == batch.members
<1>1. TypeOK'
  BY DEF IInv, TypeOK
<1>2. MembersOK(now, mode, k) /\ \A d \in Coordinators : CopyOK(coord[d], mode, k, now)
  BY DEF IInv
<1>3. StayHeld(k, k2) /\ CancelOK(cancel', mode, k2, now)
  OBVIOUS
<1> HIDE DEF k, k2
<1>4. MembersOK(now, mode, k2) /\ \A d \in Coordinators : CopyOK(coord[d], mode, k2, now)
  BY <1>2, <1>3, PlanAges, CopyAges
<1>5. KeepsSettled
  BY DEF KeepsSettled
<1>6. IInv'
  BY <1>1, <1>3, <1>4 DEF IInv, k2
<1> QED
  BY <1>5, <1>6

LEMMA CancelReadStep ==
    ASSUME IInv, CancelRead
    PROVE  IInv' /\ KeepsSettled
<1> DEFINE todo == {m \in Members : batch.members[m].status \notin {"done", "cancelled"}}
<1>1. cancel' = [pc |-> "members", fresh |-> TRUE, members |-> batch.members, todo |-> todo]
  BY DEF CancelRead
<1>2. todo \in SUBSET Members
  OBVIOUS
<1> HIDE DEF todo
<1>3. /\ cancel' \in CancelCopy /\ cancel'.members = batch.members
  BY <1>1, <1>2, Types DEF CancelCopy, Document
<1>4. CancelOK(cancel', scenario.mode, campaign, batch.members)
  BY <1>3 DEF CancelOK, IInv
<1>5. aborts' \in Nat
  BY Types DEF CancelRead
<1> QED
  BY <1>3, <1>4, <1>5, CancelStep, Types DEF CancelRead

\* CancelCampaign leaves a campaign that is cancelled, and stays it.
LEMMA CancelCampaignDoes ==
    ASSUME IInv, NEW m \in Members, CancelCampaign(m)
    PROVE  /\ campaign' \in [Members -> Row] /\ StayHeld(campaign, campaign')
           /\ campaign'[m].state = "cancelled"
<1> DEFINE ended == IF campaign[m].queued > 0 /\ campaign[m].ended = "none"
                      THEN "fine" ELSE campaign[m].ended
           row == [campaign[m] EXCEPT !.state = "cancelled", !.queued = 0, !.ended = ended]
<1>1. campaign[m] \in Row /\ campaign \in [Members -> Row]
  BY Types
<1>2. campaign' = [campaign EXCEPT ![m] = row]
  BY <1>1 DEF CancelCampaign
<1>3. ended \in {"none", "fine", "failed"}
  BY <1>1 DEF Row
<1> HIDE DEF ended
<1>4. row \in Row /\ row.state = "cancelled"
  BY <1>1, <1>3 DEF Row, CampaignStates
<1> HIDE DEF row
<1> QED
  BY <1>1, <1>2, <1>4 DEF StayHeld, Held

\* A member of the cancel copy is marked; honestly, if its campaign is cancelled
\* or the reason is kept.
LEMMA MarkCancelledDoes ==
    ASSUME NEW k, NEW m \in Members, NEW reason \in {"none", "cancel"},
           cancel \in CancelCopy, CancelOK(cancel, scenario.mode, k, batch.members),
           MarkCancelled(m, reason), reason = "none" => k[m].state = "cancelled"
    PROVE  cancel' \in CancelCopy /\ CancelOK(cancel', scenario.mode, k, batch.members)
<1> DEFINE ms == cancel.members
           why == IF reason = "none" THEN ms[m].reason ELSE reason
           v == [ms[m] EXCEPT !.status = "cancelled", !.reason = why]
           ns == [ms EXCEPT ![m] = v]
           todo == cancel.todo \ {m}
<1>1. ms \in Plans /\ MembersOK(ms, scenario.mode, k)
  BY DEF CancelCopy, CancelOK
<1>2. ms[m] \in Member
  BY <1>1 DEF Plans
<1>3. why \in {"none", "start", "cancel"} /\ (why # "cancel" => reason = "none")
  BY <1>2 DEF Member
<1>4. cancel' = [cancel EXCEPT !.members = ns, !.todo = todo]
  BY <1>1 DEF MarkCancelled, Plans, Member, CancelCopy
<1>5. todo \in SUBSET Members
  BY DEF CancelCopy
<1> HIDE DEF why, todo
<1>6. v \in Member /\ v.status = "cancelled" /\ v.reason = why
  BY <1>2, <1>3 DEF Member, Statuses, TerminalStatuses
<1> HIDE DEF v, ms
<1>7. MembersOK(ns, scenario.mode, k)
  BY <1>1, <1>3, <1>6, MembersChange
<1>8. ns \in Plans /\ ns[m] = v /\ \A i \in Members : i # m => ns[i] = ms[i]
  BY <1>1, <1>7 DEF MembersOK, Plans
<1> HIDE DEF ns
<1>9. /\ cancel' \in CancelCopy /\ cancel'.members = ns
      /\ cancel'.fresh = cancel.fresh
  BY <1>4, <1>5, <1>8 DEF CancelCopy
<1> QED
  BY <1>6, <1>7, <1>8, <1>9 DEF CancelOK, ms

LEMMA CancelMemberStep ==
    ASSUME IInv, CancelMember
    PROVE  IInv' /\ KeepsSettled
<1> DEFINE m == Least(cancel.todo)
<1>1. m \in Members
  BY LeastIn, Types DEF CancelMember, CancelCopy
<1>2. UNCHANGED <<scenario, aborts, batch, coord>>
  BY DEF CancelMember
<1>3. cancel \in CancelCopy /\ CancelOK(cancel, scenario.mode, campaign, batch.members)
  BY Types DEF IInv
<1>4. \/ /\ CancelCampaign(m) /\ MarkCancelled(m, "none") /\ UNCHANGED faults
      \/ /\ campaign[m].state = "cancelled" /\ MarkCancelled(m, "none")
         /\ UNCHANGED <<campaign, faults>>
      \/ /\ MarkCancelled(m, "cancel") /\ UNCHANGED campaign
         /\ Fault \/ UNCHANGED faults
  BY DEF CancelMember
<1> HIDE DEF m
<1>5. faults' \in Nat
  BY <1>4, FaultTyped, Types
<1>6. CASE CancelCampaign(m) /\ MarkCancelled(m, "none")
  <2> DEFINE k2 == campaign'
  <2>1. /\ k2 \in [Members -> Row] /\ StayHeld(campaign, k2)
        /\ k2[m].state = "cancelled"
    BY <1>1, <1>6, CancelCampaignDoes
  <2>2. CancelOK(cancel, scenario.mode, k2, batch.members)
    BY <1>3, <2>1, PlanAges DEF CancelOK
  <2> HIDE DEF k2
  <2>3. cancel' \in CancelCopy /\ CancelOK(cancel', scenario.mode, k2, batch.members)
    BY <1>1, <1>3, <1>6, <2>1, <2>2, MarkCancelledDoes
  <2> QED
    BY <1>2, <1>5, <2>1, <2>3, CancelStep, Types DEF k2
<1>7. CASE campaign[m].state = "cancelled" /\ MarkCancelled(m, "none") /\ UNCHANGED campaign
  <2>1. cancel' \in CancelCopy /\ CancelOK(cancel', scenario.mode, campaign, batch.members)
    BY <1>1, <1>3, <1>7, MarkCancelledDoes
  <2> QED
    BY <1>2, <1>5, <1>7, <2>1, CancelStep, Types
<1>8. CASE MarkCancelled(m, "cancel") /\ UNCHANGED campaign
  <2>1. cancel' \in CancelCopy /\ CancelOK(cancel', scenario.mode, campaign, batch.members)
    BY <1>1, <1>3, <1>8, MarkCancelledDoes
  <2> QED
    BY <1>2, <1>5, <1>8, <2>1, CancelStep, Types
<1> QED
  BY <1>4, <1>6, <1>7, <1>8

LEMMA CancelSaveStep ==
    ASSUME IInv, CancelSave
    PROVE  IInv' /\ KeepsSettled
<1>1. cancel' = NoCancel /\ UNCHANGED <<scenario, aborts, campaign, faults>>
  BY DEF CancelSave
<1>2. \/ UNCHANGED <<batch, coord>>
      \/ /\ cancel.fresh /\ coord' = AllStale
         /\ batch' = [state |-> "cancelled", members |-> cancel.members]
  BY DEF CancelSave, Current
<1>3. CASE UNCHANGED <<batch, coord>>
  BY <1>1, <1>3, Unread, CancelStep, Types
<1>4. CASE /\ cancel.fresh /\ coord' = AllStale
           /\ batch' = [state |-> "cancelled", members |-> cancel.members]
  <2> DEFINE ms == cancel.members
  <2>1. batch' \in Document /\ batch'.members = ms /\ batch'.state = "cancelled"
    BY <1>4, Types DEF Document, CancelCopy, BatchStates
  <2>2. MembersOK(ms, scenario.mode, campaign)
        /\ \A m \in Members : ms[m].status \in {batch.members[m].status, "cancelled"}
    BY <1>4 DEF IInv, CancelOK
  <2> HIDE DEF ms
  <2>3. \A d \in Coordinators : /\ coord'[d] \in Copy
                                /\ CopyOK(coord'[d], scenario.mode, campaign, ms)
    <3> TAKE d \in Coordinators
    <3>1. coord'[d] = [coord[d] EXCEPT !.fresh = FALSE]
      BY <1>4 DEF AllStale
    <3> QED
      BY <3>1, StaleCopy, Types
  <2>4. coord' \in [Coordinators -> Copy]
    <3>1. coord' = [d \in Coordinators |-> coord'[d]]
      BY <1>4 DEF AllStale
    <3> QED
      BY <2>3, <3>1
  <2>5. cancel' \in CancelCopy /\ CancelOK(cancel', scenario.mode, campaign, ms)
    BY <1>1, Unread
  <2>6. TypeOK'
    BY <1>1, <2>1, <2>4, <2>5 DEF IInv, TypeOK
  <2>7. KeepsSettled
    BY <2>1, <2>2 DEF KeepsSettled
  <2>8. IInv'
    BY <1>1, <2>1, <2>2, <2>3, <2>5, <2>6 DEF IInv
  <2> QED
    BY <2>7, <2>8
<1> QED
  BY <1>2, <1>3, <1>4

LEMMA CancelDiesStep ==
    ASSUME IInv, CancelDies
    PROVE  IInv' /\ KeepsSettled
<1>1. cancel' = NoCancel /\ faults' \in Nat
  BY FaultTyped DEF CancelDies
<1> QED
  BY <1>1, Unread, CancelStep, Types DEF CancelDies

-----------------------------------------------------------------------------
(* The campaigns run on.                                                   *)

LEMMA RowStep ==
    ASSUME IInv, NEW m \in Members, NEW row \in Row,
           campaign' = [campaign EXCEPT ![m] = row],
           Held(campaign[m]) => Held(row),
           UNCHANGED <<scenario, batch, coord, cancel, aborts>>, faults' \in Nat
    PROVE  IInv' /\ KeepsSettled
<1>1. campaign' \in [Members -> Row] /\ StayHeld(campaign, campaign')
  BY Types DEF StayHeld
<1> QED
  BY <1>1, CampaignStep, Types

\* Nothing outside the campaigns moves, not even the count of faults.
LEMMA OthersStay ==
    ASSUME IInv, UNCHANGED <<Others, aborts>>
    PROVE  UNCHANGED <<scenario, batch, coord, cancel, aborts>> /\ faults' \in Nat
BY Types DEF Others

\* A row that keeps its state and its history keeps the trace of a cancel.
LEMMA SameHeld ==
    ASSUME NEW row, NEW old, SameHold(row, old)
    PROVE  Held(old) => Held(row)
BY DEF SameHold, Held

LEMMA RowTyped ==
    ASSUME IInv, NEW m \in Members
    PROVE  campaign[m] \in Row /\ campaign \in [Members -> Row]
BY Types

LEMMA ClaimedStep ==
    ASSUME IInv, NEW m \in Members, Claimed(m)
    PROVE  IInv' /\ KeepsSettled
<1> DEFINE queued  == campaign[m].queued - 1
           running == campaign[m].running + 1
           row == [campaign[m] EXCEPT !.queued = queued, !.running = running,
                                      !.scanned = FALSE]
<1>1. campaign' = [campaign EXCEPT ![m] = row]
  BY RowTyped DEF Claimed
<1>2. queued \in Nat /\ running \in Nat
  BY RowTyped DEF Claimed, Row
<1> HIDE DEF queued, running
<1>3. row \in Row /\ SameHold(row, campaign[m])
  BY <1>2, RowTyped DEF Row, SameHold
<1> HIDE DEF row
<1> QED
  BY <1>1, <1>3, SameHeld, OthersStay, RowStep DEF Claimed

LEMMA ScannedStep ==
    ASSUME IInv, NEW m \in Members, Scanned(m)
    PROVE  IInv' /\ KeepsSettled
<1>1. PICK state \in scenario.scans :
         campaign' = [campaign EXCEPT ![m].state = state, ![m].scanned = TRUE]
  BY DEF Scanned
<1> DEFINE row == [campaign[m] EXCEPT !.state = state, !.scanned = TRUE]
<1>2. campaign' = [campaign EXCEPT ![m] = row]
  BY <1>1, RowTyped
<1>3. state \in CampaignStates
  BY Types, Bounds DEF CampaignStates
<1>4. row \in Row /\ row.overruled = campaign[m].overruled
  BY <1>3, RowTyped DEF Row
<1> HIDE DEF row
<1>5. Held(campaign[m]) => Held(row)
  BY <1>4 DEF Held, Scanned
<1> QED
  BY <1>2, <1>4, <1>5, OthersStay, RowStep DEF Scanned

LEMMA FollowedUpStep ==
    ASSUME IInv, NEW m \in Members, FollowedUp(m)
    PROVE  IInv' /\ KeepsSettled
<1> DEFINE queued == campaign[m].queued + 1
           left   == campaign[m].left - 1
           row == [campaign[m] EXCEPT !.queued = queued, !.left = left]
<1>1. campaign' = [campaign EXCEPT ![m] = row]
  BY RowTyped DEF FollowedUp
<1>2. queued \in Nat /\ left \in Nat
  BY RowTyped DEF FollowedUp, Row
<1> HIDE DEF queued, left
<1>3. row \in Row /\ SameHold(row, campaign[m])
  BY <1>2, RowTyped DEF Row, SameHold
<1> HIDE DEF row
<1> QED
  BY <1>1, <1>3, SameHeld, OthersStay, RowStep DEF FollowedUp

LEMMA FinishedStep ==
    ASSUME IInv, NEW m \in Members, Finished(m)
    PROVE  IInv' /\ KeepsSettled
<1>1. PICK result \in {"fine", "failed"} :
         campaign' = [campaign EXCEPT ![m].running = @ - 1,
                                      ![m].ended = IF @ = "failed" THEN @ ELSE result]
  BY DEF Finished
<1> DEFINE running == campaign[m].running - 1
           ended   == IF campaign[m].ended = "failed" THEN campaign[m].ended ELSE result
           row == [campaign[m] EXCEPT !.running = running, !.ended = ended]
<1>2. campaign' = [campaign EXCEPT ![m] = row]
  BY <1>1, RowTyped
<1>3. running \in Nat /\ ended \in {"none", "fine", "failed"}
  BY RowTyped DEF Finished, Working, Row
<1> HIDE DEF running, ended
<1>4. row \in Row /\ SameHold(row, campaign[m])
  BY <1>3, RowTyped DEF Row, SameHold
<1> HIDE DEF row
<1> QED
  BY <1>2, <1>4, SameHeld, OthersStay, RowStep DEF Finished

LEMMA RequeuedStep ==
    ASSUME IInv, NEW m \in Members, Requeued(m)
    PROVE  IInv' /\ KeepsSettled
<1> DEFINE queued  == campaign[m].queued + 1
           running == campaign[m].running - 1
           row == [campaign[m] EXCEPT !.running = running, !.queued = queued]
<1>1. campaign' = [campaign EXCEPT ![m] = row]
  BY RowTyped DEF Requeued
<1>2. queued \in Nat /\ running \in Nat
  BY RowTyped DEF Requeued, Working, Row
<1> HIDE DEF queued, running
<1>3. row \in Row /\ SameHold(row, campaign[m])
  BY <1>2, RowTyped DEF Row, SameHold
<1> HIDE DEF row
<1>4. faults' \in Nat
  BY Types DEF Requeued
<1> QED
  BY <1>1, <1>3, <1>4, SameHeld, RowStep DEF Requeued

\* The planner stops for the campaign, or is allowed to go on.
LEMMA StoppedStep ==
    ASSUME IInv, NEW m \in Members, Stopped(m) \/ Resumed(m)
    PROVE  IInv' /\ KeepsSettled
<1>1. PICK b \in BOOLEAN : campaign' = [campaign EXCEPT ![m].stopped = b]
  BY DEF Stopped, Resumed
<1> DEFINE row == [campaign[m] EXCEPT !.stopped = b]
<1>2. campaign' = [campaign EXCEPT ![m] = row]
  BY <1>1, RowTyped
<1>3. row \in Row /\ SameHold(row, campaign[m])
  BY RowTyped DEF Row, SameHold
<1> HIDE DEF row
<1>4. UNCHANGED <<scenario, batch, coord, cancel, aborts>> /\ faults' \in Nat
  BY Types DEF Stopped, Resumed, Others
<1> QED
  BY <1>2, <1>3, <1>4, SameHeld, RowStep

LEMMA JudgedStep ==
    ASSUME IInv, NEW m \in Members, Judged(m)
    PROVE  IInv' /\ KeepsSettled
<1> DEFINE row == [campaign[m] EXCEPT !.state = "completed", !.review = "judged"]
<1>1. campaign' = [campaign EXCEPT ![m] = row]
  BY RowTyped DEF Judged
<1>2. row \in Row /\ row.overruled = campaign[m].overruled
  BY RowTyped DEF Row, CampaignStates
<1> HIDE DEF row
<1>3. Held(campaign[m]) => Held(row)
  BY <1>2 DEF Held, Judged
<1> QED
  BY <1>1, <1>2, <1>3, OthersStay, RowStep DEF Judged

\* The completion that overrules a cancel says so.
LEMMA OverrulesStep ==
    ASSUME IInv, NEW m \in Members, Overrules(m)
    PROVE  IInv' /\ KeepsSettled
<1> DEFINE b   == campaign[m].overruled \/ campaign[m].state = "cancelled"
           row == [campaign[m] EXCEPT !.state = "completed", !.review = "ensured",
                                      !.overruled = b]
<1>1. campaign' = [campaign EXCEPT ![m] = row]
  BY RowTyped DEF Overrules
<1>2. b \in BOOLEAN /\ (Held(campaign[m]) => b)
  BY RowTyped DEF Row, Held
<1> HIDE DEF b
<1>3. row \in Row /\ row.overruled = b
  BY <1>2, RowTyped DEF Row, CampaignStates
<1> HIDE DEF row
<1>4. Held(campaign[m]) => Held(row)
  BY <1>2, <1>3 DEF Held
<1> QED
  BY <1>1, <1>3, <1>4, OthersStay, RowStep DEF Overrules

LEMMA ReportedStep ==
    ASSUME IInv, NEW m \in Members, Reported(m)
    PROVE  IInv' /\ KeepsSettled
<1> DEFINE queued == campaign[m].queued + 1
           kept   == [campaign[m] EXCEPT !.review = "none"]
           row    == [campaign[m] EXCEPT !.queued = queued, !.review = "queued"]
<1>1. \/ campaign' = [campaign EXCEPT ![m] = kept]
      \/ campaign' = [campaign EXCEPT ![m] = row]
  BY RowTyped DEF Reported
<1>2. queued \in Nat
  BY RowTyped DEF Row
<1> HIDE DEF queued
<1>3. kept \in Row /\ SameHold(kept, campaign[m]) /\ row \in Row /\ SameHold(row, campaign[m])
  BY <1>2, RowTyped DEF Row, SameHold
<1> HIDE DEF row, kept
<1> QED
  BY <1>1, <1>3, SameHeld, OthersStay, RowStep DEF Reported

LEMMA RecordedStep ==
    ASSUME IInv, NEW m \in Members, Recorded(m)
    PROVE  IInv' /\ KeepsSettled
<1> DEFINE state == IF campaign[m].state = "cancelled" THEN campaign[m].state ELSE "completed"
           row   == [campaign[m] EXCEPT !.review = "none", !.state = state]
<1>1. campaign' = [campaign EXCEPT ![m] = row]
  BY RowTyped DEF Recorded
<1>2. state \in CampaignStates /\ (campaign[m].state = "cancelled" => state = "cancelled")
  BY RowTyped DEF Row, CampaignStates
<1> HIDE DEF state
<1>3. row \in Row /\ row.overruled = campaign[m].overruled /\ row.state = state
  BY <1>2, RowTyped DEF Row
<1> HIDE DEF row
<1>4. Held(campaign[m]) => Held(row)
  BY <1>2, <1>3 DEF Held
<1> QED
  BY <1>1, <1>3, <1>4, OthersStay, RowStep DEF Recorded

LEMMA ReviewEndsStep ==
    ASSUME IInv, NEW m \in Members, ReviewEnds(m)
    PROVE  IInv' /\ KeepsSettled
<1> DEFINE row == [campaign[m] EXCEPT !.review = "due"]
<1>1. campaign' = [campaign EXCEPT ![m] = row]
  BY RowTyped DEF ReviewEnds
<1>2. row \in Row /\ SameHold(row, campaign[m])
  BY RowTyped DEF Row, SameHold
<1> HIDE DEF row
<1>3. faults' \in Nat
  BY Types DEF ReviewEnds
<1> QED
  BY <1>1, <1>2, <1>3, SameHeld, RowStep DEF ReviewEnds

LEMMA CampaignCancelledStep ==
    ASSUME IInv, NEW m \in Members, CampaignCancelled(m)
    PROVE  IInv' /\ KeepsSettled
<1>1. campaign' \in [Members -> Row] /\ StayHeld(campaign, campaign')
  BY CancelCampaignDoes DEF CampaignCancelled
<1>2. aborts' \in Nat /\ UNCHANGED <<scenario, batch, coord, cancel, faults>>
  BY Types DEF CampaignCancelled, Others
<1> QED
  BY <1>1, <1>2, CampaignStep, Types

LEMMA RuntimeSpentStep ==
    ASSUME IInv, RuntimeSpent
    PROVE  IInv' /\ KeepsSettled
<1>1. campaign' = [m \in Members |-> [campaign[m] EXCEPT !.spent = TRUE]]
  BY DEF RuntimeSpent
<1>2. ASSUME NEW m \in Members
      PROVE  campaign'[m] \in Row /\ (Held(campaign[m]) => Held(campaign'[m]))
  <2> DEFINE row == [campaign[m] EXCEPT !.spent = TRUE]
  <2>1. row \in Row /\ SameHold(row, campaign[m])
    BY RowTyped DEF Row, SameHold
  <2>2. campaign'[m] = row
    BY <1>1
  <2> HIDE DEF row
  <2> QED
    BY <2>1, <2>2, SameHeld
<1>3. campaign' \in [Members -> Row] /\ StayHeld(campaign, campaign')
  BY <1>1, <1>2 DEF StayHeld
<1> QED
  BY <1>3, CampaignStep, Types DEF RuntimeSpent, Others

-----------------------------------------------------------------------------
(* The theorems.                                                           *)

\* A launched batch: every member ready, nobody at work.
THEOREM InitIInv == Init => IInv
<1> SUFFICES ASSUME Init
             PROVE  IInv
  OBVIOUS
<1>1. PICK s \in Scenarios :
        /\ scenario = s /\ faults = s.faults /\ aborts = s.aborts
        /\ batch = [state |-> "queued", members |-> IdleCoord.members]
        /\ campaign = [m \in Members |-> [state |-> "ready", asked |-> 0, started |-> 0,
                                          queued |-> 0, running |-> 0, ended |-> "none",
                                          left |-> s.jobs, scanned |-> FALSE,
                                          spent |-> FALSE, stopped |-> FALSE,
                                          review |-> IF m \in s.reviewed THEN "due" ELSE "none",
                                          overruled |-> FALSE]]
        /\ coord = [c \in Coordinators |-> IdleCoord]
        /\ cancel = NoCancel
  BY DEF Init
<1>2. s.faults \in Nat /\ s.aborts \in Nat /\ s.jobs \in Nat
  BY Bounds
<1>3. campaign \in [Members -> Row]
  BY <1>1, <1>2 DEF Row, CampaignStates
<1>4. /\ IdleCoord \in Copy /\ MembersOK(IdleCoord.members, scenario.mode, campaign)
      /\ NoCancel \in CancelCopy
      /\ CancelOK(NoCancel, scenario.mode, campaign, batch.members)
  BY Unread
<1>5. IdleCoord.members \in Plans /\ IdleCoord.pc = "idle" /\ ~IdleCoord.fresh
  BY <1>4 DEF MembersOK, IdleCoord
<1>6. batch \in Document /\ batch.members = IdleCoord.members /\ batch.state = "queued"
  BY <1>1, <1>5 DEF Document, BatchStates
<1>7. CopyOK(IdleCoord, scenario.mode, campaign, batch.members)
  BY <1>4, <1>5 DEF CopyOK, Settles, Starts, Asks
<1>8. BatchState(batch.members) = "queued"
  <2>1. \A m \in Members : batch.members[m].status = "ready"
    BY <1>6 DEF IdleCoord
  <2>2. 1 \in Members
    BY Bounds DEF Members
  <2> QED
    BY <2>1, <2>2 DEF BatchState, RunningIn, TerminalStatuses
<1>9. TypeOK
  BY <1>1, <1>2, <1>3, <1>4, <1>6 DEF TypeOK
<1> QED
  BY <1>1, <1>4, <1>6, <1>7, <1>8, <1>9 DEF IInv

LEMMA ReconcilesStep ==
    ASSUME IInv, NEW c \in Coordinators, Reconciles(c) \/ Dies(c)
    PROVE  IInv' /\ KeepsSettled
BY ReadStep, SettleStateStep, SettleJobsStep, NotDueStep, RevalidateStep, AskStep,
   PlanStep, ConfirmStep, RefusedStep, ConflictStep, BrokenStep, SaveStep, DiesStep
   DEF Reconciles

\* Every step keeps the invariant, and leaves alone what the document has settled.
THEOREM StepIInv == IInv /\ [Next]_vars => IInv' /\ (KeepsSettled \/ UNCHANGED batch)
<1> SUFFICES ASSUME IInv, [Next]_vars
             PROVE  IInv' /\ (KeepsSettled \/ UNCHANGED batch)
  OBVIOUS
<1>1. ASSUME NEW c \in Coordinators, Reconciles(c) \/ Dies(c)
      PROVE  IInv' /\ KeepsSettled
  BY <1>1, ReconcilesStep
<1>2. CASE Cancels
  BY <1>2, CancelReadStep, CancelMemberStep, CancelSaveStep, CancelDiesStep DEF Cancels
<1>3. ASSUME NEW m \in Members,
             \/ Works(m) \/ Reviews(m) \/ CampaignCancelled(m)
             \/ Stopped(m) \/ Resumed(m)
      PROVE  IInv' /\ KeepsSettled
  <2>1. CASE Works(m)
    BY <2>1, ClaimedStep, ScannedStep, FollowedUpStep, FinishedStep, RequeuedStep DEF Works
  <2>2. CASE Reviews(m)
    BY <2>2, JudgedStep, OverrulesStep, ReportedStep, RecordedStep, ReviewEndsStep
       DEF Reviews
  <2> QED
    BY <1>3, <2>1, <2>2, CampaignCancelledStep, StoppedStep
<1>4. CASE RuntimeSpent
  BY <1>4, RuntimeSpentStep
<1>5. CASE UNCHANGED vars
  <2>1. TypeOK'
    BY <1>5 DEF vars, IInv, TypeOK
  <2>2. IInv'
    BY <1>5, <2>1 DEF vars, IInv
  <2> QED
    BY <1>5, <2>2 DEF vars
<1> QED
  BY <1>1, <1>2, <1>3, <1>4, <1>5 DEF Next

\* The inductive invariant holds of every behaviour.
THEOREM IInvCorrect == Spec => []IInv
<1>1. IInv /\ [Next]_vars => IInv'
  BY StepIInv
<1> QED
  BY InitIInv, <1>1, PTL DEF Spec

\* Types: the document, the campaigns as the coordinators see them, every
\* coordinator inside reconcile_hackerone_batch and the cancel handler.
THEOREM TypeCorrect == Spec => []TypeOK
<1>1. IInv => TypeOK
  BY DEF IInv
<1> QED
  BY <1>1, IInvCorrect, PTL

\* The saved document is one plan: its state is the one its members imply, a
\* retry is pending only for a ready (or cancelled) member, and a sequential
\* batch runs one member at a time, whatever copies were saved over it.
THEOREM DocumentCorrect == Spec => []DocumentConsistent
<1>1. IInv => DocumentConsistent
  <2> SUFFICES ASSUME IInv
               PROVE  DocumentConsistent
    OBVIOUS
  <2> DEFINE ms == batch.members
  <2>1. /\ ms \in [Members -> Member] /\ RetriesReady(ms) /\ OneAtATime(ms, scenario.mode)
        /\ batch.state # "cancelled" => batch.state = BatchState(ms)
    BY DEF IInv, MembersOK, Plans
  <2>2. scenario.mode = "sequential" => Cardinality(RunningIn(ms)) <= 1
    <3> DEFINE running == RunningIn(ms)
    <3> SUFFICES ASSUME scenario.mode = "sequential"
                 PROVE  Cardinality(running) <= 1
      OBVIOUS
    <3>1. \A a, b \in running : a = b
      BY <2>1 DEF OneAtATime
    <3> HIDE DEF running
    <3>2. running = {} \/ \E a : running = {a}
      BY <3>1
    <3>3. CASE running = {}
      BY <3>3, FS_EmptySet
    <3>4. CASE \E a : running = {a}
      <4>1. PICK a : running = {a}
        BY <3>4
      <4>2. Cardinality({a}) = 1
        BY FS_Singleton, Zenon
      <4> QED
        BY <4>1, <4>2
    <3> QED
      BY <3>2, <3>3, <3>4
  <2> QED
    BY <2>1, <2>2 DEF DocumentConsistent, RetriesReady
<1> QED
  BY <1>1, IInvCorrect, PTL

\* A cancelled member has a cancelled campaign, or its reason says that the
\* cancellation failed, or the handler of a last verdict completed the campaign
\* afterwards, however the cancellation interleaved with starts under way.
THEOREM CancelHonestCorrect == Spec => []CancelIsHonest
<1>1. IInv => CancelIsHonest
  BY DEF IInv, MembersOK, Honest, Held, CancelIsHonest
<1> QED
  BY <1>1, IInvCorrect, PTL

\* What the document calls settled is not put back by a coordinator that read
\* it before: a save holds the version it read, or is refused.
THEOREM SettledStaysCorrect == Spec => SettledStays
<1> DEFINE A == \A m \in Members :
                  batch.members[m].status \in TerminalStatuses =>
                    batch'.members[m].status \in {batch.members[m].status, "cancelled"}
<1>1. IInv /\ [Next]_vars => [A]_batch
  BY StepIInv DEF KeepsSettled
<1>2. Spec => [][A]_batch
  BY <1>1, IInvCorrect, PTL DEF Spec
<1> QED
  BY <1>2 DEF SettledStays

=============================================================================
