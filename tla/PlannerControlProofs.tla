------------------------- MODULE PlannerControlProofs -------------------------
(***************************************************************************)
(* Proofs about PlannerControl, for all workers, handlers, operators,      *)
(* engines and bounds: what the lease excludes; what holds of decisions,   *)
(* scans and the breaker as long as no two plannings have overlapped; and  *)
(* what the audit says of resets, however operators cross and die.         *)
(***************************************************************************)
EXTENDS PlannerControl, FiniteSetTheorems, SequenceTheorems, TLAPS

PlannerStates == [pc : PlannerSteps, copy : Graphs, what : Works \cup Stops,
                  plan : SUBSET Keys, trips : 0..2, at : Nat]
ResetStates   == [pc : ResetSteps, pending : Nat, of : Nat, at : Nat]
Events        == [type : {"requested", "completed"}, of : Nat]

-----------------------------------------------------------------------------
(* Types.                                                                  *)

\* The parts of a step that are typed apart from planners and operators.
Typed ==
    /\ setup \in [redis : BOOLEAN, planners : SUBSET Planners]
    /\ lock \in Workers \cup {Nobody} /\ lost \subseteq Planners /\ overlapped \in BOOLEAN
    /\ graph \in Graphs /\ jobs \subseteq Keys
    /\ audit \in Seq(Events)
    /\ left \in [plannings : Nat, resets : Nat, faults : Nat]
    /\ clock \in Nat
    /\ \A e \in graph.breaker : e.at <= clock

OperatorsOK ==
    /\ operator \in [Operators -> ResetStates]
    /\ \A o \in Operators : operator[o].at <= clock

LEMMA TypeParts ==
  /\ TypeOK <=> /\ Typed /\ OperatorsOK
                /\ planner \in [Planners -> PlannerStates]
                /\ \A p \in Planners : planner[p].at <= clock
  /\ TypeOK' <=> /\ Typed' /\ OperatorsOK'
                 /\ planner' \in [Planners -> PlannerStates]
                 /\ \A p \in Planners : planner'[p].at <= clock'
BY DEF TypeOK, Typed, OperatorsOK, PlannerStates, ResetStates, Events

LEMMA SameOperators ==
  OperatorsOK /\ clock \in Nat /\ operator' = operator /\ clock' \in {clock, clock + 1}
    => OperatorsOK'
<1> SUFFICES ASSUME OperatorsOK, clock \in Nat, operator' = operator, clock' \in {clock, clock + 1}
             PROVE  OperatorsOK'
  OBVIOUS
<1>1. \A o \in Operators : operator[o].at \in Nat /\ operator[o].at <= clock
  BY DEF OperatorsOK, ResetStates
<1> QED
  BY <1>1 DEF OperatorsOK

LEMMA IdleType ==
  /\ NoGraph \in Graphs /\ NoGraph.breaker = {}
  /\ Idle \in PlannerStates /\ Idle.pc = "idle" /\ Idle.at = 0
BY DEF NoGraph, Graphs, Idle, PlannerStates, PlannerSteps, Works

LEMMA TypeInit == Init => TypeOK
<1> SUFFICES ASSUME Init PROVE TypeOK
  OBVIOUS
<1> PICK s \in Scenarios :
      /\ setup = [redis |-> s.redis, planners |-> s.planners]
      /\ left = [plannings |-> s.plannings, resets |-> s.resets, faults |-> s.faults]
  BY DEF Init
<1>1. NoGraph \in Graphs /\ NoGraph.breaker = {} /\ Idle \in PlannerStates /\ Idle.at = 0
  BY IdleType
<1>2. /\ lock = Nobody /\ graph = NoGraph /\ jobs = {} /\ clock = 0
      /\ lost = {} /\ overlapped = FALSE
  BY DEF Init
<1>3. NoReset \in ResetStates
  BY DEF NoReset, ResetStates, ResetSteps
<1>4. setup \in [redis : BOOLEAN, planners : SUBSET Planners]
  BY PlannerAssumption
<1>5. left \in [plannings : Nat, resets : Nat, faults : Nat]
  BY PlannerAssumption
<1>6. audit \in Seq(Events)
  BY DEF Init
<1>7. planner \in [Planners -> PlannerStates] /\ \A p \in Planners : planner[p].at <= clock
  BY <1>1, <1>2 DEF Init
<1>8. OperatorsOK
  <2>1. NoReset.at = 0
    BY DEF NoReset
  <2> QED
    BY <1>2, <1>3, <2>1 DEF Init, OperatorsOK
<1>9. Typed
  BY <1>1, <1>2, <1>4, <1>5, <1>6 DEF Typed
<1> QED
  BY <1>7, <1>8, <1>9, TypeParts

\* What a planner keeps to itself.
LEMMA LocalType ==
  ASSUME TypeOK, NEW p \in Planners, NEW l \in PlannerStates, Continue(p, l)
  PROVE  /\ planner' \in [Planners -> PlannerStates]
         /\ l.at <= clock' /\ clock <= clock' /\ clock' \in Nat
              => \A q \in Planners : planner'[q].at <= clock'
<1>1. /\ planner \in [Planners -> PlannerStates] /\ clock \in Nat
      /\ \A q \in Planners : planner[q].at <= clock
  BY TypeParts DEF Typed
<1>2. \A q \in Planners : planner[q].at \in Nat
  BY <1>1 DEF PlannerStates
<1> QED
  BY <1>1, <1>2 DEF Continue, PlannerStates

LEMMA TypeBegin ==
  ASSUME TypeOK, NEW p \in Planners, Begin(p), lock' \in Workers \cup {Nobody}
  PROVE  TypeOK'
<1>1. [Idle EXCEPT !.pc = "load"] \in PlannerStates /\ [Idle EXCEPT !.pc = "load"].at = 0
  BY IdleType DEF PlannerStates, PlannerSteps
<1>2. Typed /\ OperatorsOK /\ clock \in Nat
  BY TypeParts DEF Typed
<1>3. left' \in [plannings : Nat, resets : Nat, faults : Nat] /\ overlapped' \in BOOLEAN
  BY <1>2 DEF Begin, Typed
<1>4. UNCHANGED <<setup, graph, jobs, audit, operator, clock, lost>>
  BY DEF Begin
<1>5. planner' \in [Planners -> PlannerStates] /\ \A q \in Planners : planner'[q].at <= clock'
  <2> DEFINE l == [Idle EXCEPT !.pc = "load"]
  <2>1. Continue(p, l)
    BY DEF Begin
  <2>2. l.at <= clock' /\ clock <= clock' /\ clock' \in Nat
    BY <1>1, <1>2, <1>4 DEF Typed
  <2>3. l \in PlannerStates
    BY <1>1
  <2> HIDE DEF l
  <2> QED
    BY <2>1, <2>2, <2>3, LocalType
<1>6. Typed'
  BY <1>2, <1>3, <1>4 DEF Typed
<1> QED
  BY <1>2, <1>4, <1>5, <1>6, TypeParts, SameOperators

LEMMA TypeLease ==
  ASSUME TypeOK, NEW p \in Planners, Unlock(p) \/ Dies(p) \/ Expire
  PROVE  TypeOK'
<1>1. Idle \in PlannerStates /\ Idle.at = 0
  BY IdleType
<1>2. /\ Typed /\ OperatorsOK /\ clock \in Nat
      /\ planner \in [Planners -> PlannerStates]
      /\ \A q \in Planners : planner[q].at <= clock
  BY TypeParts DEF Typed
<1>3. left' \in [plannings : Nat, resets : Nat, faults : Nat]
  BY <1>2 DEF Unlock, Dies, Expire, Fault, Typed
<1>4. lock' \in Workers \cup {Nobody} /\ lost' \subseteq Planners
  BY <1>2 DEF Unlock, Dies, Expire, Released, Typed, Planners
<1>5. UNCHANGED <<setup, graph, jobs, audit, operator, clock, overlapped>>
  BY DEF Unlock, Dies, Expire
<1>6. planner' = planner \/ Continue(p, Idle)
  BY DEF Unlock, Dies, Expire
<1>7. planner' \in [Planners -> PlannerStates] /\ \A q \in Planners : planner'[q].at <= clock'
  <2>1. CASE planner' = planner
    BY <1>2, <1>5, <2>1
  <2>2. CASE Continue(p, Idle)
    BY <1>1, <1>2, <1>5, <2>2, LocalType DEF Typed
  <2> QED
    BY <1>6, <2>1, <2>2
<1>8. Typed'
  BY <1>2, <1>3, <1>4, <1>5 DEF Typed
<1> QED
  BY <1>2, <1>5, <1>7, <1>8, TypeParts, SameOperators

\* A step of a planner that moves nothing else.
LEMMA TypeOnlyPlanner ==
  ASSUME TypeOK, NEW p \in Planners, NEW l \in PlannerStates,
         Continue(p, l), l.at <= clock, OnlyPlanner
  PROVE  TypeOK'
<1>1. Typed /\ OperatorsOK /\ clock \in Nat
  BY TypeParts DEF Typed
<1>2. planner' \in [Planners -> PlannerStates] /\ \A q \in Planners : planner'[q].at <= clock'
  BY <1>1, LocalType DEF OnlyPlanner, Typed
<1>3. Typed'
  BY <1>1 DEF OnlyPlanner, Typed
<1> QED
  BY <1>1, <1>2, <1>3, TypeParts, SameOperators DEF OnlyPlanner

\* A step that writes the graph as well.
LEMMA TypeOnlyGraph ==
  ASSUME TypeOK, NEW p \in Planners, NEW l \in PlannerStates,
         Continue(p, l), l.at <= clock, OnlyGraph,
         graph' \in Graphs, \A e \in graph'.breaker : e.at <= clock
  PROVE  TypeOK'
<1>1. Typed /\ OperatorsOK /\ clock \in Nat
  BY TypeParts DEF Typed
<1>2. planner' \in [Planners -> PlannerStates] /\ \A q \in Planners : planner'[q].at <= clock'
  BY <1>1, LocalType DEF OnlyGraph, Typed
<1>3. Typed'
  BY <1>1 DEF OnlyGraph, Typed
<1> QED
  BY <1>1, <1>2, <1>3, TypeParts, SameOperators DEF OnlyGraph

LEMMA TypeAdvance ==
  ASSUME TypeOK, NEW p \in Planners, Advance(p)
  PROVE  TypeOK'
<1> DEFINE l == planner[p]
<1>1. l \in PlannerStates /\ l.at <= clock /\ clock \in Nat /\ graph \in Graphs /\ jobs \subseteq Keys
  BY TypeParts DEF Typed
<1>2. [l EXCEPT !.pc = "check", !.copy = graph] \in PlannerStates
  BY <1>1 DEF PlannerStates, PlannerSteps
<1>3. CASE Load(p)
  BY <1>1, <1>2, <1>3, TypeOnlyPlanner DEF Load, PlannerStates
<1>4. ASSUME NEW what \in Works \cup Stops, NEW copy \in Graphs, NEW n \in 0..2,
             StopFor(p, what, copy, n), OnlyPlanner
      PROVE  TypeOK'
  <2> DEFINE m == [l EXCEPT !.pc = IF n = 0 THEN "record" ELSE "stamp",
                            !.what = what, !.copy = copy, !.trips = n]
  <2>1. m \in PlannerStates /\ m.at = l.at
    BY <1>1 DEF PlannerStates, PlannerSteps
  <2>2. Continue(p, m)
    BY <1>4 DEF StopFor
  <2> QED
    BY <1>1, <1>4, <2>1, <2>2, TypeOnlyPlanner
<1>5. CASE CheckStops(p)
  <2>1. l.copy \in Graphs
    BY <1>1 DEF PlannerStates
  <2>2. OnlyPlanner /\ \E what \in Works \cup Stops, copy \in Graphs, n \in 0..2 :
                         StopFor(p, what, copy, n)
    BY <1>1, <1>5, <2>1 DEF CheckStops, Stops
  <2> QED
    BY <1>4, <2>2
<1>6. CASE CheckPasses(p) \/ Reload(p)
  <2> DEFINE m == [l EXCEPT !.pc = "plan", !.copy = graph]
  <2>1. m \in PlannerStates /\ m.at = l.at
    BY <1>1 DEF PlannerStates, PlannerSteps
  <2>2. Continue(p, m) /\ OnlyPlanner
    BY <1>6 DEF CheckPasses, Reload
  <2> QED
    BY <1>1, <2>1, <2>2, TypeOnlyPlanner
<1>7. ASSUME NEW pc \in PlannerSteps
      PROVE  [l EXCEPT !.pc = pc] \in PlannerStates /\ [l EXCEPT !.pc = pc].at = l.at
  BY <1>1 DEF PlannerStates
<1>8. CASE Seed(p)
  <2>1. graph' \in Graphs /\ graph'.breaker = graph.breaker
    BY <1>1, <1>8 DEF Seed, Graphs
  <2>2. Continue(p, [l EXCEPT !.pc = "reload"]) /\ OnlyGraph /\ "reload" \in PlannerSteps
    BY <1>8 DEF Seed, Goto, PlannerSteps
  <2>3. \A e \in graph'.breaker : e.at <= clock
    BY <2>1, TypeParts DEF Typed
  <2> QED
    BY <1>1, <1>7, <2>1, <2>2, <2>3, TypeOnlyGraph
<1>9. CASE PlanStops(p)
  <2>1. l.copy \in Graphs /\ "other" \in Works \cup Stops
    BY <1>1 DEF PlannerStates, Stops
  <2> QED
    BY <1>4, <1>9, <2>1 DEF PlanStops
<1>10. Fingerprint(l.copy) \in Prints
  BY <1>1 DEF Fingerprint, Prints, PlannerStates, Graphs
<1>11. ASSUME NEW what \in Works, NEW kinds, kinds \subseteq Engines \cup {"work"},
              Carry(p, what, kinds), OnlyPlanner
       PROVE  TypeOK'
  <2> DEFINE ks == {Key(p, kind) : kind \in kinds}
             m == [l EXCEPT !.pc = "enqueue", !.what = what, !.plan = ks]
  <2>1. ks \subseteq Keys
    BY <1>10, <1>11 DEF Key, Keys
  <2>2. m \in PlannerStates /\ m.at = l.at
    BY <1>1, <2>1 DEF PlannerStates, PlannerSteps
  <2>3. Continue(p, m)
    BY <1>11 DEF Carry
  <2> QED
    BY <1>1, <1>11, <2>2, <2>3, TypeOnlyPlanner
<1>12. CASE PlanGoes(p)
  <2>1. OnlyPlanner /\ \E what \in Works, kinds \in SUBSET (Engines \cup {"work"}) :
                         Carry(p, what, kinds)
    BY <1>12 DEF PlanGoes, Works
  <2> QED
    BY <1>11, <2>1
<1>13. CASE Enqueue(p)
  <2>1. PICK m \in PlannerStates : m.at = l.at /\ Continue(p, m) /\ jobs' \subseteq Keys
    <3>1. ASSUME NEW k \in l.plan
          PROVE  /\ k \in Keys
                 /\ [l EXCEPT !.plan = @ \ {k}] \in PlannerStates
                 /\ [l EXCEPT !.plan = @ \ {k}].at = l.at
      BY <1>1 DEF PlannerStates
    <3>2. "record" \in PlannerSteps
      BY DEF PlannerSteps
    <3> QED
      BY <1>1, <1>7, <1>13, <3>1, <3>2 DEF Enqueue, Goto
  <2>2. UNCHANGED <<setup, lock, graph, audit, operator, clock, left, lost, overlapped>>
    BY <1>13 DEF Enqueue
  <2>3. Typed' /\ OperatorsOK'
    BY <1>1, <2>1, <2>2, TypeParts, SameOperators DEF Typed
  <2>4. planner' \in [Planners -> PlannerStates] /\ \A q \in Planners : planner'[q].at <= clock'
    BY <1>1, <2>1, <2>2, LocalType
  <2> QED
    BY <2>3, <2>4, TypeParts
<1>14. CASE Record(p)
  <2> DEFINE id == [what |-> l.what, of |-> Fingerprint(l.copy)]
             m  == [l EXCEPT !.pc = "unlock"]
  <2>1. Continue(p, m) /\ OnlyGraph /\ m \in PlannerStates /\ m.at = l.at
    BY <1>1, <1>14 DEF Record, Goto, PlannerStates, PlannerSteps
  <2>0. \A e \in graph.breaker : e.at <= clock
    BY TypeParts DEF Typed
  <2> HIDE DEF m
  <2>2. CASE UNCHANGED graph
    <3>1. graph' \in Graphs /\ graph'.breaker = graph.breaker
      BY <1>1, <2>2
    <3> QED
      BY <1>1, <2>0, <2>1, <3>1, TypeOnlyGraph
  <2>3. ASSUME NEW link \in Links(l.copy.decisions),
               graph' = [graph EXCEPT !.decisions =
                           Append(@, [id |-> id, seq |-> link.seq, prev |-> link.prev])]
        PROVE  TypeOK'
    <3>0. l.copy.decisions \in Seq(Decisions)
      BY <1>1 DEF PlannerStates, Graphs
    <3>1. link.seq \in Nat /\ link.prev \in DecisionIds \cup {Nobody}
      <4>1. CASE l.copy.decisions = <<>>
        BY <2>3, <4>1 DEF Links, LinksTo
      <4>2. ASSUME NEW i \in DOMAIN l.copy.decisions,
                   link = [seq |-> l.copy.decisions[i].seq + 1, prev |-> l.copy.decisions[i].id]
            PROVE  link.seq \in Nat /\ link.prev \in DecisionIds
        <5>1. l.copy.decisions[i] \in Decisions
          BY <3>0, <4>2
        <5> QED
          BY <4>2, <5>1 DEF Decisions
      <4> QED
        BY <2>3, <4>1, <4>2 DEF Links, LinksTo
    <3>2. id \in DecisionIds
      BY <1>1, <1>10 DEF DecisionIds, PlannerStates
    <3>3. [id |-> id, seq |-> link.seq, prev |-> link.prev] \in Decisions
      BY <3>1, <3>2 DEF Decisions
    <3>4. graph' \in Graphs /\ graph'.breaker = graph.breaker
      <4> DEFINE ds == Append(graph.decisions, [id |-> id, seq |-> link.seq, prev |-> link.prev])
      <4>1. ds \in Seq(Decisions)
        BY <1>1, <3>3 DEF Graphs
      <4>2. graph' = [graph EXCEPT !.decisions = ds]
        BY <2>3
      <4> HIDE DEF ds
      <4> QED
        BY <1>1, <4>1, <4>2 DEF Graphs
    <3> QED
      BY <1>1, <2>0, <2>1, <3>4, TypeOnlyGraph
  <2> QED
    BY <1>14, <2>2, <2>3 DEF Record
<1>15. CASE Stamp(p)
  <2> DEFINE m == [l EXCEPT !.pc = "trip", !.at = clock + 1]
  <2>1. m \in PlannerStates /\ m.at = clock + 1 /\ Continue(p, m) /\ clock' = clock + 1
    <3>1. clock + 1 \in Nat
      BY <1>1
    <3>2. m \in PlannerStates /\ m.at = clock + 1
      BY <1>1, <3>1 DEF PlannerStates, PlannerSteps
    <3> QED
      BY <1>15, <3>2 DEF Stamp
  <2>2. UNCHANGED <<setup, lock, graph, jobs, audit, operator, left, lost, overlapped>>
    BY <1>15 DEF Stamp
  <2>3. \A e \in graph.breaker : e.at \in Nat /\ e.at <= clock
    BY <1>1, TypeParts DEF Typed, Graphs, Stamps
  <2>4. Typed' /\ OperatorsOK'
    BY <1>1, <2>1, <2>2, <2>3, TypeParts, SameOperators DEF Typed
  <2> HIDE DEF m
  <2>5. planner' \in [Planners -> PlannerStates] /\ \A q \in Planners : planner'[q].at <= clock'
    BY <1>1, <2>1, LocalType
  <2> QED
    BY <2>4, <2>5, TypeParts
<1>16. ASSUME Tripped(p)
       PROVE  \E m \in PlannerStates : m.at = l.at /\ Continue(p, m)
  <2>1. CASE l.trips > 1
    <3> DEFINE m == [l EXCEPT !.pc = "stamp", !.trips = @ - 1]
    <3>1. m \in PlannerStates /\ m.at = l.at
      <4>1. l.trips - 1 \in 0..2
        BY <1>1, <2>1 DEF PlannerStates
      <4> QED
        BY <1>1, <4>1 DEF PlannerStates, PlannerSteps
    <3> QED
      BY <1>16, <2>1, <3>1 DEF Tripped
  <2>2. CASE ~(l.trips > 1)
    <3>1. "record" \in PlannerSteps
      BY DEF PlannerSteps
    <3> QED
      BY <1>7, <1>16, <2>2, <3>1 DEF Tripped, Goto
  <2> QED
    BY <2>1, <2>2
<1>17. CASE TripSkips(p)
  BY <1>1, <1>16, <1>17, TypeOnlyPlanner DEF TripSkips
<1>18. CASE TripReads(p)
  <2>1. "put" \in PlannerSteps
    BY DEF PlannerSteps
  <2>2. Continue(p, [l EXCEPT !.pc = "put"]) /\ OnlyPlanner
    BY <1>18 DEF TripReads, Goto
  <2> QED
    BY <1>1, <1>7, <2>1, <2>2, TypeOnlyPlanner
<1>19. CASE TripPut(p)
  <2> DEFINE e == [state |-> "open", at |-> l.at]
  <2>1. e \in Stamps /\ e.at <= clock
    BY <1>1 DEF Stamps, PlannerStates
  <2>2. graph' = [graph EXCEPT !.breaker = @ \cup {e}] /\ Tripped(p) /\ OnlyGraph
    BY <1>19 DEF TripPut
  <2>3. graph' \in Graphs /\ graph'.breaker = graph.breaker \cup {e}
    BY <1>1, <2>1, <2>2 DEF Graphs
  <2>4. \A f \in graph'.breaker : f.at <= clock
    BY <2>1, <2>3, TypeParts DEF Typed
  <2> QED
    BY <1>1, <1>16, <2>2, <2>3, <2>4, TypeOnlyGraph
<1> QED
  BY <1>3, <1>5, <1>6, <1>8, <1>9, <1>12, <1>13, <1>14, <1>15, <1>17, <1>18, <1>19 DEF Advance

\* An operator's handler, the audit and a stamp of its own.
LEMMA TypeReset ==
  ASSUME TypeOK, NEW o \in Operators, Reset(o)
  PROVE  TypeOK'
<1> DEFINE r == operator[o]
<1>1. /\ Typed /\ OperatorsOK /\ operator \in [Operators -> ResetStates]
      /\ r \in ResetStates /\ r.at <= clock /\ clock \in Nat
      /\ planner \in [Planners -> PlannerStates] /\ \A p \in Planners : planner[p].at <= clock
  BY TypeParts DEF Typed, OperatorsOK
<1> DEFINE States == {s \in ResetStates : s.at <= clock}
<1>2. NoReset \in States
  BY <1>1 DEF NoReset, ResetStates, ResetSteps
<1>3. ASSUME NEW s \in States, Resetting(o, s), UNCHANGED <<planner, clock>>, Typed'
      PROVE  TypeOK'
  <2>1. OperatorsOK'
    BY <1>1, <1>3 DEF Resetting, OperatorsOK
  <2> QED
    BY <1>1, <1>3, <2>1, TypeParts
<1>4. \A pc \in ResetSteps : [r EXCEPT !.pc = pc] \in States
  BY <1>1 DEF ResetStates
<1>5. \A i \in DOMAIN audit : audit[i].of \in Nat
  <2>1. audit \in Seq(Events)
    BY <1>1 DEF Typed
  <2>2. \A i \in DOMAIN audit : audit[i] \in Events
    BY <2>1
  <2> QED
    BY <2>2 DEF Events
<1>6. OnlyOperator => Typed' /\ UNCHANGED <<planner, clock>>
  BY <1>1 DEF OnlyOperator, Typed
<1>7. CASE ResetRead(o)
  <2>1. \E s \in States : Resetting(o, s)
    <3>1. [NoReset EXCEPT !.pc = "look"] \in States
      BY <1>2 DEF ResetStates, ResetSteps
    <3>2. ASSUME NEW i \in DOMAIN audit
          PROVE  [NoReset EXCEPT !.pc = "look", !.pending = audit[i].of] \in States
      BY <1>2, <1>5 DEF ResetStates, ResetSteps
    <3> QED
      BY <1>7, <3>1, <3>2 DEF ResetRead
  <2>2. left' \in [plannings : Nat, resets : Nat, faults : Nat]
    <3>1. left.resets > 0 /\ left' = [left EXCEPT !.resets = @ - 1]
      BY <1>7 DEF ResetRead
    <3>2. left \in [plannings : Nat, resets : Nat, faults : Nat]
      BY <1>1 DEF Typed
    <3>3. left.resets - 1 \in Nat
      BY <3>1, <3>2
    <3> QED
      BY <3>1, <3>2, <3>3
  <2>3. UNCHANGED <<setup, lock, graph, jobs, planner, audit, clock, lost, overlapped>>
    BY <1>7 DEF ResetRead
  <2>4. Typed'
    BY <1>1, <2>2, <2>3 DEF Typed
  <2> QED
    BY <1>3, <2>1, <2>3, <2>4
<1>8. CASE ResetLook(o)
  <2>1. r.pending \in Nat /\ \A e \in graph.breaker : e.at \in Nat
    BY <1>1 DEF ResetStates, Typed, Graphs, Stamps
  <2>2. \A of \in Nat : /\ [r EXCEPT !.pc = "request", !.of = of] \in States
                        /\ [r EXCEPT !.pc = "complete", !.of = of] \in States
    BY <1>1 DEF ResetStates, ResetSteps
  <2>3. OnlyOperator /\ \E s \in States : Resetting(o, s)
    <3>1. CASE Resetting(o, NoReset)
      BY <1>2, <1>8, <3>1 DEF ResetLook
    <3>2. CASE Resetting(o, [r EXCEPT !.pc = "complete", !.of = r.pending])
      BY <1>8, <2>1, <2>2, <3>2 DEF ResetLook
    <3>3. ASSUME NEW e \in graph.breaker,
                 Resetting(o, [r EXCEPT !.pc = "request",
                                 !.of = IF r.pending = 0 THEN e.at ELSE r.pending])
          PROVE  OnlyOperator /\ \E s \in States : Resetting(o, s)
      BY <1>8, <2>1, <2>2, <3>3 DEF ResetLook
    <3> QED
      BY <1>8, <3>1, <3>2, <3>3 DEF ResetLook
  <2> QED
    BY <1>3, <1>6, <2>3
<1>9. ASSUME NEW type \in {"requested", "completed"}, NEW s \in States, Persist(o, type, s)
      PROVE  TypeOK'
  <2>1. Event(type, r.of) \in Events
    BY <1>1 DEF Event, Events, ResetStates
  <2>2. audit' \in Seq(Events)
    BY <1>1, <1>9, <2>1 DEF Persist, Typed
  <2>3. /\ UNCHANGED <<setup, lock, graph, jobs, planner, clock, left, lost, overlapped>>
        /\ Resetting(o, s)
    BY <1>9 DEF Persist
  <2>4. Typed'
    BY <1>1, <2>2, <2>3 DEF Typed
  <2> QED
    BY <1>3, <2>3, <2>4
<1>10. CASE ResetRequest(o)
  BY <1>4, <1>9, <1>10 DEF ResetRequest, ResetSteps
<1>11. CASE ResetComplete(o)
  BY <1>2, <1>9, <1>11 DEF ResetComplete
<1>12. CASE ResetStamp(o)
  <2>1. clock \in Nat /\ clock' = clock + 1
    BY <1>1, <1>12 DEF ResetStamp, Typed
  <2>2. UNCHANGED <<setup, lock, graph, jobs, planner, audit, left, lost, overlapped>>
    BY <1>12 DEF ResetStamp
  <2>3. \A e \in graph.breaker : e.at \in Nat /\ e.at <= clock
    BY <1>1 DEF Typed, Graphs, Stamps
  <2>4. Typed'
    BY <1>1, <2>1, <2>2, <2>3 DEF Typed
  <2>5. [r EXCEPT !.pc = "reset", !.at = clock + 1] \in ResetStates
    <3>1. clock + 1 \in Nat
      BY <2>1
    <3> QED
      BY <1>1, <3>1 DEF ResetStates, ResetSteps
  <2>6. OperatorsOK'
    <3>1. \A u \in Operators : operator[u].at \in Nat /\ operator[u].at <= clock
      BY <1>1 DEF OperatorsOK, ResetStates
    <3>2. operator' = [operator EXCEPT ![o] = [r EXCEPT !.pc = "reset", !.at = clock + 1]]
      BY <1>12 DEF ResetStamp, Resetting
    <3>3. [r EXCEPT !.pc = "reset", !.at = clock + 1].at = clock + 1
      BY <1>1 DEF ResetStates
    <3> QED
      BY <1>1, <2>1, <2>5, <3>1, <3>2, <3>3 DEF OperatorsOK
  <2>7. \A p \in Planners : planner[p].at \in Nat
    BY <1>1 DEF PlannerStates
  <2>8. planner' \in [Planners -> PlannerStates] /\ \A p \in Planners : planner'[p].at <= clock'
    BY <1>1, <2>1, <2>2, <2>7
  <2> QED
    BY <2>4, <2>6, <2>8, TypeParts
<1>13. CASE ResetReread(o)
  BY <1>3, <1>4, <1>6, <1>13 DEF ResetReread, ResetSteps
<1>14. CASE ResetPut(o)
  <2>0. r.at \in Nat /\ clock \in Nat
    BY <1>1 DEF ResetStates, Typed
  <2> DEFINE e == [state |-> "reset", at |-> r.at]
  <2>1. e \in Stamps
    BY <2>0 DEF Stamps
  <2>2. /\ graph' = [graph EXCEPT !.breaker = @ \cup {e}]
        /\ UNCHANGED <<setup, lock, jobs, planner, audit, clock, left, lost, overlapped>>
        /\ Resetting(o, [r EXCEPT !.pc = "complete"])
    BY <1>14 DEF ResetPut
  <2>3. graph' \in Graphs /\ graph'.breaker = graph.breaker \cup {e}
    BY <1>1, <2>1, <2>2 DEF Graphs, Typed
  <2>4. Typed'
    BY <1>1, <2>0, <2>2, <2>3 DEF Typed
  <2>5. "complete" \in ResetSteps
    BY DEF ResetSteps
  <2> QED
    BY <1>3, <1>4, <2>2, <2>4, <2>5
<1>15. CASE ResetFails(o)
  <2>1. left' \in [plannings : Nat, resets : Nat, faults : Nat]
    BY <1>1, <1>15 DEF ResetFails, Fault, Typed
  <2>2. /\ UNCHANGED <<setup, lock, graph, jobs, planner, audit, clock, lost, overlapped>>
        /\ Resetting(o, NoReset)
    BY <1>15 DEF ResetFails
  <2>3. Typed'
    BY <1>1, <2>1, <2>2 DEF Typed
  <2> QED
    BY <1>2, <1>3, <2>2, <2>3
<1> QED
  BY <1>7, <1>8, <1>10, <1>11, <1>12, <1>13, <1>14, <1>15 DEF Reset

LEMMA TypeStep == TypeOK /\ [Next]_vars => TypeOK'
<1> SUFFICES ASSUME TypeOK, [Next]_vars PROVE TypeOK'
  OBVIOUS
<1>0. Typed
  BY TypeParts
<1>1. ASSUME NEW p \in Workers, Acquire(p) PROVE TypeOK'
  <2>1. p \in Planners /\ Begin(p) /\ lock' \in Workers \cup {Nobody}
    BY <1>1 DEF Acquire, Planners
  <2> QED
    BY <2>1, TypeBegin
<1>2. ASSUME NEW p \in Planners, BeginUnlocked(p) PROVE TypeOK'
  <2>1. Begin(p) /\ lock' \in Workers \cup {Nobody}
    BY <1>0, <1>2 DEF BeginUnlocked, Typed
  <2> QED
    BY <2>1, TypeBegin
<1>3. CASE Learn
  <2>1. graph' \in Graphs /\ graph'.breaker = graph.breaker
    <3>1. graph \in Graphs /\ graph' = [graph EXCEPT !.facts = @ + 1]
      BY <1>0, <1>3 DEF Learn, Typed
    <3> QED
      BY <3>1 DEF Graphs
  <2>2. UNCHANGED <<setup, lock, jobs, planner, audit, operator, clock, left, lost, overlapped>>
    BY <1>3 DEF Learn, OnlyGraph
  <2>3. Typed'
    BY <1>0, <2>1, <2>2 DEF Typed
  <2> QED
    BY <1>0, <2>2, <2>3, TypeParts, SameOperators DEF Typed
<1>4. CASE UNCHANGED vars
  BY <1>4 DEF TypeOK, vars
<1>5. CASE Expire
  <2>1. \E p \in Planners : TRUE
    BY <1>0, <1>5 DEF Expire, Typed, Planners
  <2> QED
    BY <1>5, <2>1, TypeLease
<1> QED
  BY <1>1, <1>2, <1>3, <1>4, <1>5, TypeLease, TypeAdvance, TypeReset DEF Next

\* Every reachable state is well typed, and no stamp lies ahead of the clock.
THEOREM TypeCorrect == Spec => []TypeOK
BY TypeInit, TypeStep, PTL DEF Spec

-----------------------------------------------------------------------------
(* The lease.                                                              *)

\* A worker that plans, or has planned and not yet released, and whose lease did
\* not run out, is the one that holds it.
HolderPlans ==
    setup.redis => \A p \in Workers : ~At(p, "idle") /\ p \notin lost => lock = p

LEMMA HolderInit == Init => HolderPlans
BY DEF Init, HolderPlans, At, Idle, Planners

\* Planners that are not idle are those they were, whatever they do.
LEMMA AdvanceKeeps ==
  ASSUME TypeOK, NEW p \in Planners, Advance(p)
  PROVE  /\ UNCHANGED <<setup, lock, audit, operator, left, lost, overlapped>>
         /\ ~At(p, "idle")
         /\ \A q \in Planners \ {p} : planner'[q] = planner[q]
<1>1. planner \in [Planners -> PlannerStates]
  BY TypeParts
<1>2. \A l : Continue(p, l) => \A q \in Planners \ {p} : planner'[q] = planner[q]
  BY <1>1 DEF Continue
<1> QED
  BY <1>2 DEF Advance, Load, CheckStops, CheckPasses, Seed, Reload, PlanStops, PlanGoes, Enqueue,
     Record, Stamp, TripSkips, TripReads, TripPut, Tripped, StopFor, Carry, Goto, At,
     OnlyPlanner, OnlyGraph

LEMMA ResetKeeps ==
  ASSUME NEW o \in Operators, Reset(o)
  PROVE  UNCHANGED <<setup, lock, jobs, planner, lost, overlapped>>
BY DEF Reset, ResetRead, ResetLook, ResetRequest, ResetStamp, ResetReread, ResetPut, ResetComplete,
   ResetFails, Persist, OnlyOperator

LEMMA HolderStep == TypeOK /\ HolderPlans /\ [Next]_vars => HolderPlans'
<1> SUFFICES ASSUME TypeOK, HolderPlans, [Next]_vars, setup'.redis,
                    NEW q \in Workers, ~At(q, "idle")', q \notin lost'
             PROVE  lock' = q
  BY DEF HolderPlans
<1>0. /\ planner \in [Planners -> PlannerStates] /\ lost \subseteq Planners
      /\ q \in Planners /\ Idle.pc = "idle"
  BY TypeParts, IdleType DEF Typed, Planners
<1>1. ASSUME NEW p \in Workers, Acquire(p) PROVE lock' = q
  <2>1. CASE p = q
    BY <1>1, <2>1 DEF Acquire
  <2>2. CASE p # q
    <3>1. ~At(q, "idle") /\ q \notin lost /\ setup.redis /\ lock = Nobody
      BY <1>0, <1>1, <2>2 DEF Acquire, Begin, Continue, At
    <3>2. lock = q
      BY <3>1 DEF HolderPlans
    <3> QED
      BY <1>0, <3>1, <3>2, PlannerAssumption
  <2> QED
    BY <2>1, <2>2
<1>2. ASSUME NEW p \in Planners, BeginUnlocked(p) PROVE lock' = q
  <2>1. p \in Starters /\ p # q /\ setup.redis /\ lock' = lock
    BY <1>2, PlannerAssumption DEF BeginUnlocked, Begin
  <2>2. ~At(q, "idle") /\ q \notin lost
    BY <1>0, <1>2, <2>1 DEF BeginUnlocked, Begin, Continue, At
  <2> QED
    BY <2>1, <2>2 DEF HolderPlans
<1>3. ASSUME NEW p \in Planners, Advance(p) PROVE lock' = q
  <2>1. ~At(q, "idle")
    BY <1>0, <1>3, AdvanceKeeps DEF At
  <2>2. setup.redis /\ q \notin lost /\ lock' = lock
    BY <1>3, AdvanceKeeps
  <2> QED
    BY <2>1, <2>2 DEF HolderPlans
<1>4. ASSUME NEW p \in Planners, Unlock(p) \/ Dies(p) PROVE lock' = q
  <2>1. Continue(p, Idle) /\ lost' = lost \ {p} /\ setup' = setup
    BY <1>4 DEF Unlock, Dies
  <2>2. p # q /\ ~At(q, "idle") /\ q \notin lost
    BY <1>0, <2>1 DEF Continue, At
  <2>3. lock = q
    BY <2>1, <2>2 DEF HolderPlans
  <2> QED
    BY <1>4, <2>2, <2>3 DEF Unlock, Dies, Released
<1>5. CASE Expire
  <2>1. ~At(q, "idle") /\ setup.redis
    BY <1>5 DEF Expire, At
  <2>2. CASE At(lock, "idle")
    <3>1. lock = q
      BY <1>5, <2>1, <2>2 DEF Expire, HolderPlans
    <3> QED
      BY <2>1, <2>2, <3>1
  <2>3. CASE ~At(lock, "idle")
    <3>1. q \notin lost /\ q # lock
      BY <1>5, <2>3 DEF Expire
    <3> QED
      BY <2>1, <3>1 DEF HolderPlans
  <2> QED
    BY <2>2, <2>3
<1>6. CASE Learn \/ UNCHANGED vars
  <2>1. UNCHANGED <<setup, lock, planner, lost>>
    BY <1>6 DEF Learn, OnlyGraph, vars
  <2> QED
    BY <2>1 DEF HolderPlans, At
<1>7. ASSUME NEW o \in Operators, Reset(o) PROVE lock' = q
  <2>1. UNCHANGED <<setup, lock, planner, lost>>
    BY <1>7, ResetKeeps
  <2> QED
    BY <2>1 DEF HolderPlans, At
<1> QED
  BY <1>1, <1>2, <1>3, <1>4, <1>5, <1>6, <1>7 DEF Next

\* With a lease in Redis two workers plan at once only after one of their leases ran
\* out while it planned.
THEOREM LeaseCorrect == Spec => []LeaseExcludes
<1>1. HolderPlans => LeaseExcludes
  <2> SUFFICES ASSUME HolderPlans, setup.redis, NEW p \in Workers, NEW q \in Workers,
                      p # q, Planning(p), Planning(q), p \notin lost, q \notin lost
               PROVE  FALSE
    BY DEF LeaseExcludes
  <2>1. lock = p /\ lock = q
    BY DEF HolderPlans, Planning, At
  <2> QED
    BY <2>1
<1> QED
  BY <1>1, HolderInit, HolderStep, TypeCorrect, PTL DEF Spec

-----------------------------------------------------------------------------
(* One planning at a time.                                                 *)

\* Resets close, and never open, the breaker: if all openings that b has were seen
\* in the part c of it, and c was not open, b is not open.
LEMMA StaysClosed ==
  ASSUME NEW b, NEW c, c \subseteq b, ~OpenIn(c),
         \A e \in b : e.state = "open" => e \in c
  PROVE  ~OpenIn(b)
BY DEF OpenIn

\* A decision that goes after a chain is linked to its last element.
LEMMA LinksOfChain ==
  ASSUME NEW ds \in Seq(Decisions), \A i \in DOMAIN ds : ds[i].seq = i,
         NEW link \in Links(ds)
  PROVE  /\ link.seq = Len(ds) + 1
         /\ link.prev = IF ds = <<>> THEN Nobody ELSE ds[Len(ds)].id
<1>1. CASE ds = <<>>
  BY <1>1 DEF Links, LinksTo
<1>2. CASE ds # <<>>
  <2>1. PICK i \in DOMAIN ds : IsLatest(ds, i) /\ link = [seq |-> ds[i].seq + 1, prev |-> ds[i].id]
    BY <1>2 DEF Links, LinksTo
  <2>2. Len(ds) \in DOMAIN ds /\ i \in 1..Len(ds) /\ Len(ds) \in Nat
    BY <1>2
  <2>3. ds[Len(ds)].seq <= ds[i].seq
    BY <2>1, <2>2 DEF IsLatest
  <2>4. i = Len(ds)
    BY <2>2, <2>3
  <2> QED
    BY <1>2, <2>1, <2>4
<1> QED
  BY <1>1, <1>2

Chained(ds) ==
    \A i \in DOMAIN ds :
      /\ ds[i].seq = i
      /\ ds[i].prev = IF i = 1 THEN Nobody ELSE ds[i - 1].id

LEMMA ChainGrows ==
  ASSUME NEW ds \in Seq(Decisions), Chained(ds), NEW link \in Links(ds), NEW id
  PROVE  Chained(Append(ds, [id |-> id, seq |-> link.seq, prev |-> link.prev]))
<1> DEFINE d  == [id |-> id, seq |-> link.seq, prev |-> link.prev]
           es == Append(ds, d)
<1>1. link.seq = Len(ds) + 1 /\ link.prev = IF ds = <<>> THEN Nobody ELSE ds[Len(ds)].id
  BY LinksOfChain DEF Chained
<1>2. /\ Len(ds) \in Nat /\ DOMAIN es = 1..(Len(ds) + 1) /\ es[Len(ds) + 1] = d
      /\ \A i \in 1..Len(ds) : es[i] = ds[i]
  OBVIOUS
<1>3. ds = <<>> <=> Len(ds) = 0
  OBVIOUS
<1> HIDE DEF es
<1>4. ASSUME NEW i \in 1..(Len(ds) + 1)
      PROVE  es[i].seq = i /\ es[i].prev = IF i = 1 THEN Nobody ELSE es[i - 1].id
  <2>1. CASE i \in 1..Len(ds)
    <3>1. ds[i].seq = i /\ ds[i].prev = IF i = 1 THEN Nobody ELSE ds[i - 1].id
      BY <2>1 DEF Chained
    <3>2. i # 1 => i - 1 \in 1..Len(ds)
      BY <2>1
    <3> QED
      BY <1>2, <2>1, <3>1, <3>2
  <2>2. CASE i = Len(ds) + 1
    <3>1. es[i].seq = i /\ es[i].prev = IF ds = <<>> THEN Nobody ELSE ds[Len(ds)].id
      BY <1>1, <1>2, <2>2
    <3>2. i # 1 => i - 1 = Len(ds) /\ Len(ds) \in 1..Len(ds) /\ ds # <<>>
      BY <1>2, <1>3, <2>2
    <3>3. i = 1 => ds = <<>>
      BY <1>2, <1>3, <2>2
    <3> QED
      BY <1>2, <3>1, <3>2, <3>3
  <2> QED
    BY <1>2, <2>1, <2>2
<1>5. Chained(es)
  BY <1>2, <1>4 DEF Chained
<1> QED
  BY <1>5 DEF es

\* As many scans as were allocated, on top of those that are there.
LEMMA PlanFits ==
  ASSUME NEW ks, IsFiniteSet(ks), NEW S \in SUBSET Engines, NEW of,
         NEW plan, plan = {[kind |-> kind, of |-> of] : kind \in S},
         Cardinality(Scans(ks)) + Cardinality(S) <= MaxScans
  PROVE  IsFiniteSet(plan) /\ Cardinality(Scans(ks \cup plan)) <= MaxScans
<1> DEFINE f == [kind \in S |-> [kind |-> kind, of |-> of]]
<1>1. IsFiniteSet(S)
  BY FS_Subset, PlannerAssumption
<1>2. f \in Surjection(S, plan)
  BY DEF Surjection
<1>3. IsFiniteSet(plan) /\ Cardinality(plan) <= Cardinality(S)
  BY <1>1, <1>2, FS_Surjection
<1> HIDE DEF f
<1>4. Scans(ks) \in SUBSET ks /\ Scans(ks \cup plan) \in SUBSET (Scans(ks) \cup plan)
  BY DEF Scans
<1>5. IsFiniteSet(Scans(ks))
  BY <1>4, FS_Subset
<1>6. /\ IsFiniteSet(Scans(ks) \cup plan)
      /\ Cardinality(Scans(ks) \cup plan)
           = Cardinality(Scans(ks)) + Cardinality(plan) - Cardinality(Scans(ks) \cap plan)
  BY <1>3, <1>5, FS_Union
<1>7. IsFiniteSet(Scans(ks) \cap plan)
  <2>1. Scans(ks) \cap plan \in SUBSET plan
    OBVIOUS
  <2> QED
    BY <1>3, <2>1, FS_Subset
<1>8. /\ IsFiniteSet(Scans(ks \cup plan))
      /\ Cardinality(Scans(ks \cup plan)) <= Cardinality(Scans(ks) \cup plan)
  BY <1>4, <1>6, FS_Subset
<1>9. /\ Cardinality(Scans(ks)) \in Nat /\ Cardinality(plan) \in Nat /\ Cardinality(S) \in Nat
      /\ Cardinality(Scans(ks) \cap plan) \in Nat /\ Cardinality(Scans(ks \cup plan)) \in Nat
      /\ Cardinality(Scans(ks) \cup plan) \in Nat /\ MaxScans \in Nat
  BY <1>1, <1>3, <1>5, <1>6, <1>7, <1>8, FS_CardinalityType, PlannerAssumption
<1>10. Cardinality(Scans(ks \cup plan)) <= MaxScans
  BY <1>3, <1>6, <1>8, <1>9
<1> QED
  BY <1>3, <1>10

LEMMA FewerScans ==
  ASSUME NEW ks, IsFiniteSet(ks), NEW js \in SUBSET ks, Cardinality(Scans(ks)) <= MaxScans
  PROVE  Cardinality(Scans(js)) <= MaxScans
<1>1. Scans(ks) \in SUBSET ks /\ Scans(js) \in SUBSET Scans(ks)
  BY DEF Scans
<1>2. IsFiniteSet(Scans(ks))
  BY <1>1, FS_Subset
<1>3. /\ Cardinality(Scans(js)) <= Cardinality(Scans(ks)) /\ MaxScans \in Nat
      /\ Cardinality(Scans(js)) \in Nat /\ Cardinality(Scans(ks)) \in Nat
  BY <1>1, <1>2, FS_Subset, FS_CardinalityType, PlannerAssumption
<1> QED
  BY <1>3

Chain == Chained(graph.decisions)

Capped == Cardinality(Scans(jobs)) <= MaxScans

\* What the only planner relies on: the decisions are those it read, it has seen
\* every opening when it looks at the breaker, the breaker stays closed until it has
\* enqueued its plan, and the plan fits into the budget.
Undisturbed(p) ==
    /\ Planning(p) /\ ~At(p, "load") => planner[p].copy.decisions = graph.decisions
    /\ At(p, "check") => /\ planner[p].copy.breaker \subseteq graph.breaker
                        /\ \A e \in graph.breaker :
                             e.state = "open" => e \in planner[p].copy.breaker
    /\ planner[p].pc \in {"plan", "reload", "enqueue"} => ~OpenIn(graph.breaker)
    /\ At(p, "enqueue") => Cardinality(Scans(jobs \cup planner[p].plan)) <= MaxScans

OnePlans == \A p, q \in Planners : Planning(p) /\ Planning(q) => p = q

AloneInv ==
    /\ IsFiniteSet(jobs) /\ \A p \in Planners : IsFiniteSet(planner[p].plan)
    /\ ~overlapped => OnePlans /\ Chain /\ Capped /\ \A p \in Planners : Undisturbed(p)

LEMMA AloneInit == Init => AloneInv
<1> SUFFICES ASSUME Init PROVE AloneInv
  OBVIOUS
<1>1. /\ planner = [p \in Planners |-> Idle] /\ jobs = {} /\ graph = NoGraph
  BY DEF Init
<1>2. Idle.pc = "idle" /\ Idle.plan = {} /\ NoGraph.decisions = <<>>
  BY DEF Idle, NoGraph
<1>3. IsFiniteSet({}) /\ Cardinality({}) = 0 /\ MaxScans \in Nat
  BY FS_EmptySet, PlannerAssumption
<1>4. Scans({}) = {}
  BY DEF Scans
<1>5. Capped
  BY <1>1, <1>3, <1>4 DEF Capped
<1>6. Chain
  BY <1>1, <1>2 DEF Chain, Chained
<1>7. \A p \in Planners : ~Planning(p) /\ Undisturbed(p) /\ planner[p].plan = {}
  BY <1>1, <1>2 DEF Planning, Undisturbed, At
<1> QED
  BY <1>1, <1>3, <1>5, <1>6, <1>7 DEF AloneInv, OnePlans

\* A planner that is not planning relies on nothing.
LEMMA IdleUndisturbed ==
  /\ \A p : ~Planning(p) => Undisturbed(p)
  /\ \A p : ~Planning(p)' => Undisturbed(p)'
BY DEF Planning, Undisturbed, At

LEMMA AloneBegin ==
  ASSUME TypeOK, AloneInv, NEW p \in Planners, Begin(p)
  PROVE  AloneInv'
<1> DEFINE l == [Idle EXCEPT !.pc = "load"]
<1>1. planner \in [Planners -> PlannerStates] /\ overlapped \in BOOLEAN
  BY TypeParts DEF Typed
<1>2. l.pc = "load" /\ l.plan = {}
  BY DEF Idle
<1>3. planner'[p] = l /\ \A q \in Planners \ {p} : planner'[q] = planner[q]
  BY <1>1 DEF Begin, Continue
<1>4. UNCHANGED <<graph, jobs>>
  BY DEF Begin
<1>5. IsFiniteSet(jobs') /\ \A q \in Planners : IsFiniteSet(planner'[q].plan)
  BY <1>2, <1>3, <1>4, FS_EmptySet DEF AloneInv
<1>6. ASSUME ~overlapped'
      PROVE  OnePlans' /\ Chain' /\ Capped' /\ \A q \in Planners : Undisturbed(q)'
  <2>1. ~overlapped /\ \A q \in Planners \ {p} : ~Planning(q)
    BY <1>1, <1>6 DEF Begin
  <2>2. \A q \in Planners \ {p} : ~Planning(q)'
    BY <1>3, <2>1 DEF Planning
  <2>3. Undisturbed(p)'
    BY <1>2, <1>3 DEF Undisturbed, At
  <2> QED
    BY <1>4, <2>1, <2>2, <2>3, IdleUndisturbed DEF AloneInv, OnePlans, Chain, Capped
<1> QED
  BY <1>5, <1>6 DEF AloneInv

\* Planners stop, or nothing of theirs moves.
LEMMA AloneLess ==
  ASSUME TypeOK, AloneInv, UNCHANGED <<jobs, overlapped>>,
         graph'.decisions = graph.decisions,
         /\ graph.breaker \subseteq graph'.breaker
         /\ \A e \in graph'.breaker : e.state = "open" => e \in graph.breaker,
         \A q \in Planners : planner'[q] = planner[q] \/ planner'[q] = Idle
  PROVE  AloneInv'
<1>1. Idle.pc = "idle" /\ Idle.plan = {}
  BY DEF Idle
<1>2. IsFiniteSet(jobs') /\ \A q \in Planners : IsFiniteSet(planner'[q].plan)
  BY <1>1, FS_EmptySet DEF AloneInv
<1>3. ASSUME ~overlapped
      PROVE  OnePlans' /\ Chain' /\ Capped' /\ \A q \in Planners : Undisturbed(q)'
  <2>1. OnePlans'
    BY <1>1, <1>3 DEF AloneInv, OnePlans, Planning
  <2>2. Chain' /\ Capped'
    BY <1>3 DEF AloneInv, Chain, Capped
  <2>3. ASSUME NEW q \in Planners PROVE Undisturbed(q)'
    <3>1. CASE planner'[q] = Idle
      BY <1>1, <3>1, IdleUndisturbed DEF Planning
    <3>2. CASE planner'[q] = planner[q]
      <4>1. Undisturbed(q)
        BY <1>3 DEF AloneInv
      <4>2. ~OpenIn(graph.breaker) => ~OpenIn(graph'.breaker)
        BY DEF OpenIn
      <4> QED
        BY <3>2, <4>1, <4>2 DEF Undisturbed, Planning, At
    <3> QED
      BY <3>1, <3>2
  <2> QED
    BY <2>1, <2>2, <2>3
<1> QED
  BY <1>2, <1>3 DEF AloneInv

\* The only planner goes on: what it relies on next follows from what it does.
LEMMA AloneAdvance ==
  ASSUME TypeOK, AloneInv, NEW p \in Planners, Advance(p)
  PROVE  AloneInv'
<1> DEFINE l == planner[p]
           m == planner'[p]
           ds == graph.decisions
<1>1. /\ planner \in [Planners -> PlannerStates] /\ l \in PlannerStates
      /\ graph \in Graphs /\ ds \in Seq(Decisions) /\ overlapped \in BOOLEAN
  BY TypeParts DEF Typed, Graphs
<1>2. /\ overlapped' = overlapped /\ \A q \in Planners \ {p} : planner'[q] = planner[q]
  BY AdvanceKeeps
<1>3. Planning(p)
  BY DEF Advance, Load, CheckStops, CheckPasses, Seed, Reload, PlanStops, PlanGoes, Enqueue,
     Record, Stamp, TripSkips, TripReads, TripPut, At, Planning
<1>4. IsFiniteSet(jobs) /\ IsFiniteSet(l.plan)
  BY DEF AloneInv
<1>5. ASSUME IsFiniteSet(jobs'), IsFiniteSet(m.plan),
             ~overlapped => Chain' /\ Capped' /\ Undisturbed(p)'
      PROVE  AloneInv'
  <2>1. \A q \in Planners : IsFiniteSet(planner'[q].plan)
    BY <1>2, <1>5 DEF AloneInv
  <2>2. ASSUME ~overlapped'
        PROVE  OnePlans' /\ \A q \in Planners : Undisturbed(q)'
    <3>1. \A q \in Planners \ {p} : ~Planning(q)
      BY <1>2, <1>3, <2>2 DEF AloneInv, OnePlans
    <3>2. \A q \in Planners \ {p} : ~Planning(q)'
      BY <1>2, <3>1 DEF Planning
    <3> QED
      BY <1>2, <1>5, <2>2, <3>2, IdleUndisturbed DEF OnePlans
  <2> QED
    BY <1>2, <1>5, <2>1, <2>2 DEF AloneInv
<1>6. ~overlapped => Chain /\ Capped /\ Undisturbed(p)
  BY DEF AloneInv
<1>7. ASSUME UNCHANGED jobs, m.plan = l.plan, graph'.decisions = ds, ~overlapped => Undisturbed(p)'
      PROVE  AloneInv'
  BY <1>4, <1>5, <1>6, <1>7 DEF Chain, Capped
<1>8. CASE Load(p)
  <2>1. m = [l EXCEPT !.pc = "check", !.copy = graph] /\ UNCHANGED <<jobs, graph>>
    BY <1>1, <1>8 DEF Load, Continue, OnlyPlanner
  <2>2. m.pc = "check" /\ m.copy = graph /\ m.plan = l.plan
    BY <1>1, <2>1 DEF PlannerStates
  <2> QED
    BY <1>7, <2>1, <2>2 DEF Undisturbed, At
\* On the way to its record a planner keeps the decisions it read.
<1>9. ASSUME m.pc \in {"stamp", "trip", "put", "record"}, UNCHANGED jobs, m.plan = l.plan,
             graph'.decisions = ds, ~overlapped => m.copy.decisions = ds
      PROVE  AloneInv'
  BY <1>7, <1>9 DEF Undisturbed, At
<1>10. ~overlapped /\ ~At(p, "load") => l.copy.decisions = ds
  BY <1>3, <1>6 DEF Undisturbed
<1>11. ASSUME NEW what, NEW copy, NEW n, StopFor(p, what, copy, n), OnlyPlanner,
              copy = graph \/ (copy = l.copy /\ ~At(p, "load"))
       PROVE  AloneInv'
  <2>1. m = [l EXCEPT !.pc = IF n = 0 THEN "record" ELSE "stamp",
                      !.what = what, !.copy = copy, !.trips = n]
    BY <1>1, <1>11 DEF StopFor, Continue
  <2>2. m.pc \in {"stamp", "record"} /\ m.copy = copy /\ m.plan = l.plan
    BY <1>1, <2>1 DEF PlannerStates
  <2>3. UNCHANGED <<graph, jobs>>
    BY <1>11 DEF OnlyPlanner
  <2> QED
    BY <1>9, <1>10, <1>11, <2>2, <2>3
<1>12. CASE CheckStops(p)
  BY <1>11, <1>12 DEF CheckStops, At
<1>13. CASE PlanStops(p)
  BY <1>11, <1>13 DEF PlanStops, At
<1>14. CASE CheckPasses(p) \/ Reload(p)
  <2>1. m = [l EXCEPT !.pc = "plan", !.copy = graph] /\ UNCHANGED <<jobs, graph>>
    BY <1>1, <1>14 DEF CheckPasses, Reload, Continue, OnlyPlanner
  <2>2. m.pc = "plan" /\ m.copy = graph /\ m.plan = l.plan
    BY <1>1, <2>1 DEF PlannerStates
  <2>3. ~overlapped => ~OpenIn(graph.breaker)
    <3>1. CASE CheckPasses(p)
      BY <1>6, <3>1, StaysClosed DEF CheckPasses, MustStop, Undisturbed
    <3>2. CASE Reload(p)
      BY <1>6, <3>2 DEF Reload, Undisturbed, At
    <3> QED
      BY <1>14, <3>1, <3>2
  <2> QED
    BY <1>7, <2>1, <2>2, <2>3 DEF Undisturbed, At
<1>15. CASE Seed(p)
  <2>1. /\ m = [l EXCEPT !.pc = "reload"] /\ UNCHANGED jobs
        /\ graph'.decisions = ds /\ graph'.breaker = graph.breaker
    BY <1>1, <1>15 DEF Seed, Goto, Continue, OnlyGraph, Graphs
  <2>2. m.pc = "reload" /\ m.copy = l.copy /\ m.plan = l.plan
    BY <1>1, <2>1 DEF PlannerStates
  <2>3. ~overlapped => ~OpenIn(graph.breaker) /\ l.copy.decisions = ds
    BY <1>3, <1>6, <1>15 DEF Seed, Undisturbed, At
  <2> QED
    BY <1>7, <2>1, <2>2, <2>3 DEF Undisturbed, At
<1>16. CASE PlanGoes(p)
  <2>1. ASSUME NEW what, NEW S, Carry(p, what, S), IsFiniteSet({Key(p, kind) : kind \in S}),
               ~overlapped => Cardinality(Scans(jobs \cup {Key(p, kind) : kind \in S})) <= MaxScans
        PROVE  AloneInv'
    <3> DEFINE plan == {Key(p, kind) : kind \in S}
    <3>1. m = [l EXCEPT !.pc = "enqueue", !.what = what, !.plan = plan]
      BY <1>1, <2>1 DEF Carry, Continue
    <3>2. m.pc = "enqueue" /\ m.copy = l.copy /\ m.plan = plan
      BY <1>1, <3>1 DEF PlannerStates
    <3>3. UNCHANGED <<graph, jobs>>
      BY <1>16 DEF PlanGoes, OnlyPlanner
    <3>4. ~overlapped => ~OpenIn(graph.breaker) /\ l.copy.decisions = ds
      BY <1>3, <1>6, <1>16 DEF PlanGoes, Undisturbed, At
    <3> HIDE DEF plan
    <3>5. ~overlapped => Undisturbed(p)'
      BY <2>1, <3>2, <3>3, <3>4 DEF Undisturbed, At, plan
    <3> QED
      BY <1>4, <1>5, <1>6, <2>1, <3>2, <3>3, <3>5 DEF Chain, Capped, plan
  <2>2. ASSUME NEW S \in SUBSET Engines, Allocated(S), Carry(p, "scan", S)
        PROVE  AloneInv'
    <3>1. /\ IsFiniteSet({Key(p, kind) : kind \in S})
          /\ Cardinality(Scans(jobs \cup {Key(p, kind) : kind \in S})) <= MaxScans
      <4> DEFINE of   == Fingerprint(l.copy)
                 plan == {Key(p, kind) : kind \in S}
      <4>1. plan = {[kind |-> kind, of |-> of] : kind \in S}
        BY DEF Key
      <4>2. Cardinality(Scans(jobs)) + Cardinality(S) <= MaxScans
        BY <2>2 DEF Allocated
      <4> HIDE DEF of, plan
      <4>3. IsFiniteSet(plan) /\ Cardinality(Scans(jobs \cup plan)) <= MaxScans
        BY <1>4, <2>2, <4>1, <4>2, PlanFits
      <4> QED
        BY <4>3 DEF plan
    <3> QED
      BY <2>1, <2>2, <3>1
  <2>3. CASE Carry(p, "work", {"work"})
    <3>1. {Key(p, kind) : kind \in {"work"}} = {Key(p, "work")}
      OBVIOUS
    <3>2. Scans(jobs \cup {Key(p, "work")}) = Scans(jobs)
      BY PlannerAssumption DEF Scans, Key
    <3>3. IsFiniteSet({Key(p, "work")})
      BY FS_Singleton
    <3> QED
      BY <1>6, <2>1, <2>3, <3>1, <3>2, <3>3 DEF Capped
  <2> QED
    BY <1>16, <2>2, <2>3 DEF PlanGoes
<1>17. CASE Enqueue(p)
  <2>1. UNCHANGED graph
    BY <1>17 DEF Enqueue
  <2>2. ASSUME NEW k \in l.plan, jobs' = jobs \cup {k},
               Continue(p, [l EXCEPT !.plan = @ \ {k}])
        PROVE  AloneInv'
    <3>1. m.pc = l.pc /\ m.copy = l.copy /\ m.plan = l.plan \ {k}
      BY <1>1, <2>2 DEF Continue, PlannerStates
    <3>2. IsFiniteSet(jobs') /\ IsFiniteSet(m.plan) /\ IsFiniteSet(jobs \cup l.plan)
      BY <1>4, <2>2, <3>1, FS_AddElement, FS_RemoveElement, FS_Union
    <3>3. jobs' \cup m.plan = jobs \cup l.plan /\ jobs' \in SUBSET (jobs \cup l.plan)
      BY <2>2, <3>1
    <3>4. At(p, "enqueue") /\ m.pc = "enqueue"
      BY <1>17, <3>1 DEF Enqueue, At
    <3>5. ASSUME ~overlapped
          PROVE  Chain' /\ Capped' /\ Undisturbed(p)'
      <4>1. /\ Cardinality(Scans(jobs \cup l.plan)) <= MaxScans /\ ~OpenIn(graph.breaker)
            /\ l.copy.decisions = ds
        BY <1>3, <1>6, <3>4, <3>5 DEF Undisturbed, At
      <4>2. Capped'
        BY <3>2, <3>3, <4>1, FewerScans DEF Capped
      <4>3. Undisturbed(p)'
        BY <2>1, <3>1, <3>3, <3>4, <4>1 DEF Undisturbed, At
      <4> QED
        BY <1>6, <2>1, <3>5, <4>2, <4>3 DEF Chain
    <3> QED
      BY <1>5, <3>2, <3>5
  <2>3. CASE Goto(p, "record") /\ UNCHANGED jobs
    <3>1. m.pc = "record" /\ m.copy = l.copy /\ m.plan = l.plan
      BY <1>1, <2>3 DEF Goto, Continue, PlannerStates
    <3> QED
      BY <1>9, <1>10, <1>17, <2>1, <2>3, <3>1 DEF Enqueue, At
  <2> QED
    BY <1>17, <2>2, <2>3 DEF Enqueue
<1>18. CASE Record(p)
  <2> DEFINE id == [what |-> l.what, of |-> Fingerprint(l.copy)]
  <2>1. m.pc = "unlock" /\ m.plan = l.plan /\ UNCHANGED jobs
    BY <1>1, <1>18 DEF Record, Goto, Continue, OnlyGraph, PlannerStates
  <2>2. Undisturbed(p)'
    BY <2>1 DEF Undisturbed, Planning, At
  <2>3. CASE UNCHANGED graph
    BY <1>7, <2>1, <2>2, <2>3
  <2>4. ASSUME NEW link \in Links(l.copy.decisions),
               graph' = [graph EXCEPT !.decisions =
                           Append(@, [id |-> id, seq |-> link.seq, prev |-> link.prev])]
        PROVE  AloneInv'
    <3>1. graph'.decisions = Append(ds, [id |-> id, seq |-> link.seq, prev |-> link.prev])
      BY <1>1, <2>4 DEF Graphs
    <3>2. ~overlapped => Chain'
      BY <1>1, <1>6, <1>10, <1>18, <2>4, <3>1, ChainGrows DEF Chain, Record, At
    <3> QED
      BY <1>4, <1>5, <1>6, <2>1, <2>2, <3>2 DEF Capped
  <2> QED
    BY <1>18, <2>3, <2>4 DEF Record
<1>19. CASE Stamp(p)
  <2>1. m = [l EXCEPT !.pc = "trip", !.at = clock + 1] /\ UNCHANGED <<graph, jobs>>
    BY <1>1, <1>19 DEF Stamp, Continue
  <2>2. m.pc = "trip" /\ m.copy = l.copy /\ m.plan = l.plan
    BY <1>1, <2>1 DEF PlannerStates
  <2> QED
    BY <1>9, <1>10, <1>19, <2>1, <2>2 DEF Stamp, At
<1>20. Tripped(p) => m.pc \in {"stamp", "record"} /\ m.copy = l.copy /\ m.plan = l.plan
  BY <1>1 DEF Tripped, Goto, Continue, PlannerStates
<1>21. CASE TripSkips(p)
  BY <1>9, <1>10, <1>20, <1>21 DEF TripSkips, OnlyPlanner, At
<1>22. CASE TripReads(p)
  <2>1. m.pc = "put" /\ m.copy = l.copy /\ m.plan = l.plan /\ UNCHANGED <<graph, jobs>>
    BY <1>1, <1>22 DEF TripReads, Goto, Continue, OnlyPlanner, PlannerStates
  <2> QED
    BY <1>9, <1>10, <1>22, <2>1 DEF TripReads, At
<1>23. CASE TripPut(p)
  <2>1. Tripped(p) /\ UNCHANGED jobs /\ graph'.decisions = ds
    BY <1>1, <1>23 DEF TripPut, OnlyGraph, Graphs
  <2> QED
    BY <1>9, <1>10, <1>20, <1>23, <2>1 DEF TripPut, At
<1> QED
  BY <1>8, <1>12, <1>13, <1>14, <1>15, <1>16, <1>17, <1>18, <1>19, <1>21, <1>22, <1>23 DEF Advance

LEMMA AloneStep == TypeOK /\ AloneInv /\ [Next]_vars => AloneInv'
<1> SUFFICES ASSUME TypeOK, AloneInv, [Next]_vars PROVE AloneInv'
  OBVIOUS
<1>0. planner \in [Planners -> PlannerStates] /\ graph \in Graphs
  BY TypeParts DEF Typed
<1>1. ASSUME NEW p \in Workers, Acquire(p) PROVE AloneInv'
  BY <1>1, AloneBegin DEF Acquire, Planners
<1>2. ASSUME NEW p \in Planners, BeginUnlocked(p) PROVE AloneInv'
  BY <1>2, AloneBegin DEF BeginUnlocked
<1>3. ASSUME NEW p \in Planners, Unlock(p) \/ Dies(p) PROVE AloneInv'
  <2>1. UNCHANGED <<jobs, overlapped, graph>> /\ Continue(p, Idle)
    BY <1>3 DEF Unlock, Dies
  <2>2. \A q \in Planners : planner'[q] = planner[q] \/ planner'[q] = Idle
    BY <1>0, <2>1 DEF Continue
  <2> QED
    BY <2>1, <2>2, AloneLess
<1>4. CASE Expire \/ UNCHANGED vars
  <2>1. UNCHANGED <<jobs, overlapped, graph, planner>>
    BY <1>4 DEF Expire, vars
  <2> QED
    BY <2>1, AloneLess
<1>5. CASE Learn
  <2>1. /\ UNCHANGED <<jobs, overlapped, planner>>
        /\ graph'.decisions = graph.decisions /\ graph'.breaker = graph.breaker
    BY <1>0, <1>5 DEF Learn, OnlyGraph, Graphs
  <2> QED
    BY <2>1, AloneLess
<1>6. ASSUME NEW o \in Operators, Reset(o) PROVE AloneInv'
  <2>1. UNCHANGED <<jobs, overlapped, planner>>
    BY <1>6, ResetKeeps
  <2>2. \/ UNCHANGED graph
        \/ graph' = [graph EXCEPT !.breaker = @ \cup {[state |-> "reset", at |-> operator[o].at]}]
    BY <1>6 DEF Reset, ResetRead, ResetLook, ResetRequest, ResetStamp, ResetReread, ResetPut,
       ResetComplete, ResetFails, Persist, OnlyOperator
  <2>3. /\ graph'.decisions = graph.decisions
        /\ graph.breaker \subseteq graph'.breaker
        /\ \A e \in graph'.breaker : e.state = "open" => e \in graph.breaker
    BY <1>0, <2>2 DEF Graphs
  <2> QED
    BY <2>1, <2>3, AloneLess
<1> QED
  BY <1>1, <1>2, <1>3, <1>4, <1>5, <1>6, AloneAdvance DEF Next

LEMMA AloneCorrect == Spec => []AloneInv
BY TypeCorrect, AloneInit, AloneStep, PTL DEF Spec

\* As long as no two plannings have overlapped, the audit chain of the decisions
\* verifies, whichever planners died.
THEOREM ChainCorrect == Spec => []DecisionsChain
<1>1. AloneInv => DecisionsChain
  BY DEF AloneInv, Chain, Chained, DecisionsChain
<1> QED
  BY <1>1, AloneCorrect, PTL

\* As long as no two plannings have overlapped, the scans stay within the budget.
THEOREM ScansCorrect == Spec => []ScansCapped
<1>1. AloneInv => ScansCapped
  BY DEF AloneInv, Capped, ScansCapped
<1> QED
  BY <1>1, AloneCorrect, PTL

\* As long as no two plannings have overlapped, nothing new is enqueued while the
\* breaker is open.
THEOREM BreakerCorrect == Spec => NothingWhileOpen
<1>1. AloneInv /\ [Next]_vars => [jobs' # jobs /\ ~overlapped => ~OpenIn(graph.breaker)]_vars
  <2> SUFFICES ASSUME AloneInv, Next, jobs' # jobs, ~overlapped
               PROVE  ~OpenIn(graph.breaker)
    BY DEF vars
  <2>1. PICK p \in Planners : Enqueue(p)
    BY ResetKeeps DEF Next, Acquire, BeginUnlocked, Begin, Unlock, Dies, Expire, Learn, Advance, Load,
       CheckStops, CheckPasses, Seed, Reload, PlanStops, PlanGoes, Record, Stamp, TripSkips, TripReads,
       TripPut, OnlyPlanner, OnlyGraph, Planners
  <2>2. Undisturbed(p) /\ At(p, "enqueue")
    BY <2>1 DEF AloneInv, Enqueue
  <2> QED
    BY <2>2 DEF Undisturbed, At
<1> QED
  BY <1>1, AloneCorrect, PTL DEF Spec, NothingWhileOpen

-----------------------------------------------------------------------------
(* Resets.                                                                 *)

Opened(of)    == [state |-> "open", at |-> of] \in graph.breaker
Requested(of) == Logged(Event("requested", of))
Closed(of)    == \E e \in graph.breaker : e.state = "reset" /\ e.at >= of

\* What an operator's handler knows of the reset it is about.
Knows(o) ==
    LET r == operator[o] IN
    /\ r.pc # "idle" /\ r.pending # 0 => Requested(r.pending)
    /\ r.pc \notin {"idle", "look"} => Opened(r.of)
    /\ r.pc \in {"stamp", "reset", "put", "complete"} => Requested(r.of)
    /\ r.pc \in {"reset", "put"} => r.of < r.at
    /\ r.pc = "complete" => Closed(r.of)

ResetInv == ResetAuditTrue /\ \A o \in Operators : Knows(o)

LEMMA ResetInit == Init => ResetInv
BY DEF Init, ResetInv, ResetAuditTrue, Knows, NoReset, NoGraph

\* Without new events and resets what is known stays known.
LEMMA ResetFrame ==
  ASSUME TypeOK, ResetInv, audit' = audit, graph.breaker \subseteq graph'.breaker,
         \A e \in graph'.breaker : e.state = "reset" => e \in graph.breaker
  PROVE  /\ ResetAuditTrue'
         /\ \A o \in Operators : operator'[o] = operator[o] => Knows(o)'
<1>1. ResetAuditTrue'
  BY DEF ResetInv, ResetAuditTrue, Event
<1>2. \A of : /\ Opened(of) => Opened(of)'
              /\ Requested(of) <=> Requested(of)'
              /\ Closed(of) => Closed(of)'
  BY DEF Opened, Requested, Logged, Closed
<1>3. ASSUME NEW o \in Operators, operator'[o] = operator[o] PROVE Knows(o)'
  <2>1. Knows(o)
    BY DEF ResetInv
  <2> QED
    BY <1>2, <1>3, <2>1 DEF Knows
<1> QED
  BY <1>1, <1>3

\* An opening that was, with the breaker closed now, was reset.
LEMMA WasReset ==
  ASSUME TypeOK, NEW of \in Nat, Opened(of), ~OpenIn(graph.breaker)
  PROVE  Closed(of)
<1>1. \A e \in graph.breaker : e.at \in Nat
  BY TypeParts DEF Typed, Graphs, Stamps
<1>2. PICK f \in graph.breaker : f.state = "reset" /\ ~(f.at < of)
  BY DEF Opened, OpenIn
<1> QED
  BY <1>1, <1>2 DEF Closed

\* An event is appended unless it is there.
LEMMA AuditGrows ==
  ASSUME TypeOK, ResetInv, UNCHANGED <<graph>>,
         NEW type \in {"requested", "completed"}, NEW of \in Nat,
         audit' = IF Logged(Event(type, of)) THEN audit ELSE Append(audit, Event(type, of)),
         Opened(of), type = "completed" => Requested(of) /\ Closed(of)
  PROVE  /\ ResetAuditTrue' /\ Logged(Event(type, of))'
         /\ \A e : Logged(e) => Logged(e)'
<1> DEFINE x == Event(type, of)
<1>1. audit \in Seq(Events) /\ Len(audit) \in Nat
  BY TypeParts DEF Typed
<1>2. CASE Logged(x)
  BY <1>2 DEF ResetInv, ResetAuditTrue, Logged, Event
<1>3. CASE ~Logged(x)
  <2>1. /\ DOMAIN audit = 1..Len(audit) /\ DOMAIN audit' = 1..(Len(audit) + 1)
        /\ audit'[Len(audit) + 1] = x /\ \A i \in 1..Len(audit) : audit'[i] = audit[i]
    BY <1>1, <1>3
  <2>2. \A i \in 1..Len(audit) : audit[i] # x
    BY <1>3, <2>1 DEF Logged
  <2>3. \A i, j \in DOMAIN audit' : audit'[i] = audit'[j] => i = j
    BY <1>1, <2>1, <2>2 DEF ResetInv, ResetAuditTrue
  <2>4. ASSUME NEW i \in DOMAIN audit'
        PROVE  /\ [state |-> "open", at |-> audit'[i].of] \in graph'.breaker
               /\ audit'[i].type = "completed" =>
                    /\ \E j \in 1..(i - 1) : audit'[j] = Event("requested", audit'[i].of)
                    /\ \E e \in graph'.breaker : e.state = "reset" /\ e.at >= audit'[i].of
    <3>1. CASE i \in 1..Len(audit)
      <4>1. /\ [state |-> "open", at |-> audit[i].of] \in graph.breaker
            /\ audit[i].type = "completed" =>
                 /\ \E j \in 1..(i - 1) : audit[j] = Event("requested", audit[i].of)
                 /\ \E e \in graph.breaker : e.state = "reset" /\ e.at >= audit[i].of
        BY <2>1, <3>1 DEF ResetInv, ResetAuditTrue
      <4>2. \A j \in 1..(i - 1) : j \in 1..Len(audit)
        BY <1>1, <3>1
      <4> QED
        BY <2>1, <3>1, <4>1, <4>2
    <3>2. CASE i = Len(audit) + 1
      <4>1. audit'[i] = x /\ x.of = of /\ x.type = type
        BY <2>1, <3>2 DEF Event
      <4>2. type = "completed" => \E j \in 1..Len(audit) : audit[j] = Event("requested", of)
        BY <2>1 DEF Requested, Logged
      <4>3. i - 1 = Len(audit)
        BY <1>1, <3>2
      <4> QED
        BY <2>1, <4>1, <4>2, <4>3 DEF Opened, Closed
    <3> QED
      BY <1>1, <2>1, <3>1, <3>2
  <2>5. \A e \in graph'.breaker :
          e.state = "reset" =>
            \E i \in DOMAIN audit' : audit'[i].type = "requested" /\ audit'[i].of < e.at
    BY <1>1, <2>1 DEF ResetInv, ResetAuditTrue
  <2>6. \A i \in DOMAIN audit : i \in DOMAIN audit' /\ audit'[i] = audit[i]
    BY <1>1, <2>1
  <2>7. Len(audit) + 1 \in DOMAIN audit'
    BY <1>1, <2>1
  <2> QED
    BY <2>1, <2>3, <2>4, <2>5, <2>6, <2>7 DEF ResetAuditTrue, Logged
<1> QED
  BY <1>2, <1>3

LEMMA ResetStep ==
  ASSUME TypeOK, ResetInv, NEW o \in Operators, Reset(o)
  PROVE  ResetInv'
<1> DEFINE r == operator[o]
           s == operator'[o]
<1>1. /\ operator \in [Operators -> ResetStates] /\ r \in ResetStates
      /\ graph \in Graphs /\ audit \in Seq(Events) /\ clock \in Nat
      /\ \A e \in graph.breaker : e.at \in Nat /\ e.at <= clock
  BY TypeParts DEF Typed, OperatorsOK, Graphs, Stamps
<1>2. ASSUME NEW t, Resetting(o, t)
      PROVE  s = t /\ \A u \in Operators \ {o} : operator'[u] = operator[u]
  BY <1>1, <1>2 DEF Resetting
<1>3. \E t : Resetting(o, t)
  BY DEF Reset, ResetRead, ResetLook, ResetRequest, ResetStamp, ResetReread, ResetPut,
     ResetComplete, ResetFails, Persist
<1>4. \A u \in Operators \ {o} : operator'[u] = operator[u]
  BY <1>2, <1>3
<1>5. Knows(o) /\ ResetAuditTrue
  BY DEF ResetInv
\* A step that neither resets nor logs.
<1>6. ASSUME UNCHANGED <<graph, audit>>, Knows(o)' PROVE ResetInv'
  BY <1>4, <1>6, ResetFrame DEF ResetInv
<1>7. ASSUME s = NoReset PROVE Knows(o)'
  BY <1>7 DEF Knows, NoReset
<1>8. UNCHANGED <<graph, audit>> =>
        \A of : (Opened(of) <=> Opened(of)') /\ (Requested(of) <=> Requested(of)')
                /\ (Closed(of) <=> Closed(of)')
  BY DEF Opened, Requested, Closed, Logged
<1>9. CASE ResetRead(o)
  <2>1. UNCHANGED <<graph, audit>>
    BY <1>9 DEF ResetRead
  <2>2. s.pc = "look" /\ (s.pending # 0 => Requested(s.pending))
    <3>1. CASE Resetting(o, [NoReset EXCEPT !.pc = "look"])
      BY <1>2, <3>1 DEF NoReset
    <3>2. ASSUME NEW i \in DOMAIN audit, IsPending(i),
                 Resetting(o, [NoReset EXCEPT !.pc = "look", !.pending = audit[i].of])
          PROVE  s.pc = "look" /\ Requested(s.pending)
      <4>1. s.pc = "look" /\ s.pending = audit[i].of
        <5> DEFINE t == [NoReset EXCEPT !.pc = "look", !.pending = audit[i].of]
        <5>1. t.pc = "look" /\ t.pending = audit[i].of /\ Resetting(o, t)
          BY <3>2 DEF NoReset
        <5> HIDE DEF t
        <5> QED
          BY <1>2, <5>1
      <4>2. audit[i] \in Events /\ audit[i].type = "requested"
        BY <1>1, <3>2 DEF IsPending
      <4>3. audit[i] = Event("requested", audit[i].of)
        BY <4>2 DEF Event, Events
      <4> QED
        BY <4>1, <4>3 DEF Requested, Logged
    <3> QED
      BY <1>9, <3>1, <3>2 DEF ResetRead
  <2>3. Knows(o)'
    BY <1>8, <2>1, <2>2 DEF Knows
  <2> QED
    BY <1>6, <2>1, <2>3
\* What is requested was opened.
<1>10. ASSUME NEW of, Requested(of) PROVE Opened(of)
  BY <1>5, <1>10 DEF Requested, Logged, Event, ResetAuditTrue, Opened
<1>11. CASE ResetLook(o)
  <2>1. UNCHANGED <<graph, audit>> /\ r.pc = "look" /\ r.pending \in Nat
        /\ (r.pending # 0 => Requested(r.pending))
    BY <1>1, <1>5, <1>11 DEF ResetLook, OnlyOperator, OperatorAt, Knows, ResetStates
  <2>2. ASSUME NEW e \in graph.breaker, e.state = "open",
               Resetting(o, [r EXCEPT !.pc = "request",
                               !.of = IF r.pending = 0 THEN e.at ELSE r.pending])
        PROVE  Knows(o)'
    <3>1. /\ s.pc = "request" /\ s.pending = r.pending
          /\ s.of = IF r.pending = 0 THEN e.at ELSE r.pending
      BY <1>1, <2>2 DEF ResetStates, Resetting
    <3>2. Opened(e.at)
      <4>1. e \in Stamps
        BY <1>1, <2>2 DEF Graphs
      <4> QED
        BY <2>2, <4>1 DEF Opened, Stamps
    <3> QED
      BY <1>8, <1>10, <2>1, <3>1, <3>2 DEF Knows
  <2>3. ASSUME ~OpenIn(graph.breaker), r.pending # 0,
               Resetting(o, [r EXCEPT !.pc = "complete", !.of = r.pending])
        PROVE  Knows(o)'
    <3>1. s.pc = "complete" /\ s.pending = r.pending /\ s.of = r.pending
      BY <1>1, <2>3 DEF ResetStates, Resetting
    <3>2. Requested(r.pending) /\ Opened(r.pending) /\ Closed(r.pending)
      BY <1>10, <2>1, <2>3, WasReset
    <3> QED
      BY <1>8, <2>1, <3>1, <3>2 DEF Knows
  <2>4. CASE Resetting(o, NoReset)
    <3>1. s = NoReset
      BY <1>1, <2>4 DEF Resetting
    <3> QED
      BY <1>6, <1>7, <2>1, <3>1
  <2> QED
    BY <1>6, <1>11, <2>1, <2>2, <2>3, <2>4 DEF ResetLook
<1>12. ASSUME NEW type \in {"requested", "completed"}, NEW t, Persist(o, type, t),
              Opened(r.of), type = "completed" => Requested(r.of) /\ Closed(r.of),
              \/ t = NoReset
              \/ r.pc = "request" /\ type = "requested" /\ t = [r EXCEPT !.pc = "stamp"]
       PROVE  ResetInv'
  <2>1. UNCHANGED graph /\ s = t
    BY <1>1, <1>12 DEF Persist, Resetting
  <2>0. PICK of \in Nat : of = r.of
    BY <1>1 DEF ResetStates
  <2>2. /\ ResetAuditTrue' /\ Logged(Event(type, of))' /\ \A e : Logged(e) => Logged(e)'
    <3>1. /\ UNCHANGED <<graph>>
          /\ Opened(of) /\ (type = "completed" => Requested(of) /\ Closed(of))
      BY <1>12, <2>0, <2>1
    <3>2. audit' = IF Logged(Event(type, of)) THEN audit ELSE Append(audit, Event(type, of))
      BY <1>12, <2>0 DEF Persist
    <3> QED
      BY <1>12, <3>1, <3>2, AuditGrows
  <2>3. /\ \A x : Opened(x) => Opened(x)'
        /\ \A x : Requested(x) => Requested(x)'
        /\ \A x : Closed(x) => Closed(x)'
    BY <2>1, <2>2 DEF Opened, Requested, Closed
  <2>4. Knows(o)'
    <3>1. CASE t = NoReset
      BY <1>7, <2>1, <3>1
    <3>2. CASE r.pc = "request" /\ type = "requested" /\ t = [r EXCEPT !.pc = "stamp"]
      <4>1. s.pc = "stamp" /\ s.of = of /\ s.pending = r.pending
        <5>1. s = [r EXCEPT !.pc = "stamp"]
          BY <2>1, <3>2
        <5> QED
          BY <1>1, <2>0, <5>1 DEF ResetStates
      <4>2. Requested(of)' /\ Opened(of)'
        BY <1>12, <2>0, <2>2, <2>3, <3>2 DEF Requested
      <4>3. r.pending # 0 => Requested(r.pending)
        BY <1>5, <3>2 DEF Knows
      <4>4. PICK x : x = r.pending
        OBVIOUS
      <4>5. x # 0 => Requested(x)'
        BY <2>3, <4>3, <4>4
      <4> QED
        BY <4>1, <4>2, <4>4, <4>5 DEF Knows
    <3> QED
      BY <1>12, <3>1, <3>2
  <2>5. ASSUME NEW u \in Operators \ {o} PROVE Knows(u)'
    <3>1. operator'[u] = operator[u] /\ Knows(u)
      BY <1>4 DEF ResetInv
    <3> QED
      BY <2>3, <3>1 DEF Knows
  <2> QED
    BY <2>2, <2>4, <2>5 DEF ResetInv
<1>13. CASE ResetRequest(o)
  BY <1>5, <1>12, <1>13 DEF ResetRequest, OperatorAt, Knows
<1>14. CASE ResetComplete(o)
  BY <1>5, <1>12, <1>14 DEF ResetComplete, OperatorAt, Knows
<1>15. CASE ResetStamp(o)
  <2>1. UNCHANGED <<graph, audit>> /\ r.pc = "stamp"
    BY <1>15 DEF ResetStamp, OperatorAt
  <2>2. Resetting(o, [r EXCEPT !.pc = "reset", !.at = clock + 1])
    BY <1>15 DEF ResetStamp
  <2>3. s.pc = "reset" /\ s.of = r.of /\ s.pending = r.pending /\ s.at = clock + 1
    BY <1>1, <2>2 DEF ResetStates, Resetting
  <2>4. r.of < clock + 1
    <3>1. r.of \in Nat /\ Opened(r.of)
      BY <1>1, <1>5, <2>1 DEF ResetStates, Knows
    <3>2. r.of <= clock
      BY <1>1, <3>1 DEF Opened
    <3> QED
      BY <1>1, <3>1, <3>2
  <2>5. Knows(o)'
    BY <1>5, <1>8, <2>1, <2>3, <2>4 DEF Knows
  <2> QED
    BY <1>6, <2>1, <2>5
<1>16. CASE ResetReread(o)
  <2>1. UNCHANGED <<graph, audit>> /\ r.pc = "reset" /\ r.of \in Nat
    BY <1>1, <1>16 DEF ResetReread, OnlyOperator, OperatorAt, ResetStates
  <2>2. /\ s.of = r.of /\ s.pending = r.pending /\ s.at = r.at
        /\ s.pc = IF OpenIn(graph.breaker) THEN "put" ELSE "complete"
    BY <1>1, <1>2, <1>16 DEF ResetReread, ResetStates
  <2>3. ~OpenIn(graph.breaker) => Closed(r.of)
    BY <1>5, <2>1, WasReset DEF Knows
  <2>4. Knows(o)'
    BY <1>5, <1>8, <2>1, <2>2, <2>3 DEF Knows
  <2> QED
    BY <1>6, <2>1, <2>4
<1>17. CASE ResetPut(o)
  <2> DEFINE e == [state |-> "reset", at |-> r.at]
  <2>1. /\ audit' = audit /\ r.pc = "put" /\ r.of \in Nat /\ r.at \in Nat
        /\ s = [r EXCEPT !.pc = "complete"] /\ graph'.breaker = graph.breaker \cup {e}
    BY <1>1, <1>2, <1>17 DEF ResetPut, OperatorAt, ResetStates, Graphs
  <2>2. s.pc = "complete" /\ s.of = r.of /\ s.pending = r.pending
    BY <1>1, <2>1 DEF ResetStates
  <2>3. Opened(r.of) /\ Requested(r.of) /\ r.of < r.at
    BY <1>5, <2>1 DEF Knows
  <2>4. \A of : /\ Opened(of) => Opened(of)'
                /\ Requested(of) => Requested(of)'
                /\ Closed(of) => Closed(of)'
    BY <2>1 DEF Opened, Requested, Closed, Logged
  <2>5. Closed(r.of)'
    <3>1. e.state = "reset" /\ e.at >= s.of /\ e \in graph'.breaker
      BY <2>1, <2>2, <2>3
    <3> QED
      BY <3>1 DEF Closed
  <2>6. Knows(o)'
    BY <1>5, <2>1, <2>2, <2>3, <2>4, <2>5 DEF Knows
  <2>7. ASSUME NEW u \in Operators \ {o} PROVE Knows(u)'
    <3>1. operator'[u] = operator[u] /\ Knows(u)
      BY <1>4 DEF ResetInv
    <3> QED
      BY <2>4, <3>1 DEF Knows
  <2>8. \E i \in DOMAIN audit : audit[i].type = "requested" /\ audit[i].of < r.at
    BY <2>3 DEF Requested, Logged, Event
  <2>9. ResetAuditTrue'
    BY <1>5, <2>1, <2>8 DEF ResetAuditTrue, Event
  <2> QED
    BY <2>6, <2>7, <2>9 DEF ResetInv
<1>18. CASE ResetFails(o)
  BY <1>2, <1>6, <1>7, <1>18 DEF ResetFails
<1> QED
  BY <1>9, <1>11, <1>13, <1>14, <1>15, <1>16, <1>17, <1>18 DEF Reset

LEMMA ResetInvStep == TypeOK /\ ResetInv /\ [Next]_vars => ResetInv'
<1> SUFFICES ASSUME TypeOK, ResetInv, [Next]_vars PROVE ResetInv'
  OBVIOUS
<1>1. graph \in Graphs
  BY TypeParts DEF Typed
<1>2. ASSUME UNCHANGED <<audit, operator>>, graph.breaker \subseteq graph'.breaker,
             \A e \in graph'.breaker : e.state = "reset" => e \in graph.breaker
      PROVE  ResetInv'
  BY <1>2, ResetFrame DEF ResetInv
<1>3. ASSUME NEW p \in Planners, Advance(p) PROVE ResetInv'
  <2>1. \/ UNCHANGED graph
        \/ graph'.breaker = graph.breaker
        \/ graph'.breaker = graph.breaker \cup {[state |-> "open", at |-> planner[p].at]}
    BY <1>1, <1>3 DEF Advance, Load, CheckStops, CheckPasses, Seed, Reload, PlanStops, PlanGoes,
       Enqueue, Record, Stamp, TripSkips, TripReads, TripPut, OnlyPlanner, Graphs
  <2>2. UNCHANGED <<audit, operator>>
    BY <1>3, AdvanceKeeps
  <2> QED
    BY <1>2, <2>1, <2>2
<1>4. CASE Learn
  <2>1. graph'.breaker = graph.breaker /\ UNCHANGED <<audit, operator>>
    BY <1>1, <1>4 DEF Learn, OnlyGraph, Graphs
  <2> QED
    BY <1>2, <2>1
<1>5. ASSUME UNCHANGED <<audit, operator, graph>> PROVE ResetInv'
  BY <1>2, <1>5
<1> QED
  BY <1>3, <1>4, <1>5, ResetStep DEF Next, Acquire, BeginUnlocked, Begin, Unlock, Dies, Expire, vars

\* Whatever operators cross, die or run again, the audit tells of every reset, once,
\* in order, and of none that did not happen.
THEOREM ResetCorrect == Spec => []ResetAuditTrue
<1>1. ResetInv => ResetAuditTrue
  BY DEF ResetInv
<1> QED
  BY <1>1, ResetInit, ResetInvStep, TypeCorrect, PTL DEF Spec
=============================================================================
