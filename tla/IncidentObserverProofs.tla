------------------------ MODULE IncidentObserverProofs ------------------------
(***************************************************************************)
(* Proofs about IncidentObserver, for every number of observers and        *)
(* operators and every bound.  The invariant says what a pass or a request *)
(* that is about to write knows: it holds a well-formed copy of the        *)
(* document, and if the version has not moved, the copy is the document.   *)
(*                                                                         *)
(* The first part is about IncidentHistory: what the two functions that    *)
(* rewrite the document preserve, for every history, snapshot and cap.     *)
(* The last part adds what names an incident and what a request was shown, *)
(* and proves that an operator acknowledges nothing else.                  *)
(***************************************************************************)
EXTENDS IncidentObserver, SequenceTheorems, TLAPS

-----------------------------------------------------------------------------
(* What the functions of IncidentHistory preserve.                         *)

History == Seq(Incident)

\* g extends h: entry by entry an incident of h that has moved on, then more.
Extends(g, h) ==
    /\ g \in History /\ Len(h) <= Len(g)
    /\ \A i \in 1..Len(h) : Advances(h[i], g[i])

-----------------------------------------------------------------------------

LEMMA AdvancesRefl == ASSUME NEW a PROVE Advances(a, a)
BY DEF Advances

LEMMA AdvancesTrans ==
    ASSUME NEW a \in Incident, NEW b \in Incident, NEW c \in Incident,
           Advances(a, b), Advances(b, c)
    PROVE  Advances(a, c)
BY DEF Advances, Incident

LEMMA ExtendsTrans ==
    ASSUME NEW f \in History, NEW g, NEW h, Extends(g, f), Extends(h, g)
    PROVE  Extends(h, f)
<1>1. /\ g \in History /\ h \in History
      /\ Len(f) \in Nat /\ Len(g) \in Nat /\ Len(h) \in Nat
      /\ Len(f) <= Len(g) /\ Len(g) <= Len(h)
  BY LenProperties DEF Extends, History
<1>2. ASSUME NEW i \in 1..Len(f)
      PROVE  Advances(f[i], h[i])
  <2>1. i \in 1..Len(g) /\ i \in 1..Len(h)
    BY <1>1
  <2>2. f[i] \in Incident /\ g[i] \in Incident /\ h[i] \in Incident
    BY <1>1, <2>1, ElementOfSeq DEF History
  <2>3. Advances(f[i], g[i]) /\ Advances(g[i], h[i])
    BY <2>1 DEF Extends
  <2> QED
    BY <2>2, <2>3, AdvancesTrans
<1> QED
  BY <1>1, <1>2 DEF Extends

\* The cap drops incidents from the oldest end, and only from a full history.
LEMMA KeptDropsOldest ==
    ASSUME NEW h \in History
    PROVE  /\ Kept(h) \in History
           /\ Len(Kept(h)) <= MaxHistory
           /\ Len(h) <= MaxHistory => Kept(h) = h
           /\ Len(h) > MaxHistory =>
                /\ Len(Kept(h)) = MaxHistory
                /\ \A i \in 1..MaxHistory : Kept(h)[i] = h[i + (Len(h) - MaxHistory)]
<1>1. Len(h) \in Nat /\ MaxHistory \in Nat /\ MaxHistory > 0
  BY HistoryAssumption, LenProperties DEF HistoryAssumption, History
<1>2. CASE Len(h) <= MaxHistory
  BY <1>1, <1>2 DEF Kept
<1>3. CASE Len(h) > MaxHistory
  <2> DEFINE m == Len(h) - MaxHistory + 1
  <2>1. m \in 1..Len(h) /\ Len(h) \in m..Len(h)
    BY <1>1, <1>3
  <2>2. Kept(h) = SubSeq(h, m, Len(h))
    BY <1>1, <1>3 DEF Kept
  <2>3. /\ SubSeq(h, m, Len(h)) \in Seq(Incident)
        /\ Len(SubSeq(h, m, Len(h))) = MaxHistory
        /\ \A i \in 1..MaxHistory : SubSeq(h, m, Len(h))[i] = h[m + i - 1]
    BY <1>1, <1>3, <2>1, SubSeqProperties DEF History
  <2>4. \A i \in 1..MaxHistory : m + i - 1 = i + (Len(h) - MaxHistory)
    BY <1>1
  <2> QED
    BY <1>1, <1>3, <2>2, <2>3, <2>4 DEF History
<1> QED
  BY <1>1, <1>2, <1>3

LEMMA KeptOneActive ==
    ASSUME NEW h \in History, OneActive(h)
    PROVE  OneActive(Kept(h))
<1>1. Len(h) \in Nat /\ MaxHistory \in Nat /\ Kept(h) \in History
  BY HistoryAssumption, LenProperties, KeptDropsOldest DEF HistoryAssumption, History
<1>2. CASE Len(h) <= MaxHistory
  BY <1>2, KeptDropsOldest
<1>3. CASE Len(h) > MaxHistory
  <2> SUFFICES ASSUME NEW d \in DOMAINS, NEW i \in Active(Kept(h), d), NEW j \in Active(Kept(h), d)
               PROVE  i = j
    BY DEF OneActive
  <2> DEFINE k == Len(h) - MaxHistory
  <2> HIDE DEF k
  <2>0. /\ k = Len(h) - MaxHistory /\ k \in Nat
        /\ Len(Kept(h)) = MaxHistory
        /\ \A n \in 1..MaxHistory : Kept(h)[n] = h[n + k]
    BY <1>1, <1>3, KeptDropsOldest DEF k
  <2>5. DOMAIN Kept(h) = 1..MaxHistory
    BY <1>1, <2>0, LenProperties DEF History
  <2>1. /\ i \in 1..MaxHistory /\ j \in 1..MaxHistory
        /\ Kept(h)[i] = h[i + k] /\ Kept(h)[j] = h[j + k]
    BY <2>0, <2>5 DEF Active
  <2>2. i + k \in DOMAIN h /\ j + k \in DOMAIN h
    BY <1>1, <2>0, <2>1, LenProperties DEF History
  <2>3. i + k \in Active(h, d) /\ j + k \in Active(h, d)
    BY <2>1, <2>2 DEF Active
  <2>4. i + k = j + k
    BY <2>3 DEF OneActive
  <2> QED
    BY <2>0, <2>1, <2>4
<1> QED
  BY <1>1, <1>2, <1>3

-----------------------------------------------------------------------------
(* One domain.                                                             *)

LEMMA SettledMovesOn ==
    ASSUME NEW h \in History, NEW d \in DOMAINS, NEW p
    PROVE  /\ Settled(h, d, p) \in History
           /\ Len(Settled(h, d, p)) = Len(h)
           /\ Extends(Settled(h, d, p), h)
           /\ \A i \in 1..Len(h) : /\ Settled(h, d, p)[i].domain = h[i].domain
                                   /\ Settled(h, d, p)[i].status \in {h[i].status, "resolved"}
<1> DEFINE g == Settled(h, d, p)
<1>1. Len(h) \in Nat /\ DOMAIN h = 1..Len(h)
  BY LenProperties DEF History
<1>2. ASSUME NEW i \in 1..Len(h)
      PROVE  /\ g[i] \in Incident /\ Advances(h[i], g[i])
             /\ g[i].domain = h[i].domain /\ g[i].status \in {h[i].status, "resolved"}
  <2>1. h[i] \in Incident
    BY ElementOfSeq DEF History
  <2>2. g[i] = h[i] \/ g[i] = [h[i] EXCEPT !.status = "resolved"]
    BY <1>1 DEF Settled
  <2> QED
    BY <2>1, <2>2 DEF Incident, Advances
<1>3. g \in [1..Len(h) -> Incident]
  BY <1>1, <1>2 DEF Settled
<1>4. g \in History /\ Len(g) = Len(h)
  BY <1>1, <1>3 DEF History
<1> QED
  BY <1>1, <1>2, <1>4 DEF Extends

\* Settling keeps one active incident in every domain, and leaves none in the
\* domain unless the incident that it reports was already ongoing there.
LEMMA SettledOneActive ==
    ASSUME NEW h \in History, NEW d \in DOMAINS, NEW p, OneActive(h)
    PROVE  /\ OneActive(Settled(h, d, p))
           /\ ~Ongoing(h, d, p) => Active(Settled(h, d, p), d) = {}
<1> DEFINE g == Settled(h, d, p)
<1>1. /\ DOMAIN h = 1..Len(h) /\ DOMAIN g = 1..Len(h)
      /\ \A i \in 1..Len(h) : /\ g[i].domain = h[i].domain
                              /\ g[i].status \in {h[i].status, "resolved"}
  BY SettledMovesOn, LenProperties DEF History
<1>2. \A e \in DOMAINS : Active(g, e) \subseteq Active(h, e)
  <2> HIDE DEF g
  <2> QED BY <1>1 DEF Active
<1>3. OneActive(g)
  <2> HIDE DEF g
  <2> QED BY <1>2 DEF OneActive
<1>4. ASSUME ~Ongoing(h, d, p), NEW i \in Active(g, d)
      PROVE  FALSE
  <2>1. i \in Active(h, d)
    BY <1>2
  <2>2. \A j \in Active(h, d) : j = i
    BY <2>1 DEF OneActive
  <2>3. i \in DOMAIN h /\ IsCurrentIncident(h, i, d)
    BY <1>1, <2>1, <2>2 DEF IsCurrentIncident, IsLast, Active
  <2>4. h[i].print # p
    BY <1>4, <2>3 DEF Ongoing
  <2>5. g[i] = [h[i] EXCEPT !.status = "resolved"] /\ h[i] \in Incident
    BY <1>1, <2>3, <2>4, ElementOfSeq DEF Settled, History
  <2>6. g[i].status = "resolved"
    BY <2>5 DEF Incident
  <2> QED
    BY <2>6, <1>4 DEF Active
<1> QED
  BY <1>3, <1>4

LEMMA ApplyDomainKeeps ==
    ASSUME NEW h \in History, NEW d \in DOMAINS, NEW p \in Prints \cup {NoPrint},
           NEW v \in Nat
    PROVE  /\ Extends(ApplyDomain(h, d, p, v), h)
           /\ OneActive(h) => OneActive(ApplyDomain(h, d, p, v))
<1> DEFINE g == Settled(h, d, p)
           a == ApplyDomain(h, d, p, v)
<1>1. g \in History /\ Len(g) = Len(h) /\ Extends(g, h) /\ Len(h) \in Nat
  BY SettledMovesOn, LenProperties DEF History
<1>2. CASE p = NoPrint \/ Ongoing(h, d, p)
  <2>1. a = g
    BY <1>2 DEF ApplyDomain
  <2> QED
    BY <1>1, <2>1, SettledOneActive
<1>3. CASE p # NoPrint /\ ~Ongoing(h, d, p)
  <2> DEFINE n == Opened(d, p, v)
  <2>1. a = Append(g, n)
    BY <1>3 DEF ApplyDomain
  <2>2. n \in Incident /\ n.domain = d
    BY <1>3 DEF Incident, Opened
  <2> HIDE DEF a, g, n
  <2>3. /\ a \in History /\ Len(a) = Len(h) + 1
        /\ \A i \in 1..Len(h) : a[i] = g[i]
        /\ a[Len(h) + 1] = n
    BY <1>1, <2>1, <2>2, AppendProperties DEF History
  <2>4. Extends(a, h)
    BY <1>1, <2>3 DEF Extends
  <2>5. ASSUME OneActive(h)
        PROVE  OneActive(a)
    <3>1. OneActive(g) /\ Active(g, d) = {}
      BY <1>3, <2>5, SettledOneActive DEF g
    <3>2. DOMAIN a = 1..(Len(h) + 1) /\ DOMAIN g = 1..Len(h)
      BY <1>1, <2>3, LenProperties DEF History
    <3>3. ASSUME NEW e \in DOMAINS, NEW i \in Active(a, e), i # Len(h) + 1
          PROVE  i \in Active(g, e)
      BY <1>1, <2>3, <3>2, <3>3 DEF Active
    <3>4. ASSUME NEW e \in DOMAINS, Len(h) + 1 \in Active(a, e)
          PROVE  e = d
      BY <2>2, <2>3, <3>4 DEF Active
    <3>5. ASSUME NEW e \in DOMAINS, NEW i \in Active(a, e), NEW j \in Active(a, e)
          PROVE  i = j
      <4>1. CASE i # Len(h) + 1 /\ j # Len(h) + 1
        <5>1. i \in Active(g, e) /\ j \in Active(g, e)
          BY <3>3, <4>1
        <5> QED
          BY <3>1, <5>1 DEF OneActive
      <4>2. CASE i = Len(h) + 1 \/ j = Len(h) + 1
        <5>1. e = d
          BY <3>4, <4>2
        <5>2. i = Len(h) + 1 /\ j = Len(h) + 1
          BY <3>1, <3>3, <5>1
        <5> QED
          BY <5>2
      <4> QED
        BY <4>1, <4>2
    <3> QED
      BY <3>5 DEF OneActive
  <2> QED
    BY <2>4, <2>5 DEF a
<1> QED
  BY <1>2, <1>3

-----------------------------------------------------------------------------
(* The two functions.                                                      *)

LEMMA ApplyKeeps ==
    ASSUME NEW h \in History, Len(h) <= MaxHistory, OneActive(h),
           NEW snap \in Snapshot, NEW v \in Nat
    PROVE  /\ apply_domain_incidents(h, snap, v) \in History
           /\ Len(apply_domain_incidents(h, snap, v)) <= MaxHistory
           /\ OneActive(apply_domain_incidents(h, snap, v))
           /\ MovesOn(h, apply_domain_incidents(h, snap, v))
<1> DEFINE h1 == ApplyDomain(h, "workload", snap["workload"], v)
           h2 == ApplyDomain(h1, "control_plane", snap["control_plane"], v)
           h3 == ApplyDomain(h2, "observability", snap["observability"], v)
<1>1. apply_domain_incidents(h, snap, v) = Kept(h3)
  BY KeptDropsOldest DEF apply_domain_incidents
<1>2. \A d \in DOMAINS : snap[d] \in Prints \cup {NoPrint}
  BY DEF Snapshot
<1>3. /\ "workload" \in DOMAINS /\ "control_plane" \in DOMAINS
      /\ "observability" \in DOMAINS
  BY DEF DOMAINS
<1>4. Extends(h1, h) /\ OneActive(h1) /\ h1 \in History
  BY <1>2, <1>3, ApplyDomainKeeps DEF Extends
<1>5. Extends(h2, h1) /\ OneActive(h2) /\ h2 \in History
  <2> HIDE DEF h1
  <2> QED BY <1>2, <1>3, <1>4, ApplyDomainKeeps DEF Extends
<1>6. Extends(h3, h2) /\ OneActive(h3) /\ h3 \in History
  <2> HIDE DEF h2
  <2> QED BY <1>2, <1>3, <1>5, ApplyDomainKeeps DEF Extends
<1> HIDE DEF h1, h2, h3
<1>7. Extends(h3, h)
  BY <1>4, <1>5, <1>6, ExtendsTrans
<1>8. /\ Len(h) \in Nat /\ Len(h3) \in Nat /\ MaxHistory \in Nat
      /\ Len(h) <= Len(h3)
      /\ \A i \in 1..Len(h) : Advances(h[i], h3[i])
  BY <1>6, <1>7, HistoryAssumption, LenProperties DEF HistoryAssumption, Extends, History
<1>9. MovesOn(h, Kept(h3))
  <2>1. CASE Len(h3) <= MaxHistory
    <3>1. Kept(h3) = h3
      BY <1>6, <2>1, KeptDropsOldest
    <3>2. /\ 0 \in 0..Len(h) /\ Len(h) - 0 <= Len(h3)
          /\ \A i \in 1..(Len(h) - 0) : i + 0 = i /\ i \in 1..Len(h)
      BY <1>8
    <3>3. \A i \in 1..(Len(h) - 0) : Advances(h[i + 0], h3[i])
      BY <1>8, <3>2
    <3> QED
      BY <3>1, <3>2, <3>3 DEF MovesOn
  <2>2. CASE Len(h3) > MaxHistory
    <3> DEFINE drop == Len(h3) - MaxHistory
    <3>1. /\ Len(Kept(h3)) = MaxHistory
          /\ \A i \in 1..MaxHistory : Kept(h3)[i] = h3[i + drop]
      BY <1>6, <2>2, KeptDropsOldest
    <3>2. CASE drop <= Len(h)
      <4>1. /\ drop \in 0..Len(h) /\ Len(h) - drop <= MaxHistory
            /\ \A i \in 1..(Len(h) - drop) : i \in 1..MaxHistory /\ i + drop \in 1..Len(h)
        BY <1>8, <2>2, <3>2
      <4>2. \A i \in 1..(Len(h) - drop) : Advances(h[i + drop], Kept(h3)[i])
        BY <1>8, <3>1, <4>1
      <4> QED
        BY <3>1, <4>1, <4>2 DEF MovesOn
    <3>3. CASE drop > Len(h)
      <4>1. /\ Len(h) \in 0..Len(h) /\ Len(h) - Len(h) <= MaxHistory
            /\ 1..(Len(h) - Len(h)) = {}
        BY <1>8
      <4> QED
        BY <3>1, <4>1 DEF MovesOn
    <3> QED
      BY <1>8, <3>2, <3>3
  <2> QED
    BY <1>8, <2>1, <2>2
<1> QED
  BY <1>1, <1>6, <1>9, KeptDropsOldest, KeptOneActive

LEMMA AcknowledgeKeeps ==
    ASSUME NEW h \in History, Len(h) <= MaxHistory, OneActive(h), NEW d, NEW p
    PROVE  /\ acknowledge_incident(h, d, p) \in History
           /\ Len(acknowledge_incident(h, d, p)) <= MaxHistory
           /\ OneActive(acknowledge_incident(h, d, p))
           /\ MovesOn(h, acknowledge_incident(h, d, p))
<1> DEFINE g == Acknowledged(h, d, p)
<1>1. acknowledge_incident(h, d, p) = g
  BY KeptDropsOldest DEF acknowledge_incident
<1>2. Len(h) \in Nat /\ DOMAIN h = 1..Len(h)
  BY LenProperties DEF History
<1>3. ASSUME NEW i \in 1..Len(h)
      PROVE  /\ g[i] \in Incident /\ Advances(h[i], g[i])
             /\ g[i].domain = h[i].domain
             /\ h[i].status = "resolved" => g[i].status = "resolved"
  <2>1. h[i] \in Incident
    BY ElementOfSeq DEF History
  <2>2. \/ g[i] = h[i]
        \/ /\ h[i].status = "opened"
           /\ g[i] = [h[i] EXCEPT !.status = "acknowledged", !.acked = TRUE]
    BY <1>2 DEF Acknowledged, IsLast, Open
  <2> QED
    BY <2>1, <2>2 DEF Incident, Advances
<1>4. g \in [1..Len(h) -> Incident]
  BY <1>2, <1>3 DEF Acknowledged
<1>5. g \in History /\ Len(g) = Len(h) /\ DOMAIN g = 1..Len(h)
  BY <1>2, <1>4 DEF History
<1> HIDE DEF g
<1>6. OneActive(g)
  <2>1. \A e \in DOMAINS : Active(g, e) \subseteq Active(h, e)
    BY <1>2, <1>3, <1>5 DEF Active
  <2> QED
    BY <2>1 DEF OneActive
<1>7. MovesOn(h, g)
  <2>1. /\ 0 \in 0..Len(h) /\ Len(h) - 0 <= Len(g)
        /\ \A i \in 1..(Len(h) - 0) : i + 0 = i /\ i \in 1..Len(h)
    BY <1>2, <1>5
  <2>2. \A i \in 1..(Len(h) - 0) : Advances(h[i + 0], g[i])
    BY <1>3, <2>1
  <2> QED
    BY <2>1, <2>2 DEF MovesOn
<1> QED
  BY <1>1, <1>5, <1>6, <1>7

-----------------------------------------------------------------------------
(* The observers and the operators.                                        *)

\* A well-formed document: typed, capped, one active incident per domain.
DocOK(doc) ==
    /\ doc \in Document
    /\ Len(doc.history) <= MaxHistory
    /\ OneActive(doc.history)

\* A copy that a writer holds: it is the document unless the version moved.
CopyOK(copy) ==
    /\ DocOK(copy)
    /\ copy.version <= document.version
    /\ copy.version = document.version => copy = document

\* The inductive invariant.
IInv ==
    /\ TypeOK
    /\ DocOK(document)
    /\ \A o \in Observers : pass[o].pc = "writing" => CopyOK(pass[o].read)
    /\ \A c \in Operators : operator[c].pc = "writing" => CopyOK(operator[c].read)
    /\ LeaderSeesAllObservations

-----------------------------------------------------------------------------

LEMMA Bounds ==
    /\ NoOwner \notin Observers /\ NoPrint \notin Prints
    /\ Ttl \in Nat /\ Ttl > 0 /\ Cooldown \in Nat
    /\ Threshold \in Nat /\ Threshold > 0 /\ Tries \in Nat /\ Tries > 0
    /\ MaxHistory \in Nat /\ MaxHistory > 0
    /\ Snapshots \subseteq Snapshot
BY ObserverAssumption, HistoryAssumption DEF ObserverAssumption, HistoryAssumption

LEMMA EmptyDocument ==
    ASSUME NEW v \in Nat
    PROVE  DocOK([history |-> <<>>, version |-> v])
<1>1. <<>> \in Seq(Incident) /\ Len(<<>>) = 0
  BY EmptySeq
<1>2. \A d \in DOMAINS : Active(<<>>, d) = {}
  BY DEF Active
<1> QED
  BY <1>1, <1>2, Bounds DEF DocOK, Document, OneActive

LEMMA NoPassTyped == NoPass \in Pass /\ NoPass.pc = "idle"
<1>1. NoRead \in Document
  BY EmptyDocument DEF NoRead, DocOK
<1>2. AllHealthy \in Snapshot
  BY DEF AllHealthy, Snapshot
<1>3. 0 \in 0..(Tries - 1)
  BY Bounds
<1> QED
  BY <1>1, <1>2, <1>3 DEF NoPass, Pass

LEMMA NoRequestTyped == NoRequest \in Request /\ NoRequest.pc = "idle"
<1>1. NoRead \in Document
  BY EmptyDocument DEF NoRead, DocOK
<1> QED
  BY <1>1 DEF NoRequest, Request, DOMAINS

LEMMA FailedTyped ==
    ASSUME NEW h \in Health
    PROVE  Failed(h) \in Health
BY Bounds DEF Failed, Health

LEMMA HealthyTyped == Healthy \in Health
BY Bounds DEF Healthy, Health

LEMMA AcquiredTyped ==
    ASSUME lease \in Lease, NEW o \in Observers
    PROVE  Acquired(o) \in Lease /\ Acquired(o).owner = o
BY Bounds DEF Acquired, Lease

LEMMA ReleasedTyped ==
    ASSUME lease \in Lease, NEW o \in Observers, NEW g
    PROVE  /\ Released(o, g) \in Lease
           /\ Released(o, g) = lease \/ Released(o, g).owner = NoOwner
BY Bounds DEF Released, Lease

THEOREM InitIInv == Init => IInv
<1> SUFFICES ASSUME Init PROVE IInv
  OBVIOUS
<1>1. DocOK(document)
  BY EmptyDocument DEF Init
<1>2. TypeOK
  BY <1>1, Bounds, NoPassTyped, NoRequestTyped, HealthyTyped DEF Init, TypeOK, Lease, DocOK
<1> QED
  BY <1>1, <1>2, NoPassTyped, NoRequestTyped DEF Init, IInv, LeaderSeesAllObservations

-----------------------------------------------------------------------------
(* Steps that leave the document alone.                                    *)

\* Writers keep a good copy through a step that does not write: theirs stays,
\* or they have just read the document.
LEMMA CopiesKept ==
    ASSUME IInv, document' = document,
           \A o \in Observers : pass'[o].pc = "writing" =>
             \/ pass[o].pc = "writing" /\ pass'[o].read = pass[o].read
             \/ pass'[o].read = document,
           \A c \in Operators : operator'[c].pc = "writing" =>
             \/ operator[c].pc = "writing" /\ operator'[c].read = operator[c].read
             \/ operator'[c].read = document
    PROVE  /\ DocOK(document)'
           /\ \A o \in Observers : pass'[o].pc = "writing" => CopyOK(pass[o].read)'
           /\ \A c \in Operators : operator'[c].pc = "writing" => CopyOK(operator[c].read)'
<1>1. DocOK(document) /\ DocOK(document)'
  BY DEF IInv, DocOK
<1>2. CopyOK(document)
  BY <1>1 DEF CopyOK, DocOK, Document
<1>3. ASSUME NEW o \in Observers, pass'[o].pc = "writing"
      PROVE  CopyOK(pass[o].read)'
  <2>1. CopyOK(pass'[o].read)
    BY <1>2, <1>3 DEF IInv
  <2> QED
    BY <2>1 DEF CopyOK, DocOK
<1>4. ASSUME NEW c \in Operators, operator'[c].pc = "writing"
      PROVE  CopyOK(operator[c].read)'
  <2>1. CopyOK(operator'[c].read)
    BY <1>2, <1>4 DEF IInv
  <2> QED
    BY <2>1 DEF CopyOK, DocOK
<1> QED
  BY <1>1, <1>3, <1>4

\* No step but a commit or an election can make a leader miss an observation.
LEMMA LeadersKept ==
    ASSUME IInv, commits' = commits,
           \A o \in Observers : pass'[o].pc = "writing" =>
             \/ pass'[o].commits = commits
             \/ /\ pass[o].pc = "writing" /\ pass'[o] = pass[o]
                /\ IsCurrent(o, pass[o].generation)' => IsCurrent(o, pass[o].generation)
    PROVE  LeaderSeesAllObservations'
BY DEF IInv, LeaderSeesAllObservations

\* A step of observer o that touches neither the lease nor the document and
\* leaves it in a pass that does not write.
LEMMA LocalStep ==
    ASSUME IInv, NEW o \in Observers, NEW p \in Pass, p.pc # "writing",
           pass' = [pass EXCEPT ![o] = p],
           UNCHANGED <<lease, document, operator, commits>>,
           beats' \in [Observers -> SUBSET Nat],
           health' \in [Observers -> Health]
    PROVE  IInv'
<1>1. TypeOK'
  BY DEF IInv, TypeOK
<1>2. pass \in [Observers -> Pass]
  BY DEF IInv, TypeOK
<1>3. \A x \in Observers : pass'[x].pc = "writing" => pass'[x] = pass[x]
  BY <1>2
<1>4. \A x \in Observers : IsCurrent(x, pass[x].generation)' = IsCurrent(x, pass'[x].generation)
  BY DEF IsCurrent
<1>5. LeaderSeesAllObservations'
  BY <1>3, <1>4, LeadersKept
<1>6. /\ DocOK(document)'
      /\ \A x \in Observers : pass'[x].pc = "writing" => CopyOK(pass[x].read)'
      /\ \A c \in Operators : operator'[c].pc = "writing" => CopyOK(operator[c].read)'
  BY <1>3, CopiesKept
<1> QED
  BY <1>1, <1>5, <1>6 DEF IInv

-----------------------------------------------------------------------------
(* The actions of one pass.                                                *)

\* The typed facts that the actions use.
LEMMA Types ==
    ASSUME IInv
    PROVE  /\ lease \in Lease /\ document \in Document /\ commits \in Nat
           /\ pass \in [Observers -> Pass] /\ beats \in [Observers -> SUBSET Nat]
           /\ health \in [Observers -> Health] /\ operator \in [Operators -> Request]
BY DEF IInv, TypeOK

LEMMA OverTyped ==
    ASSUME NEW p \in Pass, NEW pc \in {"observed", "leaving"}
    PROVE  Over(p, pc) \in Pass /\ Over(p, pc).pc = pc
BY NoPassTyped DEF Over, NoPass, Pass

LEMMA ElectStep ==
    ASSUME IInv, NEW o \in Observers, Elect(o)
    PROVE  IInv'
<1> DEFINE p == [NoPass EXCEPT !.pc = "elected", !.generation = Acquired(o).generation]
<1>1. /\ lease' \in Lease /\ lease'.owner = o /\ Acquired(o).generation \in Nat
  BY Types, AcquiredTyped DEF Elect, Lease
<1>2. p \in Pass /\ p.pc = "elected"
  BY <1>1, NoPassTyped DEF NoPass, Pass
<1>3. pass' = [pass EXCEPT ![o] = p]
  BY DEF Elect
<1> HIDE DEF p
<1>4. /\ \A x \in Observers : pass'[x].pc = "writing" => x # o /\ pass'[x] = pass[x]
      /\ pass' \in [Observers -> Pass]
  BY <1>2, <1>3, Types
<1>5. TypeOK'
  BY <1>1, <1>4, Types DEF Elect, TypeOK
<1>6. \A x \in Observers : IsCurrent(x, pass[x].generation)' => x = o
  BY <1>1 DEF IsCurrent
<1>7. LeaderSeesAllObservations'
  BY <1>4, <1>6, LeadersKept DEF Elect
<1>8. /\ DocOK(document)'
      /\ \A x \in Observers : pass'[x].pc = "writing" => CopyOK(pass[x].read)'
      /\ \A c \in Operators : operator'[c].pc = "writing" => CopyOK(operator[c].read)'
  BY <1>4, CopiesKept DEF Elect
<1> QED
  BY <1>5, <1>7, <1>8 DEF IInv

LEMMA ObserveStep ==
    ASSUME IInv, NEW o \in Observers, NEW snap \in Snapshots, Observe(o, snap)
    PROVE  IInv'
<1> DEFINE p == [pass[o] EXCEPT !.pc = "reading", !.snapshot = snap]
<1>1. pass[o] \in Pass /\ snap \in Snapshot
  BY Types, Bounds
<1>2. p \in Pass /\ p.pc = "reading"
  BY <1>1 DEF Pass
<1>3. pass' = [pass EXCEPT ![o] = p]
  BY DEF Observe
<1>4. beats' \in [Observers -> SUBSET Nat]
  BY <1>1, Types DEF Observe, Pass
<1> QED
  BY <1>2, <1>3, <1>4, Types, LocalStep DEF Observe

LEMMA LoseLeadStep ==
    ASSUME IInv, NEW o \in Observers, LoseLead(o)
    PROVE  IInv'
<1> DEFINE p == [pass[o] EXCEPT !.pc = "leaving"]
<1>1. p \in Pass /\ p.pc = "leaving"
  BY Types DEF Pass
<1>2. pass' = [pass EXCEPT ![o] = p]
  BY DEF LoseLead, Goto
<1> QED
  BY <1>1, <1>2, Types, LocalStep DEF LoseLead

LEMMA ReadStep ==
    ASSUME IInv, NEW o \in Observers, Read(o)
    PROVE  IInv'
<1>1. CASE pass' = [pass EXCEPT ![o] = Over(@, "observed")]
  <2>1. Over(pass[o], "observed") \in Pass /\ Over(pass[o], "observed").pc = "observed"
    BY Types, OverTyped
  <2> QED
    BY <1>1, <2>1, Types, LocalStep DEF Read
<1>2. CASE pass' = [pass EXCEPT ![o].pc = "writing", ![o].read = document,
                                ![o].commits = commits]
  <2> DEFINE p == [pass[o] EXCEPT !.pc = "writing", !.read = document, !.commits = commits]
  <2>1. p \in Pass /\ p.pc = "writing" /\ p.read = document /\ p.commits = commits
    BY Types DEF Pass
  <2>2. pass' = [pass EXCEPT ![o] = p]
    BY <1>2
  <2> HIDE DEF p
  <2>3. /\ pass' \in [Observers -> Pass]
        /\ \A x \in Observers : x # o => pass'[x] = pass[x]
        /\ pass'[o].read = document /\ pass'[o].commits = commits
    BY <2>1, <2>2, Types
  <2>4. TypeOK'
    BY <2>3, Types DEF Read, TypeOK
  <2>5. UNCHANGED <<lease, document, operator, commits>>
    BY DEF Read
  <2>6. \A x \in Observers : x # o =>
          (IsCurrent(x, pass[x].generation)' => IsCurrent(x, pass[x].generation))
    BY <2>3, <2>5 DEF IsCurrent
  <2>7. LeaderSeesAllObservations'
    BY <2>3, <2>5, <2>6, LeadersKept
  <2>8. /\ DocOK(document)'
        /\ \A x \in Observers : pass'[x].pc = "writing" => CopyOK(pass[x].read)'
        /\ \A c \in Operators : operator'[c].pc = "writing" => CopyOK(operator[c].read)'
    BY <2>3, <2>5, CopiesKept
  <2> QED
    BY <2>4, <2>7, <2>8 DEF IInv
<1> QED
  BY <1>1, <1>2 DEF Read

LEMMA ConflictStep ==
    ASSUME IInv, NEW o \in Observers, Conflict(o)
    PROVE  IInv'
<1> DEFINE p == [pass[o] EXCEPT !.pc = "reading", !.read = NoRead, !.attempt = @ + 1]
<1>4. NoRead \in Document
  BY NoPassTyped DEF NoPass, Pass
<1>5. pass[o] \in Pass /\ pass[o].attempt \in 0..(Tries - 1)
  BY Types DEF Pass
<1>1. pass[o] \in Pass /\ pass[o].attempt + 1 \in 0..(Tries - 1) /\ NoRead \in Document
  BY <1>4, <1>5, Bounds DEF Conflict
<1>2. p \in Pass /\ p.pc = "reading"
  BY <1>1 DEF Pass
<1>3. pass' = [pass EXCEPT ![o] = p]
  BY DEF Conflict
<1> QED
  BY <1>2, <1>3, Types, LocalStep DEF Conflict

LEMMA EndStep ==
    ASSUME IInv, NEW o \in Observers, Raise(o) \/ Overrun(o) \/ Judge(o)
    PROVE  IInv'
<1>1. health' \in [Observers -> Health]
  BY Types, FailedTyped, HealthyTyped DEF Raise, Overrun, Judge
<1>2. CASE Raise(o)
  <2>1. Over(pass[o], "leaving") \in Pass /\ Over(pass[o], "leaving").pc = "leaving"
    BY Types, OverTyped
  <2> QED
    BY <1>1, <1>2, <2>1, Types, LocalStep DEF Raise
<1>3. CASE Overrun(o) \/ Judge(o)
  <2> DEFINE p == [pass[o] EXCEPT !.pc = "leaving"]
  <2>1. p \in Pass /\ p.pc = "leaving"
    BY Types DEF Pass
  <2>2. pass' = [pass EXCEPT ![o] = p]
    BY <1>3 DEF Overrun, Judge, Goto
  <2> QED
    BY <1>1, <1>3, <2>1, <2>2, Types, LocalStep DEF Overrun, Judge
<1> QED
  BY <1>2, <1>3

LEMMA CrashStep ==
    ASSUME IInv, NEW o \in Observers, Crash(o)
    PROVE  IInv'
<1>1. health' \in [Observers -> Health] /\ beats' \in [Observers -> SUBSET Nat]
  BY Types, HealthyTyped DEF Crash
<1> QED
  BY <1>1, Types, NoPassTyped, LocalStep DEF Crash

\* The lease after a step that elects nobody: what is current was current.
LEMMA NothingWrittenStep ==
    ASSUME IInv, lease' \in Lease, beats' \in [Observers -> SUBSET Nat],
           health' \in [Observers -> Health], pass' \in [Observers -> Pass],
           operator' \in [Operators -> Request],
           UNCHANGED <<document, commits>>,
           \A x \in Observers, g \in Nat : IsCurrent(x, g)' => IsCurrent(x, g),
           \A x \in Observers : pass'[x].pc = "writing" => pass'[x] = pass[x],
           \A c \in Operators : operator'[c].pc = "writing" =>
             operator'[c] = operator[c] \/ operator'[c].read = document
    PROVE  IInv'
<1>1. TypeOK'
  BY Types DEF TypeOK
<1>2. \A x \in Observers : pass'[x].pc = "writing" =>
         (IsCurrent(x, pass[x].generation)' => IsCurrent(x, pass[x].generation))
  BY Types DEF IsCurrent, Pass
<1>3. LeaderSeesAllObservations'
  BY <1>2, LeadersKept
<1>4. /\ DocOK(document)'
      /\ \A x \in Observers : pass'[x].pc = "writing" => CopyOK(pass[x].read)'
      /\ \A c \in Operators : operator'[c].pc = "writing" => CopyOK(operator[c].read)'
  BY CopiesKept
<1> QED
  BY <1>1, <1>3, <1>4 DEF IInv

LEMMA LeaveStep ==
    ASSUME IInv, NEW o \in Observers, Leave(o)
    PROVE  IInv'
<1>1. /\ lease' \in Lease
      /\ lease' = lease \/ lease'.owner = NoOwner
  BY Types, ReleasedTyped DEF Leave
<1>2. \A x \in Observers, g \in Nat : IsCurrent(x, g)' => IsCurrent(x, g)
  BY <1>1, Bounds DEF IsCurrent
<1>3. /\ pass' \in [Observers -> Pass]
      /\ \A x \in Observers : pass'[x].pc = "writing" => pass'[x] = pass[x]
  BY Types, NoPassTyped DEF Leave
<1> QED
  BY <1>1, <1>2, <1>3, Types, NothingWrittenStep DEF Leave

LEMMA HeartbeatStep ==
    ASSUME IInv, NEW o \in Observers, NEW g \in 1..MaxGeneration,
           Heartbeat(o, g) \/ StopHeartbeat(o, g)
    PROVE  IInv'
<1>1. beats' \in [Observers -> SUBSET Nat]
  BY Types DEF Heartbeat, StopHeartbeat
<1>2. lease' = lease \/ (IsCurrent(o, g) /\ lease' = [lease EXCEPT !.left = Ttl])
  BY DEF Heartbeat, StopHeartbeat
<1>3. lease' \in Lease
  BY <1>2, Types, Bounds DEF Lease
<1>4. \A x \in Observers, n \in Nat : IsCurrent(x, n)' => IsCurrent(x, n)
  BY <1>2, Types DEF IsCurrent, Lease
<1> QED
  BY <1>1, <1>3, <1>4, Types, NothingWrittenStep DEF Heartbeat, StopHeartbeat

LEMMA TickStep ==
    ASSUME IInv, Tick
    PROVE  IInv'
<1>1. \A n \in Nat : Less(n) \in Nat /\ Less(n) <= n
  BY DEF Less
<1>2. lease' \in Lease
  BY <1>1, Types, Bounds DEF Tick, Lease
<1>3. ASSUME NEW o \in Observers
      PROVE  [health[o] EXCEPT !.cooldown = Less(@)] \in Health
  <2>1. health[o] \in Health /\ Less(health[o].cooldown) \in 0..Cooldown
    BY <1>1, Types, Bounds DEF Health
  <2> QED
    BY <2>1 DEF Health
<1>4. health' \in [Observers -> Health]
  BY <1>3 DEF Tick
<1>5. \A x \in Observers, n \in Nat : IsCurrent(x, n)' => IsCurrent(x, n)
  BY <1>1, Types, Bounds DEF IsCurrent, Tick, Lease
<1> QED
  BY <1>2, <1>4, <1>5, Types, NothingWrittenStep DEF Tick

LEMMA LookStep ==
    ASSUME IInv, NEW c \in Operators, NEW d \in DOMAINS, NEW p \in Prints, Look(c, d, p)
    PROVE  IInv'
<1> DEFINE shown == {document.history[i].opened_at : i \in Open(document.history, d, p)}
           r == [NoRequest EXCEPT !.pc = "reading", !.domain = d, !.print = p,
                   !.expected = document.version, !.shown = shown]
<1>1. shown \in SUBSET Nat
  <2>1. \A i \in DOMAIN document.history : document.history[i] \in Incident
    BY Types, ElementOfSeq, LenProperties DEF Document
  <2> QED
    BY <2>1 DEF Open, Incident
<1> HIDE DEF shown
<1>2. r \in Request /\ r.pc = "reading"
  BY <1>1, Types, NoRequestTyped DEF Request, Document
<1>3. operator' = [operator EXCEPT ![c] = r]
  BY DEF Look, shown
<1> HIDE DEF r
<1>4. /\ operator' \in [Operators -> Request]
      /\ \A x \in Operators : operator'[x].pc = "writing" => operator'[x] = operator[x]
  BY <1>2, <1>3, Types
<1>5. \A x \in Observers, n \in Nat : IsCurrent(x, n)' => IsCurrent(x, n)
  BY DEF IsCurrent, Look
<1> QED
  BY <1>4, <1>5, Types, NothingWrittenStep DEF Look

LEMMA AckReadStep ==
    ASSUME IInv, NEW c \in Operators, AckRead(c)
    PROVE  IInv'
<1>1. PICK r : /\ operator' = [operator EXCEPT ![c] = r]
               /\ \/ r = [operator[c] EXCEPT !.pc = "writing", !.read = document]
                  \/ r = NoRequest
  BY DEF AckRead
<1>2. r \in Request /\ (r.pc = "writing" => r.read = document)
  <2>1. operator[c] \in Request /\ document \in Document
    BY Types
  <2>2. CASE r = [operator[c] EXCEPT !.pc = "writing", !.read = document]
    BY <2>1, <2>2 DEF Request
  <2>3. CASE r = NoRequest
    BY <2>3, NoRequestTyped
  <2> QED
    BY <1>1, <2>2, <2>3
<1>3. /\ operator' \in [Operators -> Request]
      /\ \A x \in Operators : operator'[x].pc = "writing" =>
           operator'[x] = operator[x] \/ operator'[x].read = document
  BY <1>1, <1>2, Types
<1>4. \A x \in Observers, n \in Nat : IsCurrent(x, n)' => IsCurrent(x, n)
  BY DEF IsCurrent, AckRead
<1> QED
  BY <1>3, <1>4, Types, NothingWrittenStep DEF AckRead

-----------------------------------------------------------------------------
(* The two writes.  A write that passes the version check rewrites the     *)
(* document itself, not an older copy: this is where no update is lost.    *)

LEMMA CommitWrites ==
    ASSUME IInv, NEW o \in Observers, Commit(o)
    PROVE  /\ DocOK(document') /\ document'.version = document.version + 1
           /\ MovesOn(document.history, document'.history)
<1>1. CopyOK(pass[o].read) /\ pass[o].read.version = document.version
  BY DEF IInv, Commit, VersionHolds
<1>2. pass[o].read.history = document.history
  BY <1>1 DEF CopyOK
<1>3. /\ document.history \in History /\ document.version \in Nat
      /\ Len(document.history) <= MaxHistory /\ OneActive(document.history)
      /\ pass[o].snapshot \in Snapshot
  BY Types DEF IInv, DocOK, Document, History, Pass
<1> DEFINE h == apply_domain_incidents(document.history, pass[o].snapshot, document.version)
<1>4. document' = [history |-> h, version |-> document.version + 1]
  BY <1>2 DEF Commit
<1>5. /\ h \in History /\ Len(h) <= MaxHistory /\ OneActive(h)
      /\ MovesOn(document.history, h)
  BY <1>3, ApplyKeeps
<1> HIDE DEF h
<1> QED
  BY <1>3, <1>4, <1>5 DEF DocOK, Document, History

LEMMA AckWrites ==
    ASSUME IInv, NEW c \in Operators, AckWrite(c), document' # document
    PROVE  /\ DocOK(document') /\ document'.version = document.version + 1
           /\ MovesOn(document.history, document'.history)
<1>1. CopyOK(operator[c].read) /\ operator[c].read.version = document.version
  BY DEF IInv, AckWrite, VersionHolds
<1>2. operator[c].read.history = document.history
  BY <1>1 DEF CopyOK
<1>3. /\ document.history \in History /\ document.version \in Nat
      /\ Len(document.history) <= MaxHistory /\ OneActive(document.history)
  BY Types DEF IInv, DocOK, Document, History
<1> DEFINE h == acknowledge_incident(document.history, operator[c].domain, operator[c].print)
<1>4. document' = [history |-> h, version |-> document.version + 1]
  BY <1>2 DEF AckWrite
<1>5. /\ h \in History /\ Len(h) <= MaxHistory /\ OneActive(h)
      /\ MovesOn(document.history, h)
  BY <1>3, AcknowledgeKeeps
<1> HIDE DEF h
<1> QED
  BY <1>3, <1>4, <1>5 DEF DocOK, Document, History

\* A copy stays good through a write of somebody else: it has become old.
LEMMA CopyAges ==
    ASSUME NEW copy, CopyOK(copy), DocOK(document),
           DocOK(document'), document'.version = document.version + 1
    PROVE  DocOK(copy) /\ copy.version <= document'.version /\ copy.version # document'.version
BY DEF CopyOK, DocOK, Document

LEMMA CommitStep ==
    ASSUME IInv, NEW o \in Observers, Commit(o)
    PROVE  IInv'
<1>1. DocOK(document') /\ document'.version = document.version + 1 /\ DocOK(document)
  BY CommitWrites DEF IInv
<1>2. /\ Over(pass[o], "observed") \in Pass
      /\ Over(pass[o], "observed").pc = "observed"
  BY Types, OverTyped
<1>3. /\ pass' \in [Observers -> Pass]
      /\ \A x \in Observers : pass'[x].pc = "writing" => x # o /\ pass'[x] = pass[x]
  BY <1>2, Types DEF Commit
<1>4. /\ UNCHANGED <<lease, beats, health, operator>> /\ commits' = commits + 1
      /\ lease.owner = o
  BY DEF Commit, FenceHolds, IsCurrent
<1>5. TypeOK'
  BY <1>1, <1>3, <1>4, Types DEF TypeOK, DocOK
<1>6. ASSUME NEW x \in Observers, pass'[x].pc = "writing"
      PROVE  CopyOK(pass[x].read)'
  <2>1. CopyOK(pass'[x].read)
    BY <1>3, <1>6 DEF IInv
  <2>2. /\ DocOK(pass'[x].read) /\ pass'[x].read.version <= document'.version
        /\ pass'[x].read.version # document'.version
    BY <1>1, <2>1, CopyAges
  <2> QED
    BY <2>2 DEF CopyOK, DocOK
<1>7. ASSUME NEW c \in Operators, operator'[c].pc = "writing"
      PROVE  CopyOK(operator[c].read)'
  <2>1. CopyOK(operator'[c].read)
    BY <1>4, <1>7 DEF IInv
  <2>2. /\ DocOK(operator'[c].read) /\ operator'[c].read.version <= document'.version
        /\ operator'[c].read.version # document'.version
    BY <1>1, <2>1, CopyAges
  <2> QED
    BY <2>2 DEF CopyOK, DocOK
<1>8. LeaderSeesAllObservations'
  BY <1>3, <1>4 DEF LeaderSeesAllObservations, IsCurrent
<1>9. DocOK(document)'
  BY <1>1 DEF DocOK
<1> QED
  BY <1>5, <1>6, <1>7, <1>8, <1>9 DEF IInv

LEMMA AckWriteStep ==
    ASSUME IInv, NEW c \in Operators, AckWrite(c)
    PROVE  IInv'
<1>1. /\ operator' = [operator EXCEPT ![c] = NoRequest]
      /\ UNCHANGED <<lease, pass, beats, health, commits>>
  BY DEF AckWrite
<1>2. /\ operator' \in [Operators -> Request]
      /\ \A x \in Operators : operator'[x].pc = "writing" => operator'[x] = operator[x]
  BY <1>1, Types, NoRequestTyped
<1>3. \A x \in Observers, g \in Nat : IsCurrent(x, g)' => IsCurrent(x, g)
  BY <1>1 DEF IsCurrent
<1>4. CASE document' = document
  BY <1>1, <1>2, <1>3, <1>4, Types, NothingWrittenStep
<1>5. CASE document' # document
  <2>1. DocOK(document') /\ document'.version = document.version + 1 /\ DocOK(document)
    BY <1>5, AckWrites DEF IInv
  <2>2. TypeOK'
    BY <1>1, <1>2, <2>1, Types DEF TypeOK, DocOK
  <2>3. ASSUME NEW x \in Observers, pass'[x].pc = "writing"
        PROVE  CopyOK(pass[x].read)'
    <3>1. CopyOK(pass'[x].read)
      BY <1>1, <2>3 DEF IInv
    <3>2. /\ DocOK(pass'[x].read) /\ pass'[x].read.version <= document'.version
          /\ pass'[x].read.version # document'.version
      BY <2>1, <3>1, CopyAges
    <3> QED
      BY <3>2 DEF CopyOK, DocOK
  <2>4. ASSUME NEW x \in Operators, operator'[x].pc = "writing"
        PROVE  CopyOK(operator[x].read)'
    <3>1. CopyOK(operator'[x].read)
      BY <1>2, <2>4 DEF IInv
    <3>2. /\ DocOK(operator'[x].read) /\ operator'[x].read.version <= document'.version
          /\ operator'[x].read.version # document'.version
      BY <2>1, <3>1, CopyAges
    <3> QED
      BY <3>2 DEF CopyOK, DocOK
  <2>5. LeaderSeesAllObservations'
    BY <1>1, <1>3, Types, LeadersKept DEF Pass
  <2>6. DocOK(document)'
    BY <2>1 DEF DocOK
  <2> QED
    BY <2>2, <2>3, <2>4, <2>5, <2>6 DEF IInv
<1> QED
  BY <1>4, <1>5

-----------------------------------------------------------------------------

THEOREM StepIInv == IInv /\ [Next]_vars => IInv'
<1> SUFFICES ASSUME IInv, [Next]_vars PROVE IInv'
  OBVIOUS
<1>1. ASSUME NEW o \in Observers, Scheduled(o)
      PROVE  IInv'
  <2>1. CASE \E snap \in Snapshots : Observe(o, snap)
    BY <2>1, ObserveStep
  <2>2. CASE Raise(o) \/ Overrun(o) \/ Judge(o)
    BY <2>2, EndStep
  <2> QED
    BY <1>1, <2>1, <2>2, ElectStep, LoseLeadStep, ReadStep, CommitStep, ConflictStep, LeaveStep
    DEF Scheduled
<1>2. ASSUME NEW o \in Observers, NEW g \in 1..MaxGeneration,
             Heartbeat(o, g) \/ StopHeartbeat(o, g)
      PROVE  IInv'
  BY <1>2, HeartbeatStep
<1>3. ASSUME NEW o \in Observers, Crash(o)
      PROVE  IInv'
  BY <1>3, CrashStep
<1>4. CASE Tick
  BY <1>4, TickStep
<1>5. ASSUME NEW c \in Operators, NEW d \in DOMAINS, NEW p \in Prints, Look(c, d, p)
      PROVE  IInv'
  BY <1>5, LookStep
<1>6. ASSUME NEW c \in Operators, AckRead(c) \/ AckWrite(c)
      PROVE  IInv'
  BY <1>6, AckReadStep, AckWriteStep
<1>7. CASE UNCHANGED vars
  <2>1. \A x \in Observers, g \in Nat : IsCurrent(x, g)' => IsCurrent(x, g)
    BY <1>7 DEF IsCurrent, vars
  <2> QED
    BY <1>7, <2>1, Types, NothingWrittenStep DEF vars
<1> QED
  BY <1>1, <1>2, <1>3, <1>4, <1>5, <1>6, <1>7 DEF Next

\* IInv holds in every reachable state.
THEOREM IInvCorrect == Spec => []IInv
BY InitIInv, StepIInv, PTL DEF Spec

\* The values of the lease row, the document, passes and requests stay in
\* their types; in particular nobody reads the document more than Tries times.
THEOREM TypeCorrect == Spec => []TypeOK
<1>1. IInv => TypeOK
  BY DEF IInv
<1> QED
  BY <1>1, IInvCorrect, PTL

\* Every domain has at most one active incident.
THEOREM OneActiveCorrect == Spec => []OneActivePerDomain
<1>1. IInv => OneActivePerDomain
  BY DEF IInv, DocOK, OneActivePerDomain
<1> QED
  BY <1>1, IInvCorrect, PTL

\* A pass whose fence would hold has read every committed observation.
THEOREM LeaderSeesCorrect == Spec => []LeaderSeesAllObservations
<1>1. IInv => LeaderSeesAllObservations
  BY DEF IInv
<1> QED
  BY <1>1, IInvCorrect, PTL

\* Nobody's write undoes another's: no acknowledgement, resolution or incident
\* is lost between any observers and operators.
THEOREM HistoryCorrect == Spec => HistoryKept
<1>1. ASSUME IInv, [Next]_vars
      PROVE  [MovesOn(document.history, document'.history)]_document
  <2>1. CASE document' = document
    BY <2>1
  <2>2. CASE document' # document
    <3>1. \/ \E o \in Observers : Commit(o)
          \/ \E c \in Operators : AckWrite(c)
      BY <1>1, <2>2
      DEF Next, Scheduled, vars, Elect, Observe, LoseLead, Read, Conflict, Raise, Overrun, Judge,
          Leave, Heartbeat, StopHeartbeat, Crash, Tick, Look, AckRead
    <3> QED
      BY <1>1, <2>2, <3>1, CommitWrites, AckWrites
  <2> QED
    BY <2>1, <2>2
<1> QED
  BY <1>1, IInvCorrect, PTL DEF Spec, HistoryKept

\* A live lease is given up by the pass that holds it and by nobody else.
THEOREM LeaseEndsCorrect == Spec => LeaseEndsOnlyByHolder
<1> DEFINE A == \A o \in Observers :
                  (lease.owner = o /\ lease.left > 0 /\ lease'.owner # o)
                    => pass[o].pc = "leaving" /\ pass[o].generation = lease.generation
<1>1. ASSUME IInv, [Next]_vars
      PROVE  [A]_lease
  <2>1. ASSUME NEW x \in Observers, Elect(x), NEW o \in Observers,
               lease.owner = o, lease.left > 0
        PROVE  lease'.owner = o
    BY <2>1, Bounds DEF Elect, Acquirable, Acquired
  <2>2. ASSUME NEW x \in Observers, Leave(x), NEW o \in Observers,
               lease.owner = o, lease'.owner # o
        PROVE  pass[o].pc = "leaving" /\ pass[o].generation = lease.generation
    BY <2>2 DEF Leave, Released
  <2>4. lease \in Lease
    BY <1>1, Types
  <2>5. \A n : [lease EXCEPT !.left = n].owner = lease.owner
    BY <2>4 DEF Lease
  <2>6. ASSUME NEW x \in Observers, NEW g \in 1..MaxGeneration, Heartbeat(x, g)
        PROVE  lease'.owner = lease.owner
    BY <2>5, <2>6 DEF Heartbeat
  <2>7. ASSUME Tick
        PROVE  lease'.owner = lease.owner
    BY <2>5, <2>7 DEF Tick
  <2>8. \/ \E x \in Observers : Elect(x) \/ Leave(x)
        \/ \E x \in Observers, g \in 1..MaxGeneration : Heartbeat(x, g)
        \/ Tick
        \/ lease' = lease
    BY <1>1
    DEF Next, Scheduled, vars, Observe, LoseLead, Read, Commit, Conflict, Raise, Overrun, Judge,
        StopHeartbeat, Crash, Look, AckRead, AckWrite
  <2>3. \/ \E x \in Observers : Elect(x) \/ Leave(x)
        \/ lease'.owner = lease.owner \/ lease' = lease
    BY <2>6, <2>7, <2>8
  <2> QED
    BY <2>1, <2>2, <2>3
<1> QED
  BY <1>1, IInvCorrect, PTL DEF Spec, LeaseEndsOnlyByHolder

-----------------------------------------------------------------------------
(* What an operator was shown.  A domain and opened_at name an incident;   *)
(* the observer's write adds none that is acknowledged, and while the      *)
(* version is the one that was shown, so are the open incidents.           *)

SameIncident(a, b) == a.domain = b.domain /\ a.opened_at = b.opened_at

\* The incidents of h have names of their own, older than version v but for those
\* that v opens in the domains of S.
Named(h, v, S) ==
    /\ \A i, j \in DOMAIN h : SameIncident(h[i], h[j]) => i = j
    /\ \A i \in DOMAIN h : h[i].opened_at < v \/ (h[i].opened_at = v /\ h[i].domain \in S)

\* What is acknowledged in new was acknowledged in old.
AckedBefore(old, new) ==
    \A i \in DOMAIN new : new[i].acked =>
      \E j \in DOMAIN old : old[j].acked /\ SameIncident(old[j], new[i])

LEMMA AckedBeforeTrans ==
    ASSUME NEW f, NEW g, NEW h, AckedBefore(f, g), AckedBefore(g, h)
    PROVE  AckedBefore(f, h)
BY DEF AckedBefore, SameIncident

LEMMA KeptNamed ==
    ASSUME NEW h \in History, NEW v, NEW S, Named(h, v, S)
    PROVE  Named(Kept(h), v, S) /\ AckedBefore(h, Kept(h))
<1>1. Len(h) \in Nat /\ MaxHistory \in Nat /\ Kept(h) \in History
  BY HistoryAssumption, LenProperties, KeptDropsOldest DEF HistoryAssumption, History
<1>2. CASE Len(h) <= MaxHistory
  <2>1. Kept(h) = h
    BY <1>2, KeptDropsOldest
  <2> QED
    BY <2>1 DEF AckedBefore, SameIncident
<1>3. CASE Len(h) > MaxHistory
  <2> DEFINE k == Len(h) - MaxHistory
             g == Kept(h)
  <2> HIDE DEF k
  <2>1. /\ k \in Nat /\ Len(h) = MaxHistory + k
        /\ \A n \in 1..MaxHistory : g[n] = h[n + k]
    BY <1>1, <1>3, KeptDropsOldest DEF k
  <2>2. DOMAIN g = 1..MaxHistory
    BY <1>1, <1>3, KeptDropsOldest, LenProperties DEF History
  <2>3. DOMAIN h = 1..(MaxHistory + k)
    BY <2>1, LenProperties DEF History
  <2> HIDE DEF g
  <2>4. \A n \in DOMAIN g : n \in Nat /\ n + k \in DOMAIN h /\ g[n] = h[n + k]
    BY <1>1, <2>1, <2>2, <2>3
  <2>5. \A i, j \in DOMAIN g : SameIncident(g[i], g[j]) => i = j
    <3> SUFFICES ASSUME NEW i \in DOMAIN g, NEW j \in DOMAIN g, SameIncident(g[i], g[j])
                 PROVE  i = j
      OBVIOUS
    <3>1. i + k = j + k
      BY <2>4 DEF Named
    <3> QED
      BY <2>1, <2>4, <3>1
  <2>6. \A i \in DOMAIN g : g[i].opened_at < v \/ (g[i].opened_at = v /\ g[i].domain \in S)
    BY <2>4 DEF Named
  <2>7. AckedBefore(h, g)
    BY <2>4 DEF AckedBefore, SameIncident
  <2> QED
    BY <2>5, <2>6, <2>7 DEF Named, g
<1> QED
  BY <1>1, <1>2, <1>3

LEMMA SettledNamed ==
    ASSUME NEW h \in History, NEW d \in DOMAINS, NEW p, NEW v, NEW S, Named(h, v, S)
    PROVE  Named(Settled(h, d, p), v, S) /\ AckedBefore(h, Settled(h, d, p))
<1> DEFINE g == Settled(h, d, p)
<1>1. ASSUME NEW i \in DOMAIN h
      PROVE  /\ g[i].domain = h[i].domain /\ g[i].opened_at = h[i].opened_at
             /\ g[i].acked = h[i].acked
  <2>1. h[i] \in Incident
    BY ElementOfSeq, LenProperties DEF History
  <2>2. g[i] = h[i] \/ g[i] = [h[i] EXCEPT !.status = "resolved"]
    BY DEF Settled
  <2> QED
    BY <2>1, <2>2 DEF Incident
<1>2. DOMAIN g = DOMAIN h
  BY DEF Settled
<1> HIDE DEF g
<1>3. Named(g, v, S)
  BY <1>1, <1>2 DEF Named, SameIncident
<1>4. AckedBefore(h, g)
  BY <1>1, <1>2 DEF AckedBefore, SameIncident
<1> QED
  BY <1>3, <1>4 DEF g

LEMMA ApplyDomainNamed ==
    ASSUME NEW h \in History, NEW d \in DOMAINS, NEW p \in Prints \cup {NoPrint},
           NEW v \in Nat, NEW S, Named(h, v, S), d \notin S
    PROVE  /\ Named(ApplyDomain(h, d, p, v), v, S \cup {d})
           /\ AckedBefore(h, ApplyDomain(h, d, p, v))
<1> DEFINE g == Settled(h, d, p)
           a == ApplyDomain(h, d, p, v)
<1>1. g \in History /\ Named(g, v, S) /\ AckedBefore(h, g)
  BY SettledMovesOn, SettledNamed
<1>2. CASE a = g
  BY <1>1, <1>2 DEF Named
<1>3. CASE a # g
  <2> DEFINE n == Opened(d, p, v)
             m == Len(g)
  <2>1. a = Append(g, n) /\ p # NoPrint
    BY <1>3 DEF ApplyDomain
  <2>2. n \in Incident /\ n.domain = d /\ n.opened_at = v /\ ~n.acked
    BY <2>1 DEF Incident, Opened
  <2> HIDE DEF a, g, n
  <2>3. /\ m \in Nat /\ DOMAIN g = 1..m /\ DOMAIN a = 1..(m + 1)
        /\ \A i \in 1..m : a[i] = g[i]
        /\ a[m + 1] = n
    BY <1>1, <2>1, <2>2, AppendProperties, LenProperties DEF History
  <2> HIDE DEF m
  <2>4. \A i \in DOMAIN a : (i \in DOMAIN g /\ a[i] = g[i]) \/ (i = m + 1 /\ a[i] = n)
    BY <2>3
  <2>5. \A i \in DOMAIN g : ~SameIncident(g[i], n)
    BY <1>1, <2>2 DEF Named, SameIncident
  <2>6. \A i, j \in DOMAIN a : SameIncident(a[i], a[j]) => i = j
    BY <1>1, <2>4, <2>5 DEF Named, SameIncident
  <2>7. \A i \in DOMAIN a : a[i].opened_at < v \/ (a[i].opened_at = v /\ a[i].domain \in S \cup {d})
    BY <1>1, <2>2, <2>4 DEF Named
  <2>8. AckedBefore(h, a)
    BY <1>1, <2>2, <2>4 DEF AckedBefore
  <2> QED
    BY <2>6, <2>7, <2>8 DEF Named, a
<1> QED
  BY <1>2, <1>3

LEMMA ApplyNamed ==
    ASSUME NEW h \in History, Len(h) <= MaxHistory, NEW snap \in Snapshot, NEW v \in Nat,
           Named(h, v, {})
    PROVE  /\ Named(apply_domain_incidents(h, snap, v), v, DOMAINS)
           /\ AckedBefore(h, apply_domain_incidents(h, snap, v))
<1> DEFINE h1 == ApplyDomain(h, "workload", snap["workload"], v)
           h2 == ApplyDomain(h1, "control_plane", snap["control_plane"], v)
           h3 == ApplyDomain(h2, "observability", snap["observability"], v)
<1>1. apply_domain_incidents(h, snap, v) = Kept(h3)
  BY KeptDropsOldest DEF apply_domain_incidents
<1>2. \A d \in DOMAINS : snap[d] \in Prints \cup {NoPrint}
  BY DEF Snapshot
<1>3. /\ "workload" \in DOMAINS /\ "control_plane" \in DOMAINS
      /\ "observability" \in DOMAINS
  BY DEF DOMAINS
<1>4. h1 \in History /\ Named(h1, v, {"workload"}) /\ AckedBefore(h, h1)
  <2>1. {} \cup {"workload"} = {"workload"}
    OBVIOUS
  <2>2. Named(h1, v, {} \cup {"workload"}) /\ AckedBefore(h, h1)
    BY <1>2, <1>3, ApplyDomainNamed
  <2> QED
    BY <1>2, <1>3, <2>1, <2>2, ApplyDomainKeeps DEF Extends
<1>5. h2 \in History /\ Named(h2, v, {"workload", "control_plane"}) /\ AckedBefore(h1, h2)
  <2> HIDE DEF h1
  <2>1. {"workload"} \cup {"control_plane"} = {"workload", "control_plane"}
    OBVIOUS
  <2>2. Named(h2, v, {"workload"} \cup {"control_plane"}) /\ AckedBefore(h1, h2)
    BY <1>2, <1>3, <1>4, ApplyDomainNamed
  <2> QED
    BY <1>2, <1>3, <1>4, <2>1, <2>2, ApplyDomainKeeps DEF Extends
<1>6. h3 \in History /\ Named(h3, v, DOMAINS) /\ AckedBefore(h2, h3)
  <2> HIDE DEF h2
  <2>1. {"workload", "control_plane"} \cup {"observability"} = DOMAINS
    BY DEF DOMAINS
  <2>2. /\ Named(h3, v, {"workload", "control_plane"} \cup {"observability"})
        /\ AckedBefore(h2, h3)
    BY <1>2, <1>3, <1>5, ApplyDomainNamed
  <2> QED
    BY <1>2, <1>3, <1>5, <2>1, <2>2, ApplyDomainKeeps DEF Extends
<1> HIDE DEF h1, h2, h3
<1>7. Named(Kept(h3), v, DOMAINS) /\ AckedBefore(h3, Kept(h3))
  BY <1>6, KeptNamed
<1> QED
  BY <1>1, <1>4, <1>5, <1>6, <1>7, AckedBeforeTrans

\* An acknowledgement renames nothing, and acknowledges what was open.
AcksOpen(g, h, d, p) ==
    \A i \in DOMAIN g :
      /\ i \in DOMAIN h
      /\ SameIncident(g[i], h[i])
      /\ g[i].acked => h[i].acked \/ (i \in Open(h, d, p) /\ g[i].print = p)

LEMMA AcknowledgedNamed ==
    ASSUME NEW h \in History, NEW d, NEW p, NEW v, NEW S, Named(h, v, S)
    PROVE  /\ Named(Acknowledged(h, d, p), v, S)
           /\ AcksOpen(Acknowledged(h, d, p), h, d, p)
<1> DEFINE g == Acknowledged(h, d, p)
<1>1. ASSUME NEW i \in DOMAIN h
      PROVE  /\ g[i].domain = h[i].domain /\ g[i].opened_at = h[i].opened_at
             /\ g[i].acked => h[i].acked \/ (i \in Open(h, d, p) /\ g[i].print = p)
  <2>1. h[i] \in Incident
    BY ElementOfSeq, LenProperties DEF History
  <2>2. \/ g[i] = h[i]
        \/ /\ i \in Open(h, d, p)
           /\ g[i] = [h[i] EXCEPT !.status = "acknowledged", !.acked = TRUE]
    BY DEF Acknowledged, IsLast
  <2> QED
    BY <2>1, <2>2 DEF Incident, Open
<1>2. DOMAIN g = DOMAIN h
  BY DEF Acknowledged
<1> HIDE DEF g
<1>3. Named(g, v, S)
  BY <1>1, <1>2 DEF Named, SameIncident
<1>4. AcksOpen(g, h, d, p)
  BY <1>1, <1>2 DEF AcksOpen, SameIncident
<1> QED
  BY <1>3, <1>4 DEF g

-----------------------------------------------------------------------------

\* What a request knows of the document: the version it was shown, and what was open
\* then.
ShownOK(r) ==
    /\ r.pc \in {"reading", "writing"} =>
         /\ r.expected <= document.version
         /\ r.expected = document.version =>
              \A i \in Open(document.history, r.domain, r.print) :
                document.history[i].opened_at \in r.shown
    /\ r.pc = "writing" => r.read.version = r.expected

NInv ==
    /\ IInv
    /\ Named(document.history, document.version, {})
    /\ \A c \in Operators : ShownOK(operator[c])

LEMMA OpenedInNat ==
    ASSUME NEW h \in History
    PROVE  \A i \in DOMAIN h : h[i].opened_at \in Nat
<1>1. \A i \in DOMAIN h : h[i] \in Incident
  BY ElementOfSeq, LenProperties DEF History
<1> QED
  BY <1>1 DEF Incident

LEMMA CommitNames ==
    ASSUME NInv, NEW o \in Observers, Commit(o)
    PROVE  /\ Named(document'.history, document'.version, {})
           /\ AckedBefore(document.history, document'.history)
<1>1. CopyOK(pass[o].read) /\ pass[o].read.version = document.version
  BY DEF NInv, IInv, Commit, VersionHolds
<1>2. pass[o].read.history = document.history
  BY <1>1 DEF CopyOK
<1>3. /\ document.history \in History /\ document.version \in Nat
      /\ Len(document.history) <= MaxHistory /\ pass[o].snapshot \in Snapshot
  BY Types DEF NInv, IInv, DocOK, Document, History, Pass
<1> DEFINE h == apply_domain_incidents(document.history, pass[o].snapshot, document.version)
<1>4. document' = [history |-> h, version |-> document.version + 1]
  BY <1>2 DEF Commit
<1>5. Named(h, document.version, DOMAINS) /\ AckedBefore(document.history, h)
  BY <1>3, ApplyNamed DEF NInv
<1>6. h \in History
  BY <1>3, ApplyKeeps DEF NInv, IInv, DocOK
<1> HIDE DEF h
<1>7. \A i \in DOMAIN h : h[i].opened_at \in Nat
  BY <1>6, OpenedInNat
<1>8. Named(h, document.version + 1, {})
  BY <1>3, <1>5, <1>7 DEF Named
<1> QED
  BY <1>4, <1>5, <1>8

LEMMA AckNames ==
    ASSUME NInv, NEW c \in Operators, AckWrite(c), document' # document
    PROVE  /\ Named(document'.history, document'.version, {})
           /\ \A i \in DOMAIN document'.history :
                LET new == document'.history[i]  old == document.history[i] IN
                /\ i \in DOMAIN document.history /\ SameIncident(new, old)
                /\ new.acked => \/ old.acked
                                \/ /\ operator[c].domain = new.domain
                                   /\ operator[c].print = new.print
                                   /\ new.opened_at \in operator[c].shown
<1> DEFINE d == operator[c].domain
           p == operator[c].print
           h == document.history
           g == Acknowledged(h, d, p)
<1>1. /\ CopyOK(operator[c].read) /\ operator[c].read.version = document.version
      /\ ShownOK(operator[c]) /\ operator[c].pc = "writing"
  BY DEF NInv, IInv, AckWrite, VersionHolds
<1>2. operator[c].read.history = h /\ operator[c].expected = document.version
  BY <1>1 DEF CopyOK, ShownOK
<1>3. h \in History /\ document.version \in Nat /\ Len(h) <= MaxHistory
  BY Types DEF NInv, IInv, DocOK, Document, History
<1>4. document' = [history |-> g, version |-> document.version + 1]
  BY <1>2, <1>3, KeptDropsOldest DEF AckWrite, acknowledge_incident
<1>5. Named(g, document.version, {}) /\ AcksOpen(g, h, d, p)
  <2>1. Named(h, document.version, {})
    BY DEF NInv
  <2> HIDE DEF d, p, h
  <2> QED
    BY <1>3, <2>1, AcknowledgedNamed
<1>6. \A i \in Open(h, d, p) : h[i].domain = d /\ h[i].opened_at \in operator[c].shown
  <2>1. \A i \in Open(h, d, p) : h[i].opened_at \in operator[c].shown
    BY <1>1, <1>2 DEF ShownOK
  <2> QED
    BY <2>1 DEF Open
<1> HIDE DEF g
<1>7. \A i \in DOMAIN g : g[i].opened_at \in Nat
  <2>1. \A i \in DOMAIN h : h[i].opened_at \in Nat
    BY <1>3, OpenedInNat
  <2> QED
    BY <1>5, <2>1 DEF AcksOpen, SameIncident
<1>8. Named(g, document.version + 1, {})
  BY <1>3, <1>5, <1>7 DEF Named
<1>9. document'.history = g /\ document'.version = document.version + 1
  BY <1>4
<1>10. ASSUME NEW i \in DOMAIN g
       PROVE  /\ i \in DOMAIN h /\ SameIncident(g[i], h[i])
              /\ g[i].acked => \/ h[i].acked
                               \/ d = g[i].domain /\ p = g[i].print
                                  /\ g[i].opened_at \in operator[c].shown
  BY <1>5, <1>6 DEF AcksOpen, SameIncident
<1> QED
  BY <1>8, <1>9, <1>10

\* A request that nobody answered stays shown what it was.
LEMMA ShownStays ==
    ASSUME NEW r, ShownOK(r),
           \/ document' = document
           \/ document'.version = document.version + 1 /\ document.version \in Nat
              /\ r.expected \in Nat
    PROVE  ShownOK(r)'
<1>1. CASE document' = document
  BY <1>1 DEF ShownOK
<1>2. CASE /\ document'.version = document.version + 1 /\ document.version \in Nat
           /\ r.expected \in Nat
  BY <1>2 DEF ShownOK
<1> QED
  BY <1>1, <1>2

LEMMA IdleShown == ShownOK(NoRequest)'
BY NoRequestTyped DEF ShownOK

\* A step of an observer, of its threads or of the clock.
LEMMA ObserversName ==
    ASSUME NInv, UNCHANGED operator, document' = document \/ \E o \in Observers : Commit(o)
    PROVE  /\ Named(document'.history, document'.version, {})
           /\ \A c \in Operators : ShownOK(operator[c])'
<1>1. Named(document'.history, document'.version, {})
  BY CommitNames DEF NInv
<1>2. ASSUME NEW c \in Operators
      PROVE  ShownOK(operator[c])'
  <2>1. operator[c].expected \in Nat /\ document.version \in Nat /\ ShownOK(operator[c])
    BY Types DEF NInv, Request, Document
  <2>2. document' = document \/ document'.version = document.version + 1
    BY DEF Commit
  <2> QED
    BY <2>1, <2>2, ShownStays
<1> QED
  BY <1>1, <1>2

LEMMA LookNames ==
    ASSUME NInv, NEW c \in Operators, NEW d \in DOMAINS, NEW p \in Prints, Look(c, d, p)
    PROVE  /\ Named(document'.history, document'.version, {})
           /\ \A x \in Operators : ShownOK(operator[x])'
<1>1. PICK r : /\ operator' = [operator EXCEPT ![c] = r] /\ document' = document
               /\ r = [NoRequest EXCEPT !.pc = "reading", !.domain = d, !.print = p,
                         !.expected = document.version,
                         !.shown = {document.history[i].opened_at :
                                      i \in Open(document.history, d, p)}]
  BY DEF Look
<1>2. /\ r.pc = "reading" /\ r.domain = d /\ r.print = p /\ r.expected = document.version
      /\ r.shown = {document.history[i].opened_at : i \in Open(document.history, d, p)}
  BY <1>1 DEF NoRequest
<1>3. document.version \in Nat /\ DOMAIN operator = Operators
  BY Types DEF NInv, Document
<1>4. ShownOK(r)'
  <2>1. \A i \in Open(document.history, r.domain, r.print) :
          document.history[i].opened_at \in r.shown
    BY <1>2
  <2>2. r.expected <= document.version /\ r.pc # "writing"
    BY <1>2, <1>3
  <2>3. ShownOK(r)
    BY <2>1, <2>2 DEF ShownOK
  <2> QED
    BY <1>1, <2>3 DEF ShownOK
<1>5. ASSUME NEW x \in Operators
      PROVE  ShownOK(operator[x])'
  <2>1. CASE x = c
    BY <1>1, <1>3, <1>4, <2>1 DEF ShownOK
  <2>2. CASE x # c
    <3>1. operator'[x] = operator[x] /\ ShownOK(operator[x]) /\ document' = document
      BY <1>1, <1>3, <2>2 DEF NInv
    <3> QED
      BY <3>1 DEF ShownOK
  <2> QED
    BY <2>1, <2>2
<1> QED
  BY <1>1, <1>5 DEF NInv

LEMMA AckReadNames ==
    ASSUME NInv, NEW c \in Operators, AckRead(c)
    PROVE  /\ Named(document'.history, document'.version, {})
           /\ \A x \in Operators : ShownOK(operator[x])'
<1>0. DOMAIN operator = Operators /\ operator[c] \in Request /\ document.version \in Nat
      /\ ShownOK(operator[c]) /\ operator[c].pc = "reading" /\ document' = document
  BY Types DEF NInv, Document, AckRead
<1>1. PICK r : /\ operator' = [operator EXCEPT ![c] = r]
               /\ \/ /\ r = [operator[c] EXCEPT !.pc = "writing", !.read = document]
                     /\ document.version = operator[c].expected
                  \/ r = NoRequest
  BY DEF AckRead, ExpectedHolds
<1>3. ShownOK(r)'
  <2>1. CASE r = [operator[c] EXCEPT !.pc = "writing", !.read = document]
             /\ document.version = operator[c].expected
    <3>1. /\ r.pc = "writing" /\ r.read = document /\ r.domain = operator[c].domain
          /\ r.print = operator[c].print /\ r.expected = operator[c].expected
          /\ r.shown = operator[c].shown
      BY <1>0, <2>1 DEF Request
    <3> QED
      BY <1>0, <2>1, <3>1 DEF ShownOK
  <2>2. CASE r = NoRequest
    BY <2>2, NoRequestTyped DEF ShownOK
  <2> QED
    BY <1>1, <2>1, <2>2
<1>4. ASSUME NEW x \in Operators
      PROVE  ShownOK(operator[x])'
  <2>1. CASE x = c
    BY <1>0, <1>1, <1>3, <2>1 DEF ShownOK
  <2>2. CASE x # c
    BY <1>0, <1>1, <2>2 DEF NInv, ShownOK
  <2> QED
    BY <2>1, <2>2
<1> QED
  BY <1>0, <1>4 DEF NInv

LEMMA AckWriteNames ==
    ASSUME NInv, NEW c \in Operators, AckWrite(c)
    PROVE  /\ Named(document'.history, document'.version, {})
           /\ \A x \in Operators : ShownOK(operator[x])'
<1>0. DOMAIN operator = Operators /\ document.version \in Nat
      /\ operator' = [operator EXCEPT ![c] = NoRequest]
      /\ \A x \in Operators : operator[x].expected \in Nat /\ ShownOK(operator[x])
  BY Types DEF NInv, Document, AckWrite, Request
<1>1. document' = document \/ document'.version = document.version + 1
  BY DEF AckWrite
<1>2. Named(document'.history, document'.version, {})
  BY AckNames DEF NInv
<1>3. ASSUME NEW x \in Operators
      PROVE  ShownOK(operator[x])'
  <2>1. CASE x = c
    BY <1>0, <2>1, NoRequestTyped DEF ShownOK
  <2>2. CASE x # c
    <3>1. operator'[x] = operator[x] /\ ShownOK(operator[x]) /\ operator[x].expected \in Nat
      BY <1>0, <2>2
    <3> QED
      BY <1>0, <1>1, <3>1 DEF ShownOK
  <2> QED
    BY <2>1, <2>2
<1> QED
  BY <1>2, <1>3

LEMMA StepNames ==
    ASSUME NInv, [Next]_vars
    PROVE  NInv'
<1>1. IInv'
  BY StepIInv DEF NInv
<1>2. CASE UNCHANGED operator /\ (document' = document \/ \E o \in Observers : Commit(o))
  BY <1>1, <1>2, ObserversName DEF NInv
<1>3. CASE \E c \in Operators, d \in DOMAINS, p \in Prints : Look(c, d, p)
  BY <1>1, <1>3, LookNames DEF NInv
<1>4. CASE \E c \in Operators : AckRead(c) \/ AckWrite(c)
  BY <1>1, <1>4, AckReadNames, AckWriteNames DEF NInv
<1>5. \/ UNCHANGED operator /\ (document' = document \/ \E o \in Observers : Commit(o))
      \/ \E c \in Operators, d \in DOMAINS, p \in Prints : Look(c, d, p)
      \/ \E c \in Operators : AckRead(c) \/ AckWrite(c)
  BY DEF Next, Scheduled, vars, Elect, Observe, LoseLead, Read, Commit, Conflict, Raise, Overrun,
         Judge, Leave, Heartbeat, StopHeartbeat, Crash, Tick
<1> QED
  BY <1>2, <1>3, <1>4, <1>5

LEMMA InitNames == Init => NInv
<1> SUFFICES ASSUME Init PROVE NInv
  OBVIOUS
<1>1. IInv
  BY InitIInv
<1>2. document.history = <<>> /\ DOMAIN <<>> = {}
  BY DEF Init
<1>3. \A c \in Operators : ShownOK(operator[c])
  BY NoRequestTyped DEF Init, ShownOK
<1> QED
  BY <1>1, <1>2, <1>3 DEF NInv, Named

\* An incident is acknowledged only by an operator who was shown that very incident
\* open: a later incident with the same fingerprint has another version, and the
\* request carries the version it was shown (expected_version in incident_api.py).
THEOREM AckedShownCorrect == Spec => AckedWasShown
<1> DEFINE Shown(i) ==
             LET new == document'.history[i]
                 Same(old) == old.domain = new.domain /\ old.opened_at = new.opened_at
             IN  (new.acked /\ \E j \in DOMAIN document.history :
                                 Same(document.history[j]) /\ ~document.history[j].acked)
                   => \E c \in Operators :
                        /\ operator[c].domain = new.domain /\ operator[c].print = new.print
                        /\ new.opened_at \in operator[c].shown
<1>1. ASSUME NInv, [Next]_vars, document' # document, NEW i \in DOMAIN document'.history
      PROVE  Shown(i)
  <2> DEFINE new == document'.history[i]
  <2> SUFFICES ASSUME new.acked,
                      NEW j \in DOMAIN document.history,
                      SameIncident(document.history[j], new), ~document.history[j].acked
               PROVE  \E c \in Operators :
                        /\ operator[c].domain = new.domain /\ operator[c].print = new.print
                        /\ new.opened_at \in operator[c].shown
    BY DEF SameIncident
  <2>1. \A k \in DOMAIN document.history :
          SameIncident(document.history[k], new) => k = j
    BY <1>1 DEF NInv, Named, SameIncident
  <2>2. \/ \E o \in Observers : Commit(o)
        \/ \E c \in Operators : AckWrite(c)
    BY <1>1
    DEF Next, Scheduled, vars, Elect, Observe, LoseLead, Read, Conflict, Raise, Overrun, Judge,
        Leave, Heartbeat, StopHeartbeat, Crash, Tick, Look, AckRead
  <2>3. ASSUME NEW o \in Observers, Commit(o)
        PROVE  FALSE
    <3>1. AckedBefore(document.history, document'.history)
      BY <1>1, <2>3, CommitNames
    <3>2. PICK k \in DOMAIN document.history :
            document.history[k].acked /\ SameIncident(document.history[k], new)
      BY <1>1, <3>1 DEF AckedBefore
    <3> QED
      BY <2>1, <3>2
  <2>4. ASSUME NEW c \in Operators, AckWrite(c)
        PROVE  /\ operator[c].domain = new.domain /\ operator[c].print = new.print
               /\ new.opened_at \in operator[c].shown
    <3>1. /\ i \in DOMAIN document.history /\ SameIncident(new, document.history[i])
          /\ new.acked => \/ document.history[i].acked
                          \/ /\ operator[c].domain = new.domain
                             /\ operator[c].print = new.print
                             /\ new.opened_at \in operator[c].shown
      BY <1>1, <2>4, AckNames
    <3>2. i = j
      BY <2>1, <3>1 DEF SameIncident
    <3> QED
      BY <3>1, <3>2
  <2> QED
    BY <2>2, <2>3, <2>4
<1> HIDE DEF Shown
<1>2. NInv /\ [Next]_vars => [\A i \in DOMAIN document'.history : Shown(i)]_document
  BY <1>1
<1> USE DEF Shown
<1> QED
  BY <1>2, InitNames, StepNames, PTL DEF Spec, AckedWasShown
=============================================================================
