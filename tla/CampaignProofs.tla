---------------------------- MODULE CampaignProofs ----------------------------
(***************************************************************************)
(* What a campaign keeps, for any findings, requests, workers and faults:  *)
(* no save loses another one, a verdict is final and rests on an           *)
(* observation, no finding is forgotten, completions are backed, one start *)
(* pends, the audit repeats only what it may, and cancelled is final.      *)
(*                                                                         *)
(* The argument is the one of every compare-and-save: the version a        *)
(* process read is never ahead of the saved one, and when they are equal   *)
(* its copy is the document (CopyOK).  A save that is not refused hence    *)
(* edits the document itself, and it is left to see that every edit only   *)
(* Extends it.  LocalOK adds what a handler or worker knew when it read.   *)
(*                                                                         *)
(* Then the events: what is appended is news (NewsOK), because a process   *)
(* that is about to append it looked into the copy it saves (AInv).  Last  *)
(* the cancel: who saves something else than an outcome or a review's      *)
(* completion read an open campaign (FromOpen), and nobody who may still   *)
(* complete a job holds one that was idle when it was cancelled (CInv).    *)
(***************************************************************************)
EXTENDS Campaign, FiniteSetTheorems, SequenceTheorems, NaturalsInduction,
        WellFoundedInduction, TLAPS

\* The events are some sequence; what they hold does not matter here.
IsSeq(s) == \E S : s \in Seq(S)

IsDoc(d) ==
    /\ DOMAIN d = {"state", "findings", "events", "idle"}
    /\ d.findings \in [Findings -> Statuses]
    /\ IsSeq(d.events)

IsLocal(r) == DOMAIN r = {"pc", "req", "doc", "ver", "plan", "seen", "mode", "tries"}

\* d was edited to e: nothing is lost, no verdict changed.
Extends(d, e) ==
    /\ IsDoc(e)
    /\ IsPrefixOf(d.events, e.events)
    /\ Present(d) \subseteq Present(e)
    /\ \A f \in Findings : d.findings[f] \in Resolved => e.findings[f] = d.findings[f]

KnownIn(j, k) == k \in JobKeys /\ j[k].status # "absent"

\* What d says is backed by the graph g and the jobs j.
Backed(d, g, j) ==
    \A f \in Findings :
        /\ d.findings[f] \in Resolved => f \in g.observed
        /\ f \in Present(d) => \/ KnownIn(j, Validation(f))
                               \/ Has(d, Requested(Validation(f)))

CopyOK(r, d, v) ==
    /\ r.ver \in Nat /\ r.ver <= v
    /\ r.ver = v => r.doc = d

LocalOK(r, g, j) ==
    /\ r.pc = "new" => /\ r.req.of \in Findings
                       /\ r.req = Validation(r.req.of)
                       /\ r.doc.findings[r.req.of] = "absent"
    /\ r.pc = "verdict" => /\ r.req.of \in g.observed
                           /\ r.mode \in Resolved
                           /\ r.doc.findings[r.req.of] \notin Resolved \ {r.mode}
                           /\ r.doc.findings[r.req.of] # "absent"
    /\ r.pc = "save" => \A f \in r.seen : /\ f \in Findings
                                          /\ r.doc.findings[f] = "absent"
                                          /\ Validation(f) \in r.plan \/ KnownIn(j, Validation(f))
    /\ r.pc \in {"load", "work"} => r.req \in JobKeys
    /\ r.pc = "close" => r.mode # "absent"
    /\ r.pc = "repair" => r.plan \subseteq JobKeys

Graphs == [found : SUBSET Findings, attempted : SUBSET Findings, observed : SUBSET Findings,
           scanned : BOOLEAN, stage : Stages]

SharedOK ==
    /\ IsDoc(doc)
    /\ version \in Nat \ {0}
    /\ graph \in Graphs
    /\ DOMAIN jobs = JobKeys
    /\ Backed(doc, graph, jobs)

ProcOK(r) == IsLocal(r) /\ CopyOK(r, doc, version) /\ LocalOK(r, graph, jobs)

IInv ==
    /\ SharedOK
    /\ DOMAIN proc = Processes
    /\ \A p \in Processes : ProcOK(proc[p])

-----------------------------------------------------------------------------
(* Sequences and finite sets.                                              *)

LEMMA Appended ==
    ASSUME NEW s, NEW t, IsSeq(s), IsSeq(t)
    PROVE  IsSeq(s \o t) /\ IsPrefixOf(s, s \o t)
<1>1. PICK S : s \in Seq(S)
  BY DEF IsSeq
<1>2. PICK T : t \in Seq(T)
  BY DEF IsSeq
<1>3. s \in Seq(S \cup T) /\ t \in Seq(S \cup T)
  BY <1>1, <1>2
<1>4. /\ s \o t \in Seq(S \cup T)
      /\ Len(s \o t) = Len(s) + Len(t)
      /\ \A i \in 1..Len(s) + Len(t) :
           (s \o t)[i] = IF i <= Len(s) THEN s[i] ELSE t[i - Len(s)]
  BY <1>3, ConcatProperties
<1>5. SubSeq(s \o t, 1, Len(s)) = s
  BY <1>3, <1>4
<1> QED
  BY <1>3, <1>4, <1>5 DEF IsSeq, IsPrefixOf

LEMMA PrefixRefl ==
    ASSUME NEW s, IsSeq(s)
    PROVE  IsPrefixOf(s, s)
BY DEF IsSeq, IsPrefixOf

LEMMA Singles == IsSeq(<<>>) /\ (\A x : IsSeq(<<x>>)) /\ (\A x, y : IsSeq(<<x, y>>))
<1>1. <<>> \in Seq({})
  OBVIOUS
<1>2. \A x : <<x>> \in Seq({x})
  OBVIOUS
<1>3. \A x, y : <<x, y>> \in Seq({x, y})
  OBVIOUS
<1> QED
  BY <1>1, <1>2, <1>3 DEF IsSeq

LEMMA KeptEvents ==
    ASSUME NEW d, NEW e, IsDoc(d), IsPrefixOf(d.events, e.events), IsDoc(e), NEW x, Has(d, x)
    PROVE  Has(e, x)
<1>1. PICK S : d.events \in Seq(S)
  BY DEF IsDoc, IsSeq
<1>2. PICK T : e.events \in Seq(T)
  BY DEF IsDoc, IsSeq
<1>3. PICK i \in DOMAIN d.events : d.events[i] = x
  BY DEF Has
<1>4. i \in 1..Len(d.events) /\ i \in 1..Len(e.events)
  BY <1>1, <1>2, <1>3 DEF IsPrefixOf
<1>5. SubSeq(e.events, 1, Len(d.events))[i] = e.events[i]
  BY <1>1, <1>2, <1>4 DEF IsPrefixOf
<1> QED
  BY <1>2, <1>3, <1>4, <1>5 DEF IsPrefixOf, Has

LEMMA FiniteKeys == IsFiniteSet(JobKeys)
<1> DEFINE A == {Validation(f) : f \in Findings}
           B == {Manual(c) : c \in Clients}
           C(kind) == {Key(kind, s) : s \in Stages}
<1>1. IsFiniteSet(A)
  <2> DEFINE g == [f \in Findings |-> Validation(f)]
  <2>1. g \in Surjection(Findings, A)
    BY DEF Surjection
  <2> QED
    BY <2>1, RecordAssumption, FS_Surjection DEF RecordAssumption
<1>2. IsFiniteSet(B)
  <2> DEFINE g == [c \in Clients |-> Manual(c)]
  <2>1. g \in Surjection(Clients, B)
    BY DEF Surjection
  <2> QED
    BY <2>1, RecordAssumption, FS_Surjection DEF RecordAssumption
<1>3. ASSUME NEW kind
      PROVE  IsFiniteSet(C(kind))
  <2>1. C(kind) = ({Key(kind, "seeded")} \cup {Key(kind, "known")}) \cup {Key(kind, "mapped")}
    BY DEF Stages
  <2>2. IsFiniteSet({Key(kind, "seeded")})
    BY FS_Singleton
  <2>3. IsFiniteSet({Key(kind, "seeded")} \cup {Key(kind, "known")})
    BY <2>2, FS_AddElement
  <2> HIDE DEF C
  <2> QED
    BY <2>1, <2>3, FS_AddElement
<1>4. IsFiniteSet({Completion})
  BY FS_Singleton
<1>5. JobKeys = ((((A \cup B) \cup {Completion}) \cup C("scan")) \cup C("recon")) \cup C("browser")
  BY DEF JobKeys, Scan, Recon, Browser
<1> HIDE DEF A, B, C
<1>6. IsFiniteSet(A \cup B)
  BY <1>1, <1>2, FS_Union
<1>7. IsFiniteSet((A \cup B) \cup {Completion})
  BY <1>6, <1>4, FS_Union
<1>8. IsFiniteSet(((A \cup B) \cup {Completion}) \cup C("scan"))
  BY <1>7, <1>3, FS_Union
<1>9. IsFiniteSet((((A \cup B) \cup {Completion}) \cup C("scan")) \cup C("recon"))
  BY <1>8, <1>3, FS_Union
<1> QED
  BY <1>5, <1>9, <1>3, FS_Union

LEMMA RepairsSeq ==
    ASSUME NEW d, NEW keys \in SUBSET JobKeys
    PROVE  IsSeq(Repairs(d, keys))
<1> DEFINE n == Cardinality(keys)
           E == {Repairs(d, keys)[i] : i \in 1..n}
<1>1. n \in Nat
  BY FiniteKeys, FS_Subset, FS_CardinalityType
<1>2. DOMAIN Repairs(d, keys) = 1..n
  BY DEF Repairs
<1>3. Repairs(d, keys) = [i \in 1..n |-> Repairs(d, keys)[i]]
  BY DEF Repairs
<1>4. Repairs(d, keys) \in [1..n -> E]
  BY <1>3
<1>5. Repairs(d, keys) \in Seq(E)
  BY <1>1, <1>4, SeqDef
<1> QED
  BY <1>5 DEF IsSeq

-----------------------------------------------------------------------------
(* Edits of the document.                                                  *)

LEMMA EditedFields ==
    ASSUME NEW d, IsDoc(d), NEW state, NEW findings, NEW events
    PROVE  LET e == Edited(d, state, findings, events) IN
           /\ DOMAIN e = {"state", "findings", "events", "idle"}
           /\ e.findings = findings
           /\ e.events = d.events \o events
           /\ e.state = state
BY DEF IsDoc, Edited

\* An edit that keeps the findings, or opens new ones, or judges one.
LEMMA EditExtends ==
    ASSUME NEW d, IsDoc(d), NEW state, NEW events, IsSeq(events),
           NEW findings \in [Findings -> Statuses],
           \A f \in Findings : d.findings[f] # "absent" =>
              /\ findings[f] # "absent"
              /\ d.findings[f] \in Resolved => findings[f] = d.findings[f]
    PROVE  /\ Extends(d, Edited(d, state, findings, events))
           /\ \A x : Has(d, x) => Has(Edited(d, state, findings, events), x)
<1> DEFINE e == Edited(d, state, findings, events)
<1>1. /\ DOMAIN e = {"state", "findings", "events", "idle"}
      /\ e.findings = findings /\ e.events = d.events \o events
  BY EditedFields
<1>2. IsSeq(e.events) /\ IsPrefixOf(d.events, e.events)
  BY <1>1, Appended DEF IsDoc
<1> HIDE DEF e
<1>3. IsDoc(e)
  BY <1>1, <1>2 DEF IsDoc
<1>4. Present(d) \subseteq Present(e)
  BY <1>1 DEF Present
<1>5. \A f \in Findings : d.findings[f] \in Resolved => e.findings[f] = d.findings[f]
  BY <1>1 DEF Resolved
<1>6. \A x : Has(d, x) => Has(e, x)
  BY <1>2, <1>3, KeptEvents
<1> QED
  BY <1>2, <1>3, <1>4, <1>5, <1>6 DEF Extends, e

LEMMA SameFindings ==
    ASSUME IInv, NEW state, NEW events, IsSeq(events)
    PROVE  LET e == Edited(doc, state, doc.findings, events) IN
           Extends(doc, e) /\ Backed(e, graph, jobs)
<1> DEFINE e == Edited(doc, state, doc.findings, events)
<1>1. IsDoc(doc) /\ Backed(doc, graph, jobs) /\ doc.findings \in [Findings -> Statuses]
  BY DEF IInv, SharedOK, IsDoc
<1>2. Extends(doc, e) /\ \A x : Has(doc, x) => Has(e, x)
  BY <1>1, EditExtends
<1>3. e.findings = doc.findings
  BY <1>1, EditedFields
<1> HIDE DEF e
<1>4. Present(e) = Present(doc)
  BY <1>3 DEF Present
<1>5. Backed(e, graph, jobs)
  BY <1>1, <1>2, <1>3, <1>4 DEF Backed
<1> QED
  BY <1>2, <1>5 DEF e

-----------------------------------------------------------------------------
(* One process moves.                                                      *)

Step == IInv' /\ (doc' = doc \/ Extends(doc, doc'))

\* The graph and the jobs only grow.
Grows ==
    /\ graph' \in Graphs /\ graph.observed \subseteq graph'.observed
    /\ DOMAIN jobs' = JobKeys
    /\ \A k \in JobKeys : jobs[k].status # "absent" => jobs'[k].status # "absent"

LEMMA LocalKept ==
    ASSUME Grows, NEW r, LocalOK(r, graph, jobs)
    PROVE  LocalOK(r, graph', jobs')
<1>1. \A k : KnownIn(jobs, k) => KnownIn(jobs', k)
  BY DEF Grows, KnownIn
<1> QED
  BY <1>1 DEF Grows, LocalOK

LEMMA BackedKept ==
    ASSUME Grows, NEW d, Backed(d, graph, jobs)
    PROVE  Backed(d, graph', jobs')
<1>1. \A k : KnownIn(jobs, k) => KnownIn(jobs', k)
  BY DEF Grows, KnownIn
<1> QED
  BY <1>1 DEF Grows, Backed

\* Process p does anything but save.
LEMMA Moves ==
    ASSUME IInv, Grows, UNCHANGED <<doc, version>>, NEW p \in Processes, NEW r,
           proc' = [proc EXCEPT ![p] = r],
           IsLocal(r), CopyOK(r, doc, version), LocalOK(r, graph', jobs')
    PROVE  Step
<1>1. SharedOK'
  BY BackedKept DEF IInv, SharedOK, Grows
<1>2. DOMAIN proc' = Processes /\ proc'[p] = r
  BY DEF IInv
<1>3. ASSUME NEW q \in Processes
      PROVE  ProcOK(proc[q])'
  <2>1. CASE q = p
    BY <1>2, <2>1 DEF ProcOK
  <2>2. CASE q # p
    <3>1. proc'[q] = proc[q] /\ ProcOK(proc[q])
      BY <2>2 DEF IInv
    <3> QED
      BY <3>1, LocalKept DEF ProcOK
  <2> QED
    BY <2>1, <2>2
<1> QED
  BY <1>1, <1>2, <1>3 DEF IInv, Step

\* Process p saves, and keeps no copy.
LEMMA Saves ==
    ASSUME IInv, UNCHANGED <<graph, jobs>>, NEW p \in Processes, NEW r, NEW e,
           doc' = e, version' = version + 1, Extends(doc, e), Backed(e, graph, jobs),
           proc' = [proc EXCEPT ![p] = r],
           IsLocal(r), r.ver = 0, LocalOK(r, graph, jobs)
    PROVE  Step
<1>0. version \in Nat \ {0}
  BY DEF IInv, SharedOK
<1>1. SharedOK'
  BY <1>0 DEF IInv, SharedOK, Extends
<1>2. DOMAIN proc' = Processes /\ proc'[p] = r
  BY DEF IInv
<1>3. ASSUME NEW q \in Processes
      PROVE  ProcOK(proc[q])'
  <2>1. CASE q = p
    <3>1. CopyOK(r, doc', version')
      BY <1>0 DEF CopyOK
    <3> QED
      BY <1>2, <2>1, <3>1 DEF ProcOK
  <2>2. CASE q # p
    <3>1. proc'[q] = proc[q] /\ ProcOK(proc[q])
      BY <2>2 DEF IInv
    <3>2. CopyOK(proc[q], doc', version')
      BY <3>1, <1>0 DEF ProcOK, CopyOK
    <3> QED
      BY <3>1, <3>2 DEF ProcOK
  <2> QED
    BY <2>1, <2>2
<1> QED
  BY <1>1, <1>2, <1>3 DEF IInv, Step

-----------------------------------------------------------------------------
(* The forms in which actions move a process.                              *)

\* Nothing is claimed of a process that stands elsewhere.
Telling == {"new", "verdict", "load", "work", "save", "close", "repair"}

LEMMA Elsewhere ==
    ASSUME NEW r, r.pc \notin Telling, NEW g, NEW j
    PROVE  LocalOK(r, g, j)
BY DEF LocalOK, Telling

LEMMA AtFields ==
    ASSUME NEW pc, NEW req
    PROVE  LET r == At(pc, req) IN
           /\ IsLocal(r) /\ r.pc = pc /\ r.ver = 0
BY DEF At, IsLocal

LEMMA NoCopy ==
    ASSUME IInv, NEW r, r.ver = 0
    PROVE  CopyOK(r, doc, version)
BY DEF IInv, SharedOK, CopyOK

LEMMA QuietGrows ==
    ASSUME IInv, UNCHANGED <<graph, jobs>>
    PROVE  Grows
BY DEF IInv, SharedOK, Grows

LEMMA LeaveKeeps ==
    ASSUME IInv, Grows, UNCHANGED <<doc, version>>, NEW p \in Processes, NEW pc, NEW req,
           pc \notin Telling,
           proc' = [proc EXCEPT ![p] = At(pc, req)]
    PROVE  Step
<1> DEFINE r == At(pc, req)
<1>1. IsLocal(r) /\ r.pc = pc /\ r.ver = 0
  BY AtFields
<1>2. proc' = [proc EXCEPT ![p] = r]
  OBVIOUS
<1> HIDE DEF r
<1>3. LocalOK(r, graph', jobs') /\ CopyOK(r, doc, version)
  BY <1>1, Elsewhere, NoCopy
<1> QED
  BY <1>1, <1>2, <1>3, Moves

\* p reads the campaign.
LEMMA LoadedFields ==
    ASSUME IInv, NEW p \in Processes, NEW pc
    PROVE  LET r == Loaded(p, pc) IN
           /\ IsLocal(r) /\ r.pc = pc /\ r.doc = doc /\ r.ver = version
           /\ r.req = proc[p].req /\ r.mode = proc[p].mode /\ r.plan = proc[p].plan
           /\ r.seen = proc[p].seen
<1>1. IsLocal(proc[p])
  BY DEF IInv, ProcOK
<1> QED
  BY <1>1 DEF Loaded, IsLocal

LEMMA Fresh ==
    ASSUME IInv, NEW r, r.doc = doc, r.ver = version
    PROVE  CopyOK(r, doc, version)
BY DEF IInv, SharedOK, CopyOK

LEMMA LoadKeeps ==
    ASSUME IInv, UNCHANGED shared, NEW p \in Processes, NEW pc, pc \notin Telling \ {"work"},
           proc' = [proc EXCEPT ![p] = Loaded(p, pc)],
           pc = "work" => proc[p].req \in JobKeys
    PROVE  Step
<1> DEFINE r == Loaded(p, pc)
<1>1. IsLocal(r) /\ r.pc = pc /\ r.doc = doc /\ r.ver = version /\ r.req = proc[p].req
  BY LoadedFields
<1>2. proc' = [proc EXCEPT ![p] = r]
  OBVIOUS
<1> HIDE DEF r
<1>3. LocalOK(r, graph', jobs') /\ CopyOK(r, doc, version)
  BY <1>1, Fresh DEF LocalOK, Telling
<1>4. Grows /\ UNCHANGED <<doc, version>>
  BY QuietGrows DEF shared
<1> QED
  BY <1>1, <1>2, <1>3, <1>4, Moves

LEMMA TakeFields ==
    ASSUME IInv, NEW p \in Processes, NEW pc, NEW req
    PROVE  LET r == [Loaded(p, pc) EXCEPT !.req = req] IN
           /\ IsLocal(r) /\ r.pc = pc /\ r.doc = doc /\ r.ver = version /\ r.req = req
<1> DEFINE l == Loaded(p, pc)
<1>1. IsLocal(l) /\ l.pc = pc /\ l.doc = doc /\ l.ver = version
  BY LoadedFields
<1> HIDE DEF l
<1>2. LET r == [l EXCEPT !.req = req] IN
      /\ IsLocal(r) /\ r.pc = pc /\ r.doc = doc /\ r.ver = version /\ r.req = req
  BY <1>1 DEF IsLocal
<1> QED
  BY <1>2 DEF l

LEMMA TakeKeeps ==
    ASSUME IInv, UNCHANGED shared, NEW p \in Processes, NEW pc, NEW req, Take(p, pc, req),
           pc = "new" => /\ req.of \in Findings /\ req = Validation(req.of)
                         /\ doc.findings[req.of] = "absent",
           pc \notin Telling \ {"new"}
    PROVE  Step
<1> DEFINE r == [Loaded(p, pc) EXCEPT !.req = req]
<1>1. IsLocal(r) /\ r.pc = pc /\ r.doc = doc /\ r.ver = version /\ r.req = req
  BY TakeFields
<1>2. proc' = [proc EXCEPT ![p] = r]
  BY DEF Take
<1> HIDE DEF r
<1>3. LocalOK(r, graph', jobs') /\ CopyOK(r, doc, version)
  BY <1>1, Fresh DEF LocalOK, Telling
<1>4. Grows /\ UNCHANGED <<doc, version>>
  BY QuietGrows DEF shared
<1> QED
  BY <1>1, <1>2, <1>3, <1>4, Moves

\* p turns to pc with a plan, on what it has read.
Turns(p, pc, plan) ==
    proc' = [proc EXCEPT ![p] = [proc[p] EXCEPT !.pc = pc, !.plan = plan]]

LEMMA PlanKeeps ==
    ASSUME IInv, UNCHANGED shared, NEW p \in Processes, NEW pc, NEW plan, Turns(p, pc, plan),
           pc \notin Telling \ {"repair"}, pc = "repair" => plan \subseteq JobKeys
    PROVE  Step
<1> DEFINE r == [proc[p] EXCEPT !.pc = pc, !.plan = plan]
<1>0. IsLocal(proc[p])
  BY DEF IInv, ProcOK
<1>1. /\ IsLocal(r) /\ r.pc = pc /\ r.plan = plan /\ r.doc = proc[p].doc
      /\ r.ver = proc[p].ver
  BY <1>0 DEF IsLocal
<1>2. proc' = [proc EXCEPT ![p] = r]
  BY DEF Turns
<1> HIDE DEF r
<1>3. LocalOK(r, graph', jobs')
  BY <1>1 DEF LocalOK, Telling
<1>4. CopyOK(r, doc, version)
  BY <1>1 DEF IInv, ProcOK, CopyOK
<1>5. Grows /\ UNCHANGED <<doc, version>>
  BY QuietGrows DEF shared
<1> QED
  BY <1>1, <1>2, <1>3, <1>4, <1>5, Moves

\* w closes the job it works on.
LEMMA CloseKeeps ==
    ASSUME IInv, Grows, UNCHANGED <<doc, version>>, NEW w \in Processes, NEW mode,
           Close(w, mode), mode # "absent"
    PROVE  Step
<1> DEFINE r == [At("close", Job(w)) EXCEPT !.mode = mode]
<1>1. IsLocal(r) /\ r.pc = "close" /\ r.ver = 0 /\ r.mode = mode
  BY DEF At, IsLocal
<1>2. proc' = [proc EXCEPT ![w] = r]
  BY DEF Close
<1> HIDE DEF r
<1>3. LocalOK(r, graph', jobs') /\ CopyOK(r, doc, version)
  BY <1>1, NoCopy DEF LocalOK
<1> QED
  BY <1>1, <1>2, <1>3, Moves

LEMMA RetryKeeps ==
    ASSUME IInv, UNCHANGED shared, NEW p \in Processes, NEW pc, NEW else, Retry(p, pc, else),
           pc \notin Telling, else \notin Telling
    PROVE  Step
<1>1. Grows /\ UNCHANGED <<doc, version>>
  BY QuietGrows DEF shared
<1>2. CASE proc[p].tries + 1 < MaxTries
  <2> DEFINE r == [At(pc, proc[p].req) EXCEPT !.tries = proc[p].tries + 1]
  <2>1. IsLocal(r) /\ r.pc = pc /\ r.ver = 0
    BY DEF At, IsLocal
  <2>2. proc' = [proc EXCEPT ![p] = r]
    BY <1>2 DEF Retry
  <2> HIDE DEF r
  <2>3. LocalOK(r, graph', jobs') /\ CopyOK(r, doc, version)
    BY <2>1, Elsewhere, NoCopy
  <2> QED
    BY <1>1, <2>1, <2>2, <2>3, Moves
<1>3. CASE ~(proc[p].tries + 1 < MaxTries)
  BY <1>1, <1>3, LeaveKeeps DEF Retry
<1> QED
  BY <1>2, <1>3

\* A save that is not refused edits the document.
LEMMA OwnCopy ==
    ASSUME IInv, NEW p \in Processes, Unchanged(p)
    PROVE  proc[p].doc = doc
BY DEF IInv, ProcOK, CopyOK, Unchanged

LEMMA CommitKeeps ==
    ASSUME IInv, NEW p \in Processes, NEW d, NEW pc, NEW req, pc \notin Telling,
           Commit(d), Extends(doc, d), Backed(d, graph, jobs),
           proc' = [proc EXCEPT ![p] = At(pc, req)], UNCHANGED <<graph, jobs>>
    PROVE  Step
<1> DEFINE r == At(pc, req)
<1>1. IsLocal(r) /\ r.pc = pc /\ r.ver = 0
  BY AtFields
<1>2. proc' = [proc EXCEPT ![p] = r] /\ doc' = d /\ version' = version + 1
  BY DEF Commit
<1> HIDE DEF r
<1>3. LocalOK(r, graph, jobs)
  BY <1>1, Elsewhere
<1> QED
  BY <1>1, <1>2, <1>3, Saves

LEMMA SaveThenKeeps ==
    ASSUME IInv, NEW c \in Processes, NEW d, NEW pc, pc \notin Telling, SaveThen(c, d, pc),
           Unchanged(c) => Extends(doc, d) /\ Backed(d, graph, jobs)
    PROVE  Step
<1>1. UNCHANGED <<graph, jobs>>
  BY DEF SaveThen
<1>2. CASE Unchanged(c)
  <2>1. Commit(d) /\ \E req : proc' = [proc EXCEPT ![c] = At(pc, req)]
    BY <1>2 DEF SaveThen, Done, Leave, Goto
  <2> QED
    BY <1>1, <1>2, <2>1, CommitKeeps
<1>3. CASE ~Unchanged(c)
  <2>1. UNCHANGED <<doc, version>> /\ proc' = [proc EXCEPT ![c] = At("done", NoKey)]
    BY <1>3 DEF SaveThen, Done, Leave
  <2> QED
    BY <1>1, <2>1, LeaveKeeps, QuietGrows DEF Telling
<1> QED
  BY <1>2, <1>3

\* One enqueue of a plan.
LEMMA EnqueueKeeps ==
    ASSUME IInv, NEW p \in Processes, NEW k, Enqueue(p, k)
    PROVE  Step
<1> DEFINE r == [proc[p] EXCEPT !.plan = proc[p].plan \ {k}]
<1>1. ProcOK(proc[p])
  BY DEF IInv
<1>2. /\ IsLocal(r) /\ r.pc = proc[p].pc /\ r.doc = proc[p].doc /\ r.ver = proc[p].ver
      /\ r.req = proc[p].req /\ r.mode = proc[p].mode /\ r.seen = proc[p].seen
      /\ r.plan = proc[p].plan \ {k}
  BY <1>1 DEF ProcOK, IsLocal
<1>3. /\ proc' = [proc EXCEPT ![p] = r] /\ UNCHANGED <<doc, version, graph>>
      /\ jobs' = Enqueued(k)
  BY DEF Enqueue
<1> HIDE DEF r
<1>4. Grows /\ (k \in JobKeys => KnownIn(jobs', k))
  BY <1>3 DEF IInv, SharedOK, Grows, Enqueued, Known, KnownIn, JobRow
<1>5. \A f \in Findings : Validation(f) \in JobKeys
  BY DEF JobKeys
<1>6. LocalOK(proc[p], graph', jobs')
  BY <1>1, <1>4, LocalKept DEF ProcOK
<1>7. LocalOK(r, graph', jobs')
  BY <1>2, <1>4, <1>5, <1>6 DEF LocalOK
<1>8. CopyOK(r, doc, version)
  BY <1>1, <1>2 DEF ProcOK, CopyOK
<1> QED
  BY <1>2, <1>3, <1>4, <1>7, <1>8, Moves

-----------------------------------------------------------------------------
(* The control plane.                                                      *)

LEMMA DoneKeeps ==
    ASSUME IInv, UNCHANGED shared, NEW c \in Processes, Done(c)
    PROVE  Step
<1>1. Grows /\ UNCHANGED <<doc, version>>
  BY QuietGrows DEF shared
<1> QED
  BY <1>1, LeaveKeeps DEF Done, Leave, Telling

LEMMA GotoKeeps ==
    ASSUME IInv, UNCHANGED shared, NEW p \in Processes, NEW pc, pc \notin Telling, Goto(p, pc)
    PROVE  Step
<1>1. Grows /\ UNCHANGED <<doc, version>>
  BY QuietGrows DEF shared
<1> QED
  BY <1>1, LeaveKeeps DEF Goto

LEMMA LoggedGood ==
    ASSUME IInv, NEW c \in Processes, Unchanged(c), NEW x
    PROVE  Extends(doc, Logged(Snapshot(c), x)) /\ Backed(Logged(Snapshot(c), x), graph, jobs)
BY OwnCopy, SameFindings, Singles DEF Logged, Snapshot

LEMMA StartReadKeeps ==
    ASSUME IInv, NEW c \in Clients, StartRead(c)
    PROVE  Step
<1>1. UNCHANGED shared /\ (Done(c) \/ \E pc, req : pc \notin Telling /\ Take(c, pc, req))
  BY DEF StartRead, ReadOnly, Telling
<1> QED
  BY <1>1, DoneKeeps, TakeKeeps DEF Processes, Telling

LEMMA LogSaveKeeps ==
    ASSUME IInv, NEW c \in Clients, NEW x, NEW pc, pc \notin Telling,
           SaveThen(c, Logged(Snapshot(c), x), pc)
    PROVE  Step
<1>1. c \in Processes
  BY DEF Processes
<1> QED
  BY <1>1, LoggedGood, SaveThenKeeps

LEMMA IntentsKeep ==
    ASSUME IInv, NEW c \in Clients, StartBlocked(c) \/ SaveIntent(c) \/ SaveRequest(c)
    PROVE  Step
<1>1. \E x, pc : pc \notin Telling /\ SaveThen(c, Logged(Snapshot(c), x), pc)
  BY DEF StartBlocked, SaveIntent, SaveRequest, Telling
<1> QED
  BY <1>1, LogSaveKeeps

LEMMA StartPlanKeeps ==
    ASSUME IInv, NEW c \in Clients, StartPlan(c)
    PROVE  Step
<1>1. /\ UNCHANGED shared
      /\ \/ Done(c)
         \/ \E plan : Turns(c, "enqueue", plan)
  BY DEF StartPlan, ReadOnly, Turns
<1> QED
  BY <1>1, DoneKeeps, PlanKeeps DEF Processes, Telling

LEMMA EnqueuesKeep ==
    ASSUME IInv, NEW c \in Clients, Enqueues(c)
    PROVE  Step
<1>1. \/ \E k : Enqueue(c, k)
      \/ UNCHANGED shared /\ Goto(c, "reconcile")
  BY DEF Enqueues, ReadOnly
<1> QED
  BY <1>1, EnqueueKeeps, GotoKeeps DEF Processes, Telling

LEMMA CheckKeeps ==
    ASSUME IInv, NEW c \in Clients, CheckFinding(c) \/ CheckReport(c)
    PROVE  Step
<1>1. /\ UNCHANGED shared
      /\ \/ Done(c)
         \/ \E plan : Turns(c, "enqueue", plan)
  BY DEF CheckFinding, CheckReport, Reread, ReadOnly, Turns
<1> QED
  BY <1>1, DoneKeeps, PlanKeeps DEF Processes, Telling

LEMMA ReconcileKeeps ==
    ASSUME IInv, NEW c \in Clients, Reconcile(c) \/ ReportRead(c) \/ OutboxRead(c)
                                    \/ CancelRead(c) \/ CompleteRead(c)
    PROVE  Step
<1>1. UNCHANGED shared /\ (Done(c) \/ \E pc, req : pc \notin Telling /\ Take(c, pc, req))
  BY DEF Reconcile, ReportRead, OutboxRead, CancelRead, CompleteRead, ReadOnly, Telling
<1> QED
  BY <1>1, DoneKeeps, TakeKeeps DEF Processes, Telling

\* Completion events: those of one request, or all that a repair found missing.
LEMMA RecordKeeps ==
    ASSUME IInv, NEW c \in Clients, Record(c)
    PROVE  Step
<1> DEFINE d == Edited(proc[c].doc, StateAfter(proc[c].doc, proc[c].req), proc[c].doc.findings,
                       <<Reconciled(proc[c].req)>>)
<1>0. c \in Processes /\ UNCHANGED <<jobs, graph, rules>>
  BY DEF Processes, Record
<1>1. CASE Unchanged(c)
  <2>1. Commit(d) /\ proc' = [proc EXCEPT ![c] = At("done", NoKey)]
    BY <1>1 DEF Record, Snapshot, Done, Leave
  <2>2. Extends(doc, d) /\ Backed(d, graph, jobs)
    BY <1>0, <1>1, OwnCopy, SameFindings, Singles
  <2> HIDE DEF d
  <2> QED
    BY <1>0, <2>1, <2>2, CommitKeeps DEF Telling
<1>2. CASE ~Unchanged(c)
  BY <1>0, <1>2, RetryKeeps DEF Record, shared, Telling
<1> QED
  BY <1>1, <1>2

LEMMA RepairKeeps ==
    ASSUME IInv, NEW c \in Clients, Repair(c)
    PROVE  Step
<1> DEFINE d == Edited(proc[c].doc, proc[c].doc.state, proc[c].doc.findings,
                       Repairs(proc[c].doc, proc[c].plan))
<1>0. c \in Processes /\ UNCHANGED <<jobs, graph, rules>>
  BY DEF Processes, Repair
<1>1. CASE Unchanged(c)
  <2>1. Commit(d) /\ proc' = [proc EXCEPT ![c] = At("done", NoKey)]
    BY <1>1 DEF Repair, Snapshot, Done, Leave
  <2>2. proc[c].plan \subseteq JobKeys
    BY <1>0 DEF IInv, ProcOK, LocalOK, Repair
  <2>3. Extends(doc, d) /\ Backed(d, graph, jobs)
    BY <1>0, <1>1, <2>2, OwnCopy, SameFindings, RepairsSeq
  <2> HIDE DEF d
  <2> QED
    BY <1>0, <2>1, <2>3, CommitKeeps DEF Telling
<1>2. CASE ~Unchanged(c)
  BY <1>0, <1>2, RetryKeeps DEF Repair, shared, Telling
<1> QED
  BY <1>1, <1>2

LEMMA DiagnoseKeeps ==
    ASSUME IInv, NEW c \in Clients, Diagnose(c)
    PROVE  Step
<1>1. /\ UNCHANGED shared
      /\ \/ Done(c)
         \/ \E plan : plan \subseteq JobKeys /\ Turns(c, "repair", plan)
  BY DEF Diagnose, PendingKeys, ReadOnly, Turns
<1> QED
  BY <1>1, DoneKeeps, PlanKeeps DEF Processes, Telling

LEMMA CancelSaveKeeps ==
    ASSUME IInv, NEW c \in Clients, CancelSave(c)
    PROVE  Step
<1> DEFINE e == Edited(proc[c].doc, "cancelled", proc[c].doc.findings, <<Event("cancelled", NoKey)>>)
           idle == {k \in JobKeys : ~Running(k) /\ ~Completed(k)}
           d == [e EXCEPT !.idle = idle]
<1>0. c \in Processes
  BY DEF Processes
<1>1. SaveThen(c, d, "drop")
  BY DEF CancelSave, Snapshot
<1>2. ASSUME Unchanged(c)
      PROVE  Extends(doc, d) /\ Backed(d, graph, jobs)
  <2>1. Extends(doc, e) /\ Backed(e, graph, jobs)
    BY <1>0, <1>2, OwnCopy, SameFindings, Singles
  <2> HIDE DEF e
  <2>2. DOMAIN d = DOMAIN e /\ d.findings = e.findings /\ d.events = e.events
    BY <2>1 DEF Extends, IsDoc
  <2> HIDE DEF d
  <2> QED
    BY <2>1, <2>2 DEF Extends, Backed, IsDoc, Has, Present
<1> HIDE DEF d
<1> QED
  BY <1>0, <1>1, <1>2, SaveThenKeeps DEF Telling

LEMMA CancelDropKeeps ==
    ASSUME IInv, NEW c \in Clients, CancelDrop(c)
    PROVE  Step
<1>1. Grows /\ UNCHANGED <<doc, version>>
  BY DEF CancelDrop, CancelQueued, IInv, SharedOK, Grows, JobRow, Queued
<1> QED
  BY <1>1, LeaveKeeps DEF CancelDrop, Done, Leave, Telling, Processes

LEMMA AddReadKeeps ==
    ASSUME IInv, NEW c \in Clients, NEW f \in Findings, AddRead(c, f)
    PROVE  Step
<1>1. /\ UNCHANGED shared
      /\ \/ Done(c)
         \/ Take(c, "new", Validation(f)) /\ doc.findings[f] = "absent"
         \/ \E pc, req : pc \notin Telling /\ Take(c, pc, req)
  BY DEF AddRead, ReadOnly, Telling
<1>2. Validation(f).of = f
  BY DEF Validation, Key
<1> QED
  BY <1>1, <1>2, DoneKeeps, TakeKeeps DEF Processes, Telling

\* An edit that opens the findings in opened, whose jobs or requests are there.
LEMMA OpenedGood ==
    ASSUME IInv, NEW state, NEW events, IsSeq(events), NEW opened, opened \subseteq Findings,
           NEW findings,
           findings = [f \in Findings |-> IF f \in opened THEN "validation_required"
                                           ELSE doc.findings[f]],
           \A f \in opened : /\ doc.findings[f] = "absent"
                             /\ \/ KnownIn(jobs, Validation(f))
                                \/ Has(Edited(doc, state, findings, events),
                                       Requested(Validation(f)))
    PROVE  LET e == Edited(doc, state, findings, events) IN
           Extends(doc, e) /\ Backed(e, graph, jobs)
<1> DEFINE e == Edited(doc, state, findings, events)
<1>1. IsDoc(doc) /\ Backed(doc, graph, jobs) /\ doc.findings \in [Findings -> Statuses]
  BY DEF IInv, SharedOK, IsDoc
<1>2. findings \in [Findings -> Statuses]
  BY <1>1 DEF Statuses
<1>3. \A f \in Findings : doc.findings[f] # "absent" =>
        findings[f] # "absent" /\ (doc.findings[f] \in Resolved => findings[f] = doc.findings[f])
  OBVIOUS
<1>4. Extends(doc, e) /\ \A x : Has(doc, x) => Has(e, x)
  BY <1>1, <1>2, <1>3, EditExtends
<1>5. e.findings = findings
  BY <1>1, EditedFields
<1>6. \A f \in opened : KnownIn(jobs, Validation(f)) \/ Has(e, Requested(Validation(f)))
  OBVIOUS
<1> HIDE DEF e
<1>7. Backed(e, graph, jobs)
  BY <1>1, <1>4, <1>5, <1>6 DEF Backed, Present, Resolved
<1> QED
  BY <1>4, <1>7 DEF e

LEMMA HasNew ==
    ASSUME NEW d, IsDoc(d), NEW state, NEW findings, NEW t, IsSeq(t), NEW i \in 1..Len(t)
    PROVE  Has(Edited(d, state, findings, t), t[i])
<1> DEFINE s == d.events
<1>1. Edited(d, state, findings, t).events = s \o t
  BY EditedFields
<1>2. PICK S : s \in Seq(S)
  BY DEF IsDoc, IsSeq
<1>3. PICK T : t \in Seq(T)
  BY DEF IsSeq
<1> HIDE DEF s
<1>4. s \in Seq(S \cup T) /\ t \in Seq(S \cup T)
  BY <1>2, <1>3
<1>5. /\ s \o t \in Seq(S \cup T)
      /\ Len(s \o t) = Len(s) + Len(t)
      /\ \A j \in 1..Len(s) + Len(t) :
           (s \o t)[j] = IF j <= Len(s) THEN s[j] ELSE t[j - Len(s)]
  BY <1>4, ConcatProperties
<1>6. Len(s) + i \in DOMAIN (s \o t) /\ (s \o t)[Len(s) + i] = t[i]
  BY <1>4, <1>5
<1> QED
  BY <1>1, <1>6 DEF Has

LEMMA AddSaveKeeps ==
    ASSUME IInv, NEW c \in Clients, AddSave(c)
    PROVE  Step
<1> DEFINE f == proc[c].req.of
           findings == [proc[c].doc.findings EXCEPT ![f] = "validation_required"]
           events == <<Event("received", proc[c].req), Requested(proc[c].req)>>
           d == Edited(proc[c].doc, "validating", findings, events)
<1>0. c \in Processes /\ ProcOK(proc[c])
  BY DEF Processes, IInv
<1>1. f \in Findings /\ proc[c].req = Validation(f) /\ proc[c].doc.findings[f] = "absent"
  BY <1>0 DEF ProcOK, LocalOK, AddSave
<1>2. SaveThen(c, d, "check")
  BY DEF AddSave, Snapshot
<1>3. ASSUME Unchanged(c)
      PROVE  Extends(doc, d) /\ Backed(d, graph, jobs)
  <2>1. proc[c].doc = doc
    BY <1>0, <1>3, OwnCopy
  <2>2. IsDoc(doc) /\ doc.findings \in [Findings -> Statuses]
    BY DEF IInv, SharedOK, IsDoc
  <2>3. findings = [g \in Findings |-> IF g \in {f} THEN "validation_required"
                                        ELSE doc.findings[g]]
    BY <2>1, <2>2
  <2>4. IsSeq(events) /\ 2 \in 1..Len(events) /\ events[2] = Requested(proc[c].req)
    <3>1. IsSeq(events)
      BY Singles
    <3>2. 2 \in 1..Len(events) /\ events[2] = Requested(proc[c].req)
      OBVIOUS
    <3> QED
      BY <3>1, <3>2
  <2> HIDE DEF findings, f, events
  <2>5. Has(d, Requested(Validation(f)))
    BY <1>1, <2>1, <2>2, <2>4, HasNew
  <2> QED
    BY <1>1, <2>1, <2>3, <2>4, <2>5, OpenedGood
<1> HIDE DEF d
<1> QED
  BY <1>0, <1>2, <1>3, SaveThenKeeps DEF Telling

\* A verdict is given on a finding the graph has observed, and contradicts none.
LEMMA ValidateReadKeeps ==
    ASSUME IInv, NEW c \in Clients, NEW f \in Findings, NEW verdict \in Resolved, NEW again,
           ValidateRead(c, f, verdict, again)
    PROVE  Step
<1> DEFINE r == [Loaded(c, "verdict") EXCEPT !.req = Validation(f), !.mode = verdict]
<1>0. c \in Processes
  BY DEF Processes
<1>1. UNCHANGED shared
  BY DEF ValidateRead, ReadOnly
<1>2. CASE Done(c) \/ Take(c, "ensure", Completion)
  BY <1>0, <1>1, <1>2, DoneKeeps, TakeKeeps DEF Telling
<1>3. CASE /\ f \in graph.observed /\ doc.findings[f] # "absent"
           /\ doc.findings[f] \notin Resolved \ {verdict}
           /\ proc' = [proc EXCEPT ![c] = r]
  <2> DEFINE l == Loaded(c, "verdict")
  <2>1. IsLocal(l) /\ l.pc = "verdict" /\ l.doc = doc /\ l.ver = version
    BY <1>0, LoadedFields
  <2> HIDE DEF l
  <2>2. LET q == [l EXCEPT !.req = Validation(f), !.mode = verdict] IN
        /\ IsLocal(q) /\ q.pc = "verdict" /\ q.doc = doc /\ q.ver = version
        /\ q.req = Validation(f) /\ q.mode = verdict
    BY <2>1 DEF IsLocal
  <2>3. /\ IsLocal(r) /\ r.pc = "verdict" /\ r.doc = doc /\ r.ver = version
        /\ r.req = Validation(f) /\ r.mode = verdict
    BY <2>2 DEF l
  <2> HIDE DEF r
  <2>4. r.req.of = f
    BY <2>3 DEF Validation, Key
  <2>5. Grows /\ UNCHANGED <<doc, version>> /\ graph' = graph
    BY <1>1, QuietGrows DEF shared
  <2>6. LocalOK(r, graph', jobs') /\ CopyOK(r, doc, version)
    BY <1>3, <2>3, <2>4, <2>5, Fresh DEF LocalOK
  <2> QED
    BY <1>0, <1>3, <2>3, <2>5, <2>6, Moves
<1> QED
  BY <1>2, <1>3 DEF ValidateRead

LEMMA JudgedGood ==
    ASSUME IInv, NEW f \in graph.observed, NEW verdict \in Resolved,
           doc.findings[f] \notin Resolved \ {verdict}, doc.findings[f] # "absent"
    PROVE  LET e == WithVerdict(doc, f, verdict) IN
           Extends(doc, e) /\ Backed(e, graph, jobs)
<1> DEFINE findings == [doc.findings EXCEPT ![f] = verdict]
<1>1. IsDoc(doc) /\ Backed(doc, graph, jobs) /\ doc.findings \in [Findings -> Statuses]
  BY DEF IInv, SharedOK, IsDoc
<1>2. f \in Findings
  BY DEF IInv, SharedOK, Graphs
<1>3. /\ findings \in [Findings -> Statuses]
      /\ \A g \in Findings : findings[g] = IF g = f THEN verdict ELSE doc.findings[g]
  BY <1>1, <1>2 DEF Statuses
<1> DEFINE one == <<Event("validated", Validation(f))>>
           two == one \o <<Requested(Completion)>>
<1>4. IsSeq(one) /\ IsSeq(two)
  BY Singles, Appended
<1>5. \E state, events : /\ IsSeq(events)
                         /\ WithVerdict(doc, f, verdict) = Edited(doc, state, findings, events)
  BY <1>4 DEF WithVerdict
<1> HIDE DEF findings, one, two
<1>6. \A g \in Findings : doc.findings[g] # "absent" =>
        /\ findings[g] # "absent"
        /\ doc.findings[g] \in Resolved => findings[g] = doc.findings[g]
  BY <1>3 DEF Resolved
<1>7. ASSUME NEW state, NEW events, IsSeq(events)
      PROVE  LET e == Edited(doc, state, findings, events) IN
             Extends(doc, e) /\ Backed(e, graph, jobs)
  <2> DEFINE e == Edited(doc, state, findings, events)
  <2>1. Extends(doc, e) /\ \A x : Has(doc, x) => Has(e, x)
    BY <1>1, <1>3, <1>6, <1>7, EditExtends
  <2>2. e.findings = findings
    BY <1>1, EditedFields
  <2> HIDE DEF e
  <2>3. Backed(e, graph, jobs)
    BY <1>1, <1>3, <2>1, <2>2 DEF Backed, Present, Resolved
  <2> QED
    BY <2>1, <2>3 DEF e
<1> QED
  BY <1>5, <1>7

LEMMA VerdictSaveKeeps ==
    ASSUME IInv, NEW c \in Clients, VerdictSave(c)
    PROVE  Step
<1> DEFINE d == WithVerdict(proc[c].doc, proc[c].req.of, proc[c].mode)
<1>0. c \in Processes /\ ProcOK(proc[c])
  BY DEF Processes, IInv
<1>1. \E pc : pc \notin Telling /\ SaveThen(c, d, pc)
  BY DEF VerdictSave, Snapshot, Telling
<1>2. ASSUME Unchanged(c)
      PROVE  Extends(doc, d) /\ Backed(d, graph, jobs)
  BY <1>0, <1>2, OwnCopy, JudgedGood DEF ProcOK, LocalOK, VerdictSave
<1> HIDE DEF d
<1> QED
  BY <1>0, <1>1, <1>2, SaveThenKeeps

LEMMA EnsureKeeps ==
    ASSUME IInv, NEW c \in Clients, Ensure(c)
    PROVE  Step
<1>0. c \in Processes
  BY DEF Processes
<1>1. \/ UNCHANGED shared /\ (Done(c) \/ Goto(c, "check"))
      \/ \E events : /\ IsSeq(events)
                     /\ SaveThen(c, Edited(proc[c].doc, "completed", proc[c].doc.findings, events),
                                 "check")
  BY Singles DEF Ensure, Snapshot, ReadOnly
<1>2. ASSUME NEW events, IsSeq(events), Unchanged(c)
      PROVE  LET e == Edited(proc[c].doc, "completed", proc[c].doc.findings, events) IN
             Extends(doc, e) /\ Backed(e, graph, jobs)
  BY <1>0, <1>2, OwnCopy, SameFindings
<1> QED
  BY <1>0, <1>1, <1>2, DoneKeeps, GotoKeeps, SaveThenKeeps DEF Telling

LEMMA HandlerKeeps ==
    ASSUME IInv, NEW c \in Clients, Handler(c) \/ HandlerDies(c)
    PROVE  Step
<1>1. CASE HandlerDies(c)
  BY <1>1, DoneKeeps DEF HandlerDies, Processes
<1>2. CASE Handler(c)
  BY <1>2, StartReadKeeps, IntentsKeep, StartPlanKeeps, EnqueuesKeep, CheckKeeps, ReconcileKeeps,
     RecordKeeps, RepairKeeps, DiagnoseKeeps, CancelSaveKeeps, CancelDropKeeps, AddReadKeeps,
     AddSaveKeeps, ValidateReadKeeps, VerdictSaveKeeps, EnsureKeeps
  DEF Handler
<1> QED
  BY <1>1, <1>2

-----------------------------------------------------------------------------
(* The workers.                                                            *)

LEMMA ClaimKeeps ==
    ASSUME IInv, NEW w \in Workers, NEW k \in JobKeys, Claim(w, k)
    PROVE  Step
<1> DEFINE r == At("load", k)
<1>1. Grows /\ UNCHANGED <<doc, version>>
  BY DEF Claim, IInv, SharedOK, Grows, JobRow
<1>2. IsLocal(r) /\ r.pc = "load" /\ r.ver = 0 /\ r.req = k
  BY DEF At, IsLocal
<1>3. proc' = [proc EXCEPT ![w] = r] /\ w \in Processes
  BY DEF Claim, Processes
<1> HIDE DEF r
<1>4. LocalOK(r, graph', jobs') /\ CopyOK(r, doc, version)
  BY <1>2, NoCopy DEF LocalOK
<1> QED
  BY <1>1, <1>2, <1>3, <1>4, Moves

LEMMA LoadedWorkKeeps ==
    ASSUME IInv, NEW w \in Workers, Load(w) \/ OutcomeRead(w)
    PROVE  Step
<1>0. w \in Processes /\ ProcOK(proc[w])
  BY DEF Processes, IInv
<1>1. /\ UNCHANGED shared
      /\ \/ Close(w, "cancelled") \/ Close(w, "failed")
         \/ proc' = [proc EXCEPT ![w] = At("idle", NoKey)]
         \/ proc' = [proc EXCEPT ![w] = Loaded(w, "work")] /\ proc[w].pc = "load"
         \/ proc' = [proc EXCEPT ![w] = Loaded(w, "log")]
  BY DEF Load, OutcomeRead, Quiet, Leave
<1>2. Grows /\ UNCHANGED <<doc, version>>
  BY <1>1, QuietGrows DEF shared
<1>3. proc[w].pc = "load" => proc[w].req \in JobKeys
  BY <1>0 DEF ProcOK, LocalOK
<1> QED
  BY <1>0, <1>1, <1>2, <1>3, CloseKeeps, LeaveKeeps, LoadKeeps DEF Telling

LEMMA WorkFailsKeeps ==
    ASSUME IInv, NEW w \in Workers, WorkFails(w) \/ WorkerDies(w)
    PROVE  Step
<1>0. w \in Processes
  BY DEF Processes
<1>1. /\ UNCHANGED shared
      /\ Close(w, "failed") \/ proc' = [proc EXCEPT ![w] = At("idle", NoKey)]
  BY DEF WorkFails, WorkerDies, Leave
<1>2. Grows /\ UNCHANGED <<doc, version>>
  BY <1>1, QuietGrows DEF shared
<1> QED
  BY <1>0, <1>1, <1>2, CloseKeeps, LeaveKeeps DEF Telling

\* The work is done and its result is still to be saved: the findings seen are
\* not in the copy, and their jobs are still to be enqueued.
LEMMA ToSaveKeeps ==
    ASSUME IInv, NEW w \in Workers, NEW mode, NEW seen, seen \subseteq Findings \ Present(proc[w].doc),
           proc' = [proc EXCEPT ![w] = ToSave(w, mode, seen)],
           UNCHANGED <<doc, version, jobs>>, graph' \in Graphs,
           graph.observed \subseteq graph'.observed
    PROVE  Step
<1> DEFINE r == ToSave(w, mode, seen)
<1>0. w \in Processes /\ ProcOK(proc[w])
  BY DEF Processes, IInv
<1>1. /\ IsLocal(r) /\ r.pc = "save" /\ r.seen = seen /\ r.doc = proc[w].doc
      /\ r.ver = proc[w].ver /\ r.plan = {Validation(f) : f \in seen}
  BY <1>0 DEF ToSave, ProcOK, IsLocal
<1>2. proc' = [proc EXCEPT ![w] = r]
  OBVIOUS
<1> HIDE DEF r
<1>3. Grows
  BY DEF IInv, SharedOK, Grows
<1>4. LocalOK(r, graph', jobs')
  BY <1>1 DEF LocalOK, Present
<1>5. CopyOK(r, doc, version)
  BY <1>0, <1>1 DEF ProcOK, CopyOK
<1> QED
  BY <1>0, <1>1, <1>2, <1>3, <1>4, <1>5, Moves

LEMMA GraphTypes == IInv => graph \in Graphs
BY DEF IInv, SharedOK

LEMMA GrownStages == \A stage \in Stages : Grown(stage) \subseteq Stages
BY DEF Grown, Stages

LEMMA ExploresKeep ==
    ASSUME IInv, NEW w \in Workers,
           DryRun(w) \/ ReconTask(w) \/ BrowserFlow(w) \/ WriteReport(w)
    PROVE  Step
<1>1. /\ UNCHANGED <<doc, version, jobs>>
      /\ \E stage \in Grown(graph.stage) : graph' = [graph EXCEPT !.stage = stage]
      /\ \E mode : proc' = [proc EXCEPT ![w] = ToSave(w, mode, {})]
  BY DEF DryRun, ReconTask, BrowserFlow, WriteReport, Explore
<1>2. graph' \in Graphs /\ graph.observed \subseteq graph'.observed
  BY <1>1, GraphTypes, GrownStages DEF Graphs
<1> QED
  BY <1>1, <1>2, ToSaveKeeps

LEMMA IngestKeeps ==
    ASSUME IInv, NEW w \in Workers, NEW found \in SUBSET Findings, Ingest(w, found)
    PROVE  Step
<1>1. graph' \in Graphs /\ graph.observed \subseteq graph'.observed
  BY GraphTypes DEF Ingest, Graphs
<1> QED
  BY <1>1, ToSaveKeeps DEF Ingest, Copy

LEMMA ProbeKeeps ==
    ASSUME IInv, NEW w \in Workers, NEW observed \in BOOLEAN, Probe(w, observed)
    PROVE  Step
<1>0. Job(w) \in JobKeys /\ Job(w).kind = "validation"
  BY DEF IInv, ProcOK, LocalOK, Probe, Job, Processes
<1>1. Job(w).of \in Findings
  BY <1>0 DEF JobKeys, Key, Validation, Manual, Completion, Scan, Recon, Browser
<1>2. graph' \in Graphs /\ graph.observed \subseteq graph'.observed
  BY <1>1, GraphTypes DEF Probe, Graphs
<1> QED
  BY <1>2, ToSaveKeeps DEF Probe

LEMMA SaveKeeps ==
    ASSUME IInv, NEW w \in Workers, Save(w)
    PROVE  Step
<1>0. w \in Processes /\ ProcOK(proc[w]) /\ UNCHANGED <<jobs, graph>>
  BY DEF Processes, IInv, Save
<1>1. CASE Unchanged(w)
  <2> DEFINE seen == proc[w].seen
             findings == [f \in Findings |-> IF f \in seen THEN "validation_required"
                                             ELSE doc.findings[f]]
             event == Event(IF proc[w].mode = "dry_run" THEN "dry_run" ELSE "processed", Job(w))
             news == IF Has(doc, event) THEN <<>> ELSE <<event>>
             scanned == Edited(doc, doc.state, findings, news)
  <2>1. proc[w].doc = doc /\ IsDoc(doc)
    BY <1>0, <1>1, OwnCopy DEF IInv, SharedOK
  <2>2. \A f \in seen : f \in Findings /\ doc.findings[f] = "absent" /\ KnownIn(jobs, Validation(f))
    BY <1>0, <2>1 DEF ProcOK, LocalOK, Save
  <2>3. IsSeq(news)
    BY Singles
  <2>4. \E state : Result(w) = [scanned EXCEPT !.state = state]
    BY <2>1 DEF Result, Copy
  <2> HIDE DEF findings, news
  <2>5. Extends(doc, scanned) /\ Backed(scanned, graph, jobs)
    <3>1. findings = [f \in Findings |-> IF f \in seen THEN "validation_required"
                                         ELSE doc.findings[f]]
      BY DEF findings
    <3> QED
      BY <2>2, <2>3, <3>1, OpenedGood
  <2> HIDE DEF scanned
  <2>6. ASSUME NEW state
        PROVE  LET e == [scanned EXCEPT !.state = state] IN
               Extends(doc, e) /\ Backed(e, graph, jobs)
    <3> DEFINE e == [scanned EXCEPT !.state = state]
    <3>1. DOMAIN e = DOMAIN scanned /\ e.findings = scanned.findings /\ e.events = scanned.events
      BY <2>5 DEF Extends, IsDoc
    <3> HIDE DEF e
    <3>2. Extends(doc, e) /\ Backed(e, graph, jobs)
      BY <2>5, <3>1 DEF Extends, Backed, IsDoc, Has, Present
    <3> QED
      BY <3>2 DEF e
  <2>7. Extends(doc, Result(w)) /\ Backed(Result(w), graph, jobs)
    BY <2>4, <2>6
  <2>8. Commit(Result(w)) /\ \E req : proc' = [proc EXCEPT ![w] = At("advance", req)]
    BY <1>1 DEF Save, Goto
  <2> QED
    BY <1>0, <2>7, <2>8, CommitKeeps DEF Telling
<1>2. CASE ~Unchanged(w)
  BY <1>0, <1>2, CloseKeeps, QuietGrows DEF Save
<1> QED
  BY <1>1, <1>2

LEMMA AdvancesKeep ==
    ASSUME IInv, NEW w \in Workers, Advance(w) \/ AdvanceSkipped(w) \/ AdvanceEnqueue(w)
    PROVE  Step
<1>0. w \in Processes
  BY DEF Processes
<1>1. \/ \E k : Enqueue(w, k)
      \/ /\ UNCHANGED shared
         /\ \/ \E mode : mode # "absent" /\ Close(w, mode)
            \/ \E plan : Turns(w, "enqueue", plan)
  BY DEF Advance, AdvanceSkipped, AdvanceEnqueue, Complete, Quiet, Turns
<1>2. UNCHANGED shared => Grows /\ UNCHANGED <<doc, version>>
  BY QuietGrows DEF shared
<1> QED
  BY <1>0, <1>1, <1>2, EnqueueKeeps, CloseKeeps, PlanKeeps DEF Telling

LEMMA FinishKeeps ==
    ASSUME IInv, NEW w \in Workers, Finish(w)
    PROVE  Step
<1>0. w \in Processes /\ ProcOK(proc[w]) /\ UNCHANGED <<doc, version, graph>>
  BY DEF Processes, IInv, Finish
<1>1. Final(w) # "absent"
  BY <1>0 DEF Final, Finish, ProcOK, LocalOK
<1>2. Grows
  BY <1>0, <1>1 DEF Finish, IInv, SharedOK, Grows, JobRow
<1>3. CASE Owns(w)
  <2> DEFINE r == [At("outcome", Job(w)) EXCEPT !.mode = Final(w)]
  <2>1. IsLocal(r) /\ r.pc = "outcome" /\ r.ver = 0
    BY DEF At, IsLocal
  <2>2. proc' = [proc EXCEPT ![w] = r]
    BY <1>3 DEF Finish
  <2> HIDE DEF r
  <2>3. LocalOK(r, graph', jobs') /\ CopyOK(r, doc, version)
    BY <2>1, Elsewhere, NoCopy DEF Telling
  <2> QED
    BY <1>0, <1>2, <2>1, <2>2, <2>3, Moves
<1>4. CASE ~Owns(w)
  BY <1>0, <1>2, <1>4, LeaveKeeps DEF Finish, Leave, Telling
<1> QED
  BY <1>3, <1>4

LEMMA OutcomeSaveKeeps ==
    ASSUME IInv, NEW w \in Workers, OutcomeSave(w)
    PROVE  Step
<1> DEFINE d == Edited(proc[w].doc, proc[w].doc.state, proc[w].doc.findings, <<OutcomeOf(w)>>)
<1>0. w \in Processes /\ UNCHANGED <<jobs, graph>>
  BY DEF Processes, OutcomeSave
<1>1. CASE Unchanged(w)
  <2>1. Commit(d) /\ proc' = [proc EXCEPT ![w] = At("idle", NoKey)]
    BY <1>1 DEF OutcomeSave, Copy, Leave
  <2>2. Extends(doc, d) /\ Backed(d, graph, jobs)
    BY <1>0, <1>1, OwnCopy, SameFindings, Singles
  <2> HIDE DEF d
  <2> QED
    BY <1>0, <2>1, <2>2, CommitKeeps DEF Telling
<1>2. CASE ~Unchanged(w)
  <2>1. Grows /\ UNCHANGED <<doc, version>>
    BY <1>0, <1>2, QuietGrows DEF OutcomeSave
  <2>2. CASE proc[w].tries + 1 < MaxTries
    <3> DEFINE r == [At("outcome", Job(w)) EXCEPT !.mode = proc[w].mode,
                                                  !.tries = proc[w].tries + 1]
    <3>1. IsLocal(r) /\ r.pc = "outcome" /\ r.ver = 0
      BY DEF At, IsLocal
    <3>2. proc' = [proc EXCEPT ![w] = r]
      BY <1>2, <2>2 DEF OutcomeSave
    <3> HIDE DEF r
    <3>3. LocalOK(r, graph', jobs') /\ CopyOK(r, doc, version)
      BY <3>1, Elsewhere, NoCopy DEF Telling
    <3> QED
      BY <1>0, <2>1, <3>1, <3>2, <3>3, Moves
  <2>3. CASE ~(proc[w].tries + 1 < MaxTries)
    BY <1>0, <1>2, <2>1, <2>3, LeaveKeeps DEF OutcomeSave, Telling
  <2> QED
    BY <2>2, <2>3
<1> QED
  BY <1>1, <1>2

LEMMA LeaseExpiresKeeps ==
    ASSUME IInv, NEW k \in JobKeys, LeaseExpires(k)
    PROVE  Step
<1>1. Grows /\ UNCHANGED <<doc, version, proc>>
  BY DEF LeaseExpires, IInv, SharedOK, Grows, JobRow
<1>2. SharedOK'
  BY <1>1, BackedKept DEF IInv, SharedOK, Grows
<1>3. \A p \in Processes : ProcOK(proc[p])'
  BY <1>1, LocalKept DEF IInv, ProcOK
<1> QED
  BY <1>1, <1>2, <1>3 DEF IInv, Step

LEMMA WorkKeeps ==
    ASSUME IInv, NEW w \in Workers, Work(w) \/ WorkerDies(w)
    PROVE  Step
<1>1. CASE \E k \in JobKeys : IngestEnqueue(w, k)
  BY <1>1, EnqueueKeeps DEF IngestEnqueue, Processes
<1> QED
  BY <1>1, LoadedWorkKeeps, WorkFailsKeeps, ExploresKeep, IngestKeeps, ProbeKeeps, SaveKeeps,
     AdvancesKeep, FinishKeeps, OutcomeSaveKeeps
  DEF Work

-----------------------------------------------------------------------------
(* The theorems.                                                           *)

LEMMA InitGood == RecordInit => IInv
<1> SUFFICES ASSUME RecordInit PROVE IInv
  OBVIOUS
<1>1. IsDoc(doc) /\ Present(doc) = {} /\ \A f \in Findings : doc.findings[f] = "absent"
  BY Singles DEF RecordInit, EmptyDoc, IsDoc, Statuses, Present
<1>2. version \in Nat \ {0} /\ graph \in Graphs /\ DOMAIN jobs = JobKeys
  BY DEF RecordInit, Graphs, Stages
<1>3. SharedOK
  BY <1>1, <1>2 DEF SharedOK, Backed, Resolved
<1>4. DOMAIN proc = Processes
  BY DEF RecordInit
<1>5. ASSUME NEW p \in Processes
      PROVE  ProcOK(proc[p])
  <2>1. PICK pc, req : pc \notin Telling /\ proc[p] = At(pc, req)
    BY DEF RecordInit, Telling
  <2>2. IsLocal(proc[p]) /\ proc[p].pc = pc /\ proc[p].ver = 0
    BY <2>1, AtFields
  <2>3. CopyOK(proc[p], doc, version)
    BY <1>2, <2>2 DEF CopyOK
  <2> QED
    BY <2>1, <2>2, <2>3, Elsewhere DEF ProcOK
<1> QED
  BY <1>3, <1>4, <1>5 DEF IInv

LEMMA NextGood ==
    ASSUME IInv, [Next]_vars
    PROVE  Step
<1>1. CASE Next
  BY <1>1, HandlerKeeps, WorkKeeps, ClaimKeeps, LeaseExpiresKeeps DEF Next
<1>2. CASE UNCHANGED vars
  BY <1>2 DEF vars, Step, IInv, SharedOK, ProcOK
<1> QED
  BY <1>1, <1>2

LEMMA IInvCorrect == Spec => []IInv
<1>1. IInv /\ [Next]_vars => IInv'
  BY NextGood DEF Step
<1> QED
  BY InitGood, <1>1, PTL DEF Spec

\* No save loses another one, for any handlers, workers and faults: the events
\* are only extended and no finding is dropped (save_campaign with
\* expected_version behind every handler and worker).
THEOREM NothingIsLost == Spec => NothingLost
<1>1. ASSUME IInv, [Next]_vars
      PROVE  [IsPrefixOf(doc.events, doc'.events) /\ Present(doc) \subseteq Present(doc')]_doc
  BY <1>1, NextGood DEF Step, Extends
<1> QED
  BY <1>1, IInvCorrect, PTL DEF Spec, NothingLost

\* No scan, validation or second reviewer that read the campaign before a verdict
\* undoes it (validate_finding, run_strix_job and their version checks).
THEOREM VerdictsStand == Spec => VerdictIsFinal
<1>1. ASSUME IInv, [Next]_vars
      PROVE  [\A f \in Findings :
                doc.findings[f] \in Resolved => doc'.findings[f] = doc.findings[f]]_doc
  BY <1>1, NextGood DEF Step, Extends
<1> QED
  BY <1>1, IInvCorrect, PTL DEF Spec, VerdictIsFinal

\* A verdict is saved only for a finding whose independent observation is in the
\* graph (the evidence check of validate_finding).
THEOREM VerdictsRest == Spec => []VerdictHasEvidence
<1>1. IInv => VerdictHasEvidence
  BY DEF IInv, SharedOK, Backed, VerdictHasEvidence
<1> QED
  BY <1>1, IInvCorrect, PTL

\* A finding in the document has its validation job or the request for it: scans
\* enqueue before they save, handlers request in the save itself.
THEOREM FindingsKept == Spec => []NoForgottenFinding
<1>1. IInv => NoForgottenFinding
  BY DEF IInv, SharedOK, Backed, KnownIn, NoForgottenFinding, Known, Present
<1> QED
  BY <1>1, IInvCorrect, PTL

-----------------------------------------------------------------------------
(* What the events of a document say: requests, their completions, what is *)
(* said once.                                                              *)

\* What can be asked for: jobs, and the start.
Asks == JobKeys \cup StartKeys

\* A completion has its request before it, and its job in j unless it is a start's.
RequestsFirst(d, j) ==
    \A i \in DOMAIN d.events :
      LET e == d.events[i]  k == Key(e.kind, e.of) IN
      e.type = "reconciled" =>
        /\ \E h \in 1..(i - 1) : d.events[h] = Requested(k)
        /\ k \in StartKeys \/ KnownIn(j, k)

OneStart(d) == \A k, l \in PendingKeys(d, StartKeys) : k = l

Announces(e, f) == e = Event("received", Validation(f)) \/ e = Requested(Validation(f))

\* The findings that were announced or asked about are there.
Announced(d) ==
    \A i \in DOMAIN d.events : \A f \in Findings :
      Announces(d.events[i], f) => d.findings[f] # "absent"

\* Said once in every scenario: all but the cancel, which a campaign completed again
\* would say twice, and the completion's request, which repeated verdicts do say twice.
Lasting(e) == SaidOnce(e) /\ e.type # "cancelled" /\ e # Requested(Completion)

Once(d) ==
    \A i \in DOMAIN d.events :
      Lasting(d.events[i]) => \A h \in 1..(i - 1) : d.events[h] # d.events[i]

\* The completion's request is repeated only behind a verdict.
Repeats(d) ==
    \A i \in DOMAIN d.events :
      /\ d.events[i] = Requested(Completion)
      /\ \E h \in 1..(i - 1) : d.events[h] = d.events[i]
      => i > 1 /\ d.events[i - 1].type = "validated"

EventsOK(d, j) == RequestsFirst(d, j) /\ OneStart(d) /\ Announced(d) /\ Once(d) /\ Repeats(d)

\* e may be appended to d, on the way to the findings of a document that has them.
NewsOK(d, findings, j, e) ==
    /\ LET k == Key(e.kind, e.of) IN
       e.type = "reconciled" => Has(d, Requested(k)) /\ (k \in StartKeys \/ KnownIn(j, k))
    /\ e.type = "requested" /\ e.kind = "start" => PendingKeys(d, StartKeys) = {}
    /\ \A f \in Findings : Announces(e, f) => findings[f] # "absent"
    /\ Lasting(e) => ~Has(d, e)

\* So may all of t, at once.
Tells(d, findings, j, t) ==
    /\ IsSeq(t)
    /\ \A i \in DOMAIN t : /\ NewsOK(d, findings, j, t[i])
                           /\ t[i].type = "requested" /\ t[i].kind = "start" => Len(t) = 1
                           /\ Lasting(t[i]) => \A h \in 1..(i - 1) : t[h] # t[i]
                           /\ t[i] = Requested(Completion) =>
                                \/ i = 1 /\ ~Has(d, t[i])
                                \/ i > 1 /\ t[i - 1].type = "validated"

-----------------------------------------------------------------------------
(* Keys and events.                                                        *)

LEMMA KeyFields == \A kind, of : Key(kind, of).kind = kind /\ Key(kind, of).of = of
BY DEF Key

LEMMA EventFields ==
    \A type, k : /\ Event(type, k).type = type
                 /\ Event(type, k).kind = k.kind /\ Event(type, k).of = k.of
BY DEF Event

LEMMA OtherEvents == \A x : x.type # "requested" => x # Requested(Completion)
BY EventFields DEF Requested

LEMMA OutcomeFields == \A k, s : Outcome(k, s).type = "worker_outcome"
BY DEF Outcome

LEMMA StartsAreStarts == \A k \in StartKeys : k = Key("start", k.of) /\ k.kind = "start"
BY DEF StartKeys, Start, Key

LEMMA JobsAreJobs ==
    \A k \in JobKeys : k = Key(k.kind, k.of) /\ k.kind # "start"
<1>1. \A kind, of : /\ Key(kind, of) = Key(Key(kind, of).kind, Key(kind, of).of)
                    /\ Key(kind, of).kind = kind
  BY DEF Key
<1>2. ASSUME NEW k \in JobKeys
      PROVE  \E kind, of : k = Key(kind, of) /\ kind # "start"
  BY DEF JobKeys, Validation, Manual, Completion, Scan, Recon, Browser
<1> QED
  BY <1>1, <1>2

LEMMA AskedKey == \A k \in Asks : k = Key(k.kind, k.of)
BY StartsAreStarts, JobsAreJobs DEF Asks

LEMMA SameKeys ==
    ASSUME NEW k \in Asks, NEW l \in Asks, NEW s, NEW t, Event(s, k) = Event(t, l)
    PROVE  k = l /\ s = t
BY AskedKey, EventFields

LEMMA NoneKey == NoKey.kind = "none"
BY DEF NoKey, Key

-----------------------------------------------------------------------------
(* Appending to the events.                                                *)

\* e has the events of d and t after them.
Appends(d, e, t) == e.events = d.events \o t

LEMMA AppendedAt ==
    ASSUME NEW d, IsDoc(d), NEW e, NEW t, IsSeq(t), Appends(d, e, t)
    PROVE  /\ Len(d.events) \in Nat /\ DOMAIN d.events = 1..Len(d.events)
           /\ Len(t) \in Nat /\ DOMAIN t = 1..Len(t)
           /\ DOMAIN e.events = 1..(Len(d.events) + Len(t))
           /\ \A i \in DOMAIN d.events : e.events[i] = d.events[i]
           /\ \A i \in DOMAIN t : e.events[Len(d.events) + i] = t[i]
<1> DEFINE s == d.events
           u == e.events
<1>2. PICK S : s \in Seq(S)
  BY DEF IsDoc, IsSeq
<1>3. PICK T : t \in Seq(T)
  BY DEF IsSeq
<1>0. u = s \o t
  BY DEF Appends
<1> HIDE DEF s, u
<1>4. s \in Seq(S \cup T) /\ t \in Seq(S \cup T)
  BY <1>2, <1>3
<1>5. /\ s \o t \in Seq(S \cup T)
      /\ Len(s \o t) = Len(s) + Len(t)
      /\ \A j \in 1..Len(s) + Len(t) :
           (s \o t)[j] = IF j <= Len(s) THEN s[j] ELSE t[j - Len(s)]
  BY <1>4, ConcatProperties
<1>6. /\ Len(s) \in Nat /\ DOMAIN s = 1..Len(s)
      /\ Len(t) \in Nat /\ DOMAIN t = 1..Len(t)
      /\ DOMAIN u = 1..(Len(s) + Len(t))
  BY <1>0, <1>4, <1>5
<1>7. \A i \in DOMAIN s : u[i] = s[i]
  BY <1>0, <1>5, <1>6
<1>8. \A i \in DOMAIN t : u[Len(s) + i] = t[i]
  BY <1>0, <1>5, <1>6
<1> QED
  BY <1>6, <1>7, <1>8 DEF s, u

LEMMA AppendedHas ==
    ASSUME NEW d, IsDoc(d), NEW e, NEW t, IsSeq(t), Appends(d, e, t)
    PROVE  /\ \A x : Has(d, x) => Has(e, x)
           /\ \A i \in DOMAIN t : Has(e, t[i])
           /\ \A x : Has(e, x) => Has(d, x) \/ \E i \in DOMAIN t : t[i] = x
<1> DEFINE n == Len(d.events)
<1>1. /\ n \in Nat /\ DOMAIN d.events = 1..n
      /\ Len(t) \in Nat /\ DOMAIN t = 1..Len(t)
      /\ DOMAIN e.events = 1..(n + Len(t))
      /\ \A i \in DOMAIN d.events : e.events[i] = d.events[i]
      /\ \A i \in DOMAIN t : e.events[n + i] = t[i]
  BY AppendedAt
<1> HIDE DEF n
<1>2. \A x : Has(d, x) => Has(e, x)
  BY <1>1 DEF Has
<1>3. ASSUME NEW i \in DOMAIN t
      PROVE  Has(e, t[i])
  <2>1. n + i \in DOMAIN e.events /\ e.events[n + i] = t[i]
    BY <1>1
  <2> QED
    BY <2>1 DEF Has
<1>4. ASSUME NEW i \in DOMAIN e.events
      PROVE  i \in DOMAIN d.events \/ (i - n \in DOMAIN t /\ e.events[i] = t[i - n])
  BY <1>1
<1>5. \A x : Has(e, x) => Has(d, x) \/ \E i \in DOMAIN t : t[i] = x
  BY <1>1, <1>4 DEF Has
<1> QED
  BY <1>2, <1>3, <1>5

LEMMA EventsStep ==
    ASSUME NEW d, IsDoc(d), NEW e, NEW j, NEW t, Appends(d, e, t),
           EventsOK(d, j), Tells(d, e.findings, j, t),
           \A f \in Findings : d.findings[f] # "absent" => e.findings[f] # "absent"
    PROVE  EventsOK(e, j)
<1> DEFINE n == Len(d.events)
<1>0. IsSeq(t)
  BY DEF Tells
<1>1. /\ n \in Nat /\ DOMAIN d.events = 1..n
      /\ Len(t) \in Nat /\ DOMAIN t = 1..Len(t)
      /\ DOMAIN e.events = 1..(n + Len(t))
      /\ \A i \in DOMAIN d.events : e.events[i] = d.events[i]
      /\ \A i \in DOMAIN t : e.events[n + i] = t[i]
  BY <1>0, AppendedAt
<1>2. /\ \A x : Has(d, x) => Has(e, x)
      /\ \A x : Has(e, x) => Has(d, x) \/ \E i \in DOMAIN t : t[i] = x
  BY <1>0, AppendedHas
<1> HIDE DEF n
<1>3. ASSUME NEW i \in DOMAIN e.events
      PROVE  \/ i \in DOMAIN d.events /\ e.events[i] = d.events[i]
             \/ i - n \in DOMAIN t /\ e.events[i] = t[i - n] /\ i \in Int /\ n < i
  BY <1>1
<1>4. RequestsFirst(e, j)
  <2> SUFFICES ASSUME NEW i \in DOMAIN e.events, e.events[i].type = "reconciled",
                      NEW k, k = Key(e.events[i].kind, e.events[i].of)
               PROVE  /\ \E h \in 1..(i - 1) : e.events[h] = Requested(k)
                      /\ k \in StartKeys \/ KnownIn(j, k)
    BY DEF RequestsFirst
  <2>1. CASE i \in DOMAIN d.events /\ e.events[i] = d.events[i]
    <3>1. PICK h \in 1..(i - 1) : d.events[h] = Requested(k)
      BY <2>1 DEF EventsOK, RequestsFirst
    <3>2. h \in DOMAIN d.events
      BY <1>1, <2>1, <3>1
    <3>3. k \in StartKeys \/ KnownIn(j, k)
      BY <2>1 DEF EventsOK, RequestsFirst
    <3> QED
      BY <1>1, <3>1, <3>2, <3>3
  <2>2. CASE i - n \in DOMAIN t /\ e.events[i] = t[i - n] /\ i \in Int /\ n < i
    <3>1. NewsOK(d, e.findings, j, t[i - n])
      BY <2>2 DEF Tells
    <3>2. Has(d, Requested(k)) /\ (k \in StartKeys \/ KnownIn(j, k))
      BY <2>2, <3>1 DEF NewsOK
    <3>3. PICK h \in DOMAIN d.events : d.events[h] = Requested(k)
      BY <3>2 DEF Has
    <3>4. h \in 1..(i - 1) /\ e.events[h] = Requested(k)
      BY <1>1, <2>2, <3>3
    <3> QED
      BY <3>2, <3>4
  <2> QED
    BY <1>3, <2>1, <2>2
<1>5. OneStart(e)
  <2> SUFFICES ASSUME NEW k \in PendingKeys(e, StartKeys), NEW l \in PendingKeys(e, StartKeys)
               PROVE  k = l
    BY DEF OneStart
  <2>1. /\ k \in StartKeys /\ l \in StartKeys
        /\ Has(e, Requested(k)) /\ Has(e, Requested(l))
        /\ ~Has(d, Reconciled(k)) /\ ~Has(d, Reconciled(l))
    BY <1>2 DEF PendingKeys
  <2>2. ASSUME NEW m \in StartKeys, Has(e, Requested(m)), ~Has(d, Requested(m))
        PROVE  /\ PendingKeys(d, StartKeys) = {}
               /\ \E i \in DOMAIN t : t[i] = Requested(m) /\ Len(t) = 1
    <3>1. PICK i \in DOMAIN t : t[i] = Requested(m)
      BY <1>2, <2>2
    <3>2. t[i].type = "requested" /\ t[i].kind = "start"
      BY <3>1, EventFields, StartsAreStarts DEF Requested
    <3> QED
      BY <3>1, <3>2 DEF Tells, NewsOK
  <2>3. ASSUME NEW m \in StartKeys, Has(d, Requested(m)), ~Has(d, Reconciled(m))
        PROVE  m \in PendingKeys(d, StartKeys)
    BY <2>3 DEF PendingKeys
  <2>4. CASE Has(d, Requested(k)) /\ Has(d, Requested(l))
    BY <2>1, <2>3, <2>4 DEF EventsOK, OneStart
  <2>5. CASE ~Has(d, Requested(k)) /\ ~Has(d, Requested(l))
    <3>1. PICK i \in DOMAIN t : t[i] = Requested(k) /\ Len(t) = 1
      BY <2>1, <2>2, <2>5
    <3>2. PICK h \in DOMAIN t : t[h] = Requested(l) /\ Len(t) = 1
      BY <2>1, <2>2, <2>5
    <3>3. i = h
      BY <1>1, <3>1, <3>2
    <3> QED
      BY <2>1, <3>1, <3>2, <3>3, SameKeys DEF Asks, Requested
  <2> QED
    BY <2>1, <2>2, <2>3, <2>4, <2>5
<1>6. Announced(e)
  <2> SUFFICES ASSUME NEW i \in DOMAIN e.events, NEW f \in Findings, Announces(e.events[i], f)
               PROVE  e.findings[f] # "absent"
    BY DEF Announced
  <2> QED
    BY <1>3 DEF EventsOK, Announced, Tells, NewsOK
<1>7. Once(e)
  <2> SUFFICES ASSUME NEW i \in DOMAIN e.events, Lasting(e.events[i]), NEW h \in 1..(i - 1)
               PROVE  e.events[h] # e.events[i]
    BY DEF Once
  <2>1. CASE i \in DOMAIN d.events /\ e.events[i] = d.events[i]
    <3>1. h \in DOMAIN d.events
      BY <1>1, <2>1
    <3> QED
      BY <1>1, <2>1, <3>1 DEF EventsOK, Once
  <2>2. CASE i - n \in DOMAIN t /\ e.events[i] = t[i - n] /\ i \in Int /\ n < i
    <3>1. NewsOK(d, e.findings, j, t[i - n])
      BY <2>2 DEF Tells
    <3>2. ~Has(d, t[i - n])
      BY <2>2, <3>1 DEF NewsOK
    <3>3. CASE h \in DOMAIN d.events
      BY <1>1, <2>2, <3>2, <3>3 DEF Has
    <3>4. CASE h \notin DOMAIN d.events
      <4>1. h - n \in 1..((i - n) - 1) /\ h \in DOMAIN e.events
        BY <1>1, <2>2, <3>4
      <4>2. h - n \in DOMAIN t /\ e.events[h] = t[h - n]
        BY <1>3, <3>4, <4>1
      <4> QED
        BY <2>2, <4>1, <4>2 DEF Tells
    <3> QED
      BY <3>3, <3>4
  <2> QED
    BY <1>3, <2>1, <2>2
<1>8. Repeats(e)
  <2> SUFFICES ASSUME NEW i \in DOMAIN e.events, e.events[i] = Requested(Completion),
                      NEW h \in 1..(i - 1), e.events[h] = e.events[i]
               PROVE  i > 1 /\ e.events[i - 1].type = "validated"
    BY DEF Repeats
  <2>1. CASE i \in DOMAIN d.events /\ e.events[i] = d.events[i]
    <3>1. h \in DOMAIN d.events /\ i - 1 \in DOMAIN d.events
      BY <1>1, <2>1
    <3>2. e.events[h] = d.events[h] /\ e.events[i - 1] = d.events[i - 1]
      BY <1>1, <3>1
    <3> QED
      BY <2>1, <3>2 DEF EventsOK, Repeats
  <2>2. CASE i - n \in DOMAIN t /\ e.events[i] = t[i - n] /\ i \in Int /\ n < i
    <3>1. \/ i - n = 1 /\ ~Has(d, t[i - n])
          \/ i - n > 1 /\ t[i - n - 1].type = "validated"
      BY <2>2 DEF Tells
    <3>2. CASE i - n = 1 /\ ~Has(d, t[i - n])
      <4>1. h \in DOMAIN d.events
        BY <1>1, <2>2, <3>2
      <4> QED
        BY <1>1, <2>2, <3>2, <4>1 DEF Has
    <3>3. CASE i - n > 1 /\ t[i - n - 1].type = "validated"
      <4>1. i - n - 1 \in DOMAIN t /\ n + (i - n - 1) = i - 1 /\ i > 1
        BY <1>1, <2>2, <3>3
      <4>2. e.events[i - 1] = t[i - n - 1]
        BY <1>1, <4>1
      <4> QED
        BY <3>3, <4>1, <4>2
    <3> QED
      BY <3>1, <3>2, <3>3
  <2> QED
    BY <1>3, <2>1, <2>2
<1> QED
  BY <1>4, <1>5, <1>6, <1>7, <1>8 DEF EventsOK

-----------------------------------------------------------------------------
(* The requests a handler picks: the first event of each, the latest one,  *)
(* and the completions a repair appends.                                   *)

LEMMA LeastOf ==
    ASSUME NEW S, S \subseteq Nat, S # {}
    PROVE  \E x \in S : \A y \in S : x <= y
<1> DEFINE below == {ss \in Nat \X Nat : ss[1] < ss[2]}
<1>2. IsWellFoundedOn(below, Nat)
  BY NatLessThanWellFounded DEF OpToRel
<1>3. PICK x \in S : \A y \in S : ~(<<y, x>> \in below)
  <2> HIDE DEF below
  <2> QED
    BY <1>2, WFMin
<1>4. ASSUME NEW y \in S
      PROVE  x <= y
  <2>1. <<y, x>> \in Nat \X Nat /\ ~(<<y, x>> \in below)
    BY <1>3
  <2>2. ~(y < x)
    BY <2>1
  <2> QED
    BY <2>2
<1> QED
  BY <1>4

LEMMA FirstIsThere ==
    ASSUME NEW d, IsDoc(d), NEW k, Has(d, Requested(k))
    PROVE  FirstAt(d, k) \in DOMAIN d.events /\ d.events[FirstAt(d, k)] = Requested(k)
<1> DEFINE S == {i \in DOMAIN d.events : d.events[i] = Requested(k)}
<1>1. DOMAIN d.events \subseteq Nat
  BY DEF IsDoc, IsSeq
<1>2. S \subseteq Nat /\ S # {}
  BY <1>1 DEF Has
<1>3. PICK i \in S : \A h \in S : i <= h
  BY <1>2, LeastOf
<1>4. \E m \in DOMAIN d.events :
        /\ d.events[m] = Requested(k)
        /\ \A h \in DOMAIN d.events : d.events[h] = Requested(k) => m <= h
  BY <1>3
<1> QED
  BY <1>4 DEF FirstAt

\* PendingOr answers with a request that is pending, or with the new one if none is.
LEMMA PicksPending ==
    ASSUME NEW d, IsDoc(d), NEW keys, NEW new
    PROVE  \/ PendingOr(d, keys, new) \in PendingKeys(d, keys)
           \/ PendingKeys(d, keys) = {} /\ PendingOr(d, keys, new) = new
<1> DEFINE pending == PendingKeys(d, keys)
           n == Len(d.events)
           S == {n - FirstAt(d, k) : k \in pending}
<1>1. n \in Nat /\ DOMAIN d.events = 1..n
  BY DEF IsDoc, IsSeq
<1>2. \A k \in pending : FirstAt(d, k) \in 1..n
  BY <1>1, FirstIsThere DEF PendingKeys
<1> HIDE DEF n, pending
<1>3. S \subseteq Nat
  BY <1>1, <1>2
<1>4. ASSUME pending # {}
      PROVE  \E k \in pending : \A l \in pending : FirstAt(d, l) <= FirstAt(d, k)
  <2>1. PICK x \in S : \A y \in S : x <= y
    BY <1>3, <1>4, LeastOf
  <2>2. PICK k \in pending : x = n - FirstAt(d, k)
    BY <2>1
  <2>3. ASSUME NEW l \in pending
        PROVE  FirstAt(d, l) <= FirstAt(d, k)
    <3>1. n - FirstAt(d, l) \in S
      OBVIOUS
    <3>2. n - FirstAt(d, k) <= n - FirstAt(d, l)
      BY <2>1, <2>2, <3>1
    <3> QED
      BY <1>1, <1>2, <3>2
  <2> QED
    BY <2>3
<1> QED
  BY <1>4 DEF PendingOr, pending

\* The completions of a repair: one for each key, each only once.
LEMMA RepairsAre ==
    ASSUME NEW d, IsDoc(d), NEW keys \in SUBSET JobKeys,
           \A k \in keys : Has(d, Requested(k))
    PROVE  LET t == Repairs(d, keys) IN
           /\ IsSeq(t)
           /\ \A i \in DOMAIN t : \E k \in keys : t[i] = Reconciled(k)
           /\ \A i, h \in DOMAIN t : t[i] = t[h] => i = h
<1> DEFINE n == Cardinality(keys)
           Before(k) == {l \in keys : FirstAt(d, l) <= FirstAt(d, k)}
           Place(k) == Cardinality(Before(k))
           t == Repairs(d, keys)
<1>1. IsFiniteSet(keys) /\ n \in Nat
  BY FiniteKeys, FS_Subset, FS_CardinalityType
<1>2. \A k \in keys : FirstAt(d, k) \in Nat /\ d.events[FirstAt(d, k)] = Requested(k)
  BY FirstIsThere DEF IsDoc, IsSeq
<1>3. \A k, l \in keys : FirstAt(d, k) = FirstAt(d, l) => k = l
  BY <1>2, SameKeys DEF Asks, Requested
<1>4. ASSUME NEW k \in keys
      PROVE  /\ k \in Before(k) /\ IsFiniteSet(Before(k)) /\ Place(k) \in 1..n
  <2>1. k \in Before(k)
    BY <1>2
  <2>2. IsFiniteSet(Before(k)) /\ Place(k) <= n
    BY <1>1, FS_Subset
  <2>3. Place(k) \in Nat /\ Place(k) # 0
    BY <2>1, <2>2, FS_CardinalityType, FS_EmptySet
  <2> HIDE DEF Place
  <2> QED
    BY <1>1, <2>1, <2>2, <2>3
<1>5. ASSUME NEW k \in keys, NEW l \in keys, Place(k) = Place(l), FirstAt(d, k) <= FirstAt(d, l)
      PROVE  k = l
  <2>1. Before(k) \subseteq Before(l)
    BY <1>2, <1>5
  <2>2. Before(l) = Before(k)
    BY <1>4, <1>5, <2>1, FS_Subset
  <2>3. FirstAt(d, l) <= FirstAt(d, k)
    BY <1>4, <2>2
  <2> QED
    BY <1>2, <1>3, <1>5, <2>3
<1>6. \A k, l \in keys : Place(k) = Place(l) => k = l
  BY <1>2, <1>5
<1> DEFINE place == [k \in keys |-> Place(k)]
<1>7. place \in Injection(keys, 1..n)
  <2>1. place \in [keys -> 1..n]
    BY <1>4
  <2> QED
    BY <1>6, <2>1 DEF Injection, IsInjective
<1>8. IsFiniteSet(1..n) /\ Cardinality(1..n) = n
  BY <1>1, FS_Interval
<1>9. place \in Surjection(keys, 1..n)
  BY <1>7, <1>8, FS_Injection
<1>10. \A i \in 1..n : \E k \in keys : Place(k) = i
  BY <1>9 DEF Surjection
<1> DEFINE At2(i) == CHOOSE k \in keys : Place(k) = i
<1>11. \A i \in 1..n : At2(i) \in keys /\ Place(At2(i)) = i
  BY <1>10
<1>12. DOMAIN t = 1..n /\ \A i \in 1..n : t[i] = Reconciled(At2(i))
  BY DEF Repairs
<1>13. IsSeq(t)
  BY RepairsSeq
<1> HIDE DEF t, At2, Place
<1>14. \A i \in DOMAIN t : \E k \in keys : t[i] = Reconciled(k)
  BY <1>11, <1>12
<1>15. ASSUME NEW i \in DOMAIN t, NEW h \in DOMAIN t, t[i] = t[h]
       PROVE  i = h
  <2>1. Reconciled(At2(i)) = Reconciled(At2(h)) /\ At2(i) \in Asks /\ At2(h) \in Asks
    BY <1>11, <1>12, <1>15 DEF Asks
  <2>2. At2(i) = At2(h)
    BY <2>1, SameKeys DEF Reconciled
  <2> QED
    BY <1>11, <1>12, <2>2
<1> QED
  BY <1>13, <1>14, <1>15 DEF t

-----------------------------------------------------------------------------
(* What handlers and workers know of the events.                           *)

\* What a handler asks for.
Asked == {k \in Asks : k.kind \in {"start", "validation", "report"}}

\* What a handler knows of the document d, which it may have read earlier as r.doc.
ClientOK(r, d, j) ==
    /\ \A x : Has(r.doc, x) => Has(d, x)
    /\ r.pc = "intent" => /\ r.req \in Asked /\ ~Has(r.doc, Requested(r.req))
                          /\ r.req \in StartKeys => PendingKeys(r.doc, StartKeys) = {}
                          /\ \A f \in Findings :
                               r.req = Validation(f) => r.doc.findings[f] # "absent"
    /\ r.pc \in {"plan", "check", "enqueue", "reconcile", "record"} =>
         r.req \in Asked /\ Has(d, Requested(r.req))
    /\ r.pc = "plan" => r.req \in StartKeys
    /\ r.pc = "check" => r.req \in JobKeys
    /\ r.pc = "enqueue" => r.req \in StartKeys \cup r.plan \/ KnownIn(j, r.req)
    /\ r.pc \in {"reconcile", "record"} => r.req \in StartKeys \/ KnownIn(j, r.req)
    /\ r.pc = "record" => ~Has(r.doc, Reconciled(r.req))
    /\ r.pc = "ensure" => r.req = Completion
    /\ r.pc = "repair" => \A k \in r.plan : /\ KnownIn(j, k) /\ Has(d, Requested(k))
                                            /\ ~Has(r.doc, Reconciled(k))

\* A worker logs an outcome that its copy does not have.
WorkerOK(r) == r.pc = "log" => ~Has(r.doc, Outcome(r.req, r.mode))

\* Who saves something else than an outcome or the completion read an open campaign.
Saving == {"block", "intent", "new", "record", "cancel", "verdict", "diagnose", "repair",
           "work", "save"}
FromOpen(r) == r.pc \in Saving => r.doc.state # "cancelled"

AInv ==
    /\ EventsOK(doc, jobs)
    /\ \A c \in Clients : ClientOK(proc[c], doc, jobs)
    /\ \A w \in Workers : WorkerOK(proc[w])
    /\ \A p \in Processes : FromOpen(proc[p])

Both == IInv /\ AInv

\* The jobs that were known still are.
Remembers == \A k : KnownIn(jobs, k) => KnownIn(jobs', k)

LEMMA GrowsRemembers == Grows => Remembers
BY DEF Grows, Remembers, KnownIn

LEMMA EmptySays == \A x : ~Has(EmptyDoc, x)
BY DEF EmptyDoc, Has

LEMMA ClientKept ==
    ASSUME NEW r, NEW d, NEW e, NEW j, NEW k, ClientOK(r, d, j),
           \A x : Has(d, x) => Has(e, x), \A x : KnownIn(j, x) => KnownIn(k, x)
    PROVE  ClientOK(r, e, k)
BY DEF ClientOK

LEMMA EventsKept ==
    ASSUME NEW d, NEW j, NEW k, EventsOK(d, j), \A x : KnownIn(j, x) => KnownIn(k, x)
    PROVE  EventsOK(d, k)
BY DEF EventsOK, RequestsFirst

\* A process that holds nothing and stands at pc.
LEMMA AtSays ==
    ASSUME NEW pc, NEW req
    PROVE  LET r == At(pc, req) IN
           /\ r.pc = pc /\ r.req = req /\ r.doc = EmptyDoc /\ r.plan = {}
           /\ FromOpen(r)
           /\ pc # "log" => WorkerOK(r)
BY DEF At, FromOpen, WorkerOK, EmptyDoc

\* The pcs of which ClientOK says nothing but what every copy satisfies.
Claiming == {"intent", "plan", "check", "enqueue", "reconcile", "record", "ensure", "repair"}

LEMMA ClientElsewhere ==
    ASSUME NEW r, NEW d, NEW j, r.pc \notin Claiming, \A x : Has(r.doc, x) => Has(d, x)
    PROVE  ClientOK(r, d, j)
BY DEF ClientOK, Claiming

LEMMA ApartProcs == \A c \in Clients, w \in Workers : c # w
BY RecordAssumption DEF RecordAssumption

\* Process p does anything but save.
LEMMA MovesSay ==
    ASSUME Both, doc' = doc, Remembers, NEW p \in Processes, NEW r,
           proc' = [proc EXCEPT ![p] = r], FromOpen(r),
           p \in Clients => ClientOK(r, doc, jobs'), p \in Workers => WorkerOK(r)
    PROVE  AInv'
<1>1. DOMAIN proc = Processes /\ AInv
  BY DEF Both, IInv
<1>2. proc'[p] = r /\ \A q \in Processes : q # p => proc'[q] = proc[q]
  BY <1>1
<1>3. EventsOK(doc, jobs)'
  BY <1>1, EventsKept DEF AInv, Remembers
<1>4. ASSUME NEW c \in Clients
      PROVE  ClientOK(proc[c], doc, jobs)'
  BY <1>1, <1>2, ClientKept DEF AInv, Remembers, Processes
<1>5. ASSUME NEW w \in Workers
      PROVE  WorkerOK(proc[w])'
  BY <1>1, <1>2 DEF AInv, Processes
<1>6. ASSUME NEW q \in Processes
      PROVE  FromOpen(proc[q])'
  BY <1>1, <1>2 DEF AInv
<1> QED
  BY <1>3, <1>4, <1>5, <1>6 DEF AInv

\* Process p saves e, which appends t to the events.
LEMMA SavesSay ==
    ASSUME Both, jobs' = jobs, NEW p \in Processes, NEW r, NEW e, NEW t,
           doc' = e, Extends(doc, e), Appends(doc, e, t), Tells(doc, e.findings, jobs, t),
           proc' = [proc EXCEPT ![p] = r], FromOpen(r),
           p \in Clients => ClientOK(r, e, jobs), p \in Workers => WorkerOK(r)
    PROVE  AInv'
<1>1. DOMAIN proc = Processes /\ AInv /\ IsDoc(doc)
  BY DEF Both, IInv, SharedOK
<1>2. proc'[p] = r /\ \A q \in Processes : q # p => proc'[q] = proc[q]
  BY <1>1
<1>3. \A f \in Findings : doc.findings[f] # "absent" => e.findings[f] # "absent"
  BY DEF Extends, Present
<1>4. EventsOK(e, jobs)
  BY <1>1, <1>3, EventsStep DEF AInv
<1>5. \A x : Has(doc, x) => Has(e, x)
  BY <1>1, KeptEvents DEF Extends
<1>6. ASSUME NEW c \in Clients
      PROVE  ClientOK(proc[c], doc, jobs)'
  BY <1>1, <1>2, <1>5, ClientKept DEF AInv, Processes
<1>7. ASSUME NEW w \in Workers
      PROVE  WorkerOK(proc[w])'
  BY <1>1, <1>2 DEF AInv, Processes
<1>8. ASSUME NEW q \in Processes
      PROVE  FromOpen(proc[q])'
  BY <1>1, <1>2 DEF AInv
<1> QED
  BY <1>4, <1>6, <1>7, <1>8 DEF AInv

-----------------------------------------------------------------------------
(* What may be appended.                                                   *)

LEMMA TellsNothing ==
    ASSUME NEW d, NEW findings, NEW j
    PROVE  Tells(d, findings, j, <<>>)
BY Singles DEF Tells

LEMMA TellsOne ==
    ASSUME NEW d, NEW findings, NEW j, NEW x, NewsOK(d, findings, j, x),
           x = Requested(Completion) => ~Has(d, x)
    PROVE  Tells(d, findings, j, <<x>>)
<1>1. IsSeq(<<x>>) /\ DOMAIN <<x>> = {1} /\ <<x>>[1] = x /\ Len(<<x>>) = 1
  BY Singles
<1>2. 1..(1 - 1) = {}
  OBVIOUS
<1> QED
  BY <1>1, <1>2 DEF Tells

LEMMA TellsTwo ==
    ASSUME NEW d, NEW findings, NEW j, NEW x, NEW y,
           NewsOK(d, findings, j, x), NewsOK(d, findings, j, y), x # y,
           x.kind # "start", y.kind # "start",
           x # Requested(Completion), y = Requested(Completion) => x.type = "validated"
    PROVE  Tells(d, findings, j, <<x, y>>)
<1> DEFINE t == <<x, y>>
<1>1. IsSeq(t) /\ DOMAIN t = {1, 2} /\ t[1] = x /\ t[2] = y
  BY Singles
<1>2. 1..(1 - 1) = {} /\ 1..(2 - 1) = {1}
  OBVIOUS
<1> HIDE DEF t
<1>3. Tells(d, findings, j, t)
  BY <1>1, <1>2 DEF Tells
<1> QED
  BY <1>3 DEF t

\* An event that nothing waits for.
LEMMA NewsPlain ==
    ASSUME NEW d, NEW findings, NEW j, NEW x,
           x.type \notin {"reconciled", "requested", "received"},
           Lasting(x) => ~Has(d, x)
    PROVE  NewsOK(d, findings, j, x)
<1>1. \A f \in Findings : ~Announces(x, f)
  BY EventFields DEF Announces, Requested
<1> QED
  BY <1>1 DEF NewsOK

LEMMA NewsRequest ==
    ASSUME NEW d, NEW findings, NEW j, NEW k \in Asks,
           k = Completion \/ ~Has(d, Requested(k)),
           k \in StartKeys => PendingKeys(d, StartKeys) = {},
           \A f \in Findings : k = Validation(f) => findings[f] # "absent"
    PROVE  NewsOK(d, findings, j, Requested(k))
<1> DEFINE x == Requested(k)
<1>1. x.type = "requested" /\ x.kind = k.kind /\ x.of = k.of
  BY EventFields DEF Requested
<1>2. k.kind = "start" => k \in StartKeys
  BY JobsAreJobs DEF Asks
<1>3. ASSUME NEW f \in Findings, Announces(x, f)
      PROVE  findings[f] # "absent"
  <2>1. Validation(f) \in Asks
    BY DEF Asks, JobKeys
  <2>2. k = Validation(f)
    BY <1>3, <2>1, SameKeys DEF Announces, Requested
  <2> QED
    BY <2>2
<1>4. k = Completion => ~Lasting(x)
  BY DEF Lasting
<1> HIDE DEF x
<1>5. Lasting(x) => ~Has(d, x)
  BY <1>4 DEF Lasting, x
<1>6. NewsOK(d, findings, j, x)
  BY <1>1, <1>2, <1>3, <1>5 DEF NewsOK
<1> QED
  BY <1>6 DEF x

LEMMA NewsReceived ==
    ASSUME NEW d, NEW findings, NEW j, NEW f \in Findings, findings[f] # "absent",
           ~Has(d, Event("received", Validation(f)))
    PROVE  NewsOK(d, findings, j, Event("received", Validation(f)))
<1> DEFINE x == Event("received", Validation(f))
<1>1. x.type = "received"
  BY EventFields
<1>2. \A g \in Findings : Validation(g) \in Asks
  BY DEF Asks, JobKeys
<1>3. ASSUME NEW g \in Findings, Announces(x, g)
      PROVE  g = f
  <2>1. Validation(g) = Validation(f)
    BY <1>2, <1>3, SameKeys DEF Announces, Requested
  <2> QED
    BY <2>1, KeyFields DEF Validation
<1> HIDE DEF x
<1>4. NewsOK(d, findings, j, x)
  BY <1>1, <1>3 DEF NewsOK, x
<1> QED
  BY <1>4 DEF x

LEMMA NewsReconciled ==
    ASSUME NEW d, NEW findings, NEW j, NEW k \in Asks,
           Has(d, Requested(k)), k \in StartKeys \/ KnownIn(j, k), ~Has(d, Reconciled(k))
    PROVE  NewsOK(d, findings, j, Reconciled(k))
<1> DEFINE x == Reconciled(k)
<1>1. x.type = "reconciled" /\ x.kind = k.kind /\ x.of = k.of
  BY EventFields DEF Reconciled
<1>2. Key(x.kind, x.of) = k
  BY <1>1, AskedKey
<1>3. \A f \in Findings : ~Announces(x, f)
  BY <1>1, EventFields DEF Announces, Requested
<1> HIDE DEF x
<1>4. NewsOK(d, findings, j, x)
  BY <1>1, <1>2, <1>3 DEF NewsOK, x
<1> QED
  BY <1>4 DEF x

LEMMA TellsRepairs ==
    ASSUME NEW d, IsDoc(d), NEW findings, NEW j, NEW keys \in SUBSET JobKeys,
           \A k \in keys : /\ KnownIn(j, k) /\ Has(d, Requested(k)) /\ ~Has(d, Reconciled(k))
    PROVE  Tells(d, findings, j, Repairs(d, keys))
<1> DEFINE t == Repairs(d, keys)
<1>1. /\ IsSeq(t)
      /\ \A i \in DOMAIN t : \E k \in keys : t[i] = Reconciled(k)
      /\ \A i, h \in DOMAIN t : t[i] = t[h] => i = h
  BY RepairsAre
<1> HIDE DEF t
<1>2. DOMAIN t = 1..Len(t) /\ Len(t) \in Nat
  BY <1>1 DEF IsSeq
<1>3. \A k \in keys : NewsOK(d, findings, j, Reconciled(k)) /\ Reconciled(k).type = "reconciled"
  BY NewsReconciled, EventFields DEF Asks, Reconciled
<1>4. \A i \in DOMAIN t : NewsOK(d, findings, j, t[i]) /\ t[i].type = "reconciled"
  BY <1>1, <1>3
<1>5. \A i \in DOMAIN t : \A h \in 1..(i - 1) : t[h] # t[i]
  BY <1>1, <1>2
<1>6. \A i \in DOMAIN t : t[i] # Requested(Completion)
  BY <1>4, OtherEvents
<1>7. Tells(d, findings, j, t)
  BY <1>1, <1>4, <1>5, <1>6 DEF Tells
<1> QED
  BY <1>7 DEF t

-----------------------------------------------------------------------------
(* The forms of the steps of a handler.                                    *)

LEMMA StepExtends ==
    ASSUME IInv, Step
    PROVE  Extends(doc, doc')
BY PrefixRefl DEF IInv, SharedOK, Step, Extends, IsDoc

LEMMA QuietRemembers == jobs' = jobs => Remembers
BY DEF Remembers

LEMMA LeaveSays ==
    ASSUME Both, doc' = doc, Remembers, NEW p \in Processes, NEW pc, NEW req,
           pc \notin Claiming, pc # "log", proc' = [proc EXCEPT ![p] = At(pc, req)]
    PROVE  AInv'
<1> DEFINE r == At(pc, req)
<1>1. r.pc = pc /\ r.doc = EmptyDoc /\ FromOpen(r) /\ WorkerOK(r)
  BY AtSays
<1>2. proc' = [proc EXCEPT ![p] = r]
  OBVIOUS
<1> HIDE DEF r
<1>3. ClientOK(r, doc, jobs')
  BY <1>1, EmptySays, ClientElsewhere
<1> QED
  BY <1>1, <1>2, <1>3, MovesSay

LEMMA DoneSays ==
    ASSUME Both, UNCHANGED shared, NEW c \in Clients, Done(c)
    PROVE  AInv'
BY LeaveSays, QuietRemembers DEF Done, Leave, shared, Processes, Claiming

\* What the handler takes up with the campaign it reads.
Grounds(pc, req) ==
    /\ pc \in Saving => doc.state # "cancelled"
    /\ pc = "intent" => /\ req \in Asked /\ ~Has(doc, Requested(req))
                        /\ req \in StartKeys => PendingKeys(doc, StartKeys) = {}
                        /\ \A f \in Findings : req = Validation(f) => doc.findings[f] # "absent"
    /\ pc \in {"plan", "check", "record"} => req \in Asked /\ Has(doc, Requested(req))
    /\ pc = "plan" => req \in StartKeys
    /\ pc = "check" => req \in JobKeys
    /\ pc = "record" => /\ req \in StartKeys \/ KnownIn(jobs, req)
                        /\ ~Has(doc, Reconciled(req))
    /\ pc = "ensure" => req = Completion
    /\ pc \notin {"enqueue", "reconcile", "repair"}

LEMMA TakeSays ==
    ASSUME Both, UNCHANGED shared, NEW c \in Clients, NEW pc, NEW req, Take(c, pc, req),
           Grounds(pc, req)
    PROVE  AInv'
<1> DEFINE r == [Loaded(c, pc) EXCEPT !.req = req]
<1>0. c \in Processes /\ c \notin Workers /\ doc' = doc /\ jobs' = jobs
  BY ApartProcs DEF Processes, shared
<1>1. IsLocal(r) /\ r.pc = pc /\ r.doc = doc /\ r.ver = version /\ r.req = req
  <2>1. IInv /\ c \in Processes
    BY <1>0 DEF Both
  <2> QED
    BY <2>1, TakeFields
<1>2. proc' = [proc EXCEPT ![c] = r]
  BY DEF Take
<1> HIDE DEF r
<1>3. ClientOK(r, doc, jobs')
  BY <1>0, <1>1 DEF ClientOK, Grounds
<1>4. FromOpen(r)
  BY <1>1 DEF FromOpen, Grounds
<1> QED
  BY <1>0, <1>2, <1>3, <1>4, MovesSay, QuietRemembers

\* The handler turns to pc with a plan, on what it knows.
LEMMA TurnsSay ==
    ASSUME Both, UNCHANGED shared, NEW c \in Clients, NEW pc, NEW plan, Turns(c, pc, plan),
           \/ /\ pc = "enqueue" /\ proc[c].pc \in {"plan", "check"}
              /\ proc[c].pc = "check" => plan = {proc[c].req}
           \/ /\ pc = "repair" /\ proc[c].pc = "diagnose"
              /\ plan \subseteq PendingKeys(proc[c].doc, JobKeys)
              /\ \A k \in plan : Known(k)
    PROVE  AInv'
<1> DEFINE r == [proc[c] EXCEPT !.pc = pc, !.plan = plan]
<1>0. /\ c \in Processes /\ c \notin Workers /\ doc' = doc /\ jobs' = jobs
      /\ ClientOK(proc[c], doc, jobs) /\ FromOpen(proc[c]) /\ IsLocal(proc[c])
  BY ApartProcs DEF Processes, shared, Both, AInv, IInv, ProcOK
<1>1. r.pc = pc /\ r.doc = proc[c].doc /\ r.req = proc[c].req /\ r.plan = plan
  BY <1>0 DEF IsLocal
<1>2. proc' = [proc EXCEPT ![c] = r]
  BY DEF Turns
<1> HIDE DEF r
<1>3. ClientOK(r, doc, jobs')
  BY <1>0, <1>1 DEF ClientOK, PendingKeys, Known, KnownIn
<1>4. FromOpen(r)
  BY <1>0, <1>1 DEF FromOpen, Saving
<1> QED
  BY <1>0, <1>2, <1>3, <1>4, MovesSay, QuietRemembers

\* The handler saves d and goes on to pc, or is refused.
LEMMA SaveThenSays ==
    ASSUME Both, Step, NEW c \in Clients, NEW d, NEW t, NEW pc, SaveThen(c, d, pc),
           Unchanged(c) => /\ Appends(doc, d, t) /\ Tells(doc, d.findings, jobs, t)
                           /\ pc \in {"plan", "check"} =>
                                proc[c].req \in Asked /\ Has(d, Requested(proc[c].req))
                           /\ pc = "plan" => proc[c].req \in StartKeys
                           /\ pc = "check" => proc[c].req \in JobKeys,
           pc \in {"plan", "check", "done", "drop", "complete"}
    PROVE  AInv'
<1>0. /\ c \in Processes /\ c \notin Workers /\ jobs' = jobs
  BY ApartProcs DEF Processes, SaveThen
<1>1. CASE ~Unchanged(c)
  BY <1>0, <1>1, LeaveSays, QuietRemembers DEF SaveThen, Done, Leave, Claiming
<1>2. CASE Unchanged(c)
  <2>1. PICK req : /\ proc' = [proc EXCEPT ![c] = At(pc, req)]
                   /\ pc \in {"plan", "check"} => req = proc[c].req
    BY <1>2 DEF SaveThen, Done, Leave, Goto
  <2>2. doc' = d /\ Extends(doc, d)
    BY <1>2, StepExtends DEF SaveThen, Commit, Both
  <2> DEFINE r == At(pc, req)
  <2>3. r.pc = pc /\ r.req = req /\ r.doc = EmptyDoc /\ FromOpen(r)
    BY AtSays
  <2>4. proc' = [proc EXCEPT ![c] = r]
    BY <2>1
  <2> HIDE DEF r
  <2>5. ClientOK(r, d, jobs)
    BY <1>2, <2>1, <2>3, EmptySays DEF ClientOK
  <2> QED
    BY <1>0, <1>2, <2>2, <2>3, <2>4, <2>5, SavesSay
<1> QED
  BY <1>1, <1>2

LEMMA RetrySays ==
    ASSUME Both, UNCHANGED shared, NEW c \in Clients, NEW pc, NEW else, Retry(c, pc, else),
           pc \notin Claiming \ {"reconcile"}, else \notin Claiming,
           pc = "reconcile" => proc[c].pc = "record"
    PROVE  AInv'
<1>0. /\ c \in Processes /\ c \notin Workers /\ doc' = doc /\ jobs' = jobs
      /\ ClientOK(proc[c], doc, jobs) /\ Remembers
  BY ApartProcs, QuietRemembers DEF Processes, shared, Both, AInv
<1>1. CASE proc[c].tries + 1 < MaxTries
  <2> DEFINE r == [At(pc, proc[c].req) EXCEPT !.tries = proc[c].tries + 1]
  <2>1. /\ r.pc = pc /\ r.req = proc[c].req /\ r.doc = EmptyDoc
        /\ EmptyDoc.state = "ready"
    BY DEF At, EmptyDoc
  <2>2. proc' = [proc EXCEPT ![c] = r]
    BY <1>1 DEF Retry
  <2> HIDE DEF r
  <2>3. ClientOK(r, doc, jobs') /\ FromOpen(r)
    BY <1>0, <2>1, EmptySays DEF ClientOK, Claiming, FromOpen
  <2> QED
    BY <1>0, <2>2, <2>3, MovesSay
<1>2. CASE ~(proc[c].tries + 1 < MaxTries)
  <2>1. proc' = [proc EXCEPT ![c] = At(else, NoKey)]
    BY <1>2 DEF Retry
  <2> DEFINE r == At(else, NoKey)
  <2>2. r.pc = else /\ r.doc = EmptyDoc /\ FromOpen(r)
    BY AtSays
  <2> HIDE DEF r
  <2>3. ClientOK(r, doc, jobs')
    BY <2>2, EmptySays, ClientElsewhere
  <2>4. proc' = [proc EXCEPT ![c] = r]
    BY <2>1 DEF r
  <2> QED
    BY <1>0, <2>2, <2>3, <2>4, MovesSay
<1> QED
  BY <1>1, <1>2

\* One enqueue of a plan, a handler's or a worker's.
LEMMA EnqueueSays ==
    ASSUME Both, NEW p \in Processes, NEW k, Enqueue(p, k)
    PROVE  AInv'
<1> DEFINE r == [proc[p] EXCEPT !.plan = proc[p].plan \ {k}]
<1>1. /\ IsLocal(proc[p]) /\ FromOpen(proc[p])
      /\ p \in Clients => ClientOK(proc[p], doc, jobs)
      /\ p \in Workers => WorkerOK(proc[p])
  BY DEF Both, AInv, IInv, ProcOK
<1>2. /\ r.pc = proc[p].pc /\ r.doc = proc[p].doc /\ r.req = proc[p].req
      /\ r.mode = proc[p].mode /\ r.plan = proc[p].plan \ {k}
  BY <1>1 DEF IsLocal
<1>3. /\ proc' = [proc EXCEPT ![p] = r] /\ doc' = doc /\ jobs' = Enqueued(k)
  BY DEF Enqueue
<1> HIDE DEF r
<1>4. Remembers /\ (k \in JobKeys => KnownIn(jobs', k))
  BY <1>3 DEF Both, IInv, SharedOK, Remembers, Enqueued, Known, KnownIn, JobRow
<1>5. FromOpen(r) /\ (p \in Workers => WorkerOK(r))
  BY <1>1, <1>2 DEF FromOpen, WorkerOK
<1>6. ASSUME p \in Clients
      PROVE  ClientOK(r, doc, jobs')
  <2>1. ClientOK(proc[p], doc, jobs')
    BY <1>1, <1>4, <1>6, ClientKept DEF Remembers
  <2>2. r.req = k /\ r.pc = "enqueue" => k \in StartKeys \/ KnownIn(jobs', k)
    BY <1>2, <1>4, <2>1 DEF ClientOK, Asked, Asks
  <2> QED
    BY <1>2, <2>1, <2>2 DEF ClientOK
<1> QED
  BY <1>3, <1>4, <1>5, <1>6, MovesSay

-----------------------------------------------------------------------------
(* The control plane.                                                      *)

LEMMA LoggedAppends ==
    ASSUME IInv, NEW c \in Clients, Unchanged(c), NEW x
    PROVE  /\ Appends(doc, Logged(Snapshot(c), x), <<x>>)
           /\ Logged(Snapshot(c), x).findings = doc.findings
           /\ Has(Logged(Snapshot(c), x), x)
<1> DEFINE d == Logged(Snapshot(c), x)
<1>1. IsDoc(doc) /\ Snapshot(c) = doc
  BY OwnCopy DEF IInv, SharedOK, Snapshot, Processes
<1>2. Appends(doc, d, <<x>>) /\ d.findings = doc.findings
  <2> DEFINE t == <<x>>
  <2>1. d = Edited(doc, doc.state, doc.findings, t)
    BY <1>1 DEF Logged
  <2> HIDE DEF d, t
  <2>2. d.events = doc.events \o t /\ d.findings = doc.findings
    BY <1>1, <2>1, EditedFields
  <2> QED
    BY <2>2 DEF Appends, t
<1>3. IsSeq(<<x>>) /\ 1 \in DOMAIN <<x>> /\ <<x>>[1] = x
  BY Singles
<1> HIDE DEF d
<1>4. Has(d, x)
  BY <1>1, <1>2, <1>3, AppendedHas
<1> QED
  BY <1>2, <1>4 DEF d

LEMMA StartReadSays ==
    ASSUME Both, NEW c \in Clients, StartRead(c)
    PROVE  AInv'
<1> DEFINE req == PendingOr(doc, StartKeys, Start(c))
<1>0. UNCHANGED shared
  BY DEF StartRead, ReadOnly
<1>1. \/ Done(c)
      \/ /\ doc.state # "cancelled"
         /\ \E pc : /\ Take(c, pc, req)
                    /\ \/ pc = "block"
                       \/ pc = "plan" /\ Has(doc, Requested(req))
                       \/ pc = "intent" /\ ~Has(doc, Requested(req))
  BY DEF StartRead
<1>2. \/ req \in PendingKeys(doc, StartKeys)
      \/ PendingKeys(doc, StartKeys) = {} /\ req = Start(c)
  BY PicksPending DEF Both, IInv, SharedOK
<1>3. req \in StartKeys /\ (~Has(doc, Requested(req)) => PendingKeys(doc, StartKeys) = {})
  BY <1>2 DEF PendingKeys, StartKeys
<1> HIDE DEF req
<1>4. \A f \in Findings : req # Validation(f)
  BY <1>3, StartsAreStarts, JobsAreJobs DEF JobKeys
<1>5. CASE Done(c)
  BY <1>0, <1>5, DoneSays
<1>6. ASSUME NEW pc, Take(c, pc, req), doc.state # "cancelled",
             \/ pc = "block"
             \/ pc = "plan" /\ Has(doc, Requested(req))
             \/ pc = "intent" /\ ~Has(doc, Requested(req))
      PROVE  AInv'
  <2>1. Grounds(pc, req)
    BY <1>3, <1>4, <1>6, StartsAreStarts DEF Grounds, Asks, Asked
  <2> QED
    BY <1>0, <1>6, <2>1, TakeSays
<1> QED
  BY <1>1, <1>5, <1>6

LEMMA StartBlockedSays ==
    ASSUME Both, Step, NEW c \in Clients, StartBlocked(c)
    PROVE  AInv'
<1> DEFINE x == Event("blocked", NoKey)
           d == Logged(Snapshot(c), x)
<1>1. SaveThen(c, d, "done")
  BY DEF StartBlocked
<1>2. x.type = "blocked"
  BY EventFields
<1> HIDE DEF x
<1>3. NewsOK(doc, d.findings, jobs, x)
  BY <1>2, NewsPlain DEF Lasting, SaidOnce
<1>4. Unchanged(c) => Appends(doc, d, <<x>>) /\ Tells(doc, d.findings, jobs, <<x>>)
  BY <1>2, <1>3, LoggedAppends, TellsOne, OtherEvents DEF Both
<1> HIDE DEF d
<1> QED
  BY <1>1, <1>4, SaveThenSays

LEMMA IntentsSay ==
    ASSUME Both, Step, NEW c \in Clients, SaveIntent(c) \/ SaveRequest(c)
    PROVE  AInv'
<1> DEFINE req == proc[c].req
           x == Requested(req)
           d == Logged(Snapshot(c), x)
<1>1. PICK pc : /\ SaveThen(c, d, pc) /\ pc \in {"plan", "check"}
                /\ pc = "plan" <=> req.kind = "start"
  BY DEF SaveIntent, SaveRequest
<1>2. ClientOK(proc[c], doc, jobs) /\ proc[c].pc = "intent"
  BY DEF Both, AInv, SaveIntent, SaveRequest
<1>3. req \in Asked /\ req \in Asks /\ (req.kind = "start" <=> req \in StartKeys)
  BY <1>2, StartsAreStarts, JobsAreJobs DEF ClientOK, Asks, Asked
<1>4. ASSUME Unchanged(c)
      PROVE  /\ Appends(doc, d, <<x>>) /\ Tells(doc, d.findings, jobs, <<x>>)
             /\ Has(d, x)
  <2>1. proc[c].doc = doc
    BY <1>4, OwnCopy DEF Both, Processes
  <2>2. Appends(doc, d, <<x>>) /\ d.findings = doc.findings /\ Has(d, x)
    BY <1>4, LoggedAppends DEF Both
  <2> HIDE DEF d
  <2>3. NewsOK(doc, d.findings, jobs, x)
    BY <1>2, <1>3, <2>1, <2>2, NewsRequest DEF ClientOK
  <2>4. ~Has(doc, x)
    BY <1>2, <2>1 DEF ClientOK
  <2> QED
    BY <2>2, <2>3, <2>4, TellsOne
<1> HIDE DEF d
<1>5. pc = "check" => req \in JobKeys
  BY <1>1, <1>3 DEF Asks
<1> QED
  BY <1>1, <1>3, <1>4, <1>5, SaveThenSays

LEMMA StartPlanSays ==
    ASSUME Both, NEW c \in Clients, StartPlan(c)
    PROVE  AInv'
<1>1. /\ UNCHANGED shared /\ proc[c].pc = "plan"
      /\ \/ Done(c)
         \/ \E plan : Turns(c, "enqueue", plan)
  BY DEF StartPlan, ReadOnly, Turns
<1> QED
  BY <1>1, DoneSays, TurnsSay

LEMMA EnqueuesSay ==
    ASSUME Both, NEW c \in Clients, Enqueues(c)
    PROVE  AInv'
<1>0. c \in Processes /\ c \notin Workers
  BY ApartProcs DEF Processes
<1>1. CASE \E k \in proc[c].plan : Enqueue(c, k)
  BY <1>0, <1>1, EnqueueSays
<1>2. CASE proc[c].plan = {} /\ Goto(c, "reconcile") /\ ReadOnly
  <2> DEFINE r == At("reconcile", proc[c].req)
  <2>1. ClientOK(proc[c], doc, jobs) /\ proc[c].pc = "enqueue" /\ doc' = doc /\ jobs' = jobs
    BY <1>2 DEF Both, AInv, Enqueues, ReadOnly, shared
  <2>2. r.pc = "reconcile" /\ r.req = proc[c].req /\ r.doc = EmptyDoc /\ FromOpen(r)
    BY AtSays
  <2>3. proc' = [proc EXCEPT ![c] = r]
    BY <1>2 DEF Goto
  <2> HIDE DEF r
  <2>4. ClientOK(r, doc, jobs')
    BY <1>2, <2>1, <2>2, EmptySays DEF ClientOK
  <2> QED
    BY <1>0, <2>1, <2>2, <2>3, <2>4, QuietRemembers, MovesSay
<1> QED
  BY <1>1, <1>2 DEF Enqueues

LEMMA CheckSays ==
    ASSUME Both, NEW c \in Clients, CheckFinding(c) \/ CheckReport(c)
    PROVE  AInv'
<1>1. /\ UNCHANGED shared /\ proc[c].pc = "check"
      /\ \/ Done(c)
         \/ Turns(c, "enqueue", {proc[c].req})
  BY DEF CheckFinding, CheckReport, Reread, ReadOnly, Turns
<1> QED
  BY <1>1, DoneSays, TurnsSay

LEMMA RefusedOpen ==
    ASSUME NEW req \in Asked, ~Refused(req)
    PROVE  doc.state # "cancelled"
<1>1. req.kind \in {"start", "validation", "report"}
  BY DEF Asked
<1>2. CASE req.kind = "start"
  <2>1. Refused(req) <=> doc.state \notin {"ready", "failed", "running"}
    BY <1>2 DEF Refused
  <2> QED
    BY <2>1
<1>3. CASE req.kind = "validation"
  <2>1. Refused(req) <=> Closed \/ doc.findings[req.of] # "validation_required"
    BY <1>3 DEF Refused
  <2> QED
    BY <2>1 DEF Closed
<1>4. CASE req.kind = "report"
  <2>1. Refused(req) <=> doc.state = "cancelled"
    BY <1>4 DEF Refused
  <2> QED
    BY <2>1
<1> QED
  BY <1>1, <1>2, <1>3, <1>4

LEMMA ReconcileSays ==
    ASSUME Both, NEW c \in Clients, Reconcile(c)
    PROVE  AInv'
<1> DEFINE req == proc[c].req
<1>1. /\ UNCHANGED shared /\ proc[c].pc = "reconcile"
      /\ \/ Done(c)
         \/ ~Refused(req) /\ ~Has(doc, Reconciled(req)) /\ Take(c, "record", req)
  BY DEF Reconcile, ReadOnly
<1>2. ClientOK(proc[c], doc, jobs)
  BY DEF Both, AInv
<1>3. CASE ~Refused(req) /\ ~Has(doc, Reconciled(req)) /\ Take(c, "record", req)
  <2>1. Grounds("record", req)
    BY <1>1, <1>2, <1>3, RefusedOpen DEF Grounds, ClientOK
  <2> QED
    BY <1>1, <1>3, <2>1, TakeSays
<1> QED
  BY <1>1, <1>3, DoneSays

LEMMA RecordSays ==
    ASSUME Both, Step, NEW c \in Clients, Record(c)
    PROVE  AInv'
<1> DEFINE req == proc[c].req
           t == <<Reconciled(req)>>
           r == At("done", NoKey)
<1>0. /\ c \in Processes /\ c \notin Workers /\ jobs' = jobs /\ UNCHANGED <<jobs, graph, rules>>
      /\ ClientOK(proc[c], doc, jobs) /\ proc[c].pc = "record"
  BY ApartProcs DEF Processes, Record, Both, AInv
<1>1. CASE ~Unchanged(c)
  <2>1. UNCHANGED shared /\ Retry(c, "reconcile", "done")
    BY <1>1 DEF Record, shared
  <2> QED
    BY <1>0, <2>1, RetrySays DEF Claiming
<1>2. CASE Unchanged(c)
  <2>1. proc[c].doc = doc /\ IsDoc(doc) /\ IInv
    BY <1>0, <1>2, OwnCopy DEF Both, IInv, SharedOK
  <2>2. doc' = Edited(doc, StateAfter(doc, req), doc.findings, t)
    BY <1>2, <2>1 DEF Record, Snapshot, Commit
  <2>3. Appends(doc, doc', t)
    BY <2>1, <2>2, EditedFields DEF Appends
  <2>4. NewsOK(doc, doc'.findings, jobs, Reconciled(req))
    BY <1>0, <2>1, NewsReconciled DEF ClientOK, Asked
  <2>5. Tells(doc, doc'.findings, jobs, t)
    <3>1. Reconciled(req).type = "reconciled"
      BY EventFields DEF Reconciled
    <3> QED
      BY <2>4, <3>1, TellsOne, OtherEvents
  <2>6. proc' = [proc EXCEPT ![c] = r]
    BY <1>2 DEF Record, Done, Leave
  <2>7. r.pc = "done" /\ r.doc = EmptyDoc /\ FromOpen(r)
    BY AtSays
  <2> HIDE DEF r, t
  <2>8. ClientOK(r, doc', jobs)
    BY <2>7, EmptySays, ClientElsewhere DEF Claiming
  <2>9. Extends(doc, doc')
    BY <2>1, StepExtends
  <2> QED
    BY <1>0, <2>3, <2>5, <2>6, <2>7, <2>8, <2>9, SavesSay
<1> QED
  BY <1>1, <1>2

LEMMA CancelReadSays ==
    ASSUME Both, NEW c \in Clients, CancelRead(c)
    PROVE  AInv'
<1>1. UNCHANGED shared /\ (Done(c) \/ (doc.state # "cancelled" /\ Take(c, "cancel", NoKey)))
  BY DEF CancelRead, ReadOnly, Closed
<1>2. doc.state # "cancelled" => Grounds("cancel", NoKey)
  BY DEF Grounds
<1> QED
  BY <1>1, <1>2, DoneSays, TakeSays

LEMMA CancelSaveSays ==
    ASSUME Both, Step, NEW c \in Clients, CancelSave(c)
    PROVE  AInv'
<1> DEFINE x == Event("cancelled", NoKey)
           e == Edited(Snapshot(c), "cancelled", Snapshot(c).findings, <<x>>)
           idle == {k \in JobKeys : ~Running(k) /\ ~Completed(k)}
           d == [e EXCEPT !.idle = idle]
<1>1. SaveThen(c, d, "drop")
  BY DEF CancelSave
<1>2. x.type = "cancelled"
  BY EventFields
<1> HIDE DEF x
<1>3. NewsOK(doc, d.findings, jobs, x)
  BY <1>2, NewsPlain DEF Lasting
<1>4. Tells(doc, d.findings, jobs, <<x>>)
  BY <1>2, <1>3, TellsOne, OtherEvents
<1>5. ASSUME Unchanged(c)
      PROVE  Appends(doc, d, <<x>>)
  <2>1. IsDoc(doc) /\ Snapshot(c) = doc
    BY <1>5, OwnCopy DEF Both, IInv, SharedOK, Snapshot, Processes
  <2> DEFINE t == <<x>>
  <2>2. e = Edited(doc, "cancelled", doc.findings, t)
    BY <2>1
  <2> HIDE DEF e, t
  <2>3. DOMAIN e = {"state", "findings", "events", "idle"} /\ e.events = doc.events \o t
    BY <2>1, <2>2, EditedFields
  <2> QED
    BY <2>3 DEF Appends, t
<1> HIDE DEF d
<1> QED
  BY <1>1, <1>4, <1>5, SaveThenSays

LEMMA CancelDropSays ==
    ASSUME Both, NEW c \in Clients, CancelDrop(c)
    PROVE  AInv'
<1>1. Remembers /\ doc' = doc
  BY DEF CancelDrop, CancelQueued, Both, IInv, SharedOK, Remembers, KnownIn, JobRow, Queued
<1> QED
  BY <1>1, LeaveSays DEF CancelDrop, Done, Leave, Claiming, Processes

LEMMA AddReadSays ==
    ASSUME Both, NEW c \in Clients, NEW f \in Findings, AddRead(c, f)
    PROVE  AInv'
<1> DEFINE req == Validation(f)
<1>1. /\ UNCHANGED shared
      /\ \/ Done(c)
         \/ /\ doc.state # "cancelled"
            /\ \/ Take(c, "new", req)
               \/ /\ doc.findings[f] # "absent"
                  /\ \/ Take(c, "check", req) /\ Has(doc, Requested(req))
                     \/ Take(c, "intent", req) /\ ~Has(doc, Requested(req))
  BY DEF AddRead, ReadOnly, Closed
<1>2. req \in JobKeys /\ req.kind = "validation" /\ \A g \in Findings : req = Validation(g) => g = f
  BY KeyFields DEF JobKeys, Validation
<1>3. req \in Asked /\ req \notin StartKeys
  BY <1>2, StartsAreStarts DEF Asked, Asks
<1> HIDE DEF req
<1>4. CASE Take(c, "new", req) /\ doc.state # "cancelled"
  <2>1. Grounds("new", req)
    BY <1>4 DEF Grounds
  <2> QED
    BY <1>1, <1>4, <2>1, TakeSays
<1>5. CASE Take(c, "check", req) /\ Has(doc, Requested(req))
  <2>1. Grounds("check", req)
    BY <1>2, <1>3, <1>5 DEF Grounds, Saving
  <2> QED
    BY <1>1, <1>5, <2>1, TakeSays
<1>6. CASE /\ Take(c, "intent", req) /\ ~Has(doc, Requested(req))
           /\ doc.findings[f] # "absent" /\ doc.state # "cancelled"
  <2>1. Grounds("intent", req)
    BY <1>2, <1>3, <1>6 DEF Grounds
  <2> QED
    BY <1>1, <1>6, <2>1, TakeSays
<1> QED
  BY <1>1, <1>4, <1>5, <1>6, DoneSays

LEMMA CompletionKey ==
    /\ Completion \in JobKeys /\ Completion \in Asks /\ Completion \in Asked
    /\ Completion \notin StartKeys /\ Completion.kind = "report"
    /\ \A f \in Findings : Completion # Validation(f)
<1>1. Completion \in JobKeys /\ Completion.kind = "report"
  BY KeyFields DEF JobKeys, Completion
<1>2. \A f \in Findings : Validation(f).kind = "validation"
  BY KeyFields DEF Validation
<1> QED
  BY <1>1, <1>2, StartsAreStarts DEF Asks, Asked

LEMMA AddSaveSays ==
    ASSUME Both, Step, NEW c \in Clients, AddSave(c)
    PROVE  AInv'
<1> DEFINE f == proc[c].req.of
           req == Validation(f)
           x == Event("received", req)
           y == Requested(req)
           findings == [proc[c].doc.findings EXCEPT ![f] = "validation_required"]
           d == Edited(proc[c].doc, "validating", findings, <<x, y>>)
<1>1. f \in Findings /\ proc[c].req = req /\ proc[c].doc.findings[f] = "absent"
  BY DEF Both, IInv, Processes, ProcOK, LocalOK, AddSave
<1>2. SaveThen(c, d, "check")
  BY <1>1 DEF AddSave, Snapshot
<1>3. /\ req \in JobKeys /\ req \in Asks /\ req \in Asked /\ req.kind = "validation"
      /\ \A g \in Findings : req = Validation(g) => g = f
  BY <1>1, KeyFields DEF JobKeys, Validation, Asks, Asked
<1>4. ASSUME Unchanged(c)
      PROVE  /\ Appends(doc, d, <<x, y>>) /\ Tells(doc, d.findings, jobs, <<x, y>>)
             /\ Has(d, y)
  <2>1. proc[c].doc = doc /\ IsDoc(doc) /\ EventsOK(doc, jobs)
    BY <1>4, OwnCopy DEF Both, AInv, IInv, SharedOK, Processes
  <2>2. findings[f] = "validation_required"
    BY <1>1, <2>1 DEF IsDoc
  <2>3. ~Has(doc, x) /\ ~Has(doc, y)
    <3>1. Announces(x, f) /\ Announces(y, f)
      BY DEF Announces
    <3> HIDE DEF x, y
    <3> QED
      BY <1>1, <2>1, <3>1 DEF EventsOK, Announced, Has
  <2> HIDE DEF findings
  <2>4. Appends(doc, d, <<x, y>>) /\ d.findings = findings
    <3> DEFINE t == <<x, y>>
    <3>1. d = Edited(doc, "validating", findings, t)
      BY <2>1
    <3> HIDE DEF d, t
    <3>2. d.findings = findings /\ d.events = doc.events \o t
      BY <2>1, <3>1, EditedFields
    <3> QED
      BY <3>2 DEF Appends, t
  <2>5. IsSeq(<<x, y>>) /\ 2 \in DOMAIN <<x, y>> /\ <<x, y>>[2] = y
    <3> HIDE DEF x, y
    <3> QED
      BY Singles
  <2>6. x # y /\ x.kind # "start" /\ y.kind # "start"
    BY <1>3, EventFields DEF Requested
  <2>10. x # Requested(Completion) /\ y # Requested(Completion)
    <3>1. /\ x.type # "requested" /\ y = Requested(req) /\ req \in Asks
          /\ req # Completion /\ Completion \in Asks
      BY <1>1, <1>3, EventFields, CompletionKey DEF Asks, JobKeys
    <3> HIDE DEF x, y, req
    <3>2. y # Requested(Completion)
      BY <3>1, SameKeys DEF Requested
    <3> QED
      BY <3>1, <3>2, OtherEvents
  <2> HIDE DEF d, f
  <2>7. NewsOK(doc, findings, jobs, x)
    BY <1>1, <2>2, <2>3, NewsReceived
  <2>8. NewsOK(doc, findings, jobs, y)
    BY <1>3, <2>2, <2>3, NewsRequest, StartsAreStarts
  <2> HIDE DEF x, y
  <2>9. Has(d, y)
    BY <2>1, <2>4, <2>5, AppendedHas
  <2> QED
    BY <2>4, <2>6, <2>7, <2>8, <2>9, <2>10, TellsTwo
<1> HIDE DEF d, req
<1> QED
  BY <1>1, <1>2, <1>3, <1>4, SaveThenSays

LEMMA ValidateReadSays ==
    ASSUME Both, NEW c \in Clients, NEW f \in Findings, NEW verdict \in Resolved, NEW again,
           ValidateRead(c, f, verdict, again)
    PROVE  AInv'
<1> DEFINE r == [Loaded(c, "verdict") EXCEPT !.req = Validation(f), !.mode = verdict]
<1>0. c \in Processes /\ c \notin Workers /\ doc' = doc /\ jobs' = jobs /\ UNCHANGED shared
  BY ApartProcs DEF Processes, ValidateRead, ReadOnly, shared
<1>1. CASE Done(c)
  BY <1>0, <1>1, DoneSays
<1>2. CASE Take(c, "ensure", Completion)
  <2>1. Grounds("ensure", Completion)
    BY DEF Grounds, Saving
  <2> QED
    BY <1>0, <1>2, <2>1, TakeSays
<1>3. CASE doc.state # "cancelled" /\ proc' = [proc EXCEPT ![c] = r]
  <2> DEFINE l == Loaded(c, "verdict")
  <2>1. IsLocal(l) /\ l.pc = "verdict" /\ l.doc = doc
    <3>1. IInv
      BY DEF Both
    <3>2. IsLocal(proc[c])
      BY <1>0, <3>1 DEF IInv, ProcOK
    <3> QED
      BY <3>2 DEF Loaded, IsLocal
  <2> HIDE DEF l
  <2>2. LET q == [l EXCEPT !.req = Validation(f), !.mode = verdict] IN
        q.pc = "verdict" /\ q.doc = doc
    BY <2>1 DEF IsLocal
  <2>3. r.pc = "verdict" /\ r.doc = doc
    BY <2>2 DEF l
  <2> HIDE DEF r
  <2>4. ClientOK(r, doc, jobs')
    BY <2>3, ClientElsewhere DEF Claiming
  <2>5. FromOpen(r)
    BY <1>3, <2>3 DEF FromOpen
  <2> QED
    BY <1>0, <1>3, <2>4, <2>5, QuietRemembers, MovesSay
<1> QED
  BY <1>1, <1>2, <1>3 DEF ValidateRead

\* What the events of a verdict, or of the request for the final report, append.
LEMMA EditTells ==
    ASSUME IInv, NEW state, NEW findings, NEW t, Tells(doc, findings, jobs, t)
    PROVE  LET d == Edited(doc, state, findings, t) IN
           Appends(doc, d, t) /\ Tells(doc, d.findings, jobs, t)
<1>1. IsDoc(doc)
  BY DEF IInv, SharedOK
<1> QED
  BY <1>1, EditedFields DEF Appends

LEMMA ReportNews ==
    ASSUME NEW findings
    PROVE  NewsOK(doc, findings, jobs, Requested(Completion))
BY CompletionKey, NewsRequest

LEMMA OneAndOne == \A x, y : <<x>> \o <<y>> = <<x, y>>
<1> TAKE x, y
<1>1. <<x>> \in Seq({x, y}) /\ <<y>> \in Seq({x, y}) /\ <<x, y>> \in Seq({x, y})
  OBVIOUS
<1>2. /\ <<x>> \o <<y>> \in Seq({x, y})
      /\ Len(<<x>> \o <<y>>) = 2
      /\ (<<x>> \o <<y>>)[1] = x /\ (<<x>> \o <<y>>)[2] = y
  BY <1>1, ConcatProperties
<1>3. Len(<<x, y>>) = 2 /\ <<x, y>>[1] = x /\ <<x, y>>[2] = y
  OBVIOUS
<1> DEFINE s == <<x>> \o <<y>>
           t == <<x, y>>
<1>4. /\ s \in Seq({x, y}) /\ t \in Seq({x, y}) /\ Len(s) = 2 /\ Len(t) = 2
      /\ s[1] = t[1] /\ s[2] = t[2]
  BY <1>1, <1>2, <1>3
<1> HIDE DEF s, t
<1>5. \A i \in 1..2 : s[i] = t[i]
  BY <1>4
<1>6. s = t
  BY <1>4, <1>5, SeqEqual
<1> QED
  BY <1>6 DEF s, t

LEMMA VerdictTells ==
    ASSUME IInv, NEW f, NEW verdict
    PROVE  LET d == WithVerdict(doc, f, verdict) IN
           \E t : Appends(doc, d, t) /\ Tells(doc, d.findings, jobs, t)
<1> DEFINE findings == [doc.findings EXCEPT ![f] = verdict]
           x == Event("validated", Validation(f))
           y == Requested(Completion)
           t == <<x>> \o <<y>>
           u == <<x, y>>
<1>1. x.type = "validated" /\ x.kind = "validation"
  BY EventFields, KeyFields DEF Validation
<1>2. y.type = "requested" /\ y.kind = "report"
  BY EventFields, CompletionKey DEF Requested
<1> HIDE DEF findings
<1>3. NewsOK(doc, findings, jobs, x)
  <2> HIDE DEF x
  <2> QED
    BY <1>1, NewsPlain DEF Lasting, SaidOnce
<1>4. NewsOK(doc, findings, jobs, y)
  BY ReportNews
<1>5. t = u
  <2> HIDE DEF x, y
  <2> QED
    BY OneAndOne
<1>6. Tells(doc, findings, jobs, <<x>>) /\ Tells(doc, findings, jobs, u)
  <2> HIDE DEF x, y
  <2> QED
    BY <1>1, <1>2, <1>3, <1>4, TellsOne, TellsTwo, OtherEvents
<1>7. \E state, s : /\ WithVerdict(doc, f, verdict) = Edited(doc, state, findings, s)
                    /\ s = <<x>> \/ s = t
  BY DEF WithVerdict, findings
<1> HIDE DEF t, u, x, y
<1>8. PICK state, s : /\ WithVerdict(doc, f, verdict) = Edited(doc, state, findings, s)
                      /\ s = <<x>> \/ s = t
  BY <1>7
<1>9. Tells(doc, findings, jobs, s)
  BY <1>5, <1>6, <1>8
<1> DEFINE d == Edited(doc, state, findings, s)
<1>10. Appends(doc, d, s) /\ Tells(doc, d.findings, jobs, s)
  BY <1>9, EditTells
<1> QED
  BY <1>8, <1>10

LEMMA VerdictSaveSays ==
    ASSUME Both, Step, NEW c \in Clients, VerdictSave(c)
    PROVE  AInv'
<1> DEFINE d == WithVerdict(proc[c].doc, proc[c].req.of, proc[c].mode)
<1>1. PICK pc : pc \in {"complete", "done"} /\ SaveThen(c, d, pc)
  BY DEF VerdictSave, Snapshot
<1>2. ASSUME Unchanged(c)
      PROVE  \E t : Appends(doc, d, t) /\ Tells(doc, d.findings, jobs, t)
  <2>1. proc[c].doc = doc /\ IInv
    BY <1>2, OwnCopy DEF Both, Processes
  <2> QED
    BY <2>1, VerdictTells
<1> HIDE DEF d
<1> QED
  BY <1>1, <1>2, SaveThenSays

LEMMA CompleteReadSays ==
    ASSUME Both, NEW c \in Clients, CompleteRead(c)
    PROVE  AInv'
<1>1. Grounds("ensure", Completion)
  BY DEF Grounds, Saving
<1> QED
  BY <1>1, TakeSays DEF CompleteRead, ReadOnly

LEMMA EnsureSays ==
    ASSUME Both, Step, NEW c \in Clients, Ensure(c)
    PROVE  AInv'
<1> DEFINE y == Requested(Completion)
           d(t) == Edited(proc[c].doc, "completed", proc[c].doc.findings, t)
<1>0. /\ ClientOK(proc[c], doc, jobs) /\ proc[c].pc = "ensure" /\ IInv /\ c \in Processes
      /\ c \notin Workers
  BY ApartProcs DEF Both, AInv, Ensure, Processes
<1>1. proc[c].req = Completion
  BY <1>0 DEF ClientOK
<1>2. ASSUME NEW t, SaveThen(c, d(t), "check"),
             Unchanged(c) => Tells(doc, doc.findings, jobs, t) /\ Has(d(t), y)
      PROVE  AInv'
  <2>1. ASSUME Unchanged(c)
        PROVE  Appends(doc, d(t), t) /\ Tells(doc, d(t).findings, jobs, t)
    <3>1. d(t) = Edited(doc, "completed", doc.findings, t) /\ IsDoc(doc)
      BY <1>0, <2>1, OwnCopy DEF IInv, SharedOK
    <3> HIDE DEF d
    <3>2. d(t).findings = doc.findings /\ d(t).events = doc.events \o t
      BY <3>1, EditedFields
    <3> QED
      BY <1>2, <2>1, <3>2 DEF Appends
  <2> HIDE DEF d, y
  <2> QED
    BY <1>1, <1>2, <2>1, CompletionKey, SaveThenSays DEF y
<1>3. CASE UNCHANGED shared /\ Done(c)
  BY <1>3, DoneSays
<1>4. CASE ~Has(proc[c].doc, y) /\ SaveThen(c, d(<<y>>), "check")
  <2>1. ASSUME Unchanged(c)
        PROVE  Tells(doc, doc.findings, jobs, <<y>>)
    <3>1. ~Has(doc, y)
      BY <1>0, <1>4, <2>1, OwnCopy
    <3> QED
      BY <3>1, ReportNews, TellsOne
  <2>2. ASSUME Unchanged(c)
        PROVE  Has(d(<<y>>), y)
    <3>1. d(<<y>>) = Edited(doc, "completed", doc.findings, <<y>>) /\ IsDoc(doc)
      BY <1>0, <2>2, OwnCopy DEF IInv, SharedOK
    <3>2. IsSeq(<<y>>) /\ 1 \in DOMAIN <<y>> /\ <<y>>[1] = y
      BY Singles
    <3> HIDE DEF d, y
    <3>3. Appends(doc, d(<<y>>), <<y>>)
      BY <3>1, EditedFields DEF Appends
    <3> QED
      BY <3>1, <3>2, <3>3, AppendedHas
  <2> HIDE DEF d, y
  <2> QED
    BY <1>2, <1>4, <2>1, <2>2
<1>5. CASE Has(proc[c].doc, y) /\ SaveThen(c, d(<<>>), "check")
  <2>1. Tells(doc, doc.findings, jobs, <<>>)
    BY TellsNothing
  <2>2. ASSUME Unchanged(c)
        PROVE  Has(d(<<>>), y)
    <3>1. d(<<>>) = Edited(doc, "completed", doc.findings, <<>>) /\ IsDoc(doc) /\ Has(doc, y)
      BY <1>0, <1>5, <2>2, OwnCopy DEF IInv, SharedOK
    <3> DEFINE e == d(<<>>)
               t == <<>>
    <3>2. IsSeq(t) /\ e = Edited(doc, "completed", doc.findings, t)
      BY <3>1, Singles
    <3> HIDE DEF d, e, t, y
    <3>3. Appends(doc, e, t)
      BY <3>1, <3>2, EditedFields DEF Appends
    <3>4. Has(e, y)
      BY <3>1, <3>2, <3>3, AppendedHas
    <3> QED
      BY <3>4 DEF e
  <2> HIDE DEF d, y
  <2> QED
    BY <1>2, <1>5, <2>1, <2>2
<1>6. CASE Has(proc[c].doc, y) /\ UNCHANGED shared /\ Goto(c, "check")
  <2> DEFINE r == At("check", Completion)
  <2>1. r.pc = "check" /\ r.req = Completion /\ r.doc = EmptyDoc /\ FromOpen(r)
    BY AtSays
  <2>2. proc' = [proc EXCEPT ![c] = r] /\ doc' = doc /\ jobs' = jobs
    BY <1>1, <1>6 DEF Goto, shared
  <2> HIDE DEF r
  <2>3. Has(doc, y)
    BY <1>0, <1>6 DEF ClientOK
  <2>4. ClientOK(r, doc, jobs')
    BY <2>1, <2>3, EmptySays, CompletionKey DEF ClientOK
  <2> QED
    BY <1>0, <2>1, <2>2, <2>4, QuietRemembers, MovesSay
<1> QED
  BY <1>3, <1>4, <1>5, <1>6 DEF Ensure, Snapshot, ReadOnly

LEMMA ReportReadSays ==
    ASSUME Both, NEW c \in Clients, ReportRead(c)
    PROVE  AInv'
<1> DEFINE keys == {Manual(d) : d \in Clients}
           req == PendingOr(doc, keys, Manual(c))
<1>1. /\ UNCHANGED shared
      /\ \/ Done(c)
         \/ /\ doc.state # "cancelled"
            /\ \/ Take(c, "check", req) /\ Has(doc, Requested(req))
               \/ Take(c, "intent", req) /\ ~Has(doc, Requested(req))
  BY DEF ReportRead, ReadOnly
<1>2. IsDoc(doc)
  BY DEF Both, IInv, SharedOK
<1>3. req \in PendingKeys(doc, keys) \/ req = Manual(c)
  BY <1>2, PicksPending
<1>4. req \in keys
  BY <1>3 DEF PendingKeys
<1> HIDE DEF req
<1>5. req \in JobKeys /\ req.kind = "report"
  BY <1>4, KeyFields DEF JobKeys, Manual
<1>6. /\ req \in Asked /\ req \notin StartKeys
      /\ \A f \in Findings : req # Validation(f)
  <2>1. \A f \in Findings : Validation(f).kind = "validation"
    BY KeyFields DEF Validation
  <2> QED
    BY <1>5, <2>1, StartsAreStarts DEF Asked, Asks
<1>7. CASE Take(c, "check", req) /\ Has(doc, Requested(req))
  <2>1. Grounds("check", req)
    BY <1>5, <1>6, <1>7 DEF Grounds, Saving
  <2> QED
    BY <1>1, <1>7, <2>1, TakeSays
<1>8. CASE Take(c, "intent", req) /\ ~Has(doc, Requested(req)) /\ doc.state # "cancelled"
  <2>1. Grounds("intent", req)
    BY <1>6, <1>8 DEF Grounds
  <2> QED
    BY <1>1, <1>8, <2>1, TakeSays
<1> QED
  BY <1>1, <1>7, <1>8, DoneSays

LEMMA OutboxReadSays ==
    ASSUME Both, NEW c \in Clients, OutboxRead(c)
    PROVE  AInv'
<1>1. UNCHANGED shared /\ (Done(c) \/ (doc.state # "cancelled" /\ Take(c, "diagnose", NoKey)))
  BY DEF OutboxRead, ReadOnly
<1>2. doc.state # "cancelled" => Grounds("diagnose", NoKey)
  BY DEF Grounds
<1> QED
  BY <1>1, <1>2, DoneSays, TakeSays

LEMMA DiagnoseSays ==
    ASSUME Both, NEW c \in Clients, Diagnose(c)
    PROVE  AInv'
<1>1. /\ UNCHANGED shared /\ proc[c].pc = "diagnose"
      /\ \/ Done(c)
         \/ \E plan : /\ Turns(c, "repair", plan)
                      /\ plan \subseteq PendingKeys(proc[c].doc, JobKeys)
                      /\ \A k \in plan : Known(k)
  BY DEF Diagnose, ReadOnly, Turns, Snapshot
<1> QED
  BY <1>1, DoneSays, TurnsSay

LEMMA RepairSays ==
    ASSUME Both, Step, NEW c \in Clients, Repair(c)
    PROVE  AInv'
<1> DEFINE keys == proc[c].plan
           t == Repairs(proc[c].doc, keys)
           r == At("done", NoKey)
<1>0. /\ c \in Processes /\ c \notin Workers /\ jobs' = jobs /\ UNCHANGED <<jobs, graph, rules>>
      /\ ClientOK(proc[c], doc, jobs) /\ proc[c].pc = "repair"
  BY ApartProcs DEF Processes, Repair, Both, AInv
<1>1. CASE ~Unchanged(c)
  <2>1. UNCHANGED shared /\ Retry(c, "reread", "done")
    BY <1>1 DEF Repair, shared
  <2> QED
    BY <1>0, <2>1, RetrySays DEF Claiming
<1>2. CASE Unchanged(c)
  <2>1. proc[c].doc = doc /\ IsDoc(doc) /\ IInv /\ keys \subseteq JobKeys
    BY <1>0, <1>2, OwnCopy DEF Both, IInv, SharedOK, ProcOK, LocalOK
  <2>2. doc' = Edited(doc, doc.state, doc.findings, t)
    BY <1>2, <2>1 DEF Repair, Snapshot, Commit
  <2>3. Tells(doc, doc.findings, jobs, t)
    BY <1>0, <2>1, TellsRepairs DEF ClientOK
  <2>4. proc' = [proc EXCEPT ![c] = r]
    BY <1>2 DEF Repair, Done, Leave
  <2>5. r.pc = "done" /\ r.doc = EmptyDoc /\ FromOpen(r)
    BY AtSays
  <2> HIDE DEF r, t
  <2>6. Appends(doc, doc', t) /\ doc'.findings = doc.findings
    BY <2>1, <2>2, EditedFields DEF Appends
  <2>7. ClientOK(r, doc', jobs)
    BY <2>5, EmptySays, ClientElsewhere DEF Claiming
  <2>8. Extends(doc, doc')
    BY <2>1, StepExtends
  <2> QED
    BY <1>0, <2>3, <2>4, <2>5, <2>6, <2>7, <2>8, SavesSay
<1> QED
  BY <1>1, <1>2

LEMMA HandlerSays ==
    ASSUME Both, Step, NEW c \in Clients, Handler(c) \/ HandlerDies(c)
    PROVE  AInv'
<1>1. CASE HandlerDies(c)
  BY <1>1, DoneSays DEF HandlerDies
<1>2. CASE Handler(c)
  BY <1>2, StartReadSays, StartBlockedSays, IntentsSay, StartPlanSays, EnqueuesSay, CheckSays,
     ReconcileSays, RecordSays, CancelReadSays, CancelSaveSays, CancelDropSays, AddReadSays,
     AddSaveSays, ValidateReadSays, VerdictSaveSays, CompleteReadSays, EnsureSays,
     ReportReadSays, OutboxReadSays, DiagnoseSays, RepairSays
  DEF Handler
<1> QED
  BY <1>1, <1>2

-----------------------------------------------------------------------------
(* The workers.                                                            *)

\* A worker moves to r, which stands elsewhere than at its log.
LEMMA WorkerMoves ==
    ASSUME Both, doc' = doc, Remembers, NEW w \in Workers, NEW r,
           proc' = [proc EXCEPT ![w] = r], WorkerOK(r), FromOpen(r)
    PROVE  AInv'
BY ApartProcs, MovesSay DEF Processes

LEMMA CloseSays ==
    ASSUME Both, doc' = doc, Remembers, NEW w \in Workers, NEW mode, Close(w, mode)
    PROVE  AInv'
<1> DEFINE r == [At("close", Job(w)) EXCEPT !.mode = mode]
<1>1. r.pc = "close"
  BY DEF At
<1>2. proc' = [proc EXCEPT ![w] = r]
  BY DEF Close
<1> HIDE DEF r
<1> QED
  BY <1>1, <1>2, WorkerMoves DEF WorkerOK, FromOpen, Saving

LEMMA ClaimSays ==
    ASSUME Both, NEW w \in Workers, NEW k \in JobKeys, Claim(w, k)
    PROVE  AInv'
<1>1. Remembers /\ doc' = doc
  BY DEF Claim, Both, IInv, SharedOK, Remembers, KnownIn, JobRow
<1> QED
  BY <1>1, LeaveSays DEF Claim, Claiming, Processes

LEMMA LoadSays ==
    ASSUME Both, NEW w \in Workers, Load(w) \/ OutcomeRead(w)
    PROVE  AInv'
<1>0. w \in Processes /\ UNCHANGED shared /\ doc' = doc /\ Remembers /\ IInv /\ IsLocal(proc[w])
  BY QuietRemembers DEF Processes, Load, OutcomeRead, Quiet, shared, Both, IInv, ProcOK
<1>1. \/ Close(w, "cancelled") \/ Close(w, "failed")
      \/ proc' = [proc EXCEPT ![w] = At("idle", NoKey)]
      \/ proc' = [proc EXCEPT ![w] = Loaded(w, "work")] /\ doc.state # "cancelled"
      \/ proc' = [proc EXCEPT ![w] = Loaded(w, "log")] /\ ~Has(doc, OutcomeOf(w))
  BY DEF Load, OutcomeRead, Leave
<1>2. ASSUME NEW pc, proc' = [proc EXCEPT ![w] = Loaded(w, pc)],
             \/ pc = "work" /\ doc.state # "cancelled"
             \/ pc = "log" /\ ~Has(doc, OutcomeOf(w))
      PROVE  AInv'
  <2> DEFINE r == Loaded(w, pc)
  <2>1. r.pc = pc /\ r.doc = doc /\ r.req = proc[w].req /\ r.mode = proc[w].mode
    BY <1>0 DEF Loaded, IsLocal
  <2>2. proc' = [proc EXCEPT ![w] = r]
    BY <1>2
  <2> HIDE DEF r
  <2>3. WorkerOK(r) /\ FromOpen(r)
    BY <1>2, <2>1 DEF WorkerOK, FromOpen, Saving, OutcomeOf, Job
  <2> QED
    BY <1>0, <2>2, <2>3, WorkerMoves
<1> QED
  BY <1>0, <1>1, <1>2, CloseSays, LeaveSays DEF Claiming

LEMMA WorkFailsSays ==
    ASSUME Both, NEW w \in Workers, WorkFails(w) \/ WorkerDies(w)
    PROVE  AInv'
<1>0. w \in Processes /\ doc' = doc /\ Remembers
  BY QuietRemembers DEF Processes, WorkFails, WorkerDies, shared
<1>1. Close(w, "failed") \/ proc' = [proc EXCEPT ![w] = At("idle", NoKey)]
  BY DEF WorkFails, WorkerDies, Leave
<1> QED
  BY <1>0, <1>1, CloseSays, LeaveSays DEF Claiming

LEMMA ToSaveSays ==
    ASSUME Both, NEW w \in Workers, UNCHANGED <<doc, jobs>>, proc[w].pc = "work",
           NEW mode, NEW seen, proc' = [proc EXCEPT ![w] = ToSave(w, mode, seen)]
    PROVE  AInv'
<1> DEFINE r == ToSave(w, mode, seen)
<1>0. IsLocal(proc[w]) /\ FromOpen(proc[w]) /\ Remembers /\ doc' = doc
  BY QuietRemembers DEF Both, AInv, IInv, ProcOK, Processes
<1>1. r.pc = "save" /\ r.doc = proc[w].doc
  BY <1>0 DEF ToSave, IsLocal
<1>2. proc' = [proc EXCEPT ![w] = r]
  OBVIOUS
<1> HIDE DEF r
<1>3. WorkerOK(r) /\ FromOpen(r)
  BY <1>0, <1>1 DEF WorkerOK, FromOpen, Saving
<1> QED
  BY <1>0, <1>2, <1>3, WorkerMoves

LEMMA WorksSay ==
    ASSUME Both, NEW w \in Workers,
           \/ DryRun(w) \/ ReconTask(w) \/ BrowserFlow(w) \/ WriteReport(w)
           \/ \E found \in SUBSET Findings : Ingest(w, found)
           \/ \E observed \in BOOLEAN : Probe(w, observed)
    PROVE  AInv'
<1>1. /\ UNCHANGED <<doc, jobs>> /\ proc[w].pc = "work"
      /\ \E mode, seen : proc' = [proc EXCEPT ![w] = ToSave(w, mode, seen)]
  BY DEF DryRun, ReconTask, BrowserFlow, WriteReport, Explore, Ingest, Probe
<1> QED
  BY <1>1, ToSaveSays

LEMMA SaveSays ==
    ASSUME Both, Step, NEW w \in Workers, Save(w)
    PROVE  AInv'
<1> DEFINE event == Event(IF proc[w].mode = "dry_run" THEN "dry_run" ELSE "processed", Job(w))
           t == IF Has(doc, event) THEN <<>> ELSE <<event>>
           findings == [f \in Findings |-> IF f \in proc[w].seen THEN "validation_required"
                                           ELSE doc.findings[f]]
           scanned == Edited(doc, doc.state, findings, t)
           r == At("advance", Job(w))
<1>0. w \in Processes /\ w \notin Clients /\ jobs' = jobs /\ IInv
  BY ApartProcs DEF Processes, Save, Both
<1>1. CASE ~Unchanged(w)
  BY <1>0, <1>1, CloseSays, QuietRemembers DEF Save
<1>2. CASE Unchanged(w)
  <2>1. proc[w].doc = doc /\ IsDoc(doc)
    BY <1>0, <1>2, OwnCopy DEF IInv, SharedOK
  <2>2. \E state : doc' = [scanned EXCEPT !.state = state]
    BY <1>2, <2>1 DEF Save, Commit, Result, Copy
  <2>3. event.type \in {"dry_run", "processed"}
    BY EventFields
  <2> HIDE DEF event
  <2>4. ~Has(doc, event) => NewsOK(doc, findings, jobs, event)
    BY <2>3, NewsPlain
  <2>5. Tells(doc, findings, jobs, t)
    BY <2>4, TellsNothing, TellsOne
  <2> HIDE DEF t, findings
  <2>6. /\ DOMAIN scanned = {"state", "findings", "events", "idle"}
        /\ scanned.findings = findings /\ scanned.events = doc.events \o t
    BY <2>1, EditedFields
  <2> HIDE DEF scanned
  <2>7. doc'.findings = findings /\ Appends(doc, doc', t)
    BY <2>2, <2>6 DEF Appends
  <2>8. r.pc = "advance" /\ FromOpen(r) /\ WorkerOK(r)
    BY AtSays
  <2>9. proc' = [proc EXCEPT ![w] = r] /\ Extends(doc, doc')
    BY <1>0, <1>2, StepExtends DEF Save, Goto, Job
  <2> HIDE DEF r
  <2> QED
    BY <1>0, <2>5, <2>7, <2>8, <2>9, SavesSay
<1> QED
  BY <1>1, <1>2

LEMMA AdvancesSay ==
    ASSUME Both, NEW w \in Workers, Advance(w) \/ AdvanceSkipped(w) \/ AdvanceEnqueue(w)
    PROVE  AInv'
<1>0. w \in Processes
  BY DEF Processes
<1>1. \/ \E k : Enqueue(w, k)
      \/ /\ UNCHANGED shared
         /\ \/ \E mode : Close(w, mode)
            \/ \E plan : Turns(w, "enqueue", plan)
  BY DEF Advance, AdvanceSkipped, AdvanceEnqueue, Complete, Quiet, Turns
<1>2. UNCHANGED shared => doc' = doc /\ Remembers
  BY QuietRemembers DEF shared
<1>3. ASSUME NEW plan, UNCHANGED shared, Turns(w, "enqueue", plan)
      PROVE  AInv'
  <2> DEFINE r == [proc[w] EXCEPT !.pc = "enqueue", !.plan = plan]
  <2>1. IsLocal(proc[w])
    BY <1>0 DEF Both, IInv, ProcOK
  <2>2. r.pc = "enqueue" /\ proc' = [proc EXCEPT ![w] = r]
    BY <1>3, <2>1 DEF IsLocal, Turns
  <2> HIDE DEF r
  <2> QED
    BY <1>2, <1>3, <2>2, WorkerMoves DEF WorkerOK, FromOpen, Saving
<1> QED
  BY <1>0, <1>1, <1>2, <1>3, EnqueueSays, CloseSays

LEMMA FinishSays ==
    ASSUME Both, NEW w \in Workers, Finish(w)
    PROVE  AInv'
<1>0. w \in Processes /\ ProcOK(proc[w]) /\ doc' = doc /\ DOMAIN jobs = JobKeys
  BY DEF Processes, Both, IInv, SharedOK, Finish
<1>1. Final(w) # "absent"
  BY <1>0 DEF Final, Finish, ProcOK, LocalOK
<1>2. Remembers
  BY <1>0, <1>1 DEF Finish, Remembers, KnownIn, JobRow
<1>3. CASE Owns(w)
  <2> DEFINE r == [At("outcome", Job(w)) EXCEPT !.mode = Final(w)]
  <2>1. r.pc = "outcome"
    BY DEF At
  <2>2. proc' = [proc EXCEPT ![w] = r]
    BY <1>3 DEF Finish
  <2> HIDE DEF r
  <2> QED
    BY <1>0, <1>2, <2>1, <2>2, WorkerMoves DEF WorkerOK, FromOpen, Saving
<1>4. CASE ~Owns(w)
  BY <1>0, <1>2, <1>4, LeaveSays DEF Finish, Leave, Claiming
<1> QED
  BY <1>3, <1>4

LEMMA OutcomeSaveSays ==
    ASSUME Both, Step, NEW w \in Workers, OutcomeSave(w)
    PROVE  AInv'
<1> DEFINE x == OutcomeOf(w)
           r == At("idle", NoKey)
<1>0. w \in Processes /\ w \notin Clients /\ jobs' = jobs /\ IInv /\ WorkerOK(proc[w])
  BY ApartProcs DEF Processes, OutcomeSave, Both, AInv
<1>1. CASE ~Unchanged(w)
  <2>1. doc' = doc /\ Remembers
    BY <1>0, <1>1, QuietRemembers DEF OutcomeSave
  <2>2. CASE proc[w].tries + 1 < MaxTries
    <3> DEFINE q == [At("outcome", Job(w)) EXCEPT !.mode = proc[w].mode,
                                                  !.tries = proc[w].tries + 1]
    <3>1. q.pc = "outcome"
      BY DEF At
    <3>2. proc' = [proc EXCEPT ![w] = q]
      BY <1>1, <2>2 DEF OutcomeSave
    <3> HIDE DEF q
    <3> QED
      BY <2>1, <3>1, <3>2, WorkerMoves DEF WorkerOK, FromOpen, Saving
  <2>3. CASE ~(proc[w].tries + 1 < MaxTries)
    BY <1>0, <1>1, <2>1, <2>3, LeaveSays DEF OutcomeSave, Claiming
  <2> QED
    BY <2>2, <2>3
<1>2. CASE Unchanged(w)
  <2>1. proc[w].doc = doc /\ IsDoc(doc)
    BY <1>0, <1>2, OwnCopy DEF IInv, SharedOK
  <2>2. doc' = Edited(doc, doc.state, doc.findings, <<x>>) /\ proc' = [proc EXCEPT ![w] = r]
    BY <1>2, <2>1 DEF OutcomeSave, Commit, Copy, Leave
  <2>3. x.type = "worker_outcome" /\ ~Has(doc, x)
    BY <1>0, <2>1, OutcomeFields DEF OutcomeOf, WorkerOK, Job, OutcomeSave
  <2> HIDE DEF x
  <2>4. Tells(doc, doc.findings, jobs, <<x>>)
    BY <2>3, NewsPlain, TellsOne
  <2>5. Appends(doc, doc', <<x>>) /\ doc'.findings = doc.findings
    <3> DEFINE t == <<x>>
    <3>1. doc' = Edited(doc, doc.state, doc.findings, t)
      BY <2>2
    <3> HIDE DEF t
    <3>2. doc'.findings = doc.findings /\ doc'.events = doc.events \o t
      BY <2>1, <3>1, EditedFields
    <3> QED
      BY <3>2 DEF Appends, t
  <2>6. r.pc = "idle" /\ FromOpen(r) /\ WorkerOK(r)
    BY AtSays
  <2>7. Extends(doc, doc')
    BY <1>0, StepExtends
  <2> HIDE DEF r
  <2> QED
    BY <1>0, <2>2, <2>4, <2>5, <2>6, <2>7, SavesSay
<1> QED
  BY <1>1, <1>2

LEMMA LeaseSays ==
    ASSUME Both, NEW k \in JobKeys, LeaseExpires(k)
    PROVE  AInv'
<1>1. Remembers /\ UNCHANGED <<doc, proc>>
  BY DEF LeaseExpires, Both, IInv, SharedOK, Remembers, KnownIn, JobRow
<1>2. EventsOK(doc, jobs)'
  BY <1>1, EventsKept DEF Both, AInv, Remembers
<1>3. \A c \in Clients : ClientOK(proc[c], doc, jobs)'
  BY <1>1, ClientKept DEF Both, AInv, Remembers
<1> QED
  BY <1>1, <1>2, <1>3 DEF Both, AInv

LEMMA WorkSays ==
    ASSUME Both, Step, NEW w \in Workers, Work(w) \/ WorkerDies(w)
    PROVE  AInv'
<1>1. CASE \E k \in JobKeys : IngestEnqueue(w, k)
  BY <1>1, EnqueueSays DEF IngestEnqueue, Processes
<1> QED
  BY <1>1, LoadSays, WorkFailsSays, WorksSay, SaveSays, AdvancesSay, FinishSays, OutcomeSaveSays
  DEF Work

-----------------------------------------------------------------------------
(* The theorems about the events.                                          *)

LEMMA InitSays == RecordInit => AInv
<1> SUFFICES ASSUME RecordInit PROVE AInv
  OBVIOUS
<1>1. doc = EmptyDoc /\ DOMAIN doc.events = {}
  BY DEF RecordInit, EmptyDoc
<1>2. EventsOK(doc, jobs)
  BY <1>1, EmptySays DEF EventsOK, RequestsFirst, OneStart, Announced, Once, Repeats, PendingKeys
<1>3. ASSUME NEW p \in Processes
      PROVE  ClientOK(proc[p], doc, jobs) /\ WorkerOK(proc[p]) /\ FromOpen(proc[p])
  <2>1. PICK pc, req : pc \notin Claiming /\ pc # "log" /\ proc[p] = At(pc, req)
    BY DEF RecordInit, Claiming
  <2>2. proc[p].pc = pc /\ proc[p].doc = EmptyDoc /\ FromOpen(proc[p]) /\ WorkerOK(proc[p])
    BY <2>1, AtSays
  <2>3. ClientOK(proc[p], doc, jobs)
    BY <2>1, <2>2, EmptySays, ClientElsewhere
  <2> QED
    BY <2>2, <2>3
<1> QED
  BY <1>2, <1>3 DEF AInv, Processes

LEMMA NextSays ==
    ASSUME Both, [Next]_vars
    PROVE  Step /\ AInv'
<1>0. Step
  BY NextGood DEF Both
<1>1. CASE Next
  BY <1>0, <1>1, HandlerSays, WorkSays, ClaimSays, LeaseSays DEF Next
<1>2. CASE UNCHANGED vars
  BY <1>0, <1>2 DEF vars, Both, AInv
<1> QED
  BY <1>0, <1>1, <1>2

LEMMA BothCorrect == Spec => []Both
<1>1. RecordInit => Both
  BY InitGood, InitSays DEF Both
<1>2. Both /\ [Next]_vars => Both'
  BY NextSays DEF Both, Step
<1> QED
  BY <1>1, <1>2, PTL DEF Spec

\* A completion event follows its request and, unless it is a start's, names a job
\* that is in the queue, whatever handlers, repairs and retries crossed (the outbox
\* of main.py: intent, enqueue, reconcile).
THEOREM CompletionsAreBacked == Spec => []CompletionsBacked
<1>1. Both => CompletionsBacked
  BY DEF Both, AInv, EventsOK, RequestsFirst, CompletionsBacked, Known, KnownIn
<1> QED
  BY <1>1, BothCorrect, PTL

\* Starts that race, are repeated or retried share one request: the audit never waits
\* for two (_record_campaign_start_intent and its version check).
THEOREM OneStartPends == Spec => []OnePendingStart
<1>1. ASSUME Both
      PROVE  OnePendingStart
  <2> DEFINE S == PendingKeys(doc, StartKeys)
  <2>1. \A k, l \in S : k = l
    BY <1>1 DEF Both, AInv, EventsOK, OneStart
  <2>2. S = {} \/ \E k : S = {k}
    BY <2>1
  <2> HIDE DEF S
  <2>3. \A k : IsFiniteSet({k}) /\ Cardinality({k}) = 1
    BY FS_Singleton, Zenon
  <2>4. Cardinality({}) = 0
    BY FS_EmptySet, Zenon
  <2>5. Cardinality(S) <= 1
    <3>1. CASE S = {}
      BY <2>4, <3>1
    <3>2. ASSUME NEW k, S = {k}
          PROVE  Cardinality(S) <= 1
      <4>1. Cardinality(S) = 1
        BY <2>3, <3>2, Zenon
      <4> QED
        BY <4>1
    <3> QED
      BY <2>2, <3>1, <3>2
  <2> QED
    BY <2>5 DEF OnePendingStart, S
<1> QED
  BY <1>1, BothCorrect, PTL

-----------------------------------------------------------------------------
(* What a save does to a campaign that is cancelled, or to its cancel.     *)

\* Whoever saves an edit of an open campaign is refused when it is cancelled.
LEMMA CancelRefuses ==
    ASSUME Both, doc.state = "cancelled", NEW p \in Processes, proc[p].pc \in Saving
    PROVE  ~Unchanged(p)
BY OwnCopy DEF Both, AInv, FromOpen

\* Handlers and workers that write: from an open campaign, or to complete it, or
\* the outcome of a job.
LEMMA HandlerWrites ==
    ASSUME NEW c \in Clients, Handler(c) \/ HandlerDies(c)
    PROVE  \/ doc' = doc
           \/ Ensure(c)
           \/ proc[c].pc \in Saving /\ Unchanged(c)
<1>1. CASE StartBlocked(c) \/ SaveIntent(c) \/ SaveRequest(c) \/ CancelSave(c) \/ AddSave(c)
           \/ VerdictSave(c)
  BY <1>1 DEF StartBlocked, SaveIntent, SaveRequest, CancelSave, AddSave, VerdictSave, SaveThen,
              Saving
<1>2. CASE Record(c) \/ Repair(c)
  BY <1>2 DEF Record, Repair, Saving
<1>3. CASE StartRead(c) \/ StartPlan(c) \/ Enqueues(c) \/ CheckFinding(c) \/ CheckReport(c)
           \/ Reconcile(c) \/ CancelRead(c) \/ CancelDrop(c)
  BY <1>3 DEF StartRead, StartPlan, Enqueues, Enqueue, CheckFinding, CheckReport, Reread,
              Reconcile, CancelRead, CancelDrop, ReadOnly, shared
<1>4. CASE CompleteRead(c) \/ ReportRead(c) \/ OutboxRead(c) \/ Diagnose(c) \/ HandlerDies(c)
  BY <1>4 DEF CompleteRead, ReportRead, OutboxRead, Diagnose, HandlerDies, ReadOnly, shared
<1>5. CASE \E f \in Findings : AddRead(c, f)
  BY <1>5 DEF AddRead, ReadOnly, shared
<1>6. CASE \E f \in Findings, verdict \in Resolved, again \in BOOLEAN :
             ValidateRead(c, f, verdict, again)
  BY <1>6 DEF ValidateRead, ReadOnly, shared
<1> QED
  BY <1>1, <1>2, <1>3, <1>4, <1>5, <1>6 DEF Handler

LEMMA WorkerWrites ==
    ASSUME NEW w \in Workers, Work(w) \/ WorkerDies(w)
    PROVE  \/ doc' = doc
           \/ OutcomeSave(w) /\ Unchanged(w)
           \/ Save(w) /\ Unchanged(w)
<1>1. CASE OutcomeSave(w) \/ Save(w)
  BY <1>1 DEF OutcomeSave, Save
<1>2. CASE Load(w) \/ WorkFails(w) \/ Advance(w) \/ AdvanceSkipped(w) \/ AdvanceEnqueue(w)
           \/ OutcomeRead(w) \/ WorkerDies(w)
  BY <1>2 DEF Load, WorkFails, Advance, AdvanceSkipped, AdvanceEnqueue, Complete, Enqueue,
              OutcomeRead, WorkerDies, Quiet, shared
<1>3. CASE DryRun(w) \/ ReconTask(w) \/ BrowserFlow(w) \/ WriteReport(w) \/ Finish(w)
  BY <1>3 DEF DryRun, ReconTask, BrowserFlow, WriteReport, Explore, Finish
<1>4. CASE \/ \E found \in SUBSET Findings : Ingest(w, found)
           \/ \E observed \in BOOLEAN : Probe(w, observed)
           \/ \E k \in JobKeys : IngestEnqueue(w, k)
  BY <1>4 DEF Ingest, Probe, IngestEnqueue, Enqueue
<1> QED
  BY <1>1, <1>2, <1>3, <1>4 DEF Work

\* The events a save adds.
Added(d, e) == DOMAIN e.events \ DOMAIN d.events

\* What may happen to a cancelled campaign.
Stays(d, e) ==
    /\ e.state = "cancelled"
    /\ e.findings = d.findings
    /\ \A i \in Added(d, e) : e.events[i].type = "worker_outcome"

\* What any other save than the cancel does to the cancel.
Plain(d, e) ==
    /\ e.idle = d.idle
    /\ e.state = "cancelled" => d.state = "cancelled"
    /\ \A i \in Added(d, e) : e.events[i].type # "cancelled"

LEMMA AddedAt ==
    ASSUME NEW d, IsDoc(d), NEW e, NEW t, IsSeq(t), Appends(d, e, t), NEW i \in Added(d, e)
    PROVE  \E h \in DOMAIN t : e.events[i] = t[h]
<1> DEFINE n == Len(d.events)
<1>1. /\ n \in Nat /\ DOMAIN d.events = 1..n
      /\ Len(t) \in Nat /\ DOMAIN t = 1..Len(t)
      /\ DOMAIN e.events = 1..(n + Len(t))
      /\ \A j \in DOMAIN t : e.events[n + j] = t[j]
  BY AppendedAt
<1> HIDE DEF n
<1>2. i - n \in DOMAIN t /\ n + (i - n) = i
  BY <1>1 DEF Added
<1> QED
  BY <1>1, <1>2

LEMMA EditPlain ==
    ASSUME NEW d, IsDoc(d), NEW state, NEW findings, NEW t, IsSeq(t),
           state = "cancelled" => d.state = "cancelled",
           \A i \in DOMAIN t : t[i].type # "cancelled"
    PROVE  Plain(d, Edited(d, state, findings, t))
<1> DEFINE e == Edited(d, state, findings, t)
<1>1. e.idle = d.idle /\ e.state = state /\ e.events = d.events \o t
  BY DEF IsDoc, Edited
<1> HIDE DEF e
<1>2. Appends(d, e, t)
  BY <1>1 DEF Appends
<1>3. \A i \in Added(d, e) : e.events[i].type # "cancelled"
  BY <1>2, AddedAt
<1>4. Plain(d, e)
  BY <1>1, <1>3 DEF Plain
<1> QED
  BY <1>4 DEF e

LEMMA OneType ==
    ASSUME NEW x, NEW type, x.type = type
    PROVE  IsSeq(<<x>>) /\ \A i \in DOMAIN <<x>> : <<x>>[i].type = type
BY Singles

\* The outcome of a job, also of a cancelled campaign.
LEMMA OutcomeStays ==
    ASSUME Both, NEW w \in Workers, OutcomeSave(w), Unchanged(w)
    PROVE  /\ doc.state = "cancelled" => Stays(doc, doc')
           /\ Plain(doc, doc')
<1> DEFINE x == OutcomeOf(w)
           t == <<x>>
<1>1. proc[w].doc = doc /\ IsDoc(doc)
  BY OwnCopy DEF Both, IInv, SharedOK, Processes
<1>2. doc' = Edited(doc, doc.state, doc.findings, t)
  BY <1>1 DEF OutcomeSave, Commit, Copy
<1>3. x.type = "worker_outcome"
  BY OutcomeFields DEF OutcomeOf
<1> HIDE DEF x
<1>4. IsSeq(t) /\ \A i \in DOMAIN t : t[i].type = "worker_outcome"
  BY <1>3, OneType
<1> HIDE DEF t
<1>5. doc'.state = doc.state /\ doc'.findings = doc.findings /\ Appends(doc, doc', t)
  BY <1>1, <1>2, EditedFields DEF Appends
<1>6. \A i \in Added(doc, doc') : doc'.events[i].type = "worker_outcome"
  BY <1>1, <1>4, <1>5, AddedAt
<1>7. Plain(doc, doc')
  BY <1>1, <1>2, <1>4, EditPlain
<1> QED
  BY <1>5, <1>6, <1>7 DEF Stays

\* A cancelled campaign changes only by an outcome, or by a review's completion.
LEMMA CancelHolds ==
    ASSUME Both, Next, doc.state = "cancelled", \A c \in Clients : ~Ensure(c)
    PROVE  doc' = doc \/ Stays(doc, doc')
<1>1. ASSUME NEW c \in Clients, Handler(c) \/ HandlerDies(c)
      PROVE  doc' = doc
  BY <1>1, HandlerWrites, CancelRefuses DEF Processes
<1>2. ASSUME NEW w \in Workers, Work(w) \/ WorkerDies(w)
      PROVE  doc' = doc \/ Stays(doc, doc')
  BY <1>2, WorkerWrites, CancelRefuses, OutcomeStays DEF Processes, Save, Saving
<1>3. ASSUME NEW w \in Workers, NEW k \in JobKeys, Claim(w, k)
      PROVE  doc' = doc
  BY <1>3 DEF Claim
<1>4. ASSUME NEW k \in JobKeys, LeaseExpires(k)
      PROVE  doc' = doc
  BY <1>4 DEF LeaseExpires
<1> QED
  BY <1>1, <1>2, <1>3, <1>4 DEF Next

\* Cancelled is final but for the completion that a review had under way: no other
\* step of a handler or worker moves a cancelled campaign, its findings or its audit
\* (the state checks of main.py and worker_service.py behind save_campaign).
THEOREM CancelHoldsButForReviews ==
    Spec => [][ doc.state = "cancelled" /\ (\A c \in Clients : ~Ensure(c)) =>
                  Stays(doc, doc') ]_doc
<1>1. ASSUME Both, [Next]_vars
      PROVE  [ doc.state = "cancelled" /\ (\A c \in Clients : ~Ensure(c)) =>
                 Stays(doc, doc') ]_doc
  BY <1>1, CancelHolds DEF vars
<1> QED
  BY <1>1, BothCorrect, PTL DEF Spec

-----------------------------------------------------------------------------
(* Every other save leaves the cancel alone.                               *)

LEMMA LoggedPlain ==
    ASSUME IInv, NEW c \in Clients, Unchanged(c), NEW x, x.type # "cancelled"
    PROVE  Plain(doc, Logged(Snapshot(c), x))
<1> DEFINE t == <<x>>
<1>1. Snapshot(c) = doc /\ IsDoc(doc)
  BY OwnCopy DEF Processes, IInv, SharedOK, Snapshot
<1>2. IsSeq(t) /\ \A i \in DOMAIN t : t[i].type # "cancelled"
  BY Singles
<1> HIDE DEF t
<1>3. Plain(doc, Edited(doc, doc.state, doc.findings, t))
  BY <1>1, <1>2, EditPlain
<1> QED
  BY <1>1, <1>3 DEF Logged, t

LEMMA RepairsPlain ==
    ASSUME NEW d, NEW keys \in SUBSET JobKeys
    PROVE  /\ IsSeq(Repairs(d, keys))
           /\ \A i \in DOMAIN Repairs(d, keys) : Repairs(d, keys)[i].type # "cancelled"
<1>1. \A k : Reconciled(k).type # "cancelled"
  BY EventFields DEF Reconciled
<1>2. \A i \in DOMAIN Repairs(d, keys) : \E k : Repairs(d, keys)[i] = Reconciled(k)
  BY DEF Repairs
<1> QED
  BY <1>1, <1>2, RepairsSeq

LEMMA HandlerPlain ==
    ASSUME Both, NEW c \in Clients, Handler(c) \/ HandlerDies(c), ~CancelSave(c), doc' # doc
    PROVE  Plain(doc, doc')
<1>0. IInv /\ c \in Processes /\ IsDoc(doc) /\ (Unchanged(c) => proc[c].doc = doc)
  BY OwnCopy DEF Both, IInv, SharedOK, Processes
<1>1. CASE StartBlocked(c) \/ SaveIntent(c) \/ SaveRequest(c)
  <2>1. PICK x : x.type # "cancelled" /\ Unchanged(c) /\ doc' = Logged(Snapshot(c), x)
    <3>1. \A k : Requested(k).type = "requested"
      BY EventFields DEF Requested
    <3>2. Event("blocked", NoKey).type = "blocked"
      BY EventFields
    <3> QED
      BY <1>1, <3>1, <3>2 DEF StartBlocked, SaveIntent, SaveRequest, SaveThen, Commit
  <2> QED
    BY <1>0, <2>1, LoggedPlain
<1>2. CASE Record(c)
  <2> DEFINE x == Reconciled(proc[c].req)
             t == <<x>>
             state == StateAfter(doc, proc[c].req)
  <2>1. doc' = Edited(doc, state, doc.findings, t)
    BY <1>0, <1>2 DEF Record, Commit, Snapshot
  <2>2. x.type = "reconciled"
    BY EventFields DEF Reconciled
  <2>3. state = "cancelled" => doc.state = "cancelled"
    BY DEF StateAfter
  <2> HIDE DEF x, state
  <2>4. IsSeq(t) /\ \A i \in DOMAIN t : t[i].type # "cancelled"
    BY <2>2, OneType
  <2> HIDE DEF t
  <2> QED
    BY <1>0, <2>1, <2>3, <2>4, EditPlain
<1>3. CASE Repair(c)
  <2> DEFINE t == Repairs(doc, proc[c].plan)
  <2>1. doc' = Edited(doc, doc.state, doc.findings, t)
    BY <1>0, <1>3 DEF Repair, Commit, Snapshot
  <2>2. proc[c].plan \subseteq JobKeys
    BY <1>0, <1>3 DEF IInv, ProcOK, LocalOK, Repair
  <2>3. IsSeq(t) /\ \A i \in DOMAIN t : t[i].type # "cancelled"
    BY <2>2, RepairsPlain
  <2> HIDE DEF t
  <2> QED
    BY <1>0, <2>1, <2>3, EditPlain
<1>4. CASE AddSave(c)
  <2> DEFINE x == Event("received", proc[c].req)
             y == Requested(proc[c].req)
             t == <<x, y>>
  <2>1. PICK findings : doc' = Edited(doc, "validating", findings, t)
    BY <1>0, <1>4 DEF AddSave, SaveThen, Commit, Snapshot
  <2>2. x.type = "received" /\ y.type = "requested"
    BY EventFields DEF Requested
  <2> HIDE DEF x, y
  <2>3. IsSeq(t) /\ \A i \in DOMAIN t : t[i].type # "cancelled"
    BY <2>2, Singles
  <2> HIDE DEF t
  <2> QED
    BY <1>0, <2>1, <2>3, EditPlain
<1>5. CASE VerdictSave(c)
  <2> DEFINE x == Event("validated", Validation(proc[c].req.of))
             y == Requested(Completion)
             t == <<x>>
             u == <<x, y>>
  <2>1. PICK state, findings, s :
          /\ doc' = Edited(doc, state, findings, s)
          /\ state \in {"completed", doc.state}
          /\ s = t \/ s = u
    BY <1>0, <1>5, OneAndOne DEF VerdictSave, SaveThen, Commit, Snapshot, WithVerdict
  <2>2. x.type = "validated" /\ y.type = "requested"
    BY EventFields DEF Requested
  <2> HIDE DEF x, y
  <2>3. IsSeq(t) /\ \A i \in DOMAIN t : t[i].type # "cancelled"
    BY <2>2, OneType
  <2>4. IsSeq(u) /\ \A i \in DOMAIN u : u[i].type # "cancelled"
    BY <2>2, Singles
  <2> HIDE DEF t, u
  <2> QED
    BY <1>0, <2>1, <2>3, <2>4, EditPlain
<1>6. CASE Ensure(c)
  <2> DEFINE y == Requested(Completion)
             t == <<y>>
             u == <<>>
  <2>1. PICK s : /\ doc' = Edited(doc, "completed", doc.findings, s)
                 /\ s = t \/ s = u
    BY <1>0, <1>6 DEF Ensure, SaveThen, Commit, Snapshot, ReadOnly, shared
  <2>2. y.type = "requested"
    BY EventFields DEF Requested
  <2> HIDE DEF y
  <2>3. IsSeq(t) /\ \A i \in DOMAIN t : t[i].type # "cancelled"
    BY <2>2, OneType
  <2>4. IsSeq(u) /\ \A i \in DOMAIN u : u[i].type # "cancelled"
    BY Singles
  <2> HIDE DEF t, u
  <2> QED
    BY <1>0, <2>1, <2>3, <2>4, EditPlain
<1>7. \/ StartBlocked(c) \/ SaveIntent(c) \/ SaveRequest(c) \/ Record(c) \/ Repair(c)
      \/ AddSave(c) \/ VerdictSave(c) \/ Ensure(c)
  <2>1. CASE StartRead(c) \/ StartPlan(c) \/ Enqueues(c) \/ CheckFinding(c) \/ CheckReport(c)
             \/ Reconcile(c) \/ CancelRead(c) \/ CancelDrop(c)
    BY <2>1 DEF StartRead, StartPlan, Enqueues, Enqueue, CheckFinding, CheckReport, Reread,
                Reconcile, CancelRead, CancelDrop, ReadOnly, shared
  <2>2. CASE CompleteRead(c) \/ ReportRead(c) \/ OutboxRead(c) \/ Diagnose(c) \/ HandlerDies(c)
    BY <2>2 DEF CompleteRead, ReportRead, OutboxRead, Diagnose, HandlerDies, ReadOnly, shared
  <2>3. CASE \E f \in Findings : AddRead(c, f)
    BY <2>3 DEF AddRead, ReadOnly, shared
  <2>4. CASE \E f \in Findings, verdict \in Resolved, again \in BOOLEAN :
               ValidateRead(c, f, verdict, again)
    BY <2>4 DEF ValidateRead, ReadOnly, shared
  <2> QED
    BY <2>1, <2>2, <2>3, <2>4 DEF Handler
<1> QED
  BY <1>1, <1>2, <1>3, <1>4, <1>5, <1>6, <1>7

LEMMA SavePlain ==
    ASSUME Both, NEW w \in Workers, Save(w), Unchanged(w)
    PROVE  Plain(doc, doc')
<1> DEFINE x == Event(IF proc[w].mode = "dry_run" THEN "dry_run" ELSE "processed", Job(w))
           t == IF Has(doc, x) THEN <<>> ELSE <<x>>
<1>0. IsDoc(doc) /\ proc[w].doc = doc
  BY OwnCopy DEF Both, IInv, SharedOK, Processes
<1>1. PICK findings, state :
        /\ doc' = [Edited(doc, doc.state, findings, t) EXCEPT !.state = state]
        /\ state \in {"ready", "completed", "validating", doc.state}
  <2> DEFINE findings == [f \in Findings |-> IF f \in proc[w].seen THEN "validation_required"
                                             ELSE doc.findings[f]]
             scanned == Edited(doc, doc.state, findings, t)
             state == CASE proc[w].mode = "dry_run" -> "ready"
                        [] proc[w].mode = "scanned" -> IF Settled(scanned) THEN "completed"
                                                       ELSE "validating"
                        [] OTHER -> doc.state
  <2>1. doc' = [scanned EXCEPT !.state = state]
    BY <1>0 DEF Save, Commit, Result, Copy
  <2>2. state \in {"ready", "completed", "validating", doc.state}
    <3> HIDE DEF scanned
    <3>1. CASE proc[w].mode = "dry_run"
      <4>1. proc[w].mode # "scanned"
        BY <3>1
      <4>2. state = "ready"
        BY <3>1, <4>1, Zenon
      <4> QED
        BY <4>2
    <3>2. CASE proc[w].mode = "scanned"
      BY <3>2
    <3>3. CASE proc[w].mode \notin {"dry_run", "scanned"}
      BY <3>3
    <3> QED
      BY <3>1, <3>2, <3>3
  <2> HIDE DEF state, findings, t
  <2> QED
    BY <2>1, <2>2
<1>2. x.type \in {"dry_run", "processed"}
  BY EventFields
<1> HIDE DEF x
<1>3. IsSeq(t) /\ \A i \in DOMAIN t : t[i].type # "cancelled"
  BY <1>2, Singles
<1> HIDE DEF t
<1> DEFINE e == Edited(doc, state, findings, t)
<1>4. doc' = e
  BY <1>0, <1>1 DEF Edited, IsDoc
<1> HIDE DEF e
<1>5. Plain(doc, e)
  BY <1>0, <1>1, <1>3, EditPlain DEF e
<1> QED
  BY <1>4, <1>5

LEMMA NextPlain ==
    ASSUME Both, Next, \A c \in Clients : ~CancelSave(c)
    PROVE  doc' = doc \/ Plain(doc, doc')
<1>1. ASSUME NEW w \in Workers, Work(w) \/ WorkerDies(w)
      PROVE  doc' = doc \/ Plain(doc, doc')
  BY <1>1, WorkerWrites, OutcomeStays, SavePlain
<1>2. ASSUME NEW w \in Workers, NEW k \in JobKeys, Claim(w, k)
      PROVE  doc' = doc
  BY <1>2 DEF Claim
<1>3. ASSUME NEW k \in JobKeys, LeaseExpires(k)
      PROVE  doc' = doc
  BY <1>3 DEF LeaseExpires
<1> QED
  BY <1>1, <1>2, <1>3, HandlerPlain DEF Next

-----------------------------------------------------------------------------
(* Who reviews and who cancels.                                            *)

\* r serves a request for a review, or for a cancel.
Reviewing(r) ==
    \/ r.pc \in {"verdict", "complete", "ensure"}
    \/ r.pc = "ready" /\ r.req.kind = "validate"

Cancelling(r) ==
    \/ r.pc = "cancel"
    \/ r.pc = "ready" /\ r.req.kind = "cancel"

\* r goes on with what q was asked.
GoesOn(q, r) == (Reviewing(r) => Reviewing(q)) /\ (Cancelling(r) => Cancelling(q))

\* Process c stands at pc next.
GoesTo(c, pc) == \E r : proc' = [proc EXCEPT ![c] = r] /\ r.pc = pc

LEMMA TakeGoes ==
    ASSUME IInv, NEW c \in Clients, NEW pc, NEW req, Take(c, pc, req)
    PROVE  GoesTo(c, pc)
<1> DEFINE r == [Loaded(c, pc) EXCEPT !.req = req]
<1>1. IsLocal(proc[c])
  BY DEF IInv, ProcOK, Processes
<1>2. r.pc = pc
  BY <1>1 DEF IsLocal, Loaded
<1> QED
  BY <1>2 DEF Take, GoesTo

LEMMA AtGoes ==
    ASSUME NEW c, NEW pc, NEW req, proc' = [proc EXCEPT ![c] = At(pc, req)]
    PROVE  GoesTo(c, pc)
BY AtSays DEF GoesTo

LEMMA TurnsGo ==
    ASSUME IInv, NEW c \in Clients, NEW pc, NEW plan, Turns(c, pc, plan)
    PROVE  GoesTo(c, pc)
<1> DEFINE r == [proc[c] EXCEPT !.pc = pc, !.plan = plan]
<1>1. IsLocal(proc[c])
  BY DEF IInv, ProcOK, Processes
<1>2. r.pc = pc
  BY <1>1 DEF IsLocal
<1> QED
  BY <1>2 DEF Turns, GoesTo

LEMMA EnqueueGoes ==
    ASSUME IInv, NEW c \in Clients, NEW k, Enqueue(c, k)
    PROVE  GoesTo(c, proc[c].pc)
<1> DEFINE r == [proc[c] EXCEPT !.plan = proc[c].plan \ {k}]
<1>1. IsLocal(proc[c])
  BY DEF IInv, ProcOK, Processes
<1>2. r.pc = proc[c].pc
  BY <1>1 DEF IsLocal
<1> QED
  BY <1>2 DEF Enqueue, GoesTo

LEMMA RetryGoes ==
    ASSUME NEW c, NEW pc, NEW else, Retry(c, pc, else)
    PROVE  GoesTo(c, pc) \/ GoesTo(c, else)
<1>1. CASE proc[c].tries + 1 < MaxTries
  <2> DEFINE r == [At(pc, proc[c].req) EXCEPT !.tries = proc[c].tries + 1]
  <2>1. r.pc = pc
    BY DEF At
  <2> QED
    BY <1>1, <2>1 DEF Retry, GoesTo
<1>2. CASE ~(proc[c].tries + 1 < MaxTries)
  BY <1>2, AtGoes DEF Retry
<1> QED
  BY <1>1, <1>2

LEMMA SaveThenGoes ==
    ASSUME NEW c, NEW d, NEW pc, SaveThen(c, d, pc)
    PROVE  GoesTo(c, pc) \/ GoesTo(c, "done")
BY AtGoes DEF SaveThen, Done, Leave, Goto

LEMMA HandlerGoesOn ==
    ASSUME IInv, NEW c \in Clients, Handler(c) \/ HandlerDies(c)
    PROVE  \E r : proc' = [proc EXCEPT ![c] = r] /\ GoesOn(proc[c], r)
<1> DEFINE Gone == \E r : proc' = [proc EXCEPT ![c] = r] /\ GoesOn(proc[c], r)
<1>0. ASSUME NEW pc, GoesTo(c, pc),
             \/ pc \notin {"verdict", "complete", "ensure", "cancel", "ready"}
             \/ pc \in {"verdict", "complete", "ensure"} /\ Reviewing(proc[c])
             \/ pc = "cancel" /\ Cancelling(proc[c])
      PROVE  Gone
  BY <1>0 DEF GoesTo, GoesOn, Reviewing, Cancelling
<1> SUFFICES Gone
  OBVIOUS
<1> HIDE DEF Gone
<1>1. Done(c) => Gone
  BY <1>0, AtGoes DEF Done, Leave
<1>2. CASE StartBlocked(c) \/ SaveIntent(c) \/ SaveRequest(c) \/ CancelSave(c) \/ AddSave(c)
  <2>1. PICK d, pc : SaveThen(c, d, pc) /\ pc \in {"done", "plan", "check", "drop"}
    BY <1>2 DEF StartBlocked, SaveIntent, SaveRequest, CancelSave, AddSave
  <2> QED
    BY <1>0, <2>1, SaveThenGoes
<1>3. CASE VerdictSave(c) \/ CompleteRead(c) \/ Ensure(c)
  <2>1. Reviewing(proc[c])
    BY <1>3 DEF VerdictSave, CompleteRead, Ensure, Reviewing
  <2>2. \/ \E d, pc : SaveThen(c, d, pc) /\ pc \in {"done", "complete", "check"}
        \/ Take(c, "ensure", Completion)
        \/ Done(c) \/ Goto(c, "check")
    BY <1>3 DEF VerdictSave, CompleteRead, Ensure
  <2> QED
    BY <1>0, <1>1, <2>1, <2>2, SaveThenGoes, TakeGoes, AtGoes DEF Goto
<1>4. CASE Record(c) \/ Repair(c)
  <2>1. Done(c) \/ Retry(c, "reconcile", "done") \/ Retry(c, "reread", "done")
    BY <1>4 DEF Record, Repair
  <2> QED
    BY <1>0, <1>1, <2>1, RetryGoes
<1>5. CASE StartRead(c) \/ Reconcile(c) \/ ReportRead(c) \/ OutboxRead(c)
           \/ \E f \in Findings : AddRead(c, f)
  <2>1. \/ Done(c)
        \/ \E pc, req : /\ Take(c, pc, req)
                        /\ pc \in {"block", "plan", "intent", "record", "check", "diagnose", "new"}
    BY <1>5 DEF StartRead, Reconcile, ReportRead, OutboxRead, AddRead
  <2> QED
    BY <1>0, <1>1, <2>1, TakeGoes
<1>6. CASE StartPlan(c) \/ CheckFinding(c) \/ CheckReport(c) \/ Diagnose(c)
  <2>1. Done(c) \/ \E pc, plan : Turns(c, pc, plan) /\ pc \in {"enqueue", "repair"}
    BY <1>6 DEF StartPlan, CheckFinding, CheckReport, Reread, Diagnose, Turns
  <2> QED
    BY <1>0, <1>1, <2>1, TurnsGo
<1>7. CASE CancelRead(c)
  <2>1. Cancelling(proc[c]) /\ (Done(c) \/ Take(c, "cancel", NoKey))
    BY <1>7 DEF CancelRead, Ready, Cancelling
  <2> QED
    BY <1>0, <1>1, <2>1, TakeGoes
<1>8. CASE CancelDrop(c) \/ HandlerDies(c)
  BY <1>1, <1>8 DEF CancelDrop, HandlerDies
<1>9. CASE Enqueues(c)
  <2>1. proc[c].pc = "enqueue" /\ ((\E k : Enqueue(c, k)) \/ Goto(c, "reconcile"))
    BY <1>9 DEF Enqueues
  <2> QED
    BY <1>0, <2>1, EnqueueGoes, AtGoes DEF Goto
<1>10. CASE \E f \in Findings, verdict \in Resolved, again \in BOOLEAN :
              ValidateRead(c, f, verdict, again)
  <2>1. PICK f \in Findings, verdict \in Resolved :
          /\ Reviewing(proc[c])
          /\ \/ Done(c) \/ Take(c, "ensure", Completion)
             \/ proc' = [proc EXCEPT ![c] =
                           [Loaded(c, "verdict") EXCEPT !.req = Validation(f), !.mode = verdict]]
    BY <1>10 DEF ValidateRead, Ready, Reviewing
  <2>2. CASE proc' = [proc EXCEPT ![c] =
                        [Loaded(c, "verdict") EXCEPT !.req = Validation(f), !.mode = verdict]]
    <3> DEFINE r == [Loaded(c, "verdict") EXCEPT !.req = Validation(f), !.mode = verdict]
    <3>1. IsLocal(proc[c])
      BY DEF IInv, ProcOK, Processes
    <3>2. r.pc = "verdict"
      BY <3>1 DEF IsLocal, Loaded
    <3>3. GoesTo(c, "verdict")
      BY <2>2, <3>2 DEF GoesTo
    <3> QED
      BY <1>0, <2>1, <3>3
  <2> QED
    BY <1>0, <1>1, <2>1, <2>2, TakeGoes
<1> QED
  BY <1>2, <1>3, <1>4, <1>5, <1>6, <1>7, <1>8, <1>9, <1>10 DEF Handler

-----------------------------------------------------------------------------
(* Jobs that were idle when the campaign was cancelled.                    *)

\* A worker that may still complete its job.
MayComplete(r) ==
    \/ r.pc \in {"work", "save", "advance", "enqueue"}
    \/ r.pc = "close" /\ r.mode = "completed"

Holds(j, w, k) == j[k].status = "running" /\ j[k].owner = w

SaysCancelled(d) == \E i \in DOMAIN d.events : d.events[i].type = "cancelled"

CancelledOnce(d) ==
    \A i \in DOMAIN d.events :
      d.events[i].type = "cancelled" => \A h \in 1..(i - 1) : d.events[h].type # "cancelled"

\* The document says of a cancel that it was, once, and what was idle then.
DocOK(d) ==
    /\ d.idle \subseteq JobKeys
    /\ d.state # "cancelled" => d.idle = {} /\ ~SaysCancelled(d)
    /\ CancelledOnce(d)

\* No job of idle is completed, or held by a worker that may complete it.
IdleOK(idle, j, p) ==
    /\ \A k \in idle : j[k].status # "completed"
    /\ \A w \in Workers : MayComplete(p[w]) /\ p[w].req \in idle => ~Holds(j, w, p[w].req)

\* While nobody reviews, and while at most one client cancels.
CInv ==
    /\ \A c \in Clients : ~Reviewing(proc[c])
    /\ DocOK(doc)
    /\ IdleOK(doc.idle, jobs, proc)

KInv ==
    /\ \A c, d \in Clients : Cancelling(proc[c]) /\ Cancelling(proc[d]) => c = d
    /\ SaysCancelled(doc) => \A c \in Clients : ~Cancelling(proc[c])
    /\ CancelledOnce(doc)

LEMMA CallersStay ==
    ASSUME Both, Next, NEW c \in Clients
    PROVE  GoesOn(proc[c], proc'[c])
<1>0. DOMAIN proc = Processes /\ IInv
  BY DEF Both, IInv
<1>1. ASSUME NEW d \in Clients, Handler(d) \/ HandlerDies(d)
      PROVE  GoesOn(proc[c], proc'[c])
  <2>1. PICK r : proc' = [proc EXCEPT ![d] = r] /\ GoesOn(proc[d], r)
    BY <1>0, <1>1, HandlerGoesOn
  <2> QED
    BY <1>0, <2>1 DEF Processes, GoesOn
<1>2. ASSUME proc'[c] = proc[c]
      PROVE  GoesOn(proc[c], proc'[c])
  BY <1>2 DEF GoesOn
<1>3. ASSUME NEW w \in Workers, Work(w) \/ WorkerDies(w) \/ \E k \in JobKeys : Claim(w, k)
      PROVE  proc'[c] = proc[c]
  <2>1. \E r : proc' = [proc EXCEPT ![w] = r]
    <3>1. CASE Load(w) \/ WorkFails(w) \/ Advance(w) \/ AdvanceSkipped(w) \/ AdvanceEnqueue(w)
               \/ OutcomeRead(w) \/ WorkerDies(w)
      BY <3>1 DEF Load, WorkFails, Advance, AdvanceSkipped, AdvanceEnqueue, Complete, Enqueue,
                  OutcomeRead, WorkerDies, Close, Leave
    <3>2. CASE DryRun(w) \/ ReconTask(w) \/ BrowserFlow(w) \/ WriteReport(w) \/ Finish(w)
      BY <3>2 DEF DryRun, ReconTask, BrowserFlow, WriteReport, Explore, Finish, Leave
    <3>3. CASE Save(w)
      BY <3>3 DEF Save, Goto, Close
    <3>4. CASE OutcomeSave(w)
      BY <3>4 DEF OutcomeSave, Leave
    <3>5. CASE \/ \E found \in SUBSET Findings : Ingest(w, found)
               \/ \E observed \in BOOLEAN : Probe(w, observed)
               \/ \E k \in JobKeys : IngestEnqueue(w, k) \/ Claim(w, k)
      BY <3>5 DEF Ingest, Probe, IngestEnqueue, Enqueue, Claim
    <3> QED
      BY <1>3, <3>1, <3>2, <3>3, <3>4, <3>5 DEF Work
  <2> QED
    BY <1>0, <2>1, ApartProcs DEF Processes
<1>4. ASSUME NEW k \in JobKeys, LeaseExpires(k)
      PROVE  proc'[c] = proc[c]
  BY <1>4 DEF LeaseExpires
<1> QED
  BY <1>1, <1>2, <1>3, <1>4 DEF Next

-----------------------------------------------------------------------------
(* The document.                                                           *)

LEMMA PlainSays ==
    ASSUME NEW d, IsDoc(d), NEW e, Extends(d, e), Plain(d, e)
    PROVE  /\ SaysCancelled(e) => SaysCancelled(d)
           /\ CancelledOnce(d) => CancelledOnce(e)
<1> DEFINE n == Len(d.events)
           s == d.events
           u == e.events
<1>1. PICK S : s \in Seq(S)
  BY DEF IsDoc, IsSeq
<1>2. PICK T : u \in Seq(T)
  BY DEF Extends, IsDoc, IsSeq
<1>3. Len(s) <= Len(u) /\ SubSeq(u, 1, Len(s)) = s
  BY DEF Extends, IsPrefixOf
<1> HIDE DEF s, u
<1>4. \A i \in 1..Len(s) : SubSeq(u, 1, Len(s))[i] = u[i]
  BY <1>1, <1>2, <1>3
<1>5. /\ DOMAIN s = 1..Len(s) /\ DOMAIN u = 1..Len(u) /\ Len(s) \in Nat /\ Len(u) \in Nat
      /\ \A i \in DOMAIN s : i \in DOMAIN u /\ u[i] = s[i]
  BY <1>1, <1>2, <1>3, <1>4
<1>6. \A i \in DOMAIN u : u[i].type = "cancelled" => i \in DOMAIN s
  BY DEF Plain, Added, s, u
<1>7. (\E i \in DOMAIN u : u[i].type = "cancelled") => \E i \in DOMAIN s : s[i].type = "cancelled"
  BY <1>5, <1>6
<1>8. ASSUME CancelledOnce(d), NEW i \in DOMAIN u, u[i].type = "cancelled", NEW h \in 1..(i - 1)
      PROVE  u[h].type # "cancelled"
  <2>1. i \in DOMAIN s /\ h \in DOMAIN s
    BY <1>5, <1>6, <1>8
  <2> QED
    BY <1>5, <1>8, <2>1 DEF CancelledOnce, s
<1> QED
  BY <1>7, <1>8 DEF SaysCancelled, CancelledOnce, s, u

\* The cancel itself.
LEMMA CancelSaved ==
    ASSUME Both, NEW c \in Clients, CancelSave(c), Unchanged(c)
    PROVE  LET x == Event("cancelled", NoKey) IN
           /\ doc.state # "cancelled"
           /\ doc'.state = "cancelled"
           /\ doc'.idle = {k \in JobKeys : ~Running(k) /\ ~Completed(k)}
           /\ Appends(doc, doc', <<x>>)
<1> DEFINE x == Event("cancelled", NoKey)
           t == <<x>>
           idle == {k \in JobKeys : ~Running(k) /\ ~Completed(k)}
           e == Edited(doc, "cancelled", doc.findings, t)
<1>1. Snapshot(c) = doc /\ IsDoc(doc) /\ doc.state # "cancelled"
  BY OwnCopy, CancelRefuses DEF Both, IInv, SharedOK, Processes, Snapshot, CancelSave, Saving
<1>2. doc' = [e EXCEPT !.idle = idle]
  BY <1>1 DEF CancelSave, SaveThen, Commit
<1> HIDE DEF idle, t
<1>3. /\ DOMAIN e = {"state", "findings", "events", "idle"}
      /\ e.state = "cancelled" /\ e.events = doc.events \o t
  BY <1>1, EditedFields
<1> HIDE DEF e
<1>4. doc'.state = "cancelled" /\ doc'.idle = idle /\ doc'.events = doc.events \o t
  BY <1>2, <1>3
<1> QED
  BY <1>1, <1>4 DEF Appends, idle, t

LEMMA CancelSays ==
    ASSUME NEW d, IsDoc(d), NEW e, NEW x, Appends(d, e, <<x>>), ~SaysCancelled(d)
    PROVE  CancelledOnce(e)
<1> DEFINE n == Len(d.events)
           t == <<x>>
<1>1. IsSeq(t) /\ Appends(d, e, t)
  BY Singles
<1>3. Len(t) = 1
  OBVIOUS
<1> HIDE DEF t
<1>2. /\ n \in Nat /\ DOMAIN d.events = 1..n
      /\ DOMAIN e.events = 1..(n + Len(t))
      /\ \A i \in DOMAIN d.events : e.events[i] = d.events[i]
  BY <1>1, AppendedAt
<1> HIDE DEF n
<1>4. \A i \in DOMAIN e.events : \A h \in 1..(i - 1) : h \in DOMAIN d.events
  BY <1>2, <1>3
<1> QED
  BY <1>2, <1>4 DEF CancelledOnce, SaysCancelled

LEMMA DocStaysOK ==
    ASSUME Both, CInv, Next
    PROVE  DocOK(doc)' /\ (doc'.idle = doc.idle \/ \E c \in Clients : CancelSave(c) /\ Unchanged(c))
<1>0. IsDoc(doc) /\ DocOK(doc) /\ Extends(doc, doc')
  BY NextGood, StepExtends DEF Both, IInv, SharedOK, CInv
<1>1. CASE \E c \in Clients : CancelSave(c) /\ Unchanged(c)
  <2>1. PICK c \in Clients : CancelSave(c) /\ Unchanged(c)
    BY <1>1
  <2> DEFINE x == Event("cancelled", NoKey)
  <2>2. /\ doc.state # "cancelled" /\ doc'.state = "cancelled"
        /\ doc'.idle \subseteq JobKeys /\ Appends(doc, doc', <<x>>)
    BY <2>1, CancelSaved
  <2> HIDE DEF x
  <2>3. CancelledOnce(doc')
    BY <1>0, <2>2, CancelSays DEF DocOK
  <2> QED
    BY <1>1, <2>2, <2>3 DEF DocOK
<1>2. CASE doc' = doc
  BY <1>0, <1>2
<1>3. CASE doc' # doc /\ \A c \in Clients : ~(CancelSave(c) /\ Unchanged(c))
  <2>1. \A c \in Clients : ~CancelSave(c)
    BY <1>3 DEF CancelSave, SaveThen
  <2>2. Plain(doc, doc')
    BY <1>3, <2>1, NextPlain
  <2>3. \A c \in Clients : ~Ensure(c)
    BY DEF CInv, Reviewing, Ensure
  <2>4. doc.state = "cancelled" => doc'.state = "cancelled"
    BY <1>3, <2>3, CancelHolds DEF Stays
  <2>5. (SaysCancelled(doc') => SaysCancelled(doc)) /\ CancelledOnce(doc')
    BY <1>0, <2>2, PlainSays DEF DocOK
  <2> QED
    BY <1>0, <2>2, <2>4, <2>5 DEF DocOK, Plain
<1> QED
  BY <1>1, <1>2, <1>3

-----------------------------------------------------------------------------
(* The jobs.                                                               *)

\* Process p moves to r: nothing that may complete gets hold of a job in idle.
LEMMA IdleMoves ==
    ASSUME IInv, NEW idle, idle \subseteq JobKeys, IdleOK(idle, jobs, proc),
           NEW p \in Processes, NEW r, proc' = [proc EXCEPT ![p] = r],
           \A k \in idle : jobs'[k].status = "completed" => jobs[k].status = "completed",
           \A k \in idle, w \in Workers :
             Holds(jobs', w, k) => Holds(jobs, w, k) \/ (w = p /\ ~MayComplete(r)),
           p \in Workers /\ MayComplete(r) /\ r.req \in idle =>
             MayComplete(proc[p]) /\ r.req = proc[p].req
    PROVE  IdleOK(idle, jobs', proc')
<1>1. DOMAIN proc = Processes
  BY DEF IInv
<1>2. proc'[p] = r /\ \A q \in Processes : q # p => proc'[q] = proc[q]
  BY <1>1
<1>3. ASSUME NEW w \in Workers, MayComplete(proc'[w]), proc'[w].req \in idle,
             Holds(jobs', w, proc'[w].req)
      PROVE  FALSE
  <2>1. CASE w = p
    BY <1>2, <1>3, <2>1 DEF IdleOK
  <2>2. CASE w # p
    <3>1. proc'[w] = proc[w]
      BY <1>2, <2>2 DEF Processes
    <3>2. Holds(jobs, w, proc[w].req)
      BY <1>3, <2>2, <3>1
    <3> QED
      BY <1>3, <3>1, <3>2 DEF IdleOK
  <2> QED
    BY <2>1, <2>2
<1> QED
  BY <1>3 DEF IdleOK

\* What a handler does to the queue: it completes no job and takes none.
LEMMA HandlerJobs ==
    ASSUME IInv, NEW c \in Clients, Handler(c) \/ HandlerDies(c), NEW k \in JobKeys
    PROVE  /\ jobs'[k].status = "completed" => jobs[k].status = "completed"
           /\ \A w \in Workers : Holds(jobs', w, k) => Holds(jobs, w, k)
<1>0. DOMAIN jobs = JobKeys /\ NoWorker \notin Workers
  BY RecordAssumption DEF RecordAssumption, IInv, SharedOK
<1>1. CASE jobs' = jobs
  BY <1>1 DEF Holds
<1>2. CASE \E l : l \in proc[c].plan /\ jobs' = Enqueued(l)
  BY <1>0, <1>2 DEF Enqueued, JobRow, Holds
<1>3. CASE jobs' = CancelQueued
  BY <1>0, <1>3 DEF CancelQueued, JobRow, Holds
<1>4. \/ jobs' = jobs \/ jobs' = CancelQueued
      \/ \E l : l \in proc[c].plan /\ jobs' = Enqueued(l)
  <2>1. CASE StartBlocked(c) \/ SaveIntent(c) \/ SaveRequest(c) \/ CancelSave(c) \/ AddSave(c)
             \/ VerdictSave(c) \/ Ensure(c) \/ Record(c) \/ Repair(c)
    BY <2>1 DEF StartBlocked, SaveIntent, SaveRequest, CancelSave, AddSave, VerdictSave, Ensure,
                Record, Repair, SaveThen, ReadOnly, shared
  <2>2. CASE StartRead(c) \/ StartPlan(c) \/ Enqueues(c) \/ CheckFinding(c) \/ CheckReport(c)
             \/ Reconcile(c) \/ CancelRead(c) \/ CancelDrop(c)
    BY <2>2 DEF StartRead, StartPlan, Enqueues, Enqueue, CheckFinding, CheckReport, Reread,
                Reconcile, CancelRead, CancelDrop, ReadOnly, shared
  <2>3. CASE CompleteRead(c) \/ ReportRead(c) \/ OutboxRead(c) \/ Diagnose(c) \/ HandlerDies(c)
    BY <2>3 DEF CompleteRead, ReportRead, OutboxRead, Diagnose, HandlerDies, ReadOnly, shared
  <2>4. CASE \E f \in Findings : AddRead(c, f)
    BY <2>4 DEF AddRead, ReadOnly, shared
  <2>5. CASE \E f \in Findings, verdict \in Resolved, again \in BOOLEAN :
               ValidateRead(c, f, verdict, again)
    BY <2>5 DEF ValidateRead, ReadOnly, shared
  <2> QED
    BY <2>1, <2>2, <2>3, <2>4, <2>5 DEF Handler
<1> QED
  BY <1>1, <1>2, <1>3, <1>4

LEMMA HandlerIdle ==
    ASSUME Both, CInv, NEW c \in Clients, Handler(c) \/ HandlerDies(c)
    PROVE  IdleOK(doc.idle, jobs', proc')
<1>0. IInv /\ doc.idle \subseteq JobKeys /\ IdleOK(doc.idle, jobs, proc) /\ c \in Processes
      /\ c \notin Workers
  BY ApartProcs DEF Both, CInv, DocOK, Processes
<1>1. PICK r : proc' = [proc EXCEPT ![c] = r]
  BY <1>0, HandlerGoesOn
<1>2. \A k \in JobKeys : /\ jobs'[k].status = "completed" => jobs[k].status = "completed"
                         /\ \A w \in Workers : Holds(jobs', w, k) => Holds(jobs, w, k)
  BY <1>0, HandlerJobs
<1> QED
  BY <1>0, <1>1, <1>2, IdleMoves

\* A worker that leaves the queue alone, and gets hold of nothing to complete.
LEMMA QuietIdle ==
    ASSUME Both, CInv, NEW w \in Workers, NEW r, proc' = [proc EXCEPT ![w] = r],
           jobs' = jobs \/ \E l : jobs' = Enqueued(l),
           MayComplete(r) => \/ doc.state # "cancelled"
                             \/ MayComplete(proc[w]) /\ r.req = proc[w].req
    PROVE  IdleOK(doc.idle, jobs', proc')
<1>0. /\ IInv /\ doc.idle \subseteq JobKeys /\ IdleOK(doc.idle, jobs, proc) /\ w \in Processes
      /\ doc.state # "cancelled" => doc.idle = {}
      /\ DOMAIN jobs = JobKeys
  BY DEF Both, CInv, DocOK, Processes, IInv, SharedOK
<1>1. \A k \in doc.idle : /\ jobs'[k].status = "completed" => jobs[k].status = "completed"
                          /\ \A v \in Workers : Holds(jobs', v, k) => Holds(jobs, v, k)
  <2>1. CASE jobs' = jobs
    BY <2>1 DEF Holds
  <2>2. CASE \E l : jobs' = Enqueued(l)
    BY <1>0, <2>2 DEF Enqueued, JobRow, Holds
  <2> QED
    BY <2>1, <2>2
<1>2. w \in Workers /\ MayComplete(r) /\ r.req \in doc.idle =>
        MayComplete(proc[w]) /\ r.req = proc[w].req
  BY <1>0
<1> QED
  BY <1>0, <1>1, <1>2, IdleMoves

LEMMA AtIdle ==
    ASSUME Both, CInv, NEW w \in Workers, NEW pc, NEW req,
           proc' = [proc EXCEPT ![w] = At(pc, req)], jobs' = jobs,
           pc \in {"work", "save", "advance", "enqueue"} =>
             MayComplete(proc[w]) /\ req = proc[w].req
    PROVE  IdleOK(doc.idle, jobs', proc')
<1> DEFINE r == At(pc, req)
<1>1. r.pc = pc /\ r.req = req /\ r.mode = "none"
  BY DEF At
<1>2. proc' = [proc EXCEPT ![w] = r]
  OBVIOUS
<1> HIDE DEF r
<1>3. MayComplete(r) => MayComplete(proc[w]) /\ r.req = proc[w].req
  BY <1>1 DEF MayComplete
<1> QED
  BY <1>2, <1>3, QuietIdle

LEMMA CloseIdle ==
    ASSUME Both, CInv, NEW w \in Workers, NEW mode, Close(w, mode), jobs' = jobs,
           mode = "completed" => MayComplete(proc[w])
    PROVE  IdleOK(doc.idle, jobs', proc')
<1> DEFINE r == [At("close", Job(w)) EXCEPT !.mode = mode]
<1>1. r.pc = "close" /\ r.req = proc[w].req /\ r.mode = mode
  BY DEF At, Job
<1>2. proc' = [proc EXCEPT ![w] = r]
  BY DEF Close
<1> HIDE DEF r
<1>3. MayComplete(r) => MayComplete(proc[w]) /\ r.req = proc[w].req
  BY <1>1 DEF MayComplete
<1> QED
  BY <1>2, <1>3, QuietIdle

LEMMA LoadIdle ==
    ASSUME Both, CInv, NEW w \in Workers, Load(w) \/ OutcomeRead(w)
    PROVE  IdleOK(doc.idle, jobs', proc')
<1>0. IsLocal(proc[w]) /\ jobs' = jobs
  BY DEF Both, IInv, ProcOK, Processes, Load, OutcomeRead, Quiet, shared
<1>1. \/ Close(w, "cancelled") \/ Close(w, "failed")
      \/ proc' = [proc EXCEPT ![w] = At("idle", NoKey)]
      \/ \E pc : /\ proc' = [proc EXCEPT ![w] = Loaded(w, pc)]
                 /\ pc = "log" \/ (pc = "work" /\ doc.state # "cancelled")
  BY DEF Load, OutcomeRead, Leave
<1>2. ASSUME NEW pc, proc' = [proc EXCEPT ![w] = Loaded(w, pc)],
             pc = "log" \/ (pc = "work" /\ doc.state # "cancelled")
      PROVE  IdleOK(doc.idle, jobs', proc')
  <2> DEFINE r == Loaded(w, pc)
  <2>1. r.pc = pc /\ proc' = [proc EXCEPT ![w] = r]
    BY <1>0, <1>2 DEF Loaded, IsLocal
  <2> HIDE DEF r
  <2> QED
    BY <1>0, <1>2, <2>1, QuietIdle DEF MayComplete
<1> QED
  BY <1>0, <1>1, <1>2, CloseIdle, AtIdle

LEMMA WorksIdle ==
    ASSUME Both, CInv, NEW w \in Workers,
           \/ DryRun(w) \/ ReconTask(w) \/ BrowserFlow(w) \/ WriteReport(w)
           \/ \E found \in SUBSET Findings : Ingest(w, found)
           \/ \E observed \in BOOLEAN : Probe(w, observed)
    PROVE  IdleOK(doc.idle, jobs', proc')
<1>0. IsLocal(proc[w])
  BY DEF Both, IInv, ProcOK, Processes
<1>1. PICK mode, seen : /\ jobs' = jobs /\ proc[w].pc = "work"
                        /\ proc' = [proc EXCEPT ![w] = ToSave(w, mode, seen)]
  BY DEF DryRun, ReconTask, BrowserFlow, WriteReport, Explore, Ingest, Probe
<1> DEFINE r == ToSave(w, mode, seen)
<1>2. r.req = proc[w].req /\ proc' = [proc EXCEPT ![w] = r]
  BY <1>0, <1>1 DEF ToSave, IsLocal
<1> HIDE DEF r
<1> QED
  BY <1>1, <1>2, QuietIdle DEF MayComplete

LEMMA PlansIdle ==
    ASSUME Both, CInv, NEW w \in Workers,
           \/ Advance(w) \/ AdvanceSkipped(w) \/ AdvanceEnqueue(w)
           \/ \E k \in JobKeys : IngestEnqueue(w, k)
    PROVE  IdleOK(doc.idle, jobs', proc')
<1>0. IsLocal(proc[w])
  BY DEF Both, IInv, ProcOK, Processes
<1>1. MayComplete(proc[w])
  BY DEF Advance, AdvanceSkipped, AdvanceEnqueue, IngestEnqueue, MayComplete
<1>2. \/ \E k : Enqueue(w, k)
      \/ /\ jobs' = jobs
         /\ \/ \E mode : Close(w, mode)
            \/ \E plan : Turns(w, "enqueue", plan)
  BY DEF Advance, AdvanceSkipped, AdvanceEnqueue, IngestEnqueue, Complete, Quiet, shared, Turns
<1>3. ASSUME NEW k, Enqueue(w, k)
      PROVE  IdleOK(doc.idle, jobs', proc')
  <2> DEFINE r == [proc[w] EXCEPT !.plan = proc[w].plan \ {k}]
  <2>1. r.req = proc[w].req /\ proc' = [proc EXCEPT ![w] = r] /\ jobs' = Enqueued(k)
    BY <1>0, <1>3 DEF Enqueue, IsLocal
  <2> HIDE DEF r
  <2> QED
    BY <1>1, <2>1, QuietIdle
<1>4. ASSUME NEW plan, Turns(w, "enqueue", plan), jobs' = jobs
      PROVE  IdleOK(doc.idle, jobs', proc')
  <2> DEFINE r == [proc[w] EXCEPT !.pc = "enqueue", !.plan = plan]
  <2>1. r.req = proc[w].req /\ proc' = [proc EXCEPT ![w] = r]
    BY <1>0, <1>4 DEF Turns, IsLocal
  <2> HIDE DEF r
  <2> QED
    BY <1>1, <1>4, <2>1, QuietIdle
<1> QED
  BY <1>1, <1>2, <1>3, <1>4, CloseIdle

LEMMA SavesIdle ==
    ASSUME Both, CInv, NEW w \in Workers, Save(w) \/ OutcomeSave(w)
    PROVE  IdleOK(doc.idle, jobs', proc')
<1>1. CASE Save(w)
  <2>1. Close(w, "failed") \/ proc' = [proc EXCEPT ![w] = At("advance", proc[w].req)]
    BY <1>1 DEF Save, Goto
  <2>2. jobs' = jobs /\ MayComplete(proc[w])
    BY <1>1 DEF Save, MayComplete
  <2> QED
    BY <2>1, <2>2, CloseIdle, AtIdle
<1>2. CASE OutcomeSave(w)
  <2>1. \/ proc' = [proc EXCEPT ![w] = At("idle", NoKey)]
        \/ proc' = [proc EXCEPT ![w] =
                      [At("outcome", Job(w)) EXCEPT !.mode = proc[w].mode,
                                                    !.tries = proc[w].tries + 1]]
    BY <1>2 DEF OutcomeSave, Leave
  <2> DEFINE r == [At("outcome", Job(w)) EXCEPT !.mode = proc[w].mode,
                                                !.tries = proc[w].tries + 1]
  <2>2. r.pc = "outcome" /\ jobs' = jobs
    BY <1>2 DEF At, OutcomeSave
  <2>3. proc' = [proc EXCEPT ![w] = At("idle", NoKey)] \/ proc' = [proc EXCEPT ![w] = r]
    BY <2>1
  <2> HIDE DEF r
  <2> QED
    BY <2>2, <2>3, AtIdle, QuietIdle DEF MayComplete
<1> QED
  BY <1>1, <1>2

LEMMA LeavesIdle ==
    ASSUME Both, CInv, NEW w \in Workers, WorkFails(w) \/ WorkerDies(w)
    PROVE  IdleOK(doc.idle, jobs', proc')
<1>1. jobs' = jobs /\ (Close(w, "failed") \/ proc' = [proc EXCEPT ![w] = At("idle", NoKey)])
  BY DEF WorkFails, WorkerDies, Leave, shared
<1> QED
  BY <1>1, CloseIdle, AtIdle

\* Only who holds a job completes it, and nobody that may complete one of idle holds it.
LEMMA FinishIdle ==
    ASSUME Both, CInv, NEW w \in Workers, Finish(w)
    PROVE  IdleOK(doc.idle, jobs', proc')
<1>0. /\ IInv /\ doc.idle \subseteq JobKeys /\ IdleOK(doc.idle, jobs, proc) /\ w \in Processes
      /\ DOMAIN jobs = JobKeys /\ NoWorker \notin Workers
  BY RecordAssumption DEF RecordAssumption, Both, CInv, DocOK, Processes, IInv, SharedOK
<1>1. CASE ~Owns(w)
  BY <1>1, AtIdle DEF Finish, Leave
<1>2. CASE Owns(w)
  <2> DEFINE k == Job(w)
             row == JobRow(Final(w), jobs[k].attempts, NoWorker)
             r == [At("outcome", k) EXCEPT !.mode = Final(w)]
  <2>1. r.pc = "outcome" /\ row.status = Final(w) /\ row.owner = NoWorker
    BY DEF At, JobRow
  <2>2. proc' = [proc EXCEPT ![w] = r] /\ jobs' = [jobs EXCEPT ![k] = row]
    BY <1>2 DEF Finish
  <2>3. Final(w) = "completed" => MayComplete(proc[w])
    BY DEF Final, Finish, MayComplete
  <2>4. Holds(jobs, w, k) /\ k = proc[w].req
    BY <1>2 DEF Owns, Running, Holds, Job
  <2>5. Final(w) = "completed" => k \notin doc.idle
    BY <1>0, <2>3, <2>4 DEF IdleOK
  <2> HIDE DEF r, row, k
  <2>6. \A l \in JobKeys :
          /\ l # k => jobs'[l] = jobs[l]
          /\ l = k => jobs'[l] = row
    BY <1>0, <2>2
  <2>7. \A l \in doc.idle : jobs'[l].status = "completed" => jobs[l].status = "completed"
    BY <1>0, <2>1, <2>5, <2>6
  <2>8. \A l \in doc.idle, v \in Workers : Holds(jobs', v, l) => Holds(jobs, v, l)
    BY <1>0, <2>1, <2>6 DEF Holds
  <2>9. ~MayComplete(r)
    BY <2>1 DEF MayComplete
  <2> QED
    BY <1>0, <2>2, <2>7, <2>8, <2>9, IdleMoves
<1> QED
  BY <1>1, <1>2

LEMMA ClaimIdle ==
    ASSUME Both, CInv, NEW w \in Workers, NEW k \in JobKeys, Claim(w, k)
    PROVE  IdleOK(doc.idle, jobs', proc')
<1>0. /\ IInv /\ doc.idle \subseteq JobKeys /\ IdleOK(doc.idle, jobs, proc) /\ w \in Processes
      /\ DOMAIN jobs = JobKeys
  BY DEF Both, CInv, DocOK, Processes, IInv, SharedOK
<1> DEFINE row == JobRow("running", jobs[k].attempts + 1, w)
           r == At("load", k)
<1>1. r.pc = "load" /\ row.status = "running" /\ row.owner = w
  BY DEF At, JobRow
<1>2. proc' = [proc EXCEPT ![w] = r] /\ jobs' = [jobs EXCEPT ![k] = row]
  BY DEF Claim
<1> HIDE DEF r, row
<1>3. \A l \in JobKeys :
        /\ l # k => jobs'[l] = jobs[l]
        /\ l = k => jobs'[l] = row
  BY <1>0, <1>2
<1>4. \A l \in doc.idle : jobs'[l].status = "completed" => jobs[l].status = "completed"
  BY <1>0, <1>1, <1>3
<1>5. ~MayComplete(r)
  BY <1>1 DEF MayComplete
<1>6. \A l \in doc.idle, v \in Workers :
        Holds(jobs', v, l) => Holds(jobs, v, l) \/ (v = w /\ ~MayComplete(r))
  BY <1>0, <1>1, <1>3, <1>5 DEF Holds
<1> QED
  BY <1>0, <1>2, <1>4, <1>5, <1>6, IdleMoves

LEMMA LeaseIdle ==
    ASSUME Both, CInv, NEW k \in JobKeys, LeaseExpires(k)
    PROVE  IdleOK(doc.idle, jobs', proc')
<1>0. /\ doc.idle \subseteq JobKeys /\ IdleOK(doc.idle, jobs, proc)
      /\ DOMAIN jobs = JobKeys /\ NoWorker \notin Workers
  BY RecordAssumption DEF RecordAssumption, Both, CInv, DocOK, IInv, SharedOK
<1>1. /\ proc' = proc
      /\ \E status : /\ jobs' = [jobs EXCEPT ![k] = JobRow(status, jobs[k].attempts, NoWorker)]
                     /\ status \in {"queued", "failed"}
  BY DEF LeaseExpires
<1>2. \A l \in JobKeys :
        /\ jobs'[l].status = "completed" => jobs[l].status = "completed"
        /\ \A v \in Workers : Holds(jobs', v, l) => Holds(jobs, v, l)
  BY <1>0, <1>1 DEF JobRow, Holds
<1> QED
  BY <1>0, <1>1, <1>2 DEF IdleOK

LEMMA IdleStays ==
    ASSUME Both, CInv, Next
    PROVE  IdleOK(doc.idle, jobs', proc')
BY HandlerIdle, LoadIdle, WorksIdle, PlansIdle, SavesIdle, LeavesIdle, FinishIdle, ClaimIdle,
   LeaseIdle DEF Next, Work

\* The idle jobs of the step that cancels.
LEMMA CancelIdle ==
    ASSUME Both, NEW c \in Clients, CancelSave(c), Unchanged(c)
    PROVE  IdleOK(doc'.idle, jobs', proc')
<1>0. /\ doc'.idle = {k \in JobKeys : ~Running(k) /\ ~Completed(k)}
      /\ jobs' = jobs
  BY CancelSaved DEF CancelSave, SaveThen
<1>1. \A k \in doc'.idle : jobs[k].status # "running" /\ jobs[k].status # "completed"
  BY <1>0 DEF Running, Completed
<1> QED
  BY <1>0, <1>1 DEF IdleOK, Holds

LEMMA CInvStays ==
    ASSUME Both, CInv, [Next]_vars
    PROVE  CInv'
<1>1. CASE Next
  <2>1. \A c \in Clients : ~Reviewing(proc'[c])
    BY <1>1, CallersStay DEF CInv, GoesOn
  <2>2. DocOK(doc')
    BY <1>1, DocStaysOK
  <2>3. IdleOK(doc'.idle, jobs', proc')
    BY <1>1, DocStaysOK, IdleStays, CancelIdle
  <2> QED
    BY <2>1, <2>2, <2>3 DEF CInv
<1>2. CASE UNCHANGED vars
  BY <1>2 DEF vars, CInv
<1> QED
  BY <1>1, <1>2

LEMMA KInvStays ==
    ASSUME Both, KInv, [Next]_vars
    PROVE  KInv'
<1>1. CASE Next
  <2>0. \A c \in Clients : Cancelling(proc'[c]) => Cancelling(proc[c])
    BY <1>1, CallersStay DEF GoesOn
  <2>1. CASE doc' # doc /\ \E c \in Clients : CancelSave(c)
    <3>1. PICK c \in Clients : CancelSave(c) /\ Unchanged(c)
      BY <2>1 DEF CancelSave, SaveThen
    <3> DEFINE x == Event("cancelled", NoKey)
               r == At("drop", proc[c].req)
    <3>2. Cancelling(proc[c]) /\ ~SaysCancelled(doc)
      BY <3>1 DEF CancelSave, Cancelling, KInv
    <3>3. IsDoc(doc) /\ Appends(doc, doc', <<x>>)
      BY <3>1, CancelSaved DEF Both, IInv, SharedOK
    <3> HIDE DEF x
    <3>4. CancelledOnce(doc')
      BY <3>2, <3>3, CancelSays
    <3>5. r.pc = "drop"
      BY DEF At
    <3>6. proc' = [proc EXCEPT ![c] = r] /\ c \in DOMAIN proc
      BY <3>1 DEF CancelSave, SaveThen, Goto, Both, IInv, Processes
    <3> HIDE DEF r
    <3>7. ~Cancelling(proc'[c])
      BY <3>5, <3>6 DEF Cancelling
    <3>8. \A d \in Clients : ~Cancelling(proc'[d])
      BY <2>0, <3>2, <3>7 DEF KInv
    <3> QED
      BY <3>4, <3>8 DEF KInv
  <2>2. CASE doc' = doc
    BY <2>0, <2>2 DEF KInv
  <2>3. CASE doc' # doc /\ \A c \in Clients : ~CancelSave(c)
    <3>1. Plain(doc, doc')
      BY <1>1, <2>3, NextPlain
    <3>2. IsDoc(doc) /\ Extends(doc, doc')
      BY <1>1, <2>3, NextGood DEF Both, IInv, SharedOK, Step
    <3>3. (SaysCancelled(doc') => SaysCancelled(doc)) /\ CancelledOnce(doc')
      BY <3>1, <3>2, PlainSays DEF KInv
    <3> QED
      BY <2>0, <3>3 DEF KInv
  <2> QED
    BY <2>1, <2>2, <2>3
<1>2. CASE UNCHANGED vars
  BY <1>2 DEF vars, KInv
<1> QED
  BY <1>1, <1>2

\* Who reviews and who cancels in a scenario.
NoReview(s)  == \A c \in Clients : s.requests[c] # "validate"
OneCancel(s) ==
    \A c, d \in Clients : s.requests[c] = "cancel" /\ s.requests[d] = "cancel" => c = d

LEMMA InitCalls ==
    ASSUME RecordInit
    PROVE  \E s \in Scenarios :
             /\ NoReview(s) => CInv
             /\ OneCancel(s) => KInv
<1>0. PICK s \in Scenarios :
        proc = [p \in Processes |-> IF p \in Workers THEN At("idle", NoKey)
                                    ELSE At("ready", Key(s.requests[p], "none"))]
  BY DEF RecordInit
<1>1. \A c \in Clients : proc[c].pc = "ready" /\ proc[c].req.kind = s.requests[c]
  BY <1>0, ApartProcs DEF Processes, At, Key
<1>2. doc.state = "ready" /\ doc.idle = {} /\ ~SaysCancelled(doc) /\ CancelledOnce(doc)
  BY DEF RecordInit, EmptyDoc, SaysCancelled, CancelledOnce
<1>3. ASSUME NoReview(s)
      PROVE  CInv
  <2>1. \A c \in Clients : ~Reviewing(proc[c])
    BY <1>1, <1>3 DEF NoReview, Reviewing
  <2>2. DocOK(doc)
    BY <1>2 DEF DocOK
  <2>3. IdleOK(doc.idle, jobs, proc)
    BY <1>2 DEF IdleOK
  <2> QED
    BY <2>1, <2>2, <2>3 DEF CInv
<1>4. ASSUME OneCancel(s)
      PROVE  KInv
  <2>1. \A c \in Clients : Cancelling(proc[c]) => s.requests[c] = "cancel"
    BY <1>1 DEF Cancelling
  <2> QED
    BY <1>2, <1>4, <2>1 DEF KInv, OneCancel
<1> QED
  BY <1>3, <1>4

LEMMA CInvCorrect ==
    ASSUME \A s \in Scenarios : NoReview(s)
    PROVE  Spec => [](Both /\ CInv)
<1>1. RecordInit => Both /\ CInv
  BY InitGood, InitSays, InitCalls DEF Both
<1>2. Both /\ CInv /\ [Next]_vars => (Both /\ CInv)'
  BY NextSays, CInvStays DEF Both, Step
<1> QED
  BY <1>1, <1>2, PTL DEF Spec

LEMMA OnceCorrect ==
    ASSUME \A s \in Scenarios : NoReview(s) \/ OneCancel(s)
    PROVE  Spec => [](Both /\ (CInv \/ KInv))
<1>1. RecordInit => Both /\ (CInv \/ KInv)
  BY InitGood, InitSays, InitCalls DEF Both
<1>2. Both /\ (CInv \/ KInv) /\ [Next]_vars => (Both /\ (CInv \/ KInv))'
  BY NextSays, CInvStays, KInvStays DEF Both, Step
<1> QED
  BY <1>1, <1>2, PTL DEF Spec

\* Without reviews, cancelled is final: no handler, worker or retry moves a cancelled
\* campaign, its findings or its audit, but for the outcomes of its jobs (the state
\* checks behind save_campaign).  With reviews CancelHoldsButForReviews is all there
\* is: _ensure_completion_report does not look at the state it replaces.
THEOREM CancelIsFinal ==
    ASSUME \A s \in Scenarios : NoReview(s)
    PROVE  Spec => CancelledIsFinal
<1>1. ASSUME Both /\ CInv, [Next]_vars
      PROVE  [ doc.state = "cancelled" =>
                 /\ doc'.state = "cancelled"
                 /\ doc'.findings = doc.findings
                 /\ \A i \in DOMAIN doc'.events \ DOMAIN doc.events :
                      doc'.events[i].type = "worker_outcome" ]_doc
  <2>1. \A c \in Clients : ~Ensure(c)
    BY <1>1 DEF CInv, Reviewing, Ensure
  <2> QED
    BY <1>1, <2>1, CancelHolds DEF vars, Stays, Added
<1> QED
  BY <1>1, CInvCorrect, PTL DEF Spec, CancelledIsFinal

\* Without reviews, no job that was not running when the campaign was cancelled is
\* ever completed: whoever claims it reads the cancel first (the checks at the head
\* of every job body of worker_service.py, and cancel_owned).
THEOREM CancelStopsWork ==
    ASSUME \A s \in Scenarios : NoReview(s)
    PROVE  Spec => []NoWorkAfterCancel
<1>1. Both /\ CInv => NoWorkAfterCancel
  BY DEF CInv, IdleOK, NoWorkAfterCancel, Completed
<1> QED
  BY <1>1, CInvCorrect, PTL

\* While nobody reviews or at most one client cancels, each request, completion,
\* arrival, result, outcome and the cancel is logged at most once, whatever was
\* retried, repeated or repaired (the event checks of main.py and worker_service.py
\* before each append), with one exception, named in the statement: the request for
\* the completion's report is repeated, but only directly behind a verdict that
\* leaves no finding open (validate_finding appends it without has_event).
THEOREM AuditIsOnce ==
    ASSUME \A s \in Scenarios : NoReview(s) \/ OneCancel(s)
    PROVE  Spec => []AuditSaysOnce
<1>1. ASSUME Both /\ (CInv \/ KInv)
      PROVE  AuditSaysOnce
  <2>1. Once(doc) /\ Repeats(doc) /\ CancelledOnce(doc)
    BY <1>1 DEF Both, AInv, EventsOK, CInv, DocOK, KInv
  <2>2. ASSUME NEW i \in DOMAIN doc.events, SaidOnce(doc.events[i]), ~WithAVerdict(i),
               NEW h \in 1..(i - 1)
        PROVE  doc.events[h] # doc.events[i]
    <3>1. CASE doc.events[i] = Requested(Completion)
      BY <2>1, <2>2, <3>1 DEF Repeats, WithAVerdict
    <3>2. CASE doc.events[i] # Requested(Completion)
      BY <2>1, <2>2, <3>2 DEF Once, CancelledOnce, Lasting
    <3> QED
      BY <3>1, <3>2
  <2> QED
    BY <2>2 DEF AuditSaysOnce
<1> QED
  BY <1>1, OnceCorrect, PTL
=============================================================================
