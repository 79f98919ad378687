------------------------- MODULE StrixTransferProofs -------------------------
(***************************************************************************)
(* Proofs about StrixTransfer, for all transfers, manifests, table sizes,  *)
(* lifetimes and numbers of restarts: a ticket makes one session while it  *)
(* is valid, transfers share no session, and a transfer that reports       *)
(* success has a session that was released with every file verified.       *)
(***************************************************************************)
EXTENDS StrixTransfer, FiniteSetTheorems, WellFoundedInduction, TLAPS

Made(s) == made[s] # NotMade
IsClosed(s) == closed[s] # NotClosed

AdmittedGood == \A m \in admitted : m.op = "prepare"

\* A transfer not yet started has no trace anywhere.
Unstarted ==
    \A t \in budget.start :
        /\ transfer[t] = Idle
        /\ \A m \in calls \union admitted : m.from # t
        /\ \A s \in Sids : Made(s) => made[s].for # t

\* While a ticket with a session made in time is valid, the journal has its row.
Journalled ==
    \A s \in Sids : Made(s) =>
        LET expiry == TicketExpiry(transfer[made[s].for].issued) IN
        /\ made[s].at <= now
        /\ (made[s].at < expiry /\ now < expiry) => journal[made[s].for] = expiry

\* A transfer works on a session made for it, and so does every call in its name.
OwnSessions ==
    /\ \A t \in Transfers : transfer[t].sid # 0 =>
         Made(transfer[t].sid) /\ made[transfer[t].sid].for = t
    /\ \A m \in calls : m.sid # 0 => m.sid = transfer[m.from].sid

\* What the runner keeps of one session.
SessionGood(x) ==
    x.live =>
        /\ x \in SessionRecord
        /\ x.identity = Identity[x.ticket]
        /\ x.plan => /\ DOMAIN x.proofs = 1..Len(Chunks[x.ticket])
                     /\ \A f \in DOMAIN x.proofs :
                          x.proofs[f].state = "verified" => Genuine(x.proofs[f].got)
        /\ ~ x.plan => x.proofs = <<>>

SessionsGood ==
    \A s \in Sids :
        /\ SessionGood(sessions[s])
        /\ sessions[s].live => /\ Made(s) /\ ~ IsClosed(s)
                               /\ made[s].for = sessions[s].ticket

\* Releases happen to made sessions, for their transfer; receipts tell the truth.
ReleasesGood ==
    /\ \A s \in Sids : IsClosed(s) => Made(s) /\ closed[s].by = made[s].for
    /\ \A r \in receipts : /\ IsClosed(r.sid)
                           /\ closed[r.sid].by = r.for
                           /\ closed[r.sid].own = r.own

\* Session s may be released as verified: its files are, or were when it was closed.
Verified(s, t) ==
    /\ sessions[s].live => AllVerified(sessions[s], t)
    /\ IsClosed(s) => closed[s].all /\ closed[s].genuine

\* What the place of a transfer says about its session.
PlaceGood(t, p) ==
    /\ p.op \in {"prepare", "preparation-status"} => p.sid = 0
    /\ p.op \in {"prepare", "preparation-status", "plan-receipt", "plan-proof"} => p.file = 0
    /\ p.op \in {"file-chunk", "chunk-proof"} =>
         p.file \in 1..Len(Chunks[t]) /\ p.offset \in 1..Chunks[t][p.file]
    /\ p.op \in Ops \ {"prepare", "preparation-status"} => p.sid \in Sids
    /\ (p.op \in {"release", "release-status"} /\ ~ p.fault) => Verified(p.sid, t)

ProgressGood == \A t \in Transfers : PlaceGood(t, transfer[t])

IInv ==
    /\ TypeOK
    /\ IsFiniteSet(receipts)
    /\ AdmittedGood
    /\ Unstarted
    /\ Journalled
    /\ OwnSessions
    /\ SessionsGood
    /\ ReleasesGood
    /\ ProgressGood
    /\ TicketUsedOnce
    /\ SuccessMeansVerified
-----------------------------------------------------------------------------
(* Facts about records and about the tables of the runner.                 *)

LEMMA Bounds ==
    /\ Sids \subseteq Nat \ {0} /\ IsFiniteSet(Sids) /\ 0 \notin Sids
    /\ TicketTTL \in Nat /\ SessionTTL \in Nat /\ AuthWindow \in Nat
    /\ MaxReceipts \in Nat \ {0}
    /\ Chunks \in [Transfers -> Seq(Nat \ {0})]
    /\ Budgets \subseteq [start : SUBSET Transfers, restarts : Nat, others : Nat]
BY RunnerAssumption, TransferAssumption DEF RunnerAssumption, TransferAssumption

\* A record of the history is not the mark for none.
LEMMA MarksDiffer ==
    /\ \A t, n : [for |-> t, at |-> n] # NotMade
    /\ \A t, o, a, g : [by |-> t, own |-> o, all |-> a, genuine |-> g] # NotClosed
    /\ \A x \in SessionRecord : x # NoSession /\ x.live
    /\ ~ NoSession.live
<1>1. ASSUME NEW t, NEW n PROVE [for |-> t, at |-> n] # NotMade
  <2>1. "at" \in DOMAIN [for |-> t, at |-> n] /\ "at" \notin DOMAIN NotMade
    BY DEF NotMade
  <2> QED BY <2>1
<1>2. ASSUME NEW t, NEW o, NEW a, NEW g
      PROVE  [by |-> t, own |-> o, all |-> a, genuine |-> g] # NotClosed
  <2>1. /\ "own" \in DOMAIN [by |-> t, own |-> o, all |-> a, genuine |-> g]
        /\ "own" \notin DOMAIN NotClosed
    BY DEF NotClosed
  <2> QED BY <2>1
<1>3. ~ NoSession.live
  BY DEF NoSession
<1>4. \A x \in SessionRecord : x.live
  BY DEF SessionRecord
<1> QED BY <1>1, <1>2, <1>3, <1>4, Zenon

\* An entry of the pruned table is the entry or none.
LEMMA LiveSession ==
    ASSUME TypeOK, NEW s \in Sids
    PROVE  /\ LiveSessions[s] = sessions[s] \/ LiveSessions[s] = NoSession
           /\ LiveSessions[s].live => LiveSessions[s] = sessions[s] /\ sessions[s].live
           /\ sessions[s].live => sessions[s] \in SessionRecord
           /\ ~ sessions[s].live => sessions[s] = NoSession
           /\ LiveSessions \in [Sids -> SessionRecord \union {NoSession}]
<1>1. sessions \in [Sids -> SessionRecord \union {NoSession}]
  BY DEF TypeOK
<1>2. LiveSessions[s] = sessions[s] \/ LiveSessions[s] = NoSession
  BY DEF LiveSessions
<1>3. LiveSessions \in [Sids -> SessionRecord \union {NoSession}]
  BY <1>1 DEF LiveSessions
<1>4. ~ NoSession.live /\ \A x \in SessionRecord : x.live
  BY MarksDiffer
<1> QED BY <1>1, <1>2, <1>3, <1>4

LEMMA FindsMeans ==
    ASSUME TypeOK, NEW m, Finds(m)
    PROVE  /\ m.sid \in Sids /\ m.sid # 0
           /\ sessions[m.sid].live /\ sessions[m.sid] \in SessionRecord
           /\ LiveSessions[m.sid] = sessions[m.sid]
BY LiveSession, Bounds DEF Finds

\* All files verified: every proof of the plan is.
LEMMA AllVerifiedMeans ==
    ASSUME NEW x, x.live, SessionGood(x), AllVerified(x, x.ticket), x.ticket \in Transfers
    PROVE  /\ x.plan
           /\ \A f \in DOMAIN x.proofs : /\ x.proofs[f].state = "verified"
                                        /\ Genuine(x.proofs[f].got)
<1> DEFINE n == Len(Chunks[x.ticket])
           V == {f \in DOMAIN x.proofs : x.proofs[f].state = "verified"}
<1>1. n \in Nat
  BY Bounds
<1>2. x.plan /\ DOMAIN x.proofs = 1..n /\ Cardinality(V) = n
  BY DEF SessionGood, AllVerified, VerifiedFiles
<1>3. IsFiniteSet(1..n) /\ Cardinality(1..n) = n
  <2> HIDE DEF n
  <2>1. IsFiniteSet(1..n) /\ Cardinality(1..n) = IF 1 <= n THEN n - 1 + 1 ELSE 0
    BY <1>1, FS_Interval, 1 \in Int, n \in Int
  <2> QED BY <1>1, <2>1
<1>4. V = 1..n
  <2> HIDE DEF n
  <2>1. V \in SUBSET (1..n)
    BY <1>2
  <2> HIDE DEF V
  <2> QED BY <1>2, <1>3, <2>1, FS_Subset
<1> QED
  <2>1. x.plan /\ \A f \in DOMAIN x.proofs : x.proofs[f].state = "verified"
    <3> HIDE DEF n
    <3> QED BY <1>2, <1>4
  <2> QED BY <2>1 DEF SessionGood

-----------------------------------------------------------------------------
(* The steps of the runner, as seen from one session.                      *)

Kept(s) ==
    /\ sessions'[s] = sessions[s] \/ sessions'[s] = NoSession
    /\ closed'[s] = closed[s]
    /\ made'[s] = made[s]

Continues(s, plan, proofs) ==
    LET x == sessions[s] IN
    /\ x.live
    /\ sessions'[s] = [live |-> TRUE, ticket |-> x.ticket, identity |-> x.identity,
                       expires |-> x.expires, plan |-> plan, proofs |-> proofs]
    /\ closed'[s] = closed[s]
    /\ made'[s] = made[s]

Planned(s) ==
    /\ ~ sessions[s].plan
    /\ Continues(s, TRUE, VerifiedPlan(sessions[s].ticket))

Chunked(s) ==
    /\ sessions[s].plan
    /\ \E f \in DOMAIN sessions[s].proofs, q \in Proof :
         /\ sessions[s].proofs[f].state = "open"
         /\ q.state = "verified" => Genuine(q.got)
         /\ Continues(s, TRUE, [sessions[s].proofs EXCEPT ![f] = q])

Closes(s) ==
    LET x == sessions[s] IN
    /\ x.live
    /\ sessions'[s] = NoSession
    /\ made'[s] = made[s]
    /\ \E own \in BOOLEAN :
         closed'[s] = [by |-> x.ticket, own |-> own, all |-> AllVerified(x, x.ticket),
                       genuine |-> \A f \in DOMAIN x.proofs : Genuine(x.proofs[f].got)]

Opens(s) ==
    /\ ~ Made(s)
    /\ closed'[s] = closed[s]
    /\ \E t \in Transfers :
         /\ sessions'[s] = Session(t, s)
         /\ made'[s] = [for |-> t, at |-> now]

RunnerMoves ==
    /\ sessions' = [s \in Sids |-> sessions'[s]]
    /\ closed' = [s \in Sids |-> closed'[s]]
    /\ made' = [s \in Sids |-> made'[s]]
    /\ \A s \in Sids : Kept(s) \/ Planned(s) \/ Chunked(s) \/ Closes(s) \/ Opens(s)

LEMMA PruneMoves == ASSUME TypeOK, Prune, UNCHANGED <<made, closed>> PROVE RunnerMoves
<1>1. sessions' = [s \in Sids |-> sessions'[s]]
  BY DEF Prune, LiveSessions
<1>2. ASSUME NEW s \in Sids PROVE Kept(s)
  BY LiveSession DEF Prune, Kept
<1> QED BY <1>1, <1>2 DEF RunnerMoves, TypeOK

LEMMA RestartMoves == ASSUME TypeOK, Restart PROVE RunnerMoves
<1>1. sessions' = [s \in Sids |-> sessions'[s]]
  BY DEF Restart
<1>2. ASSUME NEW s \in Sids PROVE Kept(s)
  BY DEF Restart, Kept
<1>3. made' = made /\ closed' = closed
  BY DEF Restart
<1> QED BY <1>1, <1>2, <1>3 DEF RunnerMoves, TypeOK

LEMMA StillMoves == ASSUME TypeOK, UNCHANGED <<sessions, made, closed>> PROVE RunnerMoves
BY DEF RunnerMoves, TypeOK, Kept

LEMMA PrepareMoves ==
    ASSUME TypeOK, NEW m \in calls, NEW s \in Sids, NEW issued, PrepareSession(m, s, issued)
    PROVE  RunnerMoves
<1>1. m.from \in Transfers
  BY DEF TypeOK, CallRecord
<1>2. CASE ~ Prepares(m.from)
  <2>1. sessions' = LiveSessions /\ made' = made /\ closed' = closed
    BY <1>2 DEF PrepareSession
  <2>2. ASSUME NEW r \in Sids PROVE Kept(r)
    BY <2>1, LiveSession DEF Kept
  <2>3. LiveSessions = [r \in Sids |-> LiveSessions[r]]
    BY DEF LiveSessions
  <2> QED BY <2>1, <2>2, <2>3 DEF RunnerMoves, TypeOK
<1>3. CASE Prepares(m.from)
  <2>1. /\ made[s] = NotMade
        /\ sessions' = [LiveSessions EXCEPT ![s] = Session(m.from, s)]
        /\ made' = [made EXCEPT ![s] = [for |-> m.from, at |-> now]]
        /\ closed' = closed
    BY <1>3 DEF PrepareSession
  <2>2. Opens(s)
    BY <1>1, <2>1 DEF Opens, Made, TypeOK, LiveSessions
  <2>3. ASSUME NEW r \in Sids, r # s PROVE Kept(r)
    BY <2>1, <2>3, LiveSession DEF Kept, TypeOK
  <2>4. /\ sessions' = [r \in Sids |-> sessions'[r]]
        /\ made' = [r \in Sids |-> made'[r]]
        /\ closed' = [r \in Sids |-> closed'[r]]
    BY <2>1 DEF LiveSessions, TypeOK
  <2> QED BY <2>2, <2>3, <2>4 DEF RunnerMoves
<1> QED BY <1>2, <1>3

\* The session a call works on was made for the transfer the call names.
LEMMA CallOwns ==
    ASSUME TypeOK, OwnSessions, SessionsGood, NEW m \in calls, Finds(m)
    PROVE  m.from \in Transfers /\ sessions[m.sid].ticket = m.from
<1>1. m.sid \in Sids /\ m.sid # 0 /\ sessions[m.sid].live
  BY FindsMeans
<1>2. made[m.sid].for = sessions[m.sid].ticket
  BY <1>1 DEF SessionsGood
<1>3. m.from \in Transfers
  BY DEF TypeOK, CallRecord
<1> QED BY <1>1, <1>2, <1>3 DEF OwnSessions

LEMMA PlanMoves ==
    ASSUME TypeOK, OwnSessions, SessionsGood, NEW m \in calls, ReceivePlan(m)
    PROVE  RunnerMoves /\ (PlanAccepted(m) => Planned(m.sid))
<1>1. made' = made /\ closed' = closed
  BY DEF ReceivePlan
<1>2. CASE ~ PlanAccepted(m)
  BY <1>1, <1>2, PruneMoves DEF ReceivePlan
<1>3. CASE PlanAccepted(m)
  <2>1. Finds(m) /\ ~ LiveSessions[m.sid].plan
    BY <1>3 DEF PlanAccepted
  <2>2. /\ m.sid \in Sids /\ sessions[m.sid].live /\ sessions[m.sid] \in SessionRecord
        /\ LiveSessions[m.sid] = sessions[m.sid]
    BY <2>1, FindsMeans
  <2>3. sessions[m.sid].ticket = m.from
    BY <2>1, CallOwns
  <2>4. sessions' = [LiveSessions EXCEPT ![m.sid].plan = TRUE,
                                         ![m.sid].proofs = VerifiedPlan(m.from)]
    BY <1>3 DEF ReceivePlan
  <2> DEFINE x == sessions[m.sid]
  <2>5. LiveSessions \in [Sids -> SessionRecord \union {NoSession}]
    BY <2>2, LiveSession
  <2>6. sessions'[m.sid] = [live |-> TRUE, ticket |-> x.ticket, identity |-> x.identity,
                            expires |-> x.expires, plan |-> TRUE,
                            proofs |-> VerifiedPlan(m.from)]
    BY <2>2, <2>4, <2>5 DEF SessionRecord
  <2>7. Planned(m.sid)
    BY <1>1, <2>1, <2>2, <2>3, <2>6 DEF Planned, Continues
  <2>8. ASSUME NEW r \in Sids, r # m.sid PROVE Kept(r)
    BY <1>1, <2>4, <2>5, <2>8, LiveSession DEF Kept
  <2>9. sessions' = [r \in Sids |-> sessions'[r]]
    BY <2>4, <2>5
  <2> QED BY <1>1, <2>7, <2>8, <2>9 DEF RunnerMoves, TypeOK
<1> QED BY <1>2, <1>3

LEMMA ChunkMoves ==
    ASSUME TypeOK, OwnSessions, SessionsGood, NEW m \in calls, ReceiveFileChunk(m)
    PROVE  RunnerMoves
<1>1. made' = made /\ closed' = closed
  BY DEF ReceiveFileChunk
<1>2. CASE ~ ChunkTaken(m)
  BY <1>1, <1>2, PruneMoves DEF ReceiveFileChunk
<1>3. CASE ChunkTaken(m)
  <2>1. Finds(m)
    BY <1>3 DEF ChunkTaken
  <2>2. /\ m.sid \in Sids /\ sessions[m.sid].live /\ sessions[m.sid] \in SessionRecord
        /\ LiveSessions[m.sid] = sessions[m.sid]
    BY <2>1, FindsMeans
  <2> DEFINE x == sessions[m.sid]
             f == m.file
             q == AfterChunk(x.proofs[f], m)
  <2>3. x.plan /\ f \in DOMAIN x.proofs /\ x.proofs[f].state = "open"
    BY <1>3, <2>2 DEF ChunkTaken
  <2>4. q \in Proof /\ (q.state = "verified" => Genuine(q.got))
    <3>1. x.proofs[f].got \in Seq(BOOLEAN)
      <4>1. x.proofs \in Seq(Proof)
        BY <2>2 DEF SessionRecord
      <4>2. x.proofs[f] \in Proof
        BY <2>3, <4>1
      <4> QED BY <4>2 DEF Proof
    <3>2. m.own \in BOOLEAN
      BY DEF TypeOK, CallRecord
    <3>3. Append(x.proofs[f].got, m.own) \in Seq(BOOLEAN)
      BY <3>1, <3>2
    <3> DEFINE got == Append(x.proofs[f].got, m.own)
               state == IF m.offset < Chunks[m.from][m.file] THEN "open"
                        ELSE IF Genuine(got) THEN "verified" ELSE "failed"
    <3>4. q = [got |-> got, state |-> state]
      BY DEF AfterChunk
    <3>5. state \in {"open", "verified", "failed"} /\ (state = "verified" => Genuine(got))
      OBVIOUS
    <3> HIDE DEF state, got, q
    <3>6. q \in Proof /\ q.got = got /\ q.state = state
      BY <3>3, <3>4, <3>5 DEF Proof, got
    <3> QED BY <3>5, <3>6
  <2>5. sessions' = [LiveSessions EXCEPT ![m.sid].proofs[m.file] = q]
    BY <1>3, <2>2 DEF ReceiveFileChunk
  <2> HIDE DEF q
  <2>6. LiveSessions \in [Sids -> SessionRecord \union {NoSession}]
    BY <2>2, LiveSession
  <2>7. sessions'[m.sid] = [live |-> TRUE, ticket |-> x.ticket, identity |-> x.identity,
                            expires |-> x.expires, plan |-> TRUE,
                            proofs |-> [x.proofs EXCEPT ![f] = q]]
    BY <2>2, <2>3, <2>5, <2>6 DEF SessionRecord
  <2>8. Chunked(m.sid)
    BY <1>1, <2>2, <2>3, <2>4, <2>7 DEF Chunked, Continues
  <2>9. ASSUME NEW r \in Sids, r # m.sid PROVE Kept(r)
    BY <1>1, <2>5, <2>6, <2>9, LiveSession DEF Kept
  <2>10. sessions' = [r \in Sids |-> sessions'[r]]
    BY <2>5, <2>6
  <2> QED BY <1>1, <2>8, <2>9, <2>10 DEF RunnerMoves, TypeOK
<1> QED BY <1>2, <1>3

LEMMA ReleaseMoves ==
    ASSUME TypeOK, OwnSessions, SessionsGood, NEW m \in calls, ReleaseSession(m)
    PROVE  RunnerMoves /\ (Finds(m) => Closes(m.sid) /\ closed'[m.sid].own = m.own)
<1>1. made' = made
  BY DEF ReleaseSession
<1>2. CASE ~ Finds(m)
  BY <1>1, <1>2, PruneMoves DEF ReleaseSession
<1>3. CASE Finds(m)
  <2>2. /\ m.sid \in Sids /\ sessions[m.sid].live
        /\ LiveSessions[m.sid] = sessions[m.sid]
    BY <1>3, FindsMeans
  <2>3. sessions[m.sid].ticket = m.from /\ m.own \in BOOLEAN
    BY <1>3, CallOwns DEF TypeOK, CallRecord
  <2> DEFINE x == sessions[m.sid]
             c == [by |-> m.from, own |-> m.own, all |-> AllVerified(x, m.from),
                   genuine |-> \A f \in DOMAIN x.proofs : Genuine(x.proofs[f].got)]
  <2>4. /\ sessions' = [LiveSessions EXCEPT ![m.sid] = NoSession]
        /\ closed' = [closed EXCEPT ![m.sid] = c]
    BY <1>3, <2>2 DEF ReleaseSession
  <2>5. LiveSessions \in [Sids -> SessionRecord \union {NoSession}]
    BY <2>2, LiveSession
  <2>6. closed'[m.sid] = c
    <3> HIDE DEF c
    <3> QED BY <2>2, <2>4 DEF TypeOK
  <2>7. Closes(m.sid)
    BY <1>1, <2>2, <2>3, <2>4, <2>5, <2>6 DEF Closes
  <2>a. closed'[m.sid].own = m.own
    BY <2>6
  <2> HIDE DEF c
  <2>8. ASSUME NEW r \in Sids, r # m.sid PROVE Kept(r)
    BY <1>1, <2>4, <2>5, <2>8, LiveSession DEF Kept, TypeOK
  <2>9. sessions' = [r \in Sids |-> sessions'[r]] /\ closed' = [r \in Sids |-> closed'[r]]
    BY <2>4, <2>5 DEF TypeOK
  <2> QED BY <1>1, <2>7, <2>a, <2>8, <2>9 DEF RunnerMoves, TypeOK
<1> QED BY <1>2, <1>3

-----------------------------------------------------------------------------
(* What the moves of the runner preserve.                                  *)

\* Each kind of move gives a table entry of its type.
LEMMA MovesTypes ==
    ASSUME TypeOK, SessionsGood, RunnerMoves
    PROVE  /\ sessions' \in [Sids -> SessionRecord \union {NoSession}]
           /\ made' \in [Sids -> [for : Transfers, at : Nat] \union {NotMade}]
           /\ closed' \in [Sids -> [by : Transfers, own : BOOLEAN, all : BOOLEAN,
                                    genuine : BOOLEAN] \union {NotClosed}]
<1> DEFINE C == [by : Transfers, own : BOOLEAN, all : BOOLEAN, genuine : BOOLEAN]
<1>1. ASSUME NEW s \in Sids
      PROVE  /\ sessions'[s] \in SessionRecord \union {NoSession}
             /\ made'[s] \in [for : Transfers, at : Nat] \union {NotMade}
             /\ closed'[s] \in C \union {NotClosed}
  <2>0. /\ sessions[s] \in SessionRecord \union {NoSession}
        /\ made[s] \in [for : Transfers, at : Nat] \union {NotMade}
        /\ closed[s] \in C \union {NotClosed}
    BY DEF TypeOK
  <2>1. CASE Kept(s)
    BY <2>0, <2>1 DEF Kept
  <2>2. ASSUME NEW plan \in BOOLEAN, NEW proofs \in Seq(Proof), Continues(s, plan, proofs)
        PROVE  sessions'[s] \in SessionRecord
    <3>1. sessions[s] \in SessionRecord
      BY <2>2, LiveSession DEF Continues
    <3> DEFINE I == {Identity[t] : t \in Transfers}
               P == Seq(Proof)
    <3>0. SessionRecord = [live : {TRUE}, ticket : Transfers, identity : I, expires : Nat,
                           plan : BOOLEAN, proofs : P]
      BY DEF SessionRecord
    <3>a. proofs \in P
      OBVIOUS
    <3> HIDE DEF I, P
    <3>2. /\ sessions[s].ticket \in Transfers /\ sessions[s].expires \in Nat
          /\ sessions[s].identity \in I
      BY <3>0, <3>1
    <3>3. sessions'[s] = [live |-> TRUE, ticket |-> sessions[s].ticket,
                          identity |-> sessions[s].identity,
                          expires |-> sessions[s].expires, plan |-> plan, proofs |-> proofs]
      BY <2>2 DEF Continues
    <3> QED BY <3>0, <3>a, <3>2, <3>3
  <2>3. CASE Planned(s)
    <3>1. sessions[s].ticket \in Transfers
      BY <2>3, LiveSession DEF Planned, Continues, SessionRecord
    <3>2. EmptyProof \in Proof
      BY DEF EmptyProof, Proof
    <3>3. Len(Chunks[sessions[s].ticket]) \in Nat
      BY <3>1, Bounds
    <3>4. VerifiedPlan(sessions[s].ticket) \in Seq(Proof)
      <4> DEFINE n == Len(Chunks[sessions[s].ticket])
      <4>1. VerifiedPlan(sessions[s].ticket) \in [1..n -> Proof]
        BY <3>2 DEF VerifiedPlan
      <4> HIDE DEF n
      <4>2. n \in Nat /\ VerifiedPlan(sessions[s].ticket) \in [1..n -> Proof]
        BY <3>3, <4>1 DEF n
      <4> QED BY <4>2
    <3> QED BY <2>0, <2>2, <2>3, <3>4 DEF Planned, Continues
  <2>4. CASE Chunked(s)
    <3>1. PICK f \in DOMAIN sessions[s].proofs, q \in Proof :
             Continues(s, TRUE, [sessions[s].proofs EXCEPT ![f] = q])
      BY <2>4 DEF Chunked
    <3>2. sessions[s].proofs \in Seq(Proof)
      BY <3>1, LiveSession DEF Continues, SessionRecord
    <3>3. [sessions[s].proofs EXCEPT ![f] = q] \in Seq(Proof)
      BY <3>2
    <3> QED BY <2>0, <2>2, <3>1, <3>3 DEF Continues
  <2>5. CASE Closes(s)
    <3> DEFINE x == sessions[s]
               all == AllVerified(x, x.ticket)
               genuine == \A f \in DOMAIN x.proofs : Genuine(x.proofs[f].got)
    <3>1. PICK own \in BOOLEAN :
             closed'[s] = [by |-> x.ticket, own |-> own, all |-> all, genuine |-> genuine]
      BY <2>5 DEF Closes
    <3>2. x.ticket \in Transfers
      BY <2>5, LiveSession DEF Closes, SessionRecord
    <3>3. all \in BOOLEAN /\ genuine \in BOOLEAN
      <4>1. x.plan \in BOOLEAN
        BY <2>5, LiveSession DEF Closes, SessionRecord
      <4> QED BY <4>1 DEF AllVerified
    <3>4. closed'[s] \in C
      <4> HIDE DEF all, genuine
      <4> QED BY <3>1, <3>2, <3>3
    <3> QED BY <2>0, <2>5, <3>4 DEF Closes
  <2>6. CASE Opens(s)
    <3>1. PICK t \in Transfers : /\ sessions'[s] = Session(t, s)
                                 /\ made'[s] = [for |-> t, at |-> now]
      BY <2>6 DEF Opens
    <3>2. now \in Nat /\ now + SessionTTL \in Nat
      BY Bounds DEF TypeOK
    <3>3. Session(t, s) \in SessionRecord
      BY <3>2 DEF Session, SessionRecord
    <3> QED BY <2>0, <2>6, <3>1, <3>2, <3>3 DEF Opens
  <2> QED BY <2>1, <2>3, <2>4, <2>5, <2>6 DEF RunnerMoves
<1> QED BY <1>1 DEF RunnerMoves

LEMMA MovesSessions ==
    ASSUME TypeOK, SessionsGood, ReleasesGood, RunnerMoves
    PROVE  SessionsGood'
<1>1. SUFFICES ASSUME NEW s \in Sids
               PROVE  /\ SessionGood(sessions'[s])
                      /\ sessions'[s].live => /\ made'[s] # NotMade
                                              /\ closed'[s] = NotClosed
                                              /\ made'[s].for = sessions'[s].ticket
  BY DEF SessionsGood, SessionGood, Made, IsClosed
<1> DEFINE x == sessions[s]
<1>0. x.live => /\ SessionGood(x) /\ x \in SessionRecord /\ Made(s) /\ ~ IsClosed(s)
                /\ made[s].for = x.ticket
  BY LiveSession DEF SessionsGood
<1>a. sessions'[s] \in SessionRecord \union {NoSession}
  BY MovesTypes
<1>2. CASE Kept(s)
  <2>1. ~ NoSession.live
    BY MarksDiffer
  <2> QED BY <1>0, <1>2, <2>1 DEF Kept, SessionsGood, SessionGood, Made, IsClosed
<1>3. CASE Planned(s)
  <2> DEFINE y == sessions'[s]
  <2>1. /\ y.live /\ y.ticket = x.ticket /\ y.identity = x.identity /\ y.plan
        /\ y.proofs = VerifiedPlan(x.ticket)
        /\ x.live /\ closed'[s] = closed[s] /\ made'[s] = made[s]
    BY <1>3 DEF Planned, Continues
  <2>2. \A f \in DOMAIN y.proofs : y.proofs[f].state # "verified"
    BY <2>1 DEF VerifiedPlan, EmptyProof
  <2>3. DOMAIN y.proofs = 1..Len(Chunks[y.ticket])
    BY <2>1 DEF VerifiedPlan
  <2> HIDE DEF y
  <2>4. y \in SessionRecord
    BY <1>a, <2>1, MarksDiffer DEF y
  <2>5. SessionGood(y)
    BY <1>0, <2>1, <2>2, <2>3, <2>4 DEF SessionGood
  <2> QED BY <1>0, <2>1, <2>5 DEF Made, IsClosed, y
<1>4. CASE Chunked(s)
  <2>1. PICK f \in DOMAIN x.proofs, q \in Proof :
           /\ q.state = "verified" => Genuine(q.got)
           /\ Continues(s, TRUE, [x.proofs EXCEPT ![f] = q])
    BY <1>4 DEF Chunked
  <2> DEFINE y == sessions'[s]
  <2>2. /\ y.live /\ y.ticket = x.ticket /\ y.identity = x.identity /\ y.plan
        /\ y.proofs = [x.proofs EXCEPT ![f] = q]
        /\ x.live /\ x.plan /\ closed'[s] = closed[s] /\ made'[s] = made[s]
    BY <1>4, <2>1 DEF Chunked, Continues
  <2> HIDE DEF y
  <2>3. y \in SessionRecord
    BY <1>a, <2>2, MarksDiffer DEF y
  <2>4. /\ DOMAIN x.proofs = 1..Len(Chunks[x.ticket])
        /\ \A g \in DOMAIN x.proofs : x.proofs[g].state = "verified" => Genuine(x.proofs[g].got)
    BY <1>0, <2>2 DEF SessionGood
  <2>5. /\ DOMAIN y.proofs = 1..Len(Chunks[y.ticket])
        /\ \A g \in DOMAIN y.proofs : y.proofs[g].state = "verified" => Genuine(y.proofs[g].got)
    BY <2>1, <2>2, <2>4
  <2>6. SessionGood(y)
    BY <1>0, <2>2, <2>3, <2>5 DEF SessionGood
  <2> QED BY <1>0, <2>2, <2>6 DEF Made, IsClosed, y
<1>5. CASE Closes(s)
  BY <1>5, MarksDiffer DEF Closes, SessionGood
<1>6. CASE Opens(s)
  <2>1. PICK t \in Transfers : /\ sessions'[s] = Session(t, s)
                               /\ made'[s] = [for |-> t, at |-> now]
    BY <1>6 DEF Opens
  <2>2. closed'[s] = NotClosed
    BY <1>6 DEF Opens, ReleasesGood, IsClosed, Made
  <2> DEFINE y == sessions'[s]
  <2>3. /\ y.live /\ y.ticket = t /\ y.identity = Identity[t] /\ ~ y.plan /\ y.proofs = <<>>
    BY <2>1 DEF Session
  <2> HIDE DEF y
  <2>4. y \in SessionRecord
    BY <1>a, <2>3, MarksDiffer DEF y
  <2>5. SessionGood(y)
    BY <2>3, <2>4 DEF SessionGood
  <2> QED BY <2>1, <2>2, <2>3, <2>5, MarksDiffer DEF y
<1> QED BY <1>2, <1>3, <1>4, <1>5, <1>6 DEF RunnerMoves

\* A session that may be released as verified stays so.
LEMMA MovesVerified ==
    ASSUME TypeOK, SessionsGood, RunnerMoves, NEW s \in Sids, NEW t \in Transfers,
           Made(s), made[s].for = t, Verified(s, t)
    PROVE  Verified(s, t)' /\ made'[s] = made[s]
<1> DEFINE x == sessions[s]
<1>1. x.live => /\ SessionGood(x) /\ x.ticket = t /\ ~ IsClosed(s) /\ AllVerified(x, t)
  BY DEF SessionsGood, Verified
<1>2. x.live => /\ x.plan
                /\ \A f \in DOMAIN x.proofs : /\ x.proofs[f].state = "verified"
                                             /\ Genuine(x.proofs[f].got)
  BY <1>1, AllVerifiedMeans
<1>3. CASE Kept(s)
  BY <1>3, MarksDiffer DEF Kept, Verified, AllVerified, VerifiedFiles, IsClosed
<1>4. ~ Planned(s)
  BY <1>2 DEF Planned, Continues
<1>5. ~ Chunked(s)
  BY <1>2 DEF Chunked, Continues
<1>6. CASE Closes(s)
  <2>1. PICK own \in BOOLEAN :
           closed'[s] = [by |-> x.ticket, own |-> own, all |-> AllVerified(x, x.ticket),
                         genuine |-> \A f \in DOMAIN x.proofs : Genuine(x.proofs[f].got)]
    BY <1>6 DEF Closes
  <2>2. closed'[s].all = AllVerified(x, x.ticket)
    BY <2>1
  <2>3. closed'[s].genuine = \A f \in DOMAIN x.proofs : Genuine(x.proofs[f].got)
    BY <2>1
  <2>4. closed'[s].all /\ closed'[s].genuine
    BY <1>1, <1>2, <1>6, <2>2, <2>3 DEF Closes
  <2>5. sessions'[s] = NoSession /\ made'[s] = made[s]
    BY <1>6 DEF Closes
  <2> QED BY <2>4, <2>5, MarksDiffer DEF Verified
<1>7. ~ Opens(s)
  BY DEF Opens
<1> QED BY <1>3, <1>4, <1>5, <1>6, <1>7 DEF RunnerMoves

\* Sessions are released once, for the transfer they were made for.
LEMMA MovesClosed ==
    ASSUME TypeOK, SessionsGood, ReleasesGood, RunnerMoves, NEW s \in Sids
    PROVE  /\ (IsClosed(s) => Made(s) /\ closed[s].by = made[s].for)'
           /\ IsClosed(s) => closed'[s] = closed[s]
           /\ Made(s) => made'[s] = made[s]
           /\ closed'[s] # closed[s] => Closes(s)
<1>1. CASE Closes(s)
  <2>1. sessions[s].live /\ Made(s) /\ made[s].for = sessions[s].ticket /\ ~ IsClosed(s)
    BY <1>1 DEF Closes, SessionsGood
  <2>2. closed'[s].by = sessions[s].ticket /\ made'[s] = made[s]
    BY <1>1 DEF Closes
  <2> QED BY <1>1, <2>1, <2>2 DEF Made, IsClosed
<1>2. CASE ~ Closes(s)
  <2>1. closed'[s] = closed[s] /\ (made'[s] = made[s] \/ ~ Made(s))
    BY <1>2 DEF RunnerMoves, Kept, Planned, Chunked, Continues, Opens
  <2>2. IsClosed(s) => Made(s) /\ closed[s].by = made[s].for
    BY DEF ReleasesGood
  <2> QED BY <1>2, <2>1, <2>2 DEF Made, IsClosed
<1> QED BY <1>1, <1>2

-----------------------------------------------------------------------------
(* The other tables of the runner.                                         *)

ReceiptRecord == [sid : Sids, for : Transfers, own : BOOLEAN, expires : Nat, turn : Nat]

\* Every receipt is an old one or tells of a release that has just been noted.
TablesMove ==
    /\ tickets' \in [Transfers -> Nat]
    /\ IsFiniteSet(receipts') /\ Cardinality(receipts') <= MaxReceipts
    /\ \A r \in receipts' :
         r \in receipts \/ /\ r \in ReceiptRecord
                           /\ closed'[r.sid] # NotClosed
                           /\ closed'[r.sid].by = r.for
                           /\ closed'[r.sid].own = r.own
    /\ admitted' \subseteq admitted \union {m \in calls : m.op = "prepare"}

\* A set of numbers has a least one, so the oldest receipt is there.
LEMMA OldestIsThere ==
    ASSUME NEW rs, rs # {}, \A r \in rs : r.turn \in Nat
    PROVE  Oldest(rs) \in rs
<1> DEFINE T == {r.turn : r \in rs}
           R == {ss \in Nat \X Nat : ss[1] < ss[2]}
<1>1. IsWellFoundedOn(R, Nat)
  BY NatLessThanWellFounded DEF OpToRel
<1>2. T \subseteq Nat /\ T # {}
  OBVIOUS
<1> HIDE DEF T
<1>3. PICK n \in T : \A k \in T : ~ (<<k, n>> \in R)
  <2> HIDE DEF R
  <2> QED BY <1>1, <1>2, WFMin
<1>4. \A k \in T : n <= k
  <2>1. ASSUME NEW k \in T PROVE ~ (k < n)
    <3>1. <<k, n>> \notin R
      BY <1>3
    <3>2. k \in Nat /\ n \in Nat
      BY <1>2
    <3> QED BY <3>1, <3>2
  <2>2. T \subseteq Nat /\ n \in Nat
    BY <1>2
  <2> HIDE DEF R
  <2> QED BY <2>1, <2>2
<1>5. \E r \in rs : \A q \in rs : r.turn <= q.turn
  BY <1>4 DEF T
<1> QED BY <1>5 DEF Oldest

\* Making room keeps the table of receipts within its size.
LEMMA KeepReceiptFits ==
    ASSUME TypeOK, IsFiniteSet(receipts), NEW r
    PROVE  /\ IsFiniteSet(KeepReceipt(r))
           /\ Cardinality(KeepReceipt(r)) <= MaxReceipts
           /\ KeepReceipt(r) \subseteq receipts \union {r}
<1>1. LiveReceipts \in SUBSET receipts
  BY DEF LiveReceipts
<1>2. /\ IsFiniteSet(LiveReceipts) /\ Cardinality(LiveReceipts) \in Nat
      /\ Cardinality(LiveReceipts) <= MaxReceipts /\ MaxReceipts \in Nat \ {0}
  <2>1. IsFiniteSet(LiveReceipts) /\ Cardinality(LiveReceipts) <= Cardinality(receipts)
    BY <1>1, FS_Subset
  <2>2. Cardinality(receipts) \in Nat /\ Cardinality(LiveReceipts) \in Nat
    BY <2>1, FS_CardinalityType
  <2>3. Cardinality(receipts) <= MaxReceipts
    BY DEF TypeOK
  <2> QED BY <2>1, <2>2, <2>3, Bounds
<1> DEFINE full == Cardinality(LiveReceipts) >= MaxReceipts
           kept == IF full THEN LiveReceipts \ {Oldest(LiveReceipts)} ELSE LiveReceipts
<1>3. IsFiniteSet(kept) /\ Cardinality(kept) \in Nat /\ Cardinality(kept) <= MaxReceipts - 1
  <2>1. CASE ~ full
    BY <1>2, <2>1
  <2>2. CASE full
    <3>1. LiveReceipts # {}
      BY <1>2, <2>2, FS_EmptySet
    <3>2. \A q \in LiveReceipts : q.turn \in Nat
      BY <1>1 DEF TypeOK
    <3>3. Oldest(LiveReceipts) \in LiveReceipts
      BY <3>1, <3>2, OldestIsThere
    <3>4. /\ IsFiniteSet(LiveReceipts \ {Oldest(LiveReceipts)})
          /\ Cardinality(LiveReceipts \ {Oldest(LiveReceipts)}) = Cardinality(LiveReceipts) - 1
      BY <1>2, <3>3, FS_RemoveElement
    <3>5. Cardinality(LiveReceipts \ {Oldest(LiveReceipts)}) \in Nat
      BY <3>4, FS_CardinalityType
    <3> QED BY <1>2, <2>2, <3>4, <3>5
  <2> QED BY <2>1, <2>2
<1>4. KeepReceipt(r) = kept \union {r} /\ kept \subseteq receipts
  BY <1>1 DEF KeepReceipt
<1> HIDE DEF kept, full
<1>5. IsFiniteSet(kept \union {r}) /\ Cardinality(kept \union {r}) <= Cardinality(kept) + 1
  BY <1>3, FS_AddElement
<1>6. Cardinality(kept \union {r}) \in Nat
  BY <1>5, FS_CardinalityType
<1> QED BY <1>2, <1>3, <1>4, <1>5, <1>6

\* Pruning only drops.
LEMMA PrunedTables ==
    ASSUME TypeOK, IsFiniteSet(receipts)
    PROVE  /\ LiveTickets \in [Transfers -> Nat]
           /\ LiveReceipts \subseteq receipts /\ IsFiniteSet(LiveReceipts)
           /\ Cardinality(LiveReceipts) <= MaxReceipts
<1>1. LiveReceipts \in SUBSET receipts
  BY DEF LiveReceipts
<1>2. IsFiniteSet(LiveReceipts) /\ Cardinality(LiveReceipts) <= Cardinality(receipts)
  BY <1>1, FS_Subset
<1>3. Cardinality(receipts) \in Nat /\ Cardinality(LiveReceipts) \in Nat
  BY <1>2, FS_CardinalityType
<1>4. Cardinality(LiveReceipts) <= MaxReceipts
  BY <1>2, <1>3, Bounds DEF TypeOK
<1>5. LiveTickets \in [Transfers -> Nat]
  BY DEF LiveTickets, TypeOK
<1> QED BY <1>1, <1>2, <1>4, <1>5

LEMMA PruneTables ==
    ASSUME TypeOK, IsFiniteSet(receipts), Prune, admitted' \subseteq admitted
    PROVE  TablesMove
BY PrunedTables DEF Prune, TablesMove

LEMMA StillTables ==
    ASSUME TypeOK, IsFiniteSet(receipts), UNCHANGED <<tickets, receipts>>,
           admitted' \subseteq admitted \union {m \in calls : m.op = "prepare"}
    PROVE  TablesMove
BY DEF TypeOK, TablesMove

LEMMA ReleaseTables ==
    ASSUME TypeOK, IsFiniteSet(receipts), NEW m \in calls, ReleaseSession(m)
    PROVE  TablesMove
<1>1. admitted' = admitted
  BY DEF ReleaseSession
<1>2. CASE ~ Finds(m)
  BY <1>1, <1>2, PruneTables DEF ReleaseSession
<1>3. CASE Finds(m)
  <2>1. /\ m.sid \in Sids /\ sessions[m.sid] \in SessionRecord
        /\ LiveSessions[m.sid] = sessions[m.sid]
    BY <1>3, FindsMeans
  <2>2. m.from \in Transfers /\ m.own \in BOOLEAN
    BY DEF TypeOK, CallRecord
  <2>3. Turn \in Nat
    <3>1. {s \in Sids : closed[s] # NotClosed} \in SUBSET Sids
      OBVIOUS
    <3> QED BY <3>1, Bounds, FS_Subset, FS_CardinalityType DEF Turn
  <2> DEFINE x == sessions[m.sid]
             r == [sid |-> m.sid, for |-> m.from, own |-> m.own, expires |-> x.expires,
                   turn |-> Turn]
  <2>4. r \in ReceiptRecord
    BY <2>1, <2>2, <2>3 DEF ReceiptRecord, SessionRecord
  <2>5. receipts' = KeepReceipt(r) /\ tickets' = LiveTickets
    BY <1>3, <2>1 DEF ReleaseSession
  <2>6. /\ closed'[m.sid] # NotClosed /\ closed'[m.sid].by = m.from
        /\ closed'[m.sid].own = m.own
    <3> DEFINE all == AllVerified(x, m.from)
               genuine == \A f \in DOMAIN x.proofs : Genuine(x.proofs[f].got)
    <3>1. closed' = [closed EXCEPT ![m.sid] = [by |-> m.from, own |-> m.own, all |-> all,
                                               genuine |-> genuine]]
      BY <1>3, <2>1 DEF ReleaseSession
    <3> HIDE DEF all, genuine
    <3> QED BY <2>1, <3>1, MarksDiffer DEF TypeOK
  <2>7. r.sid = m.sid /\ r.for = m.from /\ r.own = m.own
    OBVIOUS
  <2> HIDE DEF r
  <2>8. /\ IsFiniteSet(receipts') /\ Cardinality(receipts') <= MaxReceipts
        /\ receipts' \subseteq receipts \union {r}
    BY <2>5, KeepReceiptFits
  <2> QED BY <1>1, <2>4, <2>5, <2>6, <2>7, <2>8, PrunedTables DEF TablesMove
<1> QED BY <1>2, <1>3

LEMMA PrepareTables ==
    ASSUME TypeOK, IsFiniteSet(receipts), NEW m \in calls, NEW s, NEW issued,
           PrepareSession(m, s, issued)
    PROVE  TablesMove
<1>1. receipts' = LiveReceipts /\ admitted' \subseteq admitted
  BY DEF PrepareSession
<1>2. tickets' = LiveTickets \/ tickets' = [LiveTickets EXCEPT ![m.from] = now + SessionTTL]
  BY DEF PrepareSession
<1>3. now + SessionTTL \in Nat
  BY Bounds DEF TypeOK
<1>4. tickets' \in [Transfers -> Nat]
  BY <1>2, <1>3, PrunedTables
<1> QED BY <1>1, <1>4, PrunedTables DEF TablesMove

LEMMA TakenTables ==
    ASSUME TypeOK, IsFiniteSet(receipts), NEW m, ReceivePlan(m) \/ ReceiveFileChunk(m)
    PROVE  TablesMove
<1>1. tickets' = LiveTickets /\ receipts' = LiveReceipts /\ admitted' = admitted
  BY DEF ReceivePlan, ReceiveFileChunk, Prune
<1> QED BY <1>1, PrunedTables DEF TablesMove

-----------------------------------------------------------------------------
(* The journal and the transfers, and all the moves together.              *)

\* A session is made for a ticket without a row in the journal, which gets one.
JournalMove ==
    /\ now' \in Nat /\ now' >= now
    /\ journal' \in [Transfers -> Nat]
    /\ \A t \in Transfers : journal[t] > now => journal'[t] = journal[t]
    /\ \/ made' = made
       \/ \E s \in Sids, t \in Transfers :
            /\ t \notin budget.start
            /\ made[s] = NotMade
            /\ made' = [made EXCEPT ![s] = [for |-> t, at |-> now]]
            /\ journal[t] <= now
            /\ journal'[t] = TicketExpiry(transfer[t].issued)

Progress ==
    [op : Stages, sid : Sids \union {0}, file : Nat, offset : Nat, issued : Nat,
     fault : BOOLEAN]
Budget == [start : SUBSET Transfers, restarts : Nat, others : Nat]

TransfersMove ==
    /\ budget' \in Budget /\ budget'.start \subseteq budget.start
    /\ transfer' \in [Transfers -> Progress]
    /\ \A t \in Transfers :
         /\ t \in budget'.start => transfer'[t] = transfer[t]
         /\ t \notin budget.start => transfer'[t].issued = transfer[t].issued
         /\ \/ transfer'[t].sid = transfer[t].sid
            \/ /\ transfer[t].sid = 0
               /\ made'[transfer'[t].sid] # NotMade
               /\ made'[transfer'[t].sid].for = t
    /\ \A m \in calls' :
         m \in calls \/ /\ m \in CallRecord /\ m.from \notin budget'.start
                        /\ m.sid # 0 => m.sid = transfer'[m.from].sid

Moves ==
    /\ RunnerMoves /\ TablesMove /\ JournalMove /\ TransfersMove
    /\ ProgressGood' /\ SuccessMeansVerified'

LEMMA MovesTypeOK == ASSUME IInv, Moves PROVE TypeOK'
<1>1. /\ sessions' \in [Sids -> SessionRecord \union {NoSession}]
      /\ made' \in [Sids -> [for : Transfers, at : Nat] \union {NotMade}]
      /\ closed' \in [Sids -> [by : Transfers, own : BOOLEAN, all : BOOLEAN,
                               genuine : BOOLEAN] \union {NotClosed}]
  BY MovesTypes DEF IInv, Moves
<1>2. now' \in Nat /\ journal' \in [Transfers -> Nat] /\ tickets' \in [Transfers -> Nat]
  BY DEF Moves, JournalMove, TablesMove
<1>3. receipts' \subseteq ReceiptRecord /\ Cardinality(receipts') <= MaxReceipts
  BY DEF Moves, TablesMove, IInv, TypeOK, ReceiptRecord
<1>4. admitted' \subseteq CallRecord
  BY DEF Moves, TablesMove, IInv, TypeOK
<1>5. transfer' \in [Transfers -> Progress] /\ budget' \in Budget
  BY DEF Moves, TransfersMove
<1>6. calls' \subseteq CallRecord
  BY DEF Moves, TransfersMove, IInv, TypeOK
<1> QED BY <1>1, <1>2, <1>3, <1>4, <1>5, <1>6
        DEF TypeOK, SessionRecord, CallRecord, ReceiptRecord, Progress, Budget

LEMMA MovesUnstarted == ASSUME IInv, Moves PROVE Unstarted' /\ AdmittedGood'
<1>1. AdmittedGood'
  BY DEF IInv, AdmittedGood, Moves, TablesMove
<1>2. ASSUME NEW t \in budget'.start
      PROVE  /\ transfer'[t] = Idle
             /\ \A m \in calls' \union admitted' : m.from # t
             /\ \A s \in Sids : made'[s] # NotMade => made'[s].for # t
  <2>1. t \in budget.start /\ t \in Transfers
    BY <1>2 DEF Moves, TransfersMove, Budget, IInv, TypeOK
  <2>2. transfer[t] = Idle /\ \A m \in calls \union admitted : m.from # t
    BY <2>1 DEF IInv, Unstarted
  <2>3. \A s \in Sids : made[s] # NotMade => made[s].for # t
    BY <2>1 DEF IInv, Unstarted, Made
  <2>4. transfer'[t] = Idle
    BY <1>2, <2>1, <2>2 DEF Moves, TransfersMove
  <2>5. \A m \in calls' \union admitted' : m.from # t
    BY <1>2, <2>2 DEF Moves, TransfersMove, TablesMove
  <2>6. \A s \in Sids : made'[s] # NotMade => made'[s].for # t
    BY <2>1, <2>3 DEF Moves, JournalMove, IInv, TypeOK
  <2> QED BY <2>4, <2>5, <2>6
<1> QED BY <1>1, <1>2 DEF Unstarted, Made

\* What is known of an entry of the history after the moves.
LEMMA MovesMade ==
    ASSUME IInv, Moves, NEW s \in Sids, made'[s] # NotMade
    PROVE  /\ made'[s].for \in Transfers /\ made'[s].at \in Nat
           /\ made'[s].for \notin budget.start
           /\ transfer'[made'[s].for].issued = transfer[made'[s].for].issued
           /\ transfer[made'[s].for].issued \in Nat
           /\ made[s] # NotMade => made'[s] = made[s]
           /\ made[s] = NotMade =>
                /\ made'[s].at = now
                /\ journal[made'[s].for] <= now
                /\ journal'[made'[s].for] = TicketExpiry(transfer[made'[s].for].issued)
                /\ \A r \in Sids : r # s => made'[r] = made[r]
<1>1. /\ made[s] # NotMade => made'[s] = made[s]
      /\ made[s] = NotMade =>
           \E t \in Transfers :
             /\ t \notin budget.start
             /\ made' = [made EXCEPT ![s] = [for |-> t, at |-> now]]
             /\ journal[t] <= now
             /\ journal'[t] = TicketExpiry(transfer[t].issued)
  BY DEF Moves, JournalMove, IInv, TypeOK
<1>2. ASSUME made[s] # NotMade
      PROVE  made[s].for \in Transfers /\ made[s].at \in Nat /\ made[s].for \notin budget.start
  BY <1>2 DEF IInv, TypeOK, Unstarted, Made
<1>3. ASSUME made[s] = NotMade
      PROVE  \E t \in Transfers :
               /\ t \notin budget.start
               /\ made'[s] = [for |-> t, at |-> now]
               /\ journal[t] <= now
               /\ journal'[t] = TicketExpiry(transfer[t].issued)
               /\ \A r \in Sids : r # s => made'[r] = made[r]
  BY <1>1, <1>3 DEF IInv, TypeOK
<1>4. now \in Nat
  BY DEF IInv, TypeOK
<1>5. /\ made'[s].for \in Transfers /\ made'[s].at \in Nat
      /\ made'[s].for \notin budget.start
  <2>1. CASE made[s] # NotMade
    BY <1>1, <1>2, <2>1
  <2>2. CASE made[s] = NotMade
    <3>1. PICK t \in Transfers : t \notin budget.start /\ made'[s] = [for |-> t, at |-> now]
      BY <1>3, <2>2
    <3>2. made'[s].for = t /\ made'[s].at = now
      BY <3>1
    <3> QED BY <1>4, <3>1, <3>2
  <2> QED BY <2>1, <2>2
<1>6. /\ transfer'[made'[s].for].issued = transfer[made'[s].for].issued
      /\ transfer[made'[s].for].issued \in Nat
  BY <1>5 DEF Moves, TransfersMove, IInv, TypeOK
<1>7. made[s] = NotMade =>
        /\ made'[s].at = now
        /\ journal[made'[s].for] <= now
        /\ journal'[made'[s].for] = TicketExpiry(transfer[made'[s].for].issued)
        /\ \A r \in Sids : r # s => made'[r] = made[r]
  <2> SUFFICES ASSUME made[s] = NotMade
               PROVE  /\ made'[s].at = now
                      /\ journal[made'[s].for] <= now
                      /\ journal'[made'[s].for] = TicketExpiry(transfer[made'[s].for].issued)
                      /\ \A r \in Sids : r # s => made'[r] = made[r]
    OBVIOUS
  <2>1. PICK t \in Transfers : /\ made'[s] = [for |-> t, at |-> now]
                               /\ journal[t] <= now
                               /\ journal'[t] = TicketExpiry(transfer[t].issued)
                               /\ \A r \in Sids : r # s => made'[r] = made[r]
    BY <1>3
  <2>2. made'[s].for = t /\ made'[s].at = now
    BY <2>1
  <2> QED BY <2>1, <2>2
<1> QED BY <1>1, <1>5, <1>6, <1>7

LEMMA MovesJournalled == ASSUME IInv, Moves PROVE Journalled' /\ TicketUsedOnce'
<1> DEFINE E(t) == TicketExpiry(transfer[t].issued)
<1>0. now \in Nat /\ now' \in Nat /\ now' >= now /\ journal \in [Transfers -> Nat]
  BY DEF IInv, TypeOK, Moves, JournalMove
<1>1. \A t \in Transfers : transfer[t].issued \in Nat => E(t) \in Nat
  BY Bounds DEF TicketExpiry
<1>2. \A t \in Transfers : journal[t] > now => journal'[t] = journal[t]
  BY DEF Moves, JournalMove
<1>3. ASSUME NEW s \in Sids, made'[s] # NotMade
      PROVE  /\ made'[s].at <= now'
             /\ (made'[s].at < E(made'[s].for) /\ now' < E(made'[s].for))
                  => journal'[made'[s].for] = E(made'[s].for)
  <2>1. CASE made[s] = NotMade
    BY <1>0, <1>3, <2>1, MovesMade
  <2>2. CASE made[s] # NotMade
    <3> DEFINE t == made[s].for
    <3>1. made'[s] = made[s] /\ t \in Transfers /\ E(t) \in Nat /\ made[s].at \in Nat
      BY <1>1, <1>3, <2>2, MovesMade
    <3>2. /\ made[s].at <= now
          /\ (made[s].at < E(t) /\ now < E(t)) => journal[t] = E(t)
      BY <2>2 DEF IInv, Journalled, Made
    <3> HIDE DEF E
    <3> QED BY <1>0, <1>2, <3>1, <3>2
  <2> QED BY <2>1, <2>2
<1>4. ASSUME NEW s \in Sids, made'[s] # NotMade
      PROVE  TicketExpiry(transfer'[made'[s].for].issued) = E(made'[s].for)
  BY <1>4, MovesMade
<1>5. Journalled'
  BY <1>3, <1>4 DEF Journalled, Made, TicketExpiry
<1>6. ASSUME NEW r \in Sids, NEW s \in Sids, made'[r] # NotMade, made'[s] # NotMade,
             made'[r].for = made'[s].for, r # s,
             made'[r].at < E(made'[r].for), made'[s].at < E(made'[s].for)
      PROVE  made[s] # NotMade
  <2> SUFFICES ASSUME made[s] = NotMade PROVE FALSE
    OBVIOUS
  <2> DEFINE t == made'[s].for
  <2>1. made'[s].at = now /\ journal[t] <= now /\ made'[r] = made[r] /\ t \in Transfers
    BY <1>6, MovesMade
  <2>2. made[r] # NotMade /\ made[r].for = t
    BY <1>6, <2>1
  <2>3. journal[t] = E(t) /\ now < E(t)
    <3>1. made[r].at < E(t) /\ now < E(t)
      BY <1>6, <2>1, <2>2
    <3> QED BY <2>2, <3>1 DEF IInv, Journalled, Made
  <2>4. E(t) \in Nat
    BY <1>1, <1>6, MovesMade
  <2> HIDE DEF E
  <2> QED BY <1>0, <2>1, <2>3, <2>4
<1>7. ASSUME NEW r \in Sids, NEW s \in Sids, made'[r] # NotMade, made'[s] # NotMade,
             made'[r].for = made'[s].for, r # s,
             made'[r].at < E(made'[r].for), made'[s].at < E(made'[s].for)
      PROVE  FALSE
  <2>1. made[s] # NotMade /\ made[r] # NotMade
    BY <1>6, <1>7
  <2>2. made'[s] = made[s] /\ made'[r] = made[r]
    BY <1>7, <2>1, MovesMade
  <2> QED BY <1>7, <2>1, <2>2 DEF IInv, TicketUsedOnce
<1>8. TicketUsedOnce'
  BY <1>4, <1>7 DEF TicketUsedOnce, TicketExpiry
<1> QED BY <1>5, <1>8

LEMMA MovesOwn == ASSUME IInv, Moves PROVE OwnSessions'
<1>1. ASSUME NEW t \in Transfers, transfer'[t].sid # 0
      PROVE  made'[transfer'[t].sid] # NotMade /\ made'[transfer'[t].sid].for = t
  <2>1. CASE transfer'[t].sid # transfer[t].sid
    BY <2>1 DEF Moves, TransfersMove
  <2>2. CASE transfer'[t].sid = transfer[t].sid
    <3> DEFINE s == transfer[t].sid
    <3>1. s \in Sids
      BY <1>1, <2>2 DEF IInv, TypeOK
    <3>2. made[s] # NotMade /\ made[s].for = t
      BY <1>1, <2>2 DEF IInv, OwnSessions, Made
    <3>3. made'[s] = made[s]
      BY <3>1, <3>2, MovesClosed DEF IInv, Moves, Made
    <3> QED BY <2>2, <3>2, <3>3
  <2> QED BY <2>1, <2>2
<1>2. ASSUME NEW m \in calls', m.sid # 0 PROVE m.sid = transfer'[m.from].sid
  <2>1. CASE m \notin calls
    BY <1>2, <2>1 DEF Moves, TransfersMove
  <2>2. CASE m \in calls
    <3>1. m.from \in Transfers /\ m.sid = transfer[m.from].sid
      BY <1>2, <2>2 DEF IInv, TypeOK, CallRecord, OwnSessions
    <3> QED BY <1>2, <3>1 DEF Moves, TransfersMove
  <2> QED BY <2>1, <2>2
<1> QED BY <1>1, <1>2 DEF OwnSessions, Made

LEMMA MovesReleases == ASSUME IInv, Moves PROVE ReleasesGood'
<1>1. \A s \in Sids : (IsClosed(s) => Made(s) /\ closed[s].by = made[s].for)'
  BY MovesClosed DEF IInv, Moves
<1>2. ASSUME NEW r \in receipts'
      PROVE  closed'[r.sid] # NotClosed /\ closed'[r.sid].by = r.for
             /\ closed'[r.sid].own = r.own
  <2>1. CASE r \notin receipts
    BY <2>1 DEF Moves, TablesMove
  <2>2. CASE r \in receipts
    <3>1. r.sid \in Sids /\ IsClosed(r.sid)
      BY <2>2 DEF IInv, TypeOK, ReleasesGood
    <3>2. closed'[r.sid] = closed[r.sid]
      BY <3>1, MovesClosed DEF IInv, Moves
    <3> QED BY <2>2, <3>1, <3>2 DEF IInv, ReleasesGood, IsClosed
  <2> QED BY <2>1, <2>2
<1> QED BY <1>1, <1>2 DEF ReleasesGood, IsClosed

LEMMA MovesKeep == ASSUME IInv, Moves PROVE IInv'
<1>1. SessionsGood'
  BY MovesSessions DEF IInv, Moves
<1>2. IsFiniteSet(receipts')
  BY DEF Moves, TablesMove
<1> QED BY <1>1, <1>2, MovesTypeOK, MovesUnstarted, MovesJournalled, MovesOwn, MovesReleases
        DEF IInv, Moves

-----------------------------------------------------------------------------
(* The progress of one transfer.                                           *)

ResultGood(t, p) ==
    p.op = "verified" =>
        /\ p.sid \in Sids
        /\ closed[p.sid] # NotClosed
        /\ closed[p.sid].by = t /\ closed[p.sid].own
        /\ closed[p.sid].all /\ closed[p.sid].genuine

LEMMA ResultsGood == SuccessMeansVerified <=> \A t \in Transfers : ResultGood(t, transfer[t])
BY DEF SuccessMeansVerified, ResultGood

LEMMA AtIs ==
    ASSUME NEW p \in Progress, NEW op \in Stages
    PROVE  /\ At(p, op) = [op |-> op, sid |-> p.sid, file |-> p.file, offset |-> p.offset,
                           issued |-> p.issued, fault |-> p.fault]
           /\ At(p, op) \in Progress
BY DEF At, Progress

LEMMA AbandonsIs ==
    ASSUME NEW p \in Progress
    PROVE  /\ Abandons(p) = [op |-> "release", sid |-> p.sid, file |-> 0, offset |-> 0,
                             issued |-> p.issued, fault |-> TRUE]
           /\ Abandons(p) \in Progress
<1>1. /\ p = [op |-> p.op, sid |-> p.sid, file |-> p.file, offset |-> p.offset,
              issued |-> p.issued, fault |-> p.fault]
      /\ p.sid \in Sids \union {0} /\ p.issued \in Nat
  BY DEF Progress
<1>2. Abandons(p) = [op |-> "release", sid |-> p.sid, file |-> 0, offset |-> 0,
                     issued |-> p.issued, fault |-> TRUE]
  <2>1. PICK b : b = TRUE
    OBVIOUS
  <2>2. Abandons(p) = [p EXCEPT !.op = "release", !.file = 0, !.offset = 0, !.fault = b]
    BY <2>1 DEF Abandons
  <2>3. Abandons(p) = [op |-> "release", sid |-> p.sid, file |-> 0, offset |-> 0,
                       issued |-> p.issued, fault |-> b]
    BY <1>1, <2>2
  <2> QED BY <2>1, <2>3
<1>3. "release" \in Stages
  BY DEF Stages, Ops
<1> QED BY <1>1, <1>2, <1>3 DEF Progress

\* NextChunk goes to a chunk of the manifest, or to the release after the last one.
LEMMA NextChunkIs ==
    ASSUME NEW t \in Transfers, NEW p \in Progress,
           p.file = 0 \/ (p.file \in 1..Len(Chunks[t]) /\ p.offset \in 1..Chunks[t][p.file])
    PROVE  LET q == NextChunk(t, p) IN
           /\ q \in Progress
           /\ q.sid = p.sid /\ q.issued = p.issued /\ q.fault = p.fault
           /\ \/ /\ q.op = "file-chunk"
                 /\ q.file \in 1..Len(Chunks[t]) /\ q.offset \in 1..Chunks[t][q.file]
              \/ /\ q.op = "release"
                 /\ p.file = Len(Chunks[t])
                 /\ p.file # 0 => p.offset = Chunks[t][p.file]
<1>1. Chunks[t] \in Seq(Nat \ {0})
  BY Bounds
<1>2. /\ p = [op |-> p.op, sid |-> p.sid, file |-> p.file, offset |-> p.offset,
              issued |-> p.issued, fault |-> p.fault]
      /\ p.sid \in Sids \union {0} /\ p.file \in Nat /\ p.offset \in Nat
      /\ p.issued \in Nat /\ p.fault \in BOOLEAN
  BY DEF Progress
<1>3. {"file-chunk", "release"} \subseteq Stages
  BY DEF Stages, Ops
<1>4. CASE p.file > 0 /\ p.offset < Chunks[t][p.file]
  <2> DEFINE q == [op |-> "file-chunk", sid |-> p.sid, file |-> p.file,
                   offset |-> p.offset + 1, issued |-> p.issued, fault |-> p.fault]
  <2>1. NextChunk(t, p) = q
    BY <1>2, <1>4 DEF NextChunk
  <2>2. q \in Progress
    BY <1>2, <1>3 DEF Progress
  <2>3. p.file \in 1..Len(Chunks[t]) /\ p.offset + 1 \in 1..Chunks[t][p.file]
    <3>1. p.file \in 1..Len(Chunks[t]) /\ Chunks[t][p.file] \in Nat
      BY <1>1, <1>4
    <3> QED BY <1>2, <1>4, <3>1
  <2> QED BY <2>1, <2>2, <2>3
<1>5. CASE ~ (p.file > 0 /\ p.offset < Chunks[t][p.file]) /\ p.file < Len(Chunks[t])
  <2> DEFINE q == [op |-> "file-chunk", sid |-> p.sid, file |-> p.file + 1,
                   offset |-> 1, issued |-> p.issued, fault |-> p.fault]
  <2>1. NextChunk(t, p) = q
    BY <1>2, <1>5 DEF NextChunk
  <2>2. q \in Progress
    BY <1>2, <1>3 DEF Progress
  <2>3. p.file + 1 \in 1..Len(Chunks[t])
    BY <1>1, <1>2, <1>5
  <2>4. Chunks[t][p.file + 1] \in Nat \ {0}
    BY <1>1, <2>3
  <2>5. 1 \in 1..Chunks[t][p.file + 1]
    BY <2>4
  <2> QED BY <2>1, <2>2, <2>3, <2>5
<1>6. CASE ~ (p.file > 0 /\ p.offset < Chunks[t][p.file]) /\ ~ (p.file < Len(Chunks[t]))
  <2> DEFINE q == [op |-> "release", sid |-> p.sid, file |-> 0,
                   offset |-> 0, issued |-> p.issued, fault |-> p.fault]
  <2>1. NextChunk(t, p) = q
    BY <1>2, <1>6 DEF NextChunk
  <2>2. q \in Progress
    BY <1>2, <1>3 DEF Progress
  <2>3. Len(Chunks[t]) \in Nat
    BY <1>1
  <2>4. CASE p.file = 0
    BY <1>6, <2>1, <2>2, <2>3, <2>4
  <2>5. CASE p.file # 0
    <3>1. p.file \in 1..Len(Chunks[t]) /\ p.offset \in 1..Chunks[t][p.file]
      BY <2>5
    <3>2. Chunks[t][p.file] \in Nat
      BY <1>1, <3>1
    <3>3. p.file = Len(Chunks[t]) /\ p.offset = Chunks[t][p.file]
      BY <1>2, <1>6, <2>3, <3>1, <3>2
    <3> QED BY <2>1, <2>2, <3>3
  <2> QED BY <2>4, <2>5
<1> QED BY <1>4, <1>5, <1>6

\* A transfer that does not move keeps its place, whatever the runner does.
LEMMA Stays ==
    ASSUME IInv, RunnerMoves, NEW t \in Transfers, transfer'[t] = transfer[t]
    PROVE  PlaceGood(t, transfer[t])' /\ ResultGood(t, transfer[t])'
<1> DEFINE p == transfer[t]
<1>1. p \in Progress
  BY DEF IInv, TypeOK, Progress
<1>2. PlaceGood(t, p) /\ ResultGood(t, p)
  BY ResultsGood DEF IInv, ProgressGood
<1>3. ASSUME p.sid \in Sids, Verified(p.sid, t) PROVE Verified(p.sid, t)'
  <2>1. p.sid # 0
    BY <1>3, Bounds
  <2>2. Made(p.sid) /\ made[p.sid].for = t
    BY <2>1 DEF IInv, OwnSessions
  <2>3. PICK s \in Sids : s = p.sid
    BY <1>3
  <2>4. Verified(s, t)'
    BY <1>3, <2>2, <2>3, MovesVerified DEF IInv
  <2> QED BY <2>3, <2>4 DEF Verified, IsClosed
<1>4. ASSUME p.sid \in Sids, closed[p.sid] # NotClosed PROVE closed'[p.sid] = closed[p.sid]
  BY <1>4, MovesClosed DEF IInv, IsClosed
<1>5. ResultGood(t, transfer[t])'
  BY <1>2, <1>4 DEF ResultGood
<1>6. PlaceGood(t, transfer[t])'
  <2>1. p.op \in {"release", "release-status"} => p.sid \in Sids
    BY <1>2 DEF PlaceGood, Ops
  <2>2. (p.op \in {"release", "release-status"} /\ ~ p.fault) =>
           (p.sid \in Sids /\ (Verified(p.sid, t)'))
    BY <1>2, <1>3, <2>1 DEF PlaceGood
  <2>3. (p.op \in {"release", "release-status"} /\ ~ p.fault) =>
           Verified(transfer[t].sid, t)'
    BY <2>2 DEF Verified, IsClosed, AllVerified, VerifiedFiles
  <2> QED BY <1>2, <2>3 DEF PlaceGood
<1> QED BY <1>5, <1>6

\* One transfer goes on with progress p; the others wait.
LEMMA SendMoves ==
    ASSUME IInv, RunnerMoves, NEW t \in Transfers, NEW p \in Progress,
           transfer' = [transfer EXCEPT ![t] = p],
           calls' \subseteq calls \union IF p.op \in Ops THEN {Call(t, p)} ELSE {},
           budget' \in Budget, budget'.start \subseteq budget.start, t \notin budget'.start,
           t \notin budget.start => p.issued = transfer[t].issued,
           \/ p.sid = transfer[t].sid
           \/ transfer[t].sid = 0 /\ made'[p.sid] # NotMade /\ made'[p.sid].for = t,
           PlaceGood(t, p)', ResultGood(t, p)'
    PROVE  TransfersMove /\ ProgressGood' /\ SuccessMeansVerified'
<1>1. transfer \in [Transfers -> Progress] /\ now \in Nat
  BY DEF IInv, TypeOK, Progress
<1>2. transfer' \in [Transfers -> Progress] /\ transfer'[t] = p
  BY <1>1
<1>3. ASSUME NEW u \in Transfers, u # t PROVE transfer'[u] = transfer[u]
  BY <1>1, <1>3
<1>4. ASSUME NEW m \in calls', m \notin calls
      PROVE  m \in CallRecord /\ m.from = t /\ m.sid = p.sid
  <2>1. p.op \in Ops /\ m = Call(t, p)
    BY <1>4
  <2>2. /\ p.sid \in Sids \union {0} /\ p.file \in Nat /\ p.offset \in Nat
    BY DEF Progress
  <2> QED BY <1>1, <2>1, <2>2 DEF Call, CallRecord
<1>5. TransfersMove
  BY <1>2, <1>3, <1>4 DEF TransfersMove
<1>6. ASSUME NEW u \in Transfers
      PROVE  PlaceGood(u, transfer[u])' /\ ResultGood(u, transfer[u])'
  <2>1. CASE u = t
    BY <1>2, <2>1 DEF PlaceGood, ResultGood, Verified, IsClosed, AllVerified, VerifiedFiles
  <2>2. CASE u # t
    BY <1>3, <2>2, Stays
  <2> QED BY <2>1, <2>2
<1>7. ProgressGood'
  BY <1>6 DEF ProgressGood
<1>8. SuccessMeansVerified'
  BY <1>6 DEF SuccessMeansVerified, ResultGood
<1> QED BY <1>5, <1>7, <1>8

\* No transfer moves; a call of another caller may be sent.
LEMMA WaitMoves ==
    ASSUME IInv, RunnerMoves, transfer' = transfer,
           budget' \in Budget, budget'.start \subseteq budget.start,
           \A m \in calls' : m \in calls \/ /\ m \in CallRecord /\ m.from \notin budget.start
                                            /\ m.sid # 0 => m.sid = transfer[m.from].sid
    PROVE  TransfersMove /\ ProgressGood' /\ SuccessMeansVerified'
<1>1. transfer \in [Transfers -> Progress]
  BY DEF IInv, TypeOK, Progress
<1>2. TransfersMove
  BY <1>1 DEF TransfersMove
<1>3. \A u \in Transfers : PlaceGood(u, transfer[u])' /\ ResultGood(u, transfer[u])'
  BY Stays
<1>4. ProgressGood'
  BY <1>3 DEF ProgressGood
<1>5. SuccessMeansVerified'
  BY <1>3 DEF SuccessMeansVerified, ResultGood
<1> QED BY <1>2, <1>4, <1>5

\* An answer is heard by its sender, which goes on with p, or by nobody.
LEMMA AnswerMoves ==
    ASSUME IInv, RunnerMoves, NEW m \in calls, NEW p, Answered(m, p),
           Awaited(m) => /\ p \in Progress
                         /\ p.issued = transfer[m.from].issued
                         /\ \/ p.sid = transfer[m.from].sid
                            \/ /\ transfer[m.from].sid = 0
                               /\ made'[p.sid] # NotMade /\ made'[p.sid].for = m.from
                         /\ PlaceGood(m.from, p)' /\ ResultGood(m.from, p)'
    PROVE  TransfersMove /\ ProgressGood' /\ SuccessMeansVerified'
<1>1. /\ m.from \in Transfers /\ m.from \notin budget.start
      /\ budget' = budget /\ budget \in Budget
  BY DEF IInv, TypeOK, CallRecord, Budget, Unstarted, Answered
<1>2. CASE Awaited(m)
  <2>1. /\ transfer' = [transfer EXCEPT ![m.from] = p]
        /\ calls' \subseteq calls \union IF p.op \in Ops THEN {Call(m.from, p)} ELSE {}
    BY <1>2 DEF Answered, Send
  <2> QED BY <1>1, <1>2, <2>1, SendMoves
<1>3. CASE ~ Awaited(m)
  <2>1. transfer' = transfer /\ calls' \subseteq calls
    BY <1>3 DEF Answered, Unheard
  <2> QED BY <1>1, <2>1, WaitMoves
<1> QED BY <1>2, <1>3

\* The awaited call is the place its sender has reached, and names its session.
LEMMA AwaitedPlace ==
    ASSUME IInv, NEW m \in calls, Awaited(m)
    PROVE  /\ transfer[m.from] \in Progress /\ PlaceGood(m.from, transfer[m.from])
           /\ m.from \in Transfers /\ m.own
           /\ m.op = transfer[m.from].op
           /\ m.file = transfer[m.from].file /\ m.offset = transfer[m.from].offset
           /\ m.sid # 0 => m.sid = transfer[m.from].sid
<1>1. m.from \in Transfers
  BY DEF IInv, TypeOK, CallRecord
<1>2. transfer[m.from] \in Progress /\ PlaceGood(m.from, transfer[m.from])
  BY <1>1 DEF IInv, TypeOK, Progress, ProgressGood
<1>3. m.sid # 0 => m.sid = transfer[m.from].sid
  BY DEF IInv, OwnSessions
<1> QED BY <1>1, <1>2, <1>3 DEF Awaited

\* A transfer that fails, or goes to release because of an error, claims nothing.
LEMMA ErrorsClaimNothing ==
    ASSUME IInv, NEW t \in Transfers, NEW p, p = transfer[t], NEW q,
           q = Fails(p) \/ (q = Abandons(p) /\ p.sid \in Sids)
    PROVE  /\ q \in Progress /\ q.issued = p.issued /\ q.sid = p.sid
           /\ PlaceGood(t, q)' /\ ResultGood(t, q)'
<1>1. p \in Progress
  BY DEF IInv, TypeOK, Progress
<1>2. "failed" \in Stages /\ "failed" \notin Ops
  BY DEF Stages, Ended, Ops
<1>3. CASE q = Fails(p)
  <2>1. q \in Progress /\ q.issued = p.issued /\ q.sid = p.sid /\ q.op = "failed"
    BY <1>1, <1>2, <1>3, AtIs DEF Fails
  <2> QED BY <1>2, <2>1 DEF PlaceGood, ResultGood
<1>4. CASE q = Abandons(p) /\ p.sid \in Sids
  <2>1. /\ q \in Progress /\ q.issued = p.issued /\ q.sid = p.sid /\ q.op = "release"
        /\ q.fault
    BY <1>1, <1>4, AbandonsIs
  <2> QED BY <1>4, <2>1 DEF PlaceGood, ResultGood
<1> QED BY <1>3, <1>4

-----------------------------------------------------------------------------
(* Every step of the specification is one of the moves.                    *)

LEMMA StillJournal == ASSUME IInv, UNCHANGED <<now, journal, made>> PROVE JournalMove
BY DEF IInv, TypeOK, JournalMove

\* What comes after a settled chunk or plan: a chunk, or a release of a verified session.
LEMMA NextGood ==
    ASSUME IInv, RunnerMoves, NEW m \in calls, Awaited(m), Finds(m), closed' = closed,
           NEW p, p = transfer[m.from], NEW q, q = NextChunk(m.from, p),
           p.file = 0 \/ (p.file \in 1..Len(Chunks[m.from])
                          /\ p.offset \in 1..Chunks[m.from][p.file]),
           (/\ p.file = Len(Chunks[m.from])
            /\ p.file # 0 => p.offset = Chunks[m.from][p.file]
            /\ sessions'[m.sid].live) => AllVerified(sessions'[m.sid], m.from)
    PROVE  /\ q \in Progress /\ q.issued = p.issued /\ q.sid = p.sid
           /\ PlaceGood(m.from, q)' /\ ResultGood(m.from, q)'
<1> DEFINE t == m.from
<1>1. p \in Progress /\ t \in Transfers /\ m.sid = p.sid /\ m.sid \in Sids
  BY AwaitedPlace, FindsMeans DEF IInv
<1>2. /\ q \in Progress /\ q.sid = p.sid /\ q.issued = p.issued
      /\ \/ /\ q.op = "file-chunk"
            /\ q.file \in 1..Len(Chunks[t]) /\ q.offset \in 1..Chunks[t][q.file]
         \/ /\ q.op = "release"
            /\ p.file = Len(Chunks[t])
            /\ p.file # 0 => p.offset = Chunks[t][p.file]
  BY <1>1, NextChunkIs
<1>3. CASE q.op = "file-chunk"
  BY <1>1, <1>2, <1>3 DEF PlaceGood, ResultGood
<1>4. CASE q.op = "release"
  <2>1. sessions'[m.sid].live => AllVerified(sessions'[m.sid], t)
    BY <1>2, <1>4
  <2>2. closed'[m.sid] = NotClosed
    BY <1>1, FindsMeans DEF IInv, SessionsGood, IsClosed
  <2>3. q.sid = m.sid
    BY <1>1, <1>2
  <2>4. Verified(q.sid, t)'
    BY <2>1, <2>2, <2>3 DEF Verified, IsClosed, AllVerified, VerifiedFiles
  <2> QED BY <1>1, <1>2, <1>4, <2>4 DEF PlaceGood, ResultGood
<1> QED BY <1>2, <1>3, <1>4

\* A session with its plan and no file in it has all its files.
LEMMA NoFiles ==
    ASSUME NEW x, x.plan, SessionGood(x), x.live, Len(Chunks[x.ticket]) = 0
    PROVE  AllVerified(x, x.ticket)
<1>1. DOMAIN x.proofs = {}
  BY DEF SessionGood
<1>2. {f \in DOMAIN x.proofs : x.proofs[f].state = "verified"} = {}
  BY <1>1
<1>3. VerifiedFiles(x) = 0
  BY <1>2, FS_EmptySet DEF VerifiedFiles
<1> QED BY <1>3 DEF AllVerified

\* A release that is known to be the transfer's own ends it as the session allows.
LEMMA ReleasedGood ==
    ASSUME IInv, RunnerMoves, NEW m \in calls, Awaited(m), m.sid \in Sids,
           m.op \in {"release", "release-status"},
           closed'[m.sid] # NotClosed, closed'[m.sid].by = m.from, closed'[m.sid].own,
           NEW p, p = transfer[m.from], NEW q, q = Released(p)
    PROVE  /\ q \in Progress /\ q.issued = p.issued /\ q.sid = p.sid
           /\ PlaceGood(m.from, q)' /\ ResultGood(m.from, q)'
<1> DEFINE t == m.from
<1>1. /\ p \in Progress /\ PlaceGood(t, p) /\ t \in Transfers /\ p.op = m.op
      /\ m.sid # 0 /\ p.sid = m.sid
  BY AwaitedPlace, Bounds
<1>2. {"failed", "verified"} \subseteq Stages /\ "failed" \notin Ops /\ "verified" \notin Ops
  BY DEF Stages, Ended, Ops
<1>3. /\ q \in Progress /\ q.issued = p.issued /\ q.sid = p.sid
      /\ q.op = IF p.fault THEN "failed" ELSE "verified"
  <2> DEFINE op == IF p.fault THEN "failed" ELSE "verified"
  <2>1. op \in Stages /\ q = At(p, op)
    BY <1>2 DEF Released
  <2> HIDE DEF op
  <2>2. q \in Progress /\ q.issued = p.issued /\ q.sid = p.sid /\ q.op = op
    BY <1>1, <2>1, AtIs
  <2> QED
    BY <2>2 DEF op
<1>4. PlaceGood(t, q)'
  BY <1>2, <1>3 DEF PlaceGood
<1>5. CASE p.fault
  BY <1>3, <1>4, <1>5 DEF ResultGood
<1>6. CASE ~ p.fault
  <2>1. Verified(m.sid, t)
    BY <1>1, <1>6 DEF PlaceGood
  <2>2. Made(m.sid) /\ made[m.sid].for = t
    BY <1>1 DEF IInv, OwnSessions
  <2>3. Verified(m.sid, t)'
    BY <1>1, <2>1, <2>2, MovesVerified DEF IInv
  <2>4. closed'[m.sid].all /\ closed'[m.sid].genuine
    BY <2>3 DEF Verified, IsClosed
  <2> QED BY <1>1, <1>3, <1>4, <2>4 DEF ResultGood
<1> QED BY <1>5, <1>6

LEMMA StartMoves == ASSUME IInv, NEW t \in Transfers, Start(t) PROVE Moves
<1>1. UNCHANGED runnerVars /\ t \in budget.start
  BY DEF Start
<1>2. RunnerMoves /\ TablesMove /\ JournalMove
  BY <1>1, StillMoves, StillTables, StillJournal DEF runnerVars, memory, IInv
<1>3. PICK p : p = [Idle EXCEPT !.op = "prepare", !.issued = now]
  OBVIOUS
<1>4. /\ p.op = "prepare" /\ p.sid = 0 /\ p.file = 0 /\ p.issued = now
      /\ p \in Progress
  <2>1. now \in Nat /\ "prepare" \in Stages
    BY DEF IInv, TypeOK, Stages, Ops
  <2>2. p = [op |-> "prepare", sid |-> 0, file |-> 0, offset |-> 0, issued |-> now,
             fault |-> FALSE]
    BY <1>3 DEF Idle
  <2> QED BY <2>1, <2>2 DEF Progress
<1>5. PlaceGood(t, p)' /\ ResultGood(t, p)'
  BY <1>4 DEF PlaceGood, ResultGood
<1>6. budget' = [budget EXCEPT !.start = @ \ {t}] /\ budget \in Budget
  BY DEF Start, IInv, TypeOK, Budget
<1>7. budget' \in Budget /\ budget'.start \subseteq budget.start /\ t \notin budget'.start
  BY <1>6 DEF Budget
<1>8. transfer[t].sid = 0
  BY <1>1 DEF IInv, Unstarted, Idle
<1>9. /\ transfer' = [transfer EXCEPT ![t] = p]
      /\ calls' \subseteq calls \union IF p.op \in Ops THEN {Call(t, p)} ELSE {}
  BY <1>3 DEF Start, Send
<1> QED BY <1>1, <1>2, <1>4, <1>5, <1>7, <1>8, <1>9, SendMoves DEF Moves

LEMMA GiveUpMoves == ASSUME IInv, NEW t \in Transfers, GiveUp(t) PROVE Moves
<1>1. UNCHANGED runnerVars /\ budget' = budget /\ transfer[t].op \in Ops
  BY DEF GiveUp
<1>2. RunnerMoves /\ TablesMove /\ JournalMove
  BY <1>1, StillMoves, StillTables, StillJournal DEF runnerVars, memory, IInv
<1>3. PICK p : p = transfer[t]
  OBVIOUS
<1>4. p \in Progress /\ PlaceGood(t, p) /\ t \notin budget.start /\ p.op \in Ops
  <2>1. Idle.op \notin Ops
    BY DEF Idle, Ops
  <2> QED BY <1>1, <1>3, <2>1 DEF IInv, TypeOK, Progress, ProgressGood, Unstarted
<1>5. PICK q :
        /\ q = CASE p.op = "prepare"      -> At(p, "preparation-status")
                 [] p.op = "plan-receipt" -> At(p, "plan-proof")
                 [] p.op = "file-chunk"   -> At(p, "chunk-proof")
                 [] p.op = "release"      -> At(p, "release-status")
                 [] p.op \in {"plan-proof", "chunk-proof"} -> Abandons(p)
                 [] p.op \in {"preparation-status", "release-status"} -> Fails(p)
        /\ transfer' = [transfer EXCEPT ![t] = q]
        /\ calls' \subseteq calls \union IF q.op \in Ops THEN {Call(t, q)} ELSE {}
  BY <1>3 DEF GiveUp, Send
<1> DEFINE Good == /\ q \in Progress /\ q.issued = p.issued /\ q.sid = p.sid
                   /\ PlaceGood(t, q)' /\ ResultGood(t, q)'
<1>6. ASSUME NEW op, op \in {"preparation-status", "plan-proof", "chunk-proof",
                             "release-status"}, q = At(p, op)
      PROVE  /\ q \in Progress /\ q.issued = p.issued /\ q.sid = p.sid /\ q.op = op
             /\ q.file = p.file /\ q.offset = p.offset /\ q.fault = p.fault
  <2>1. op \in Stages
    BY <1>6 DEF Stages, Ops
  <2>2. q = [op |-> op, sid |-> p.sid, file |-> p.file, offset |-> p.offset,
             issued |-> p.issued, fault |-> p.fault] /\ q \in Progress
    BY <1>4, <1>6, <2>1, AtIs
  <2> QED BY <2>2
<1>7. ASSUME p.op = "prepare" PROVE Good
  <2>1. q = At(p, "preparation-status")
    BY <1>5, <1>7
  <2>2. /\ q \in Progress /\ q.issued = p.issued /\ q.sid = p.sid
        /\ q.op = "preparation-status" /\ q.file = p.file
    BY <1>6, <2>1
  <2> QED BY <1>4, <1>7, <2>2 DEF PlaceGood, ResultGood
<1>8. ASSUME p.op = "plan-receipt" PROVE Good
  <2>1. q = At(p, "plan-proof")
    BY <1>5, <1>8
  <2>2. /\ q \in Progress /\ q.issued = p.issued /\ q.sid = p.sid
        /\ q.op = "plan-proof" /\ q.file = p.file
    BY <1>6, <2>1
  <2> QED BY <1>4, <1>8, <2>2 DEF PlaceGood, ResultGood
<1>9. ASSUME p.op = "file-chunk" PROVE Good
  <2>1. q = At(p, "chunk-proof")
    BY <1>5, <1>9
  <2>2. /\ q \in Progress /\ q.issued = p.issued /\ q.sid = p.sid
        /\ q.op = "chunk-proof" /\ q.file = p.file /\ q.offset = p.offset
    BY <1>6, <2>1
  <2> QED BY <1>4, <1>9, <2>2 DEF PlaceGood, ResultGood
<1>10. ASSUME p.op = "release" PROVE Good
  <2>1. q = At(p, "release-status")
    BY <1>5, <1>10
  <2>2. /\ q \in Progress /\ q.issued = p.issued /\ q.sid = p.sid
        /\ q.op = "release-status" /\ q.fault = p.fault
    BY <1>6, <2>1
  <2>3. ~ p.fault => Verified(q.sid, t)'
    BY <1>1, <1>4, <1>10, <2>2
       DEF PlaceGood, Verified, IsClosed, AllVerified, VerifiedFiles, runnerVars, memory
  <2> QED BY <1>4, <1>10, <2>2, <2>3 DEF PlaceGood, ResultGood
<1>11. ASSUME p.op \in {"plan-proof", "chunk-proof"} PROVE Good
  <2>1. q = Abandons(p) /\ p.sid \in Sids
    BY <1>4, <1>5, <1>11 DEF PlaceGood
  <2> QED BY <1>3, <2>1, ErrorsClaimNothing
<1>12. ASSUME p.op \in {"preparation-status", "release-status"} PROVE Good
  <2>1. q = Fails(p)
    BY <1>5, <1>12
  <2> QED BY <1>3, <2>1, ErrorsClaimNothing
<1>13. Good
  BY <1>4, <1>7, <1>8, <1>9, <1>10, <1>11, <1>12 DEF Ops
<1>14. budget' \in Budget /\ budget'.start = budget.start
  BY <1>1 DEF IInv, TypeOK, Budget
<1> HIDE DEF Good
<1>15. /\ q \in Progress /\ q.issued = p.issued /\ q.sid = p.sid
       /\ PlaceGood(t, q)' /\ ResultGood(t, q)'
  BY <1>13 DEF Good
<1> QED BY <1>2, <1>3, <1>4, <1>5, <1>14, <1>15, SendMoves DEF Moves

LEMMA OtherCallMoves ==
    ASSUME IInv, NEW t \in Transfers,
           \/ RepeatPrepare(t) \/ OtherRelease(t)
           \/ \E f \in DOMAIN Chunks[t] : OtherChunk(t, f)
    PROVE  Moves
<1>1. PICK m : /\ OtherCall(t, m)
               /\ m \in CallRecord /\ m.from = t
               /\ m.sid # 0 => m.sid = transfer[t].sid
               /\ transfer[t].issued > 0 \/ transfer[t].sid > 0
  <2>0. now \in Nat /\ transfer[t].sid \in Sids \union {0}
    BY DEF IInv, TypeOK
  <2>1. ASSUME NEW op \in {"prepare", "release", "file-chunk"}, NEW f \in Nat, NEW o \in Nat
        PROVE  /\ Foreign(t, op, f, o) \in CallRecord
               /\ Foreign(t, op, f, o).from = t
               /\ Foreign(t, op, f, o).sid # 0 => Foreign(t, op, f, o).sid = transfer[t].sid
    BY <2>0 DEF Foreign, CallRecord, Ops
  <2>2. CASE RepeatPrepare(t)
    BY <2>1, <2>2 DEF RepeatPrepare
  <2>3. CASE OtherRelease(t)
    BY <2>1, <2>3 DEF OtherRelease
  <2>4. ASSUME NEW f \in DOMAIN Chunks[t], OtherChunk(t, f)
        PROVE  \E o \in Nat : OtherCall(t, Foreign(t, "file-chunk", f, o)) /\ f \in Nat
                              /\ transfer[t].sid > 0
    <3>1. f \in 1..Len(Chunks[t]) /\ Chunks[t] \in Seq(Nat \ {0})
      BY Bounds
    <3>2. f \in Nat /\ Chunks[t][f] \in Nat
      BY <3>1
    <3>3. PICK o \in 1..Chunks[t][f] : OtherCall(t, Foreign(t, "file-chunk", f, o))
      BY <2>4 DEF OtherChunk
    <3> QED BY <2>4, <3>2, <3>3 DEF OtherChunk
  <2> QED BY <2>1, <2>2, <2>3, <2>4
<1>2. UNCHANGED runnerVars /\ transfer' = transfer /\ calls' = calls \union {m}
  BY <1>1 DEF OtherCall
<1>3. RunnerMoves /\ TablesMove /\ JournalMove
  BY <1>2, StillMoves, StillTables, StillJournal DEF runnerVars, memory, IInv
<1>4. t \notin budget.start
  BY <1>1 DEF IInv, Unstarted, Idle
<1>5. budget' = [budget EXCEPT !.others = @ - 1] /\ budget.others > 0 /\ budget \in Budget
  BY <1>1 DEF OtherCall, IInv, TypeOK, Budget
<1>6. budget' \in Budget /\ budget'.start = budget.start
  BY <1>5 DEF Budget
<1> QED BY <1>1, <1>2, <1>3, <1>4, <1>6, WaitMoves DEF Moves

LEMMA RestartRunnerMoves == ASSUME IInv, RestartRunner PROVE Moves
<1>1. Restart /\ calls' \subseteq calls /\ transfer' = transfer
  BY DEF RestartRunner
<1>2. RunnerMoves
  BY <1>1, RestartMoves DEF IInv
<1>3. TablesMove
  <2>1. tickets' \in [Transfers -> Nat] /\ receipts' = {} /\ admitted' = {}
    BY <1>1 DEF Restart
  <2> QED BY <2>1, FS_EmptySet, Bounds DEF TablesMove
<1>4. JournalMove
  BY <1>1, StillJournal DEF Restart
<1>5. budget' = [budget EXCEPT !.restarts = @ - 1] /\ budget.restarts > 0 /\ budget \in Budget
  BY DEF RestartRunner, IInv, TypeOK, Budget
<1>6. budget' \in Budget /\ budget'.start = budget.start
  BY <1>5 DEF Budget
<1> QED BY <1>1, <1>2, <1>3, <1>4, <1>6, WaitMoves DEF Moves

LEMMA TimePassesMoves == ASSUME IInv, TimePasses PROVE Moves
<1>1. /\ Tick /\ calls' \subseteq calls /\ transfer' = transfer /\ budget' = budget
  BY DEF TimePasses
<1>2. RunnerMoves /\ TablesMove
  BY <1>1, StillMoves, StillTables DEF Tick, memory, IInv
<1>3. now \in Nat /\ now' \in Nat /\ now' >= now
  BY <1>1 DEF Tick, IInv, TypeOK
<1>4. JournalMove
  BY <1>1, <1>3 DEF Tick, IInv, TypeOK, JournalMove
<1>5. budget' \in Budget /\ budget'.start = budget.start
  BY <1>1 DEF IInv, TypeOK, Budget
<1> QED BY <1>1, <1>2, <1>4, <1>5, WaitMoves DEF Moves

LEMMA AdmitMoves == ASSUME IInv, NEW m \in calls, AdmitPrepare(m) PROVE Moves
<1>1. /\ UNCHANGED <<now, sessions, tickets, receipts, journal, made, closed>>
      /\ UNCHANGED <<transfer, calls, budget>>
      /\ admitted' = admitted \union {m} /\ m.op = "prepare"
  BY DEF AdmitPrepare, VerifyTicket, memory, Arrives
<1>2. RunnerMoves /\ TablesMove /\ JournalMove
  BY <1>1, StillMoves, StillTables, StillJournal DEF IInv
<1>3. budget' \in Budget /\ budget'.start = budget.start
  BY <1>1 DEF IInv, TypeOK, Budget
<1> QED BY <1>1, <1>2, <1>3, WaitMoves DEF Moves

LEMMA RejectMoves == ASSUME IInv, NEW m \in calls, RejectPrepare(m) PROVE Moves
<1>1. UNCHANGED runnerVars
  BY DEF RejectPrepare
<1>2. RunnerMoves /\ TablesMove /\ JournalMove
  BY <1>1, StillMoves, StillTables, StillJournal DEF runnerVars, memory, IInv
<1>3. PICK p, q : p = transfer[m.from] /\ q = Fails(p) /\ Answered(m, q)
  BY DEF RejectPrepare
<1>4. m.from \in Transfers
  BY DEF IInv, TypeOK, CallRecord
<1>5. /\ q \in Progress /\ q.issued = p.issued /\ q.sid = p.sid
      /\ PlaceGood(m.from, q)' /\ ResultGood(m.from, q)'
  BY <1>3, <1>4, ErrorsClaimNothing
<1> QED BY <1>2, <1>3, <1>5, AnswerMoves DEF Moves

\* The journal gets the row of a ticket it had none of, and loses expired ones.
LEMMA PrepareJournal ==
    ASSUME IInv, NEW m \in calls, NEW s \in Sids,
           PrepareSession(m, s, transfer[m.from].issued)
    PROVE  JournalMove
<1> DEFINE t == m.from
           expiry == TicketExpiry(transfer[t].issued)
<1>1. /\ t \in Transfers /\ t \notin budget.start /\ now \in Nat /\ now' = now
      /\ journal \in [Transfers -> Nat] /\ expiry \in Nat
  <2>1. t \in Transfers /\ now \in Nat /\ journal \in [Transfers -> Nat]
    BY DEF IInv, TypeOK, CallRecord
  <2>2. t \notin budget.start
    BY DEF IInv, Unstarted
  <2>3. now' = now
    BY DEF PrepareSession
  <2>4. transfer[t].issued \in Nat
    BY <2>1 DEF IInv, TypeOK
  <2> QED
    BY <2>1, <2>2, <2>3, <2>4, Bounds DEF TicketExpiry
<1>2. LiveJournal \in [Transfers -> Nat]
  BY <1>1 DEF LiveJournal
<1>3. journal' = journal \/ journal' = LiveJournal
      \/ (JournalAdmits(t) /\ journal' = [LiveJournal EXCEPT ![t] = expiry])
  BY <1>2 DEF PrepareSession, Consume
<1>4. JournalAdmits(t) => journal[t] <= now
  <2>1. journal[t] \in Nat
    BY <1>1
  <2> QED BY <1>1, <2>1 DEF JournalAdmits, LiveJournal
<1> HIDE DEF expiry
<1>5. journal' \in [Transfers -> Nat]
  BY <1>1, <1>2, <1>3
<1>6. ASSUME NEW u \in Transfers, journal[u] > now PROVE journal'[u] = journal[u]
  <2>1. LiveJournal[u] = journal[u] /\ (JournalAdmits(t) => u # t)
    BY <1>1, <1>4, <1>6 DEF LiveJournal
  <2> QED BY <1>2, <1>3, <2>1
<1>7. CASE ~ Prepares(t)
  BY <1>1, <1>5, <1>6, <1>7 DEF PrepareSession, JournalMove
<1>8. CASE Prepares(t)
  <2>1. /\ made[s] = NotMade
        /\ made' = [made EXCEPT ![s] = [for |-> t, at |-> now]]
    BY <1>8 DEF PrepareSession
  <2>2. journal[t] <= now /\ journal'[t] = expiry
    BY <1>1, <1>2, <1>4, <1>8 DEF PrepareSession, Prepares, Consume, expiry
  <2>3. \E r \in Sids, u \in Transfers :
          /\ u \notin budget.start
          /\ made[r] = NotMade
          /\ made' = [made EXCEPT ![r] = [for |-> u, at |-> now]]
          /\ journal[u] <= now
          /\ journal'[u] = TicketExpiry(transfer[u].issued)
    <3>1. journal'[t] = TicketExpiry(transfer[t].issued)
      BY <2>2 DEF expiry
    <3> QED BY <1>1, <2>1, <2>2, <3>1, Zenon
  <2>4. now' \in Nat /\ now' >= now
    BY <1>1
  <2>5. \A u \in Transfers : journal[u] > now => journal'[u] = journal[u]
    BY <1>6
  <2> QED BY <1>5, <2>3, <2>4, <2>5, Zenon DEF JournalMove
<1> QED BY <1>7, <1>8

LEMMA ServePrepareMoves ==
    ASSUME IInv, NEW m \in calls, NEW s \in Sids, ServePrepare(m, s) PROVE Moves
<1>1. PrepareSession(m, s, transfer[m.from].issued)
  BY DEF ServePrepare
<1>2. RunnerMoves /\ TablesMove /\ JournalMove
  BY <1>1, PrepareMoves, PrepareTables, PrepareJournal DEF IInv
<1>3. PICK p : p = transfer[m.from]
  OBVIOUS
<1>4. PICK q : /\ Answered(m, q)
               /\ q = IF Prepares(m.from) THEN [p EXCEPT !.op = "plan-receipt", !.sid = s]
                      ELSE Fails(p)
  BY <1>3 DEF ServePrepare
<1>5. ASSUME Awaited(m), Prepares(m.from)
      PROVE  /\ q \in Progress /\ q.issued = p.issued
             /\ p.sid = 0 /\ made'[q.sid] # NotMade /\ made'[q.sid].for = m.from
             /\ PlaceGood(m.from, q)' /\ ResultGood(m.from, q)'
  <2>1. m.op = "prepare"
    BY <1>1 DEF PrepareSession, IInv, AdmittedGood
  <2>2. p \in Progress /\ p.sid = 0 /\ p.file = 0
    BY <1>3, <1>5, <2>1, AwaitedPlace DEF PlaceGood
  <2>3. q = [op |-> "plan-receipt", sid |-> s, file |-> p.file, offset |-> p.offset,
             issued |-> p.issued, fault |-> p.fault]
    BY <1>4, <1>5, <2>2 DEF Progress
  <2>4. "plan-receipt" \in Stages
    BY DEF Stages, Ops
  <2>5. /\ q \in Progress /\ q.issued = p.issued /\ q.sid = s
        /\ q.op = "plan-receipt" /\ q.file = 0
    BY <2>2, <2>3, <2>4 DEF Progress
  <2>6. made' = [made EXCEPT ![s] = [for |-> m.from, at |-> now]]
    BY <1>1, <1>5 DEF PrepareSession
  <2>7. made'[s] = [for |-> m.from, at |-> now]
    BY <2>6 DEF IInv, TypeOK
  <2> QED BY <2>2, <2>5, <2>7, MarksDiffer DEF PlaceGood, ResultGood
<1>6. ASSUME ~ Prepares(m.from)
      PROVE  /\ q \in Progress /\ q.issued = p.issued /\ q.sid = p.sid
             /\ PlaceGood(m.from, q)' /\ ResultGood(m.from, q)'
  <2>1. m.from \in Transfers
    BY DEF IInv, TypeOK, CallRecord
  <2>2. q = Fails(p)
    BY <1>4, <1>6
  <2> QED BY <1>3, <2>1, <2>2, ErrorsClaimNothing
<1> QED BY <1>2, <1>3, <1>4, <1>5, <1>6, AnswerMoves DEF Moves

\* What the status reads do to the runner.
LEMMA ReadMoves ==
    ASSUME IInv, ReadStatus PROVE RunnerMoves /\ TablesMove /\ JournalMove /\ made' = made
<1>1. Prune /\ UNCHANGED <<now, journal, admitted, made, closed>>
  BY DEF ReadStatus
<1> QED BY <1>1, PruneMoves, PruneTables, StillJournal DEF IInv

LEMMA PreparationStatusMoves ==
    ASSUME IInv, NEW m \in calls, ServePreparationStatus(m) PROVE Moves
<1>1. ReadStatus /\ m.op = "preparation-status"
  BY DEF ServePreparationStatus, Arrives
<1>2. RunnerMoves /\ TablesMove /\ JournalMove /\ made' = made
  BY <1>1, ReadMoves
<1>3. PICK p : p = transfer[m.from]
  OBVIOUS
<1>4. m.from \in Transfers
  BY DEF IInv, TypeOK, CallRecord
<1>5. CASE Answered(m, Fails(p))
  <2>1. PICK q : q = Fails(p)
    OBVIOUS
  <2>2. /\ q \in Progress /\ q.issued = p.issued /\ q.sid = p.sid
        /\ PlaceGood(m.from, q)' /\ ResultGood(m.from, q)'
    BY <1>3, <1>4, <2>1, ErrorsClaimNothing
  <2> QED BY <1>2, <1>3, <1>5, <2>1, <2>2, AnswerMoves DEF Moves
<1>6. ASSUME NEW s \in PreparedFor(m),
             Answered(m, [p EXCEPT !.op = "plan-receipt", !.sid = s])
      PROVE  Moves
  <2>1. PICK q : q = [p EXCEPT !.op = "plan-receipt", !.sid = s]
    OBVIOUS
  <2>2. ASSUME Awaited(m)
        PROVE  /\ q \in Progress /\ q.issued = p.issued
               /\ p.sid = 0 /\ made'[q.sid] # NotMade /\ made'[q.sid].for = m.from
               /\ PlaceGood(m.from, q)' /\ ResultGood(m.from, q)'
    <3>1. p \in Progress /\ p.sid = 0 /\ p.file = 0
      BY <1>1, <1>3, <2>2, AwaitedPlace DEF PlaceGood
    <3>2. q = [op |-> "plan-receipt", sid |-> s, file |-> p.file, offset |-> p.offset,
               issued |-> p.issued, fault |-> p.fault]
      BY <2>1, <3>1 DEF Progress
    <3>3. s \in Sids /\ LiveSessions[s].live /\ LiveSessions[s].ticket = m.from
      BY DEF PreparedFor
    <3>4. sessions[s].live /\ sessions[s].ticket = m.from
      BY <3>3, LiveSession DEF IInv
    <3>5. made[s] # NotMade /\ made[s].for = m.from
      BY <3>3, <3>4 DEF IInv, SessionsGood, Made
    <3>6. "plan-receipt" \in Stages
      BY DEF Stages, Ops
    <3>7. /\ q \in Progress /\ q.issued = p.issued /\ q.sid = s
          /\ q.op = "plan-receipt" /\ q.file = 0
      BY <3>1, <3>2, <3>3, <3>6 DEF Progress
    <3> QED BY <1>2, <3>1, <3>3, <3>5, <3>7 DEF PlaceGood, ResultGood
  <2> QED BY <1>2, <1>3, <1>6, <2>1, <2>2, AnswerMoves DEF Moves
<1>7. Answered(m, Fails(p))
      \/ \E s \in PreparedFor(m) : Answered(m, [p EXCEPT !.op = "plan-receipt", !.sid = s])
  BY <1>3 DEF ServePreparationStatus
<1> QED BY <1>5, <1>6, <1>7

LEMMA PlanServed == ASSUME IInv, NEW m \in calls, ServePlan(m) PROVE Moves
<1>1. ReceivePlan(m) /\ m.op = "plan-receipt"
  BY DEF ServePlan, Arrives
<1>2. UNCHANGED <<now, journal, made, closed>>
  BY <1>1 DEF ReceivePlan
<1>3. RunnerMoves /\ TablesMove /\ JournalMove
  BY <1>1, <1>2, PlanMoves, TakenTables, StillJournal DEF IInv
<1>4. PICK p : p = transfer[m.from]
  OBVIOUS
<1>5. PICK q : /\ Answered(m, q)
               /\ q = IF PlanAccepted(m) THEN NextChunk(m.from, p) ELSE Abandons(p)
  BY <1>4 DEF ServePlan
<1> DEFINE Good == /\ q \in Progress /\ q.issued = p.issued /\ q.sid = p.sid
                   /\ PlaceGood(m.from, q)' /\ ResultGood(m.from, q)'
<1>6. ASSUME Awaited(m) PROVE p.file = 0 /\ p.sid \in Sids /\ m.from \in Transfers
  BY <1>1, <1>4, <1>6, AwaitedPlace DEF PlaceGood, Ops
<1>7. ASSUME Awaited(m), PlanAccepted(m) PROVE Good
  <2>1. Finds(m)
    BY <1>7 DEF PlanAccepted
  <2>2. ASSUME Len(Chunks[m.from]) = 0, sessions'[m.sid].live
        PROVE  AllVerified(sessions'[m.sid], m.from)
    <3> DEFINE x == sessions'[m.sid]
    <3>1. m.sid \in Sids /\ sessions[m.sid].ticket = m.from
      BY <2>1, CallOwns, FindsMeans DEF IInv
    <3>2. Planned(m.sid)
      BY <1>1, <1>7, PlanMoves DEF IInv
    <3>3. x.plan /\ x.ticket = m.from
      BY <3>1, <3>2 DEF Planned, Continues
    <3>4. SessionGood(x)
      BY <1>3, <3>1, MovesSessions DEF IInv, SessionsGood, SessionGood
    <3> HIDE DEF x
    <3>5. AllVerified(x, x.ticket)
      BY <2>2, <3>3, <3>4, NoFiles DEF x
    <3> QED BY <3>3, <3>5 DEF x
  <2>3. closed' = closed
    BY <1>2
  <2> QED BY <1>3, <1>4, <1>5, <1>6, <1>7, <2>1, <2>2, <2>3, NextGood
<1>8. ASSUME Awaited(m), ~ PlanAccepted(m) PROVE Good
  BY <1>4, <1>5, <1>6, <1>8, ErrorsClaimNothing
<1>9. Awaited(m) => /\ q \in Progress /\ q.issued = p.issued /\ q.sid = p.sid
                    /\ PlaceGood(m.from, q)' /\ ResultGood(m.from, q)'
  BY <1>7, <1>8
<1> QED BY <1>3, <1>4, <1>5, <1>9, AnswerMoves DEF Moves

LEMMA PlanProofServed == ASSUME IInv, NEW m \in calls, ServePlanProof(m) PROVE Moves
<1>1. ReadStatus /\ m.op = "plan-proof"
  BY DEF ServePlanProof, Arrives
<1>2. closed' = closed /\ sessions' = LiveSessions
  BY <1>1 DEF ReadStatus, Prune
<1>3. RunnerMoves /\ TablesMove /\ JournalMove
  BY <1>1, ReadMoves
<1>4. PICK p : p = transfer[m.from]
  OBVIOUS
<1>5. PICK q : /\ Answered(m, q)
               /\ q = IF PlanProven(m) THEN NextChunk(m.from, p) ELSE Abandons(p)
  BY <1>4 DEF ServePlanProof
<1> DEFINE Good == /\ q \in Progress /\ q.issued = p.issued /\ q.sid = p.sid
                   /\ PlaceGood(m.from, q)' /\ ResultGood(m.from, q)'
<1>6. ASSUME Awaited(m) PROVE p.file = 0 /\ p.sid \in Sids /\ m.from \in Transfers
  BY <1>1, <1>4, <1>6, AwaitedPlace DEF PlaceGood, Ops
<1>7. ASSUME Awaited(m), PlanProven(m) PROVE Good
  <2>1. Finds(m) /\ LiveSessions[m.sid].plan /\ VerifiedFiles(LiveSessions[m.sid]) = 0
    BY <1>7 DEF PlanProven
  <2>2. ASSUME Len(Chunks[m.from]) = 0 PROVE AllVerified(sessions'[m.sid], m.from)
    BY <1>2, <2>1, <2>2 DEF AllVerified
  <2> QED BY <1>2, <1>3, <1>4, <1>5, <1>6, <1>7, <2>1, <2>2, NextGood
<1>8. ASSUME Awaited(m), ~ PlanProven(m) PROVE Good
  BY <1>4, <1>5, <1>6, <1>8, ErrorsClaimNothing
<1>9. Awaited(m) => /\ q \in Progress /\ q.issued = p.issued /\ q.sid = p.sid
                    /\ PlaceGood(m.from, q)' /\ ResultGood(m.from, q)'
  BY <1>7, <1>8
<1> QED BY <1>3, <1>4, <1>5, <1>9, AnswerMoves DEF Moves

\* What the sender of a chunk does with the report of its file.
LEMMA ReportedGood ==
    ASSUME IInv, RunnerMoves, closed' = closed, NEW m \in calls, Awaited(m),
           m.op \in {"file-chunk", "chunk-proof"},
           NEW p, p = transfer[m.from], NEW q,
           \/ q = Abandons(p)
           \/ /\ q = NextChunk(m.from, p)
              /\ Finds(m) /\ ReportMatches(m.from, p, FileReport(m))
    PROVE  /\ q \in Progress /\ q.issued = p.issued /\ q.sid = p.sid
           /\ PlaceGood(m.from, q)' /\ ResultGood(m.from, q)'
<1>1. /\ p.file \in 1..Len(Chunks[m.from]) /\ p.offset \in 1..Chunks[m.from][p.file]
      /\ p.sid \in Sids /\ m.from \in Transfers
  BY AwaitedPlace DEF PlaceGood, Ops
<1>2. CASE q = Abandons(p)
  BY <1>1, <1>2, ErrorsClaimNothing
<1>3. CASE /\ q = NextChunk(m.from, p)
           /\ Finds(m) /\ ReportMatches(m.from, p, FileReport(m))
  <2> DEFINE all == AllVerified(sessions'[m.sid], m.from)
  <2>1. FileReport(m).all = all
    BY DEF FileReport
  <2>2. FileReport(m).all <=> (/\ p.offset = Chunks[m.from][p.file]
                               /\ p.file = Len(Chunks[m.from]))
    BY <1>3 DEF ReportMatches
  <2>3. p.file # 0
    BY <1>1, Bounds
  <2>4. (/\ p.file = Len(Chunks[m.from])
         /\ p.file # 0 => p.offset = Chunks[m.from][p.file]) => all
    BY <2>1, <2>2, <2>3
  <2> QED BY <1>1, <1>3, <2>4, NextGood
<1> QED BY <1>2, <1>3

LEMMA ChunkServed == ASSUME IInv, NEW m \in calls, ServeChunk(m) PROVE Moves
<1>1. ReceiveFileChunk(m) /\ m.op = "file-chunk"
  BY DEF ServeChunk, Arrives
<1>2. UNCHANGED <<now, journal, made, closed>>
  BY <1>1 DEF ReceiveFileChunk
<1>3. RunnerMoves /\ TablesMove /\ JournalMove
  BY <1>1, <1>2, ChunkMoves, TakenTables, StillJournal DEF IInv
<1>4. PICK p : p = transfer[m.from]
  OBVIOUS
<1>5. PICK q : /\ Answered(m, q)
               /\ q = IF ChunkTaken(m) /\ ReportMatches(m.from, p, FileReport(m))
                      THEN NextChunk(m.from, p) ELSE Abandons(p)
  BY <1>4 DEF ServeChunk
<1>6. ChunkTaken(m) => Finds(m)
  BY DEF ChunkTaken
<1>7. closed' = closed
  BY <1>2
<1>8. Awaited(m) => /\ q \in Progress /\ q.issued = p.issued /\ q.sid = p.sid
                    /\ PlaceGood(m.from, q)' /\ ResultGood(m.from, q)'
  BY <1>1, <1>3, <1>4, <1>5, <1>6, <1>7, ReportedGood
<1> QED BY <1>3, <1>4, <1>5, <1>8, AnswerMoves DEF Moves

LEMMA ChunkProofServed == ASSUME IInv, NEW m \in calls, ServeChunkProof(m) PROVE Moves
<1>1. ReadStatus /\ m.op = "chunk-proof"
  BY DEF ServeChunkProof, Arrives
<1>2. closed' = closed
  BY <1>1 DEF ReadStatus
<1>3. RunnerMoves /\ TablesMove /\ JournalMove
  BY <1>1, ReadMoves
<1>4. PICK p : p = transfer[m.from]
  OBVIOUS
<1>5. PICK q : /\ Answered(m, q)
               /\ q = IF FileShown(m) /\ ReportMatches(m.from, p, FileReport(m))
                      THEN NextChunk(m.from, p) ELSE Abandons(p)
  BY <1>4 DEF ServeChunkProof
<1>6. FileShown(m) => Finds(m)
  BY DEF FileShown
<1>8. Awaited(m) => /\ q \in Progress /\ q.issued = p.issued /\ q.sid = p.sid
                    /\ PlaceGood(m.from, q)' /\ ResultGood(m.from, q)'
  BY <1>1, <1>2, <1>3, <1>4, <1>5, <1>6, ReportedGood
<1> QED BY <1>3, <1>4, <1>5, <1>8, AnswerMoves DEF Moves

LEMMA ReleaseServed == ASSUME IInv, NEW m \in calls, ServeRelease(m) PROVE Moves
<1>1. ReleaseSession(m) /\ m.op = "release"
  BY DEF ServeRelease, Arrives
<1>2. UNCHANGED <<now, journal, made>>
  BY <1>1 DEF ReleaseSession
<1>3. RunnerMoves /\ TablesMove /\ JournalMove
  BY <1>1, <1>2, ReleaseMoves, ReleaseTables, StillJournal DEF IInv
<1>4. PICK p : p = transfer[m.from]
  OBVIOUS
<1>5. PICK q : Answered(m, q) /\ q = IF Finds(m) THEN Released(p) ELSE Fails(p)
  BY <1>4 DEF ServeRelease
<1> DEFINE Good == /\ q \in Progress /\ q.issued = p.issued /\ q.sid = p.sid
                   /\ PlaceGood(m.from, q)' /\ ResultGood(m.from, q)'
<1>6. ASSUME Awaited(m), Finds(m) PROVE Good
  <2>1. m.sid \in Sids /\ sessions[m.sid].ticket = m.from
    BY <1>6, FindsMeans, CallOwns DEF IInv
  <2>2. Closes(m.sid) /\ closed'[m.sid].own = m.own
    BY <1>1, <1>6, ReleaseMoves DEF IInv
  <2>3. closed'[m.sid] # NotClosed /\ closed'[m.sid].by = m.from
    BY <2>1, <2>2, MarksDiffer DEF Closes
  <2>4. m.own
    BY <1>6, AwaitedPlace
  <2>5. closed'[m.sid].own
    BY <2>2, <2>4
  <2> QED BY <1>1, <1>3, <1>4, <1>5, <1>6, <2>1, <2>3, <2>5, ReleasedGood
<1>7. ASSUME ~ Finds(m) PROVE Good
  <2>1. m.from \in Transfers
    BY DEF IInv, TypeOK, CallRecord
  <2> QED BY <1>4, <1>5, <1>7, <2>1, ErrorsClaimNothing
<1>8. Awaited(m) => /\ q \in Progress /\ q.issued = p.issued /\ q.sid = p.sid
                    /\ PlaceGood(m.from, q)' /\ ResultGood(m.from, q)'
  BY <1>6, <1>7
<1> QED BY <1>3, <1>4, <1>5, <1>8, AnswerMoves DEF Moves

LEMMA ReleaseStatusServed == ASSUME IInv, NEW m \in calls, ServeReleaseStatus(m) PROVE Moves
<1>1. ReadStatus /\ m.op = "release-status"
  BY DEF ServeReleaseStatus, Arrives
<1>2. closed' = closed
  BY <1>1 DEF ReadStatus
<1>3. RunnerMoves /\ TablesMove /\ JournalMove
  BY <1>1, ReadMoves
<1>4. PICK p : p = transfer[m.from]
  OBVIOUS
<1>5. PICK q : Answered(m, q) /\ q = IF ReleaseProven(m) THEN Released(p) ELSE Fails(p)
  BY <1>4 DEF ServeReleaseStatus
<1> DEFINE Good == /\ q \in Progress /\ q.issued = p.issued /\ q.sid = p.sid
                   /\ PlaceGood(m.from, q)' /\ ResultGood(m.from, q)'
<1>6. ASSUME Awaited(m), ReleaseProven(m) PROVE Good
  <2>1. PICK r \in receipts : r.sid = m.sid /\ r.for = m.from /\ r.own
    BY <1>6 DEF ReleaseProven, LiveReceipts
  <2>2. m.sid \in Sids
    BY <2>1 DEF IInv, TypeOK
  <2>3. closed[m.sid] # NotClosed /\ closed[m.sid].by = m.from /\ closed[m.sid].own
    BY <2>1 DEF IInv, ReleasesGood, IsClosed
  <2> QED BY <1>1, <1>2, <1>3, <1>4, <1>5, <1>6, <2>2, <2>3, ReleasedGood
<1>7. ASSUME ~ ReleaseProven(m) PROVE Good
  <2>1. m.from \in Transfers
    BY DEF IInv, TypeOK, CallRecord
  <2> QED BY <1>4, <1>5, <1>7, <2>1, ErrorsClaimNothing
<1>8. Awaited(m) => /\ q \in Progress /\ q.issued = p.issued /\ q.sid = p.sid
                    /\ PlaceGood(m.from, q)' /\ ResultGood(m.from, q)'
  BY <1>6, <1>7
<1> QED BY <1>3, <1>4, <1>5, <1>8, AnswerMoves DEF Moves

-----------------------------------------------------------------------------

LEMMA InitGood == ASSUME Init PROVE IInv
<1> USE Bounds
<1>1. /\ now = 1 /\ sessions = [s \in Sids |-> NoSession]
      /\ tickets = [t \in Transfers |-> 0] /\ journal = [t \in Transfers |-> 0]
      /\ receipts = {} /\ admitted = {}
      /\ made = [s \in Sids |-> NotMade] /\ closed = [s \in Sids |-> NotClosed]
      /\ transfer = [t \in Transfers |-> Idle] /\ calls = {} /\ budget \in Budgets
  BY DEF Init, RunnerInit
<1>2. Idle.op = "idle" /\ Idle.sid = 0 /\ Idle \in Progress
  BY DEF Idle, Progress, Stages
<1>3. "idle" \notin Ops \union Ended
  BY DEF Ops, Ended
<1>4. TypeOK
  <2>1. IsFiniteSet({}) /\ Cardinality({}) = 0
    BY FS_EmptySet
  <2>2. transfer \in [Transfers -> Progress]
    BY <1>1, <1>2
  <2>3. budget \in Budget
    BY <1>1 DEF Budget
  <2> QED BY <1>1, <2>1, <2>2, <2>3 DEF TypeOK, Progress, Budget
<1>5. IsFiniteSet(receipts)
  BY <1>1, FS_EmptySet
<1>6. AdmittedGood /\ Unstarted /\ Journalled /\ OwnSessions /\ ReleasesGood /\ TicketUsedOnce
  <2>1. budget.start \subseteq Transfers
    BY <1>1
  <2> QED BY <1>1, <1>2, <2>1 DEF AdmittedGood, Unstarted, Journalled, OwnSessions, ReleasesGood,
                          TicketUsedOnce, Made, IsClosed
<1>7. SessionsGood
  BY <1>1, MarksDiffer DEF SessionsGood, SessionGood
<1>8. ProgressGood /\ SuccessMeansVerified
  BY <1>1, <1>2, <1>3 DEF ProgressGood, PlaceGood, SuccessMeansVerified, Ops, Ended
<1> QED BY <1>4, <1>5, <1>6, <1>7, <1>8 DEF IInv

LEMMA NextKeeps == ASSUME IInv, Next PROVE IInv'
<1>1. ASSUME NEW m \in calls, Serve(m) PROVE Moves
  <2>1. CASE \E s \in Sids : ServePrepare(m, s)
    BY <2>1, ServePrepareMoves
  <2>2. CASE AdmitPrepare(m) \/ RejectPrepare(m) \/ ServePreparationStatus(m)
    BY <2>2, AdmitMoves, RejectMoves, PreparationStatusMoves
  <2>3. CASE ServePlan(m) \/ ServePlanProof(m) \/ ServeChunk(m) \/ ServeChunkProof(m)
    BY <2>3, PlanServed, PlanProofServed, ChunkServed, ChunkProofServed
  <2>4. CASE ServeRelease(m) \/ ServeReleaseStatus(m)
    BY <2>4, ReleaseServed, ReleaseStatusServed
  <2> QED BY <1>1, <2>1, <2>2, <2>3, <2>4 DEF Serve
<1>2. ASSUME NEW t \in Transfers,
             \/ Start(t) \/ GiveUp(t)
             \/ RepeatPrepare(t) \/ OtherRelease(t)
             \/ \E f \in DOMAIN Chunks[t] : OtherChunk(t, f)
      PROVE  Moves
  BY <1>2, StartMoves, GiveUpMoves, OtherCallMoves
<1>3. CASE RestartRunner \/ TimePasses
  BY <1>3, RestartRunnerMoves, TimePassesMoves, MovesKeep
<1> QED BY <1>1, <1>2, <1>3, MovesKeep DEF Next

LEMMA StutterKeeps == ASSUME IInv, UNCHANGED vars PROVE IInv'
<1>1. UNCHANGED runnerVars /\ transfer' = transfer /\ calls' = calls /\ budget' = budget
  BY DEF vars
<1>2. RunnerMoves /\ TablesMove /\ JournalMove
  BY <1>1, StillMoves, StillTables, StillJournal DEF runnerVars, memory, IInv
<1>3. budget' \in Budget /\ budget'.start = budget.start
  BY <1>1 DEF IInv, TypeOK, Budget
<1> QED BY <1>1, <1>2, <1>3, WaitMoves, MovesKeep DEF Moves

LEMMA Invariance == Spec => []IInv
<1>1. Init => IInv
  BY InitGood
<1>2. IInv /\ [Next]_vars => IInv'
  BY NextKeeps, StutterKeeps
<1> QED BY <1>1, <1>2, PTL DEF Spec

\* Runner and broker keep their tables to their types, the receipts to their number.
THEOREM TypeCorrect == Spec => []TypeOK
<1>1. IInv => TypeOK
  BY DEF IInv
<1> QED BY <1>1, Invariance, PTL

\* A ticket in force makes one session, after restarts and repeats too: either the
\* journal has its row, or it has expired.
THEOREM OneSessionPerTicket == Spec => []TicketUsedOnce
<1>1. IInv => TicketUsedOnce
  BY DEF IInv
<1> QED BY <1>1, Invariance, PTL

\* A session is worked on by the transfer it was made for and by no other.
THEOREM NoSharing == Spec => []SessionsNotShared
<1>1. IInv => SessionsNotShared
  BY DEF IInv, OwnSessions, SessionsNotShared
<1> QED BY <1>1, Invariance, PTL

\* A transfer that reports success released its own session with every file
\* verified, whatever answers were lost and whoever else called the runner.
THEOREM SuccessIsProven == Spec => []SuccessMeansVerified
<1>1. IInv => SuccessMeansVerified
  BY DEF IInv
<1> QED BY <1>1, Invariance, PTL
=============================================================================
