----------------------------- MODULE StrixRunner -----------------------------
(***************************************************************************)
(* The inert session service of the Strix runner (strix_runner_rpc.py):    *)
(* sessions prepared from one-use manifest tickets, plan and file          *)
(* verification, release receipts, and the durable journal of consumed     *)
(* tickets.  Sessions, tickets in memory and receipts die with the         *)
(* process; the journal survives it.                                       *)
(*                                                                         *)
(* A call is a record with the fields                                      *)
(*   from     the transfer whose ticket or session the call names          *)
(*   own      TRUE when the broker sent it, FALSE for another caller       *)
(*            that holds the transport key                                 *)
(*   op       the operation                                                *)
(*   sid      the session it names, 0 for the calls that name none         *)
(*   file, offset   the file and chunk it carries, 0 where it has none     *)
(*   sent     the time in the call's signature                             *)
(* File contents are abstracted to chunks that are the manifest's (TRUE)   *)
(* or something else (FALSE); a digest is then the sequence of them.       *)
(* contract_hash and manifest_digest are one value, Identity[t].           *)
(***************************************************************************)
EXTENDS Integers, Sequences, FiniteSets

CONSTANTS
    Transfers,      \* calls of verify_inert_manifest_files
    Identity,       \* [Transfers -> what the transfer's ticket is signed for]
    Chunks,         \* [Transfers -> Seq(Nat \ {0})]: chunks of each file of the plan
    Sids,           \* session numbers, 1..n: bounds the sessions ever made
    TicketTTL,      \* STRIX_RUNNER_MANIFEST_TICKET_TTL_SECONDS (120)
    SessionTTL,     \* RUNNER_RPC_PREPARED_SESSION_TTL_SECONDS (900)
    AuthWindow,     \* RUNNER_RPC_AUTH_WINDOW_SECONDS (30)
    MaxSessions,    \* RUNNER_RPC_MAX_PREPARED_SESSIONS (128)
    MaxTickets,     \* RUNNER_RPC_MAX_PREPARATION_TICKETS (1024)
    MaxReceipts     \* RUNNER_RPC_MAX_RELEASE_RECEIPTS (1024)

ASSUME RunnerAssumption ==
    /\ Sids \subseteq Nat \ {0} /\ IsFiniteSet(Sids)
    /\ {TicketTTL, SessionTTL, AuthWindow, MaxSessions, MaxTickets, MaxReceipts}
         \subseteq Nat \ {0}
    /\ DOMAIN Identity = Transfers
    /\ Chunks \in [Transfers -> Seq(Nat \ {0})]

VARIABLES
    now,            \* the clocks of broker and runner, in ticks
    sessions,       \* [Sids -> session or NoSession]: _prepared_sessions
    tickets,        \* [Transfers -> expiry, 0 for none]: _preparation_tickets
    journal,        \* [Transfers -> expires_at, 0 for none]: consumed_tickets
    receipts,       \* the release receipts, numbered by turn: _released_sessions
    admitted,       \* prepare calls whose ticket verified, waiting for the lock
    made,           \* history: [Sids -> the transfer and time it was made for]
    closed          \* history: [Sids -> who released it and what was verified]

runnerVars == <<now, sessions, tickets, journal, receipts, admitted, made, closed>>
memory == <<sessions, tickets, receipts>>

NoSession == [live |-> FALSE]
NotMade == [for |-> "none"]
NotClosed == [by |-> "none"]

(* What has been received of one file: _InertFileProof. *)
EmptyProof == [got |-> <<>>, state |-> "open"]

Session(t, s) ==
    [live |-> TRUE, ticket |-> t, identity |-> Identity[t],
     expires |-> now + SessionTTL, plan |-> FALSE, proofs |-> <<>>]

(* The digest of a prefix of a file is that of the manifest's own bytes. *)
Genuine(got) == \A i \in DOMAIN got : got[i]

VerifiedFiles(session) ==
    Cardinality({f \in DOMAIN session.proofs : session.proofs[f].state = "verified"})

AllVerified(session, t) ==
    session.plan /\ VerifiedFiles(session) = Len(Chunks[t])

----------------------------------------------------------------------------
(* Every call first drops what has expired, under _prepared_lock. *)
LiveSessions ==
    [s \in Sids |-> IF sessions[s].live /\ now >= sessions[s].expires
                    THEN NoSession ELSE sessions[s]]

LiveTickets == [t \in Transfers |-> IF now >= tickets[t] THEN 0 ELSE tickets[t]]

LiveReceipts == {r \in receipts : now < r.expires}

Prune ==
    /\ sessions' = LiveSessions
    /\ tickets' = LiveTickets
    /\ receipts' = LiveReceipts

(* The session a call names, if it is live and signed for the same thing. *)
Finds(m) ==
    /\ m.sid \in Sids
    /\ LiveSessions[m.sid].live
    /\ LiveSessions[m.sid].identity = Identity[m.from]

(* The window of the call's signed timestamp. *)
Fresh(m) == now - m.sent <= AuthWindow

TicketExpiry(issued) == issued + TicketTTL

(* The ticket's signature, claims and interval hold at this time. *)
TicketValid(issued) == now < TicketExpiry(issued)

----------------------------------------------------------------------------
(* prepare, up to the lock: the ticket is verified with the time of the    *)
(* verification; the thread may then wait for _prepared_lock.              *)
VerifyTicket(m, issued) ==
    /\ TicketValid(issued)
    /\ admitted' = admitted \union {m}
    /\ UNCHANGED <<now, memory, journal, made, closed>>

Held(table) == Cardinality({t \in Transfers : table[t] # 0})

(* consume deletes the rows that have expired before it looks for the row. *)
LiveJournal == [t \in Transfers |-> IF journal[t] <= now THEN 0 ELSE journal[t]]

(* The checks of prepare that come before the journal is touched. *)
MemoryAdmits(t) ==
    /\ LiveTickets[t] = 0
    /\ Cardinality({s \in Sids : LiveSessions[s].live}) < MaxSessions
    /\ Held(LiveTickets) < MaxTickets

\* Mutant: the row of the ticket is not looked for.
X_JournalAdmits(t) == Held(LiveJournal) < MaxTickets

JournalAdmits(t) == LiveJournal[t] = 0 /\ Held(LiveJournal) < MaxTickets

Prepares(t) == MemoryAdmits(t) /\ JournalAdmits(t)

(* The transaction: the expired rows go whatever its outcome is. *)
Consume(t, issued) ==
    journal' = [LiveJournal EXCEPT
                  ![t] = IF JournalAdmits(t) THEN TicketExpiry(issued) ELSE @]

(* prepare, under the lock.  The new session id is random; sessions are    *)
(* numbered here in the order they are made.                               *)
PrepareSession(m, s, issued) ==
    LET t == m.from IN
    /\ m \in admitted
    /\ admitted' = admitted \ {m}
    /\ receipts' = LiveReceipts
    /\ IF MemoryAdmits(t) THEN Consume(t, issued) ELSE journal' = journal
    /\ IF Prepares(t)
       THEN /\ made[s] = NotMade /\ \A r \in Sids : r < s => made[r] # NotMade
            /\ sessions' = [LiveSessions EXCEPT ![s] = Session(t, s)]
            /\ tickets' = [LiveTickets EXCEPT ![t] = now + SessionTTL]
            /\ made' = [made EXCEPT ![s] = [for |-> t, at |-> now]]
       ELSE /\ sessions' = LiveSessions
            /\ tickets' = LiveTickets
            /\ made' = made
    /\ UNCHANGED <<now, closed>>

\* Mutant: found by contract and manifest, not by the preparation request.
X_PreparedFor(m) ==
    {s \in Sids : LiveSessions[s].live /\ LiveSessions[s].identity = Identity[m.from]}

(* The session preparation-status returns: the one made for that request. *)
PreparedFor(m) ==
    {s \in Sids : /\ LiveSessions[s].live
                  /\ LiveSessions[s].ticket = m.from
                  /\ LiveSessions[s].identity = Identity[m.from]}

(* preparation-status, verification-status and release-status only read. *)
ReadStatus == Prune /\ UNCHANGED <<now, journal, admitted, made, closed>>

----------------------------------------------------------------------------
PlanAccepted(m) == Finds(m) /\ ~ LiveSessions[m.sid].plan

(* A plan whose bytes have the signed digest and counts lists exactly the  *)
(* files of the manifest: nothing of any of them is received yet.          *)
VerifiedPlan(t) == [f \in 1..Len(Chunks[t]) |-> EmptyProof]

(* plan-receipt: once per session. *)
ReceivePlan(m) ==
    /\ IF PlanAccepted(m)
       THEN /\ sessions' = [LiveSessions EXCEPT
                  ![m.sid].plan = TRUE,
                  ![m.sid].proofs = VerifiedPlan(m.from)]
            /\ tickets' = LiveTickets
            /\ receipts' = LiveReceipts
       ELSE Prune
    /\ UNCHANGED <<now, journal, admitted, made, closed>>

(* A chunk is taken at the offset the file has reached, while it is open. *)
ChunkTaken(m) ==
    /\ Finds(m)
    /\ LiveSessions[m.sid].plan
    /\ m.file \in DOMAIN LiveSessions[m.sid].proofs
    /\ LET proof == LiveSessions[m.sid].proofs[m.file] IN
         /\ proof.state = "open"
         /\ m.offset = Len(proof.got) + 1

(* The proof after chunk m: the last one settles the file by its digest. *)
AfterChunk(proof, m) ==
    LET got == Append(proof.got, m.own) IN
    [got |-> got,
     state |-> IF m.offset < Chunks[m.from][m.file] THEN "open"
               ELSE IF Genuine(got) THEN "verified" ELSE "failed"]

(* file-chunk: a digest mismatch answers 422 but the chunk was taken. *)
ReceiveFileChunk(m) ==
    /\ IF ChunkTaken(m)
       THEN /\ sessions' = [LiveSessions EXCEPT ![m.sid].proofs[m.file] = AfterChunk(@, m)]
            /\ tickets' = LiveTickets
            /\ receipts' = LiveReceipts
       ELSE Prune
    /\ UNCHANGED <<now, journal, admitted, made, closed>>

(* What verification-status and file-chunk tell of file f of session s. *)
FileReport(m) ==
    LET item == sessions'[m.sid] IN
    [got |-> item.proofs[m.file].got, state |-> item.proofs[m.file].state,
     count |-> VerifiedFiles(item), all |-> AllVerified(item, m.from)]

----------------------------------------------------------------------------
Oldest(rs) == CHOOSE r \in rs : \A q \in rs : r.turn <= q.turn

(* A full table of receipts drops its oldest one, never the release. *)
KeepReceipt(r) ==
    {r} \union IF Cardinality(LiveReceipts) >= MaxReceipts
               THEN LiveReceipts \ {Oldest(LiveReceipts)} ELSE LiveReceipts

\* The number of sessions released so far orders the receipts.
Turn == Cardinality({s \in Sids : closed[s] # NotClosed})

(* release *)
ReleaseSession(m) ==
    /\ IF Finds(m)
       THEN LET item == LiveSessions[m.sid] IN
            /\ sessions' = [LiveSessions EXCEPT ![m.sid] = NoSession]
            /\ receipts' = KeepReceipt([sid |-> m.sid, for |-> m.from, own |-> m.own,
                                        expires |-> item.expires, turn |-> Turn])
            /\ closed' = [closed EXCEPT ![m.sid] =
                            [by |-> m.from, own |-> m.own, all |-> AllVerified(item, m.from),
                             genuine |-> \A f \in DOMAIN item.proofs :
                                            Genuine(item.proofs[f].got)]]
            /\ tickets' = LiveTickets
       ELSE Prune /\ closed' = closed
    /\ UNCHANGED <<now, journal, admitted, made>>

(* release-status: the receipt of exactly the broker's own release. *)
ReleaseProven(m) ==
    \E r \in LiveReceipts : r.sid = m.sid /\ r.for = m.from /\ r.own

----------------------------------------------------------------------------
(* The process ends and starts again: calls in progress die with it. *)
Restart ==
    /\ sessions' = [s \in Sids |-> NoSession]
    /\ tickets' = [t \in Transfers |-> 0]
    /\ receipts' = {}
    /\ admitted' = {}
    /\ UNCHANGED <<now, journal, made, closed>>

Tick ==
    /\ now' = now + 1
    /\ UNCHANGED <<memory, journal, admitted, made, closed>>

RunnerInit ==
    /\ now = 1
    /\ sessions = [s \in Sids |-> NoSession]
    /\ tickets = [t \in Transfers |-> 0]
    /\ journal = [t \in Transfers |-> 0]
    /\ receipts = {}
    /\ admitted = {}
    /\ made = [s \in Sids |-> NotMade]
    /\ closed = [s \in Sids |-> NotClosed]
=============================================================================
