---------------------------- MODULE StrixTransfer ----------------------------
(***************************************************************************)
(* The broker's inert transfers (strix_broker_inert_transfer.py) composed  *)
(* with the runner of StrixRunner.tla over HTTP.  A transfer sends one     *)
(* call at a time and waits at most five seconds for its answer.           *)
(*                                                                         *)
(* calls holds the calls that are on their way.  A call that is served     *)
(* while its sender still waits for it is answered in the same step: the   *)
(* sender does nothing but send its next call.  A sender that gives up     *)
(* leaves its call in calls, so that the call is served later (its answer  *)
(* was lost, or it was late) or never (it was lost, or it is refused       *)
(* because its signature has left the window).                             *)
(***************************************************************************)
EXTENDS StrixRunner

CONSTANTS
    MaxNow,         \* bound: the clock stops there
    Budgets         \* bound: the transfers started and the faults of a behaviour

ASSUME TransferAssumption ==
    /\ MaxNow \in Nat
    /\ Budgets \subseteq [start : SUBSET Transfers, restarts : Nat, others : Nat]

VARIABLES
    transfer,       \* [Transfers -> the progress of the transfer]
    calls,          \* the calls on their way to the runner
    budget          \* transfers still to start, restarts and calls of others left

vars == <<runnerVars, transfer, calls, budget>>

Ops == {"prepare", "preparation-status", "plan-receipt", "plan-proof",
        "file-chunk", "chunk-proof", "release", "release-status"}
Reads == {"preparation-status", "plan-proof", "chunk-proof", "release-status"}
Ended == {"verified", "failed"}
Stages == Ops \union Ended \union {"idle"}

(* A transfer at rest or at work.  fault: an error is being raised, and    *)
(* only the release of the finally clause is still to be done.             *)
Idle == [op |-> "idle", sid |-> 0, file |-> 0, offset |-> 0, issued |-> 0, fault |-> FALSE]

Call(t, p) ==
    [from |-> t, own |-> TRUE, op |-> p.op, sid |-> p.sid,
     file |-> p.file, offset |-> p.offset, sent |-> now]

(* m is the call its sender waits for. *)
Awaited(m) ==
    LET p == transfer[m.from] IN
    /\ m.own
    /\ m.op = p.op
    /\ m.file = p.file
    /\ m.offset = p.offset

(* Transfer t goes on with progress p and sends the call it stands for. *)
Send(t, p, rest) ==
    /\ transfer' = [transfer EXCEPT ![t] = p]
    /\ calls' = IF p.op \in Ops THEN rest \union {Call(t, p)} ELSE rest

(* Call m is served and its sender is not waiting for it. *)
Unheard(m) == calls' = calls \ {m} /\ transfer' = transfer

----------------------------------------------------------------------------
(* What a transfer does next. *)
At(p, op) == [p EXCEPT !.op = op]
Fails(p) == At(p, "failed")
Abandons(p) == [p EXCEPT !.op = "release", !.file = 0, !.offset = 0, !.fault = TRUE]

NextChunk(t, p) ==
    IF p.file > 0 /\ p.offset < Chunks[t][p.file]
    THEN [p EXCEPT !.op = "file-chunk", !.offset = @ + 1]
    ELSE IF p.file < Len(Chunks[t])
    THEN [p EXCEPT !.op = "file-chunk", !.file = @ + 1, !.offset = 1]
    ELSE [p EXCEPT !.op = "release", !.file = 0, !.offset = 0]

(* The release is checked last; an earlier error is raised again after it. *)
Released(p) == At(p, IF p.fault THEN "failed" ELSE "verified")

\* Mutant: an offset is taken for a proof of what was received.
X_ReportMatches(t, p, report) == Len(report.got) = p.offset

(* The report of a file that has exactly the chunks sent so far. *)
ReportMatches(t, p, report) ==
    LET final == p.offset = Chunks[t][p.file] IN
    /\ Len(report.got) = p.offset
    /\ Genuine(report.got)
    /\ (report.state = "verified") <=> final
    /\ report.count = IF final THEN p.file ELSE p.file - 1
    /\ report.all <=> (final /\ p.file = Len(Chunks[t]))

(* The state of a plan whose receipt was lost: verified, and no file yet. *)
PlanProven(m) ==
    LET item == LiveSessions[m.sid] IN
    Finds(m) /\ item.plan /\ VerifiedFiles(item) = 0

(* verification-status answers for a file of a session with its plan. *)
FileShown(m) ==
    Finds(m) /\ LiveSessions[m.sid].plan /\ m.file \in DOMAIN LiveSessions[m.sid].proofs

----------------------------------------------------------------------------
(* verify_inert_manifest_files signs a ticket and sends prepare. *)
Start(t) ==
    /\ t \in budget.start
    /\ budget' = [budget EXCEPT !.start = @ \ {t}]
    /\ Send(t, [Idle EXCEPT !.op = "prepare", !.issued = now], calls)
    /\ UNCHANGED runnerVars

\* Mutant: no timeout on the proof of a release.
X_GiveUp(t) ==
    LET p == transfer[t] IN
    /\ p.op \in {"prepare", "plan-receipt", "file-chunk", "release"}
    /\ Send(t, CASE p.op = "prepare"      -> At(p, "preparation-status")
                 [] p.op = "plan-receipt" -> At(p, "plan-proof")
                 [] p.op = "file-chunk"   -> At(p, "chunk-proof")
                 [] p.op = "release"      -> At(p, "release-status"),
            calls)
    /\ UNCHANGED <<runnerVars, budget>>

(* The socket times out.  A change is never sent again: its outcome is     *)
(* read once, and a second silence is an error.                            *)
GiveUp(t) ==
    LET p == transfer[t] IN
    /\ p.op \in Ops
    /\ Send(t, CASE p.op = "prepare"      -> At(p, "preparation-status")
                 [] p.op = "plan-receipt" -> At(p, "plan-proof")
                 [] p.op = "file-chunk"   -> At(p, "chunk-proof")
                 [] p.op = "release"      -> At(p, "release-status")
                 [] p.op \in {"plan-proof", "chunk-proof"} -> Abandons(p)
                 [] p.op \in {"preparation-status", "release-status"} -> Fails(p),
            {m \in calls : m.op \in Reads => ~ Awaited(m)})
    /\ UNCHANGED <<runnerVars, budget>>

(* Call m goes to the runner in the window of its signature. *)
Arrives(m, op) == m \in calls /\ m.op = op /\ Fresh(m)

(* The answer to m reaches its sender, which goes on with progress p. *)
Answered(m, p) ==
    /\ IF Awaited(m) THEN Send(m.from, p, calls \ {m}) ELSE Unheard(m)
    /\ UNCHANGED budget

AdmitPrepare(m) ==
    /\ Arrives(m, "prepare")
    /\ m \notin admitted
    /\ VerifyTicket(m, transfer[m.from].issued)
    /\ UNCHANGED <<transfer, calls, budget>>

(* The ticket has expired when the call comes. *)
RejectPrepare(m) ==
    /\ Arrives(m, "prepare")
    /\ m \notin admitted
    /\ ~ TicketValid(transfer[m.from].issued)
    /\ Answered(m, Fails(transfer[m.from]))
    /\ UNCHANGED runnerVars

ServePrepare(m, s) ==
    LET p == transfer[m.from] IN
    /\ m \in calls
    /\ PrepareSession(m, s, p.issued)
    /\ Answered(m, IF Prepares(m.from)
                   THEN [p EXCEPT !.op = "plan-receipt", !.sid = s] ELSE Fails(p))

ServePreparationStatus(m) ==
    LET p == transfer[m.from] IN
    /\ Arrives(m, "preparation-status")
    /\ ReadStatus
    /\ \/ /\ PreparedFor(m) = {}
          /\ Answered(m, Fails(p))
       \/ \E s \in PreparedFor(m) :
            Answered(m, [p EXCEPT !.op = "plan-receipt", !.sid = s])

ServePlan(m) ==
    LET p == transfer[m.from] IN
    /\ Arrives(m, "plan-receipt")
    /\ ReceivePlan(m)
    /\ Answered(m, IF PlanAccepted(m) THEN NextChunk(m.from, p) ELSE Abandons(p))

ServePlanProof(m) ==
    LET p == transfer[m.from] IN
    /\ Arrives(m, "plan-proof")
    /\ ReadStatus
    /\ Answered(m, IF PlanProven(m) THEN NextChunk(m.from, p) ELSE Abandons(p))

ServeChunk(m) ==
    LET p == transfer[m.from] IN
    /\ Arrives(m, "file-chunk")
    /\ ReceiveFileChunk(m)
    /\ Answered(m, IF ChunkTaken(m) /\ ReportMatches(m.from, p, FileReport(m))
                   THEN NextChunk(m.from, p) ELSE Abandons(p))

ServeChunkProof(m) ==
    LET p == transfer[m.from] IN
    /\ Arrives(m, "chunk-proof")
    /\ ReadStatus
    /\ Answered(m, IF FileShown(m) /\ ReportMatches(m.from, p, FileReport(m))
                   THEN NextChunk(m.from, p) ELSE Abandons(p))

ServeRelease(m) ==
    LET p == transfer[m.from] IN
    /\ Arrives(m, "release")
    /\ ReleaseSession(m)
    /\ Answered(m, IF Finds(m) THEN Released(p) ELSE Fails(p))

ServeReleaseStatus(m) ==
    LET p == transfer[m.from] IN
    /\ Arrives(m, "release-status")
    /\ ReadStatus
    /\ Answered(m, IF ReleaseProven(m) THEN Released(p) ELSE Fails(p))

----------------------------------------------------------------------------
(* Another holder of the transport key repeats a prepare with its ticket,  *)
(* sends other bytes for a file, or releases the session, each under a     *)
(* request id and a signature of its own.                                  *)
OtherCall(t, m) ==
    /\ budget.others > 0
    /\ budget' = [budget EXCEPT !.others = @ - 1]
    /\ calls' = calls \union {m}
    /\ UNCHANGED <<runnerVars, transfer>>

Foreign(t, op, file, offset) ==
    [from |-> t, own |-> FALSE, op |-> op, sid |-> IF op = "prepare" THEN 0 ELSE transfer[t].sid,
     file |-> file, offset |-> offset, sent |-> now]

RepeatPrepare(t) ==
    transfer[t].issued > 0 /\ OtherCall(t, Foreign(t, "prepare", 0, 0))

OtherChunk(t, f) ==
    /\ transfer[t].sid > 0
    /\ f \in DOMAIN Chunks[t]
    /\ \E offset \in 1..Chunks[t][f] : OtherCall(t, Foreign(t, "file-chunk", f, offset))

OtherRelease(t) ==
    transfer[t].sid > 0 /\ OtherCall(t, Foreign(t, "release", 0, 0))

RestartRunner ==
    /\ budget.restarts > 0
    /\ budget' = [budget EXCEPT !.restarts = @ - 1]
    /\ Restart
    /\ calls' = calls \ admitted
    /\ transfer' = transfer

TimePasses ==
    /\ now < MaxNow
    /\ Tick
    /\ calls' = {m \in calls : m \in admitted \/ now' - m.sent <= AuthWindow}
    /\ UNCHANGED <<transfer, budget>>

----------------------------------------------------------------------------
Init ==
    /\ RunnerInit
    /\ transfer = [t \in Transfers |-> Idle]
    /\ calls = {}
    /\ budget \in Budgets

Serve(m) ==
    \/ AdmitPrepare(m) \/ RejectPrepare(m) \/ \E s \in Sids : ServePrepare(m, s)
    \/ ServePreparationStatus(m)
    \/ ServePlan(m) \/ ServePlanProof(m)
    \/ ServeChunk(m) \/ ServeChunkProof(m)
    \/ ServeRelease(m) \/ ServeReleaseStatus(m)

Next ==
    \/ \E t \in Transfers :
         \/ Start(t) \/ GiveUp(t)
         \/ RepeatPrepare(t) \/ OtherRelease(t)
         \/ \E f \in DOMAIN Chunks[t] : OtherChunk(t, f)
    \/ \E m \in calls : Serve(m)
    \/ RestartRunner
    \/ TimePasses

Spec == Init /\ [][Next]_vars

(* The socket timeout of five seconds ends every wait. *)
Fairness == \A t \in Transfers : WF_vars(GiveUp(t))
FairSpec == Spec /\ Fairness

----------------------------------------------------------------------------
Proof == [got : Seq(BOOLEAN), state : {"open", "verified", "failed"}]
SessionRecord ==
    [live : {TRUE}, ticket : Transfers, identity : {Identity[t] : t \in Transfers},
     expires : Nat, plan : BOOLEAN, proofs : Seq(Proof)]
CallRecord ==
    [from : Transfers, own : BOOLEAN, op : Ops, sid : Sids \union {0},
     file : Nat, offset : Nat, sent : Nat]

TypeOK ==
    /\ now \in Nat
    /\ sessions \in [Sids -> SessionRecord \union {NoSession}]
    /\ tickets \in [Transfers -> Nat]
    /\ journal \in [Transfers -> Nat]
    /\ receipts \subseteq [sid : Sids, for : Transfers, own : BOOLEAN, expires : Nat,
                            turn : Nat]
    /\ Cardinality(receipts) <= MaxReceipts
    /\ admitted \subseteq CallRecord
    /\ made \in [Sids -> [for : Transfers, at : Nat] \union {NotMade}]
    /\ closed \in [Sids -> [by : Transfers, own : BOOLEAN, all : BOOLEAN, genuine : BOOLEAN]
                            \union {NotClosed}]
    /\ transfer \in [Transfers -> [op : Stages, sid : Sids \union {0}, file : Nat,
                                    offset : Nat, issued : Nat, fault : BOOLEAN]]
    /\ calls \subseteq CallRecord
    /\ budget \in [start : SUBSET Transfers, restarts : Nat, others : Nat]

(* While a ticket is unexpired it makes one session, whoever repeats its   *)
(* prepare and whenever: after a release, after a restart, or between the  *)
(* verification of the ticket and the lock.  The durable journal of        *)
(* _DurablePreparationReplay.consume is what is left after a restart.      *)
TicketUsedOnce ==
    \A r, s \in Sids :
        (/\ made[r] # NotMade /\ made[s] # NotMade
         /\ made[r].for = made[s].for
         /\ made[r].at < TicketExpiry(transfer[made[r].for].issued)
         /\ made[s].at < TicketExpiry(transfer[made[s].for].issued)) => r = s

(* A transfer reports success only if its session was released by its own  *)
(* release, and at that time every file of the plan had been verified from *)
(* the manifest's bytes: lost answers of verify_inert_manifest_files are   *)
(* made up for by what the runner proves, never by absence.                *)
SuccessMeansVerified ==
    \A t \in Transfers : transfer[t].op = "verified" =>
        /\ transfer[t].sid \in Sids
        /\ LET c == closed[transfer[t].sid] IN
           c # NotClosed /\ c.by = t /\ c.own /\ c.all /\ c.genuine

(* Two transfers never work on one session, although preparation-status    *)
(* looks it up among the sessions of all of them.                          *)
SessionsNotShared ==
    \A t, u \in Transfers :
        (transfer[t].sid # 0 /\ transfer[t].sid = transfer[u].sid) => t = u

(* Every transfer comes to an end, whatever is lost: each call is waited   *)
(* for five seconds and no change is sent twice.                           *)
EveryTransferEnds ==
    \A t \in Transfers : (transfer[t].op # "idle") ~> (transfer[t].op \in Ended)
=============================================================================
