--------------------------- MODULE IncidentObserver ---------------------------
(***************************************************************************)
(* The incident observers of a deployment, the lease row that elects one   *)
(* of them, the incident document, and the operators who acknowledge.      *)
(*                                                                         *)
(* An observer is a process with an owner name of its own and runs one     *)
(* pass at a time (run_scheduled_observation): elect, check, snapshot,     *)
(* then read and write the document, a bounded number of times, under a    *)
(* heartbeat thread that renews the lease; then it judges the pass and     *)
(* releases.  SQLite gives each of these an atomic transaction and nothing *)
(* more: the lease may expire, another observer may take it, an operator   *)
(* may write, and the process may die, between any two of them.            *)
(*                                                                         *)
(* Time is kept as what is left: of the lease, and of every cooldown.      *)
(***************************************************************************)
EXTENDS IncidentHistory

CONSTANTS
    Observers,     \* owner names, one per process
    Operators,     \* API clients that acknowledge incidents
    NoOwner,       \* the owner of a released lease
    Snapshots,     \* the health of all domains that a pass may find
    Ttl,           \* ticks a granted or renewed lease lasts
    Cooldown,      \* ticks an open circuit stays open
    Threshold,     \* consecutive failures that open the circuit
    Tries,         \* max_conflict_retries
    MaxVersion,    \* bound: nobody starts once the document is this new
    MaxGeneration  \* bound: the generations that are granted

ASSUME ObserverAssumption ==
    /\ NoOwner \notin Observers
    /\ Snapshots \subseteq Snapshot
    /\ Ttl \in Nat \ {0}
    /\ Cooldown \in Nat
    /\ Threshold \in Nat \ {0}
    /\ Tries \in Nat \ {0}
    /\ MaxVersion \in Nat
    /\ MaxGeneration \in Nat

VARIABLES
    lease,         \* the row of incident_observer_lease
    document,      \* the row of operational_incidents: history and version
    pass,          \* the pass that each observer is in
    beats,         \* the heartbeat threads of each process, by generation
    health,        \* ObserverHealth: failures in a row, cooldown left
    operator,      \* the request of each operator
    commits        \* history variable: how many passes have written

vars == <<lease, document, pass, beats, health, operator, commits>>

-----------------------------------------------------------------------------
(* The lease row.                                                          *)

Lease == [owner: Observers \cup {NoOwner}, left: 0..Ttl, generation: Nat]

Acquirable(o) == lease.owner \in {NoOwner, o} \/ lease.left = 0

\* A new owner, or an owner after a release, starts a new generation.
Acquired(o) ==
    [owner |-> o, left |-> Ttl,
     generation |-> IF lease.owner = o THEN lease.generation ELSE lease.generation + 1]

IsCurrent(o, g) == lease.owner = o /\ lease.generation = g /\ lease.left > 0

\* Mutant: a release that asks for nobody in particular.
Released_Anyone(o, g) == [owner |-> NoOwner, left |-> 0, generation |-> lease.generation]

Released(o, g) ==
    IF lease.owner = o /\ lease.generation = g
    THEN [owner |-> NoOwner, left |-> 0, generation |-> lease.generation]
    ELSE lease

-----------------------------------------------------------------------------
(* The state of a pass and of a request.                                   *)

AllHealthy == [d \in DOMAINS |-> NoPrint]

NoRead == [history |-> <<>>, version |-> 0]

NoPass ==
    [pc |-> "idle", generation |-> 0, snapshot |-> AllHealthy, read |-> NoRead,
     attempt |-> 0, commits |-> 0]

NoRequest ==
    [pc |-> "idle", domain |-> "workload", print |-> NoPrint, expected |-> 0,
     read |-> NoRead, shown |-> {}]

Document == [history: Seq(Incident), version: Nat]

Pass ==
    [pc: {"idle", "elected", "reading", "writing", "observed", "leaving"},
     generation: Nat, snapshot: Snapshot, read: Document, attempt: 0..(Tries - 1), commits: Nat]

Request ==
    [pc: {"idle", "reading", "writing"}, domain: DOMAINS, print: Prints \cup {NoPrint},
     expected: Nat, read: Document, shown: SUBSET Nat]

Health == [failures: 0..Threshold, cooldown: 0..Cooldown]

Healthy == [failures |-> 0, cooldown |-> 0]

TypeOK ==
    /\ lease \in Lease
    /\ document \in Document
    /\ pass \in [Observers -> Pass]
    /\ beats \in [Observers -> SUBSET Nat]
    /\ health \in [Observers -> Health]
    /\ operator \in [Operators -> Request]
    /\ commits \in Nat

Init ==
    /\ lease = [owner |-> NoOwner, left |-> 0, generation |-> 0]
    /\ document = [history |-> <<>>, version |-> 1]
    /\ pass = [o \in Observers |-> NoPass]
    /\ beats = [o \in Observers |-> {}]
    /\ health = [o \in Observers |-> Healthy]
    /\ operator = [c \in Operators |-> NoRequest]
    /\ commits = 0

Goto(o, pc) == pass' = [pass EXCEPT ![o].pc = pc]

\* The observation is over: only the generation is used from here on.
Over(p, pc) == [NoPass EXCEPT !.pc = pc, !.generation = p.generation]

-----------------------------------------------------------------------------
(* One scheduled pass.                                                     *)

\* A pass that finds its circuit open, or the lease taken, changes nothing.
Elect(o) ==
    /\ pass[o].pc = "idle" /\ document.version < MaxVersion
    /\ health[o].cooldown = 0
    /\ Acquirable(o) /\ Acquired(o).generation <= MaxGeneration
    /\ lease' = Acquired(o)
    /\ pass' = [pass EXCEPT ![o] =
                 [NoPass EXCEPT !.pc = "elected", !.generation = Acquired(o).generation]]
    /\ UNCHANGED <<document, beats, health, operator, commits>>

\* The leader starts its heartbeat thread and takes a snapshot of the health
\* of every domain, which no other actor of this module influences.
Observe(o, snap) ==
    /\ pass[o].pc = "elected" /\ IsCurrent(o, pass[o].generation)
    /\ pass' = [pass EXCEPT ![o].pc = "reading", ![o].snapshot = snap]
    /\ beats' = [beats EXCEPT ![o] = @ \cup {pass[o].generation}]
    /\ UNCHANGED <<lease, document, health, operator, commits>>

LoseLead(o) ==
    /\ pass[o].pc = "elected" /\ ~IsCurrent(o, pass[o].generation)
    /\ Goto(o, "leaving")
    /\ UNCHANGED <<lease, document, beats, health, operator, commits>>

Read(o) ==
    /\ pass[o].pc = "reading"
    /\ \/ /\ Unchanged(document.history, pass[o].snapshot)
          /\ pass' = [pass EXCEPT ![o] = Over(@, "observed")]
       \/ /\ ~Unchanged(document.history, pass[o].snapshot)
          /\ pass' = [pass EXCEPT ![o].pc = "writing", ![o].read = document,
                                  ![o].commits = commits]
    /\ UNCHANGED <<lease, document, beats, health, operator, commits>>

\* Mutant: a leader writes without asking whether it still leads.
FenceHolds_Unfenced(o) == TRUE

FenceHolds(o) == IsCurrent(o, pass[o].generation)

\* Mutant: the update does not compare the version it read.
VersionHolds_Blind(read) == TRUE

VersionHolds(read) == read.version = document.version

\* One transaction: the fence first, then the version.
Commit(o) ==
    /\ pass[o].pc = "writing"
    /\ FenceHolds(o) /\ VersionHolds(pass[o].read)
    /\ document' =
         [history |-> apply_domain_incidents(pass[o].read.history, pass[o].snapshot,
                                             document.version),
          version |-> document.version + 1]
    /\ commits' = commits + 1
    /\ pass' = [pass EXCEPT ![o] = Over(@, "observed")]
    /\ UNCHANGED <<lease, beats, health, operator>>

Conflict(o) ==
    /\ pass[o].pc = "writing"
    /\ FenceHolds(o) /\ ~VersionHolds(pass[o].read)
    /\ pass[o].attempt + 1 < Tries
    /\ pass' = [pass EXCEPT ![o].pc = "reading", ![o].read = NoRead, ![o].attempt = @ + 1]
    /\ UNCHANGED <<lease, document, beats, health, operator, commits>>

Failed(h) ==
    LET n == IF h.failures < Threshold THEN h.failures + 1 ELSE Threshold
    IN  [failures |-> n, cooldown |-> IF n = Threshold THEN Cooldown ELSE h.cooldown]

\* The observation raises: a stale fence, the last conflict, or an error of
\* SQLite or of a provider of metrics.
Raise(o) ==
    /\ pass[o].pc \in {"reading", "writing"}
    /\ pass' = [pass EXCEPT ![o] = Over(@, "leaving")]
    /\ health' = [health EXCEPT ![o] = Failed(@)]
    /\ UNCHANGED <<lease, document, beats, operator, commits>>

\* After the observation: too late, no longer the leader, or a success.
Overrun(o) ==
    /\ pass[o].pc = "observed"
    /\ Goto(o, "leaving")
    /\ health' = [health EXCEPT ![o] = Failed(@)]
    /\ UNCHANGED <<lease, document, beats, operator, commits>>

Judge(o) ==
    /\ pass[o].pc = "observed"
    /\ Goto(o, "leaving")
    /\ IF IsCurrent(o, pass[o].generation)
       THEN health' = [health EXCEPT ![o] = Healthy]
       ELSE UNCHANGED health
    /\ UNCHANGED <<lease, document, beats, operator, commits>>

Leave(o) ==
    /\ pass[o].pc = "leaving"
    /\ lease' = Released(o, pass[o].generation)
    /\ pass' = [pass EXCEPT ![o] = NoPass]
    /\ UNCHANGED <<document, beats, health, operator, commits>>

-----------------------------------------------------------------------------
(* The heartbeat threads, the clock and crashes.                           *)

UnderHeartbeat(o, g) ==
    pass[o].generation = g /\ pass[o].pc \in {"reading", "writing"}

\* A renewal that fails ends the thread; one that a stop request overtook is
\* its last.
Heartbeat(o, g) ==
    /\ g \in beats[o]
    /\ IF IsCurrent(o, g) THEN lease' = [lease EXCEPT !.left = Ttl] ELSE UNCHANGED lease
    /\ beats' = IF IsCurrent(o, g) /\ UnderHeartbeat(o, g)
                THEN beats ELSE [beats EXCEPT ![o] = @ \ {g}]
    /\ UNCHANGED <<document, pass, health, operator, commits>>

StopHeartbeat(o, g) ==
    /\ g \in beats[o] /\ ~UnderHeartbeat(o, g)
    /\ beats' = [beats EXCEPT ![o] = @ \ {g}]
    /\ UNCHANGED <<lease, document, pass, health, operator, commits>>

\* The process dies with its threads and its health; its lease stays.
Crash(o) ==
    /\ pass[o].pc # "idle"
    /\ pass' = [pass EXCEPT ![o] = NoPass]
    /\ beats' = [beats EXCEPT ![o] = {}]
    /\ health' = [health EXCEPT ![o] = Healthy]
    /\ UNCHANGED <<lease, document, operator, commits>>

Less(n) == IF n > 0 THEN n - 1 ELSE 0

Tick ==
    /\ lease' = [lease EXCEPT !.left = Less(@)]
    /\ health' = [o \in Observers |-> [health[o] EXCEPT !.cooldown = Less(@)]]
    /\ UNCHANGED <<document, pass, beats, operator, commits>>

-----------------------------------------------------------------------------
(* An operator looks at the incidents, later acknowledges one of them, and *)
(* is answered: acknowledged, not open, or a conflict.                     *)

Look(c, d, p) ==
    /\ operator[c].pc = "idle"
    /\ Open(document.history, d, p) # {}
    /\ operator' = [operator EXCEPT ![c] =
         [NoRequest EXCEPT !.pc = "reading", !.domain = d, !.print = p,
            !.expected = document.version,
            !.shown = {document.history[i].opened_at : i \in Open(document.history, d, p)}]]
    /\ UNCHANGED <<lease, document, pass, beats, health, commits>>

\* Mutant: the version that the operator was shown is not compared.
ExpectedHolds_Ignored(c) == TRUE

ExpectedHolds(c) == document.version = operator[c].expected

\* The request reads the document: a conflict or nothing to do ends it.
AckRead(c) ==
    /\ operator[c].pc = "reading"
    /\ operator' = [operator EXCEPT ![c] =
         IF /\ ExpectedHolds(c)
            /\ Open(document.history, @.domain, @.print) # {}
         THEN [@ EXCEPT !.pc = "writing", !.read = document]
         ELSE NoRequest]
    /\ UNCHANGED <<lease, document, pass, beats, health, commits>>

\* An unfenced write: only the version is compared.
AckWrite(c) ==
    /\ operator[c].pc = "writing"
    /\ IF VersionHolds(operator[c].read)
       THEN document' =
              [history |-> acknowledge_incident(operator[c].read.history,
                                                operator[c].domain, operator[c].print),
               version |-> document.version + 1]
       ELSE UNCHANGED document
    /\ operator' = [operator EXCEPT ![c] = NoRequest]
    /\ UNCHANGED <<lease, pass, beats, health, commits>>

-----------------------------------------------------------------------------

Scheduled(o) ==
    \/ Elect(o)
    \/ \E snap \in Snapshots : Observe(o, snap)
    \/ LoseLead(o)
    \/ Read(o)
    \/ Commit(o)
    \/ Conflict(o)
    \/ Raise(o)
    \/ Overrun(o)
    \/ Judge(o)
    \/ Leave(o)

Next ==
    \/ \E o \in Observers : Scheduled(o)
    \/ \E o \in Observers, g \in 1..MaxGeneration : Heartbeat(o, g) \/ StopHeartbeat(o, g)
    \/ \E o \in Observers : Crash(o)
    \/ Tick
    \/ \E c \in Operators, d \in DOMAINS, p \in Prints : Look(c, d, p)
    \/ \E c \in Operators : AckRead(c) \/ AckWrite(c)

Spec == Init /\ [][Next]_vars

-----------------------------------------------------------------------------
(* Properties.                                                             *)

\* A pass that would pass its fence has read every observation committed so
\* far: while a leader leads, only operators write behind its back, and those
\* conflicts are what its retries are for.
LeaderSeesAllObservations ==
    \A o \in Observers :
      (pass[o].pc = "writing" /\ IsCurrent(o, pass[o].generation))
        => pass[o].commits = commits

\* A live lease is given up by the pass that holds it, or kept: neither the
\* late release of an old leader nor an election takes it away.
LeaseEndsOnlyByHolder ==
    [][\A o \in Observers :
         (lease.owner = o /\ lease.left > 0 /\ lease'.owner # o)
           => pass[o].pc = "leaving" /\ pass[o].generation = lease.generation]_lease

\* Every domain has at most one active incident, whatever observers and
\* operators wrote in between.
OneActivePerDomain == OneActive(document.history)

\* No write undoes another: every incident only moves on, and leaves the
\* document only from its oldest end and only when it is full.
HistoryKept == [][MovesOn(document.history, document'.history)]_document

\* An incident is acknowledged only by an operator who was shown that very
\* incident open, not a later one with the same fingerprint.
AckedWasShown ==
    [][\A i \in DOMAIN document'.history :
         LET new == document'.history[i]
             Same(old) == old.domain = new.domain /\ old.opened_at = new.opened_at
         IN  (new.acked /\ \E j \in DOMAIN document.history :
                             Same(document.history[j]) /\ ~document.history[j].acked)
               => \E c \in Operators :
                    /\ operator[c].domain = new.domain /\ operator[c].print = new.print
                    /\ new.opened_at \in operator[c].shown]_document
=============================================================================
