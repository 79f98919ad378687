---------------------------- MODULE PlannerControl ----------------------------
(***************************************************************************)
(* The planner of one campaign and what keeps it in bounds: the lease that *)
(* lets one worker plan at a time (planner_lock.py), the planning itself   *)
(* (advance_campaign of orchestrator.py), the chain of its decisions       *)
(* (decision_audit.py), the circuit breaker (circuit_breaker.py) and the   *)
(* operator's reset of it (campaign_control.py).                           *)
(*                                                                         *)
(* Whoever plans reads the observation graph, enqueues jobs and then       *)
(* records its decision from the copy it read: nothing but the lease keeps *)
(* another planner from doing so in between.  POST /start plans without    *)
(* the lease, a SQLite deployment has none, and a lease may expire under   *)
(* its holder.                                                             *)
(***************************************************************************)
EXTENDS Naturals, Sequences, FiniteSets

CONSTANTS
    Workers,      \* campaign workers, which plan after a job under the lease
    Starters,     \* handlers of POST /start, which plan without it
    Operators,    \* handlers of POST /circuit-breaker/reset
    Engines,      \* scanners, one job each (strix, nuclei)
    MaxScans,     \* XBOW_PLANNER_MAX_SCANS
    MaxFacts,     \* how often the jobs of the campaign add to the graph
    Scenarios,    \* [redis, planners, plannings, resets, faults]: is there a
                  \* lease, who plans, how many plannings and resets there are,
                  \* and how much goes wrong
    Nobody        \* holds a lease that is free

Planners == Workers \cup Starters

ASSUME PlannerAssumption ==
    /\ Workers \cap Starters = {}
    /\ Nobody \notin Planners
    /\ IsFiniteSet(Engines) /\ "work" \notin Engines
    /\ MaxScans \in Nat \ {0} /\ MaxFacts \in Nat
    /\ \A s \in Scenarios : /\ s.redis \in BOOLEAN /\ s.planners \subseteq Planners
                            /\ s.plannings \in Nat /\ s.resets \in Nat /\ s.faults \in Nat

VARIABLES
    setup,        \* [redis, planners]: is the queue in Redis, with a planner
                  \* lease, and who plans?
    lock,         \* who holds it
    graph,        \* [decisions, breaker, facts]: the observations that matter
    jobs,         \* the dedupe keys of the jobs enqueued by planners
    planner,      \* every planner inside advance_campaign
    audit,        \* the campaign's events about resets of the breaker
    operator,     \* every operator's handler
    clock,        \* utcnow(), a number for every time stamp taken
    left,         \* [plannings, resets, faults] still to come
    lost,         \* history: planners whose lease expired in this planning
    overlapped    \* history: have two plannings overlapped?

vars == <<setup, lock, graph, jobs, planner, audit, operator, clock, left, lost, overlapped>>

-----------------------------------------------------------------------------
(* The graph.  Its fingerprint leaves the planner's decisions out.         *)

Fingerprint(g) == [facts |-> g.facts, breaker |-> g.breaker]

Works == {"scan", "work"}         \* decisions to go on: scan; crawl, validate, report
Stops == {"open", "unstable", "spent", "other"}     \* stops, by their reason

\* circuit_breaker_state: the event with the latest stamp is an opening.
OpenIn(b) ==
    \E e \in b : e.state = "open" /\ \A f \in b : f.state = "reset" => f.at < e.at

\* planner_stability_breaker_reason: in the order of the audit numbers a stop has
\* been followed by something else.
Before(ds, i, j) == ds[i].seq < ds[j].seq \/ (ds[i].seq = ds[j].seq /\ i < j)

Reopened(ds) ==
    \E i, j \in DOMAIN ds :
      Before(ds, i, j) /\ ds[i].id.what \in Stops /\ ds[j].id.what \in Works

\* Three oscillations take five decisions.
MayOscillate(ds) == Len(ds) >= 5

\* next_audit_link: a decision goes after one with the highest number.
IsLatest(ds, i) == \A j \in DOMAIN ds : ds[j].seq <= ds[i].seq

LinksTo(ds, S) ==
    IF ds = <<>> THEN {[seq |-> 1, prev |-> Nobody]}
    ELSE {[seq |-> ds[i].seq + 1, prev |-> ds[i].id] : i \in S}

\* Mutant: decisions are linked to the oldest one.
X_Links(ds) == LinksTo(ds, {1})

Links(ds) == LinksTo(ds, {i \in DOMAIN ds : IsLatest(ds, i)})

Scans(ks) == {k \in ks : k.kind \in Engines}

NoGraph == [decisions |-> <<>>, breaker |-> {}, facts |-> 0]

-----------------------------------------------------------------------------

Idle == [pc |-> "idle", copy |-> NoGraph, what |-> "work", plan |-> {}, trips |-> 0, at |-> 0]

NoReset == [pc |-> "idle", pending |-> 0, of |-> 0, at |-> 0]

Planning(p) == planner[p].pc \notin {"idle", "unlock"}

Init ==
    \E s \in Scenarios :
      /\ setup = [redis |-> s.redis, planners |-> s.planners]
      /\ left = [plannings |-> s.plannings, resets |-> s.resets, faults |-> s.faults]
      /\ lock = Nobody
      /\ graph = NoGraph /\ jobs = {}
      /\ planner = [p \in Planners |-> Idle]
      /\ operator = [o \in Operators |-> NoReset]
      /\ audit = <<>> /\ clock = 0
      /\ lost = {} /\ overlapped = FALSE

Fault == left.faults > 0 /\ left' = [left EXCEPT !.faults = @ - 1]

At(p, pc) == planner[p].pc = pc
Continue(p, local) == planner' = [planner EXCEPT ![p] = local]
Goto(p, pc) == Continue(p, [planner[p] EXCEPT !.pc = pc])

\* Nothing but the local state of planners moves.
OnlyPlanner == UNCHANGED <<setup, lock, graph, jobs, audit, operator, clock, left, lost, overlapped>>
OnlyGraph   == UNCHANGED <<setup, lock, jobs, audit, operator, clock, left, lost, overlapped>>

-----------------------------------------------------------------------------
(* campaign_planner_lock.                                                  *)

Begin(p) ==
    /\ At(p, "idle") /\ p \in setup.planners
    /\ left.plannings > 0 /\ left' = [left EXCEPT !.plannings = @ - 1]
    /\ Continue(p, [Idle EXCEPT !.pc = "load"])
    /\ overlapped' = (overlapped \/ \E q \in Planners \ {p} : Planning(q))
    /\ UNCHANGED <<setup, graph, jobs, audit, operator, clock, lost>>

\* SET key token NX EX: a worker that does not get the lease finishes its job
\* without planning.
Acquire(p) ==
    /\ setup.redis /\ lock = Nobody
    /\ lock' = p
    /\ Begin(p)

\* A queue in SQLite has no lease, and start_campaign does not ask for it.
BeginUnlocked(p) ==
    /\ p \in Starters \/ ~setup.redis
    /\ Begin(p) /\ UNCHANGED lock

\* Mutant: the release deletes the key without comparing tokens.
X_Released(p) == IF p \in Workers /\ setup.redis THEN Nobody ELSE lock

\* The release deletes the key only if it still holds this planner's token.
Released(p) == IF lock = p THEN Nobody ELSE lock

\* A release that Redis does not answer leaves the lease to its expiry.
Unlock(p) ==
    /\ At(p, "unlock")
    /\ Continue(p, Idle)
    /\ lost' = lost \ {p}
    /\ \/ lock' = Released(p) /\ UNCHANGED left
       \/ lock = p /\ UNCHANGED lock /\ Fault
    /\ UNCHANGED <<setup, graph, jobs, audit, operator, clock, overlapped>>

\* The lease runs out, under its holder when that plans for too long.
Expire ==
    /\ lock # Nobody
    /\ lock' = Nobody
    /\ IF At(lock, "idle") THEN UNCHANGED <<left, lost>>
                           ELSE Fault /\ lost' = lost \cup {lock}
    /\ UNCHANGED <<setup, graph, jobs, planner, audit, operator, clock, overlapped>>

\* The process of a planner dies; its lease stays until it expires.
Dies(p) ==
    /\ ~At(p, "idle")
    /\ Continue(p, Idle)
    /\ lost' = lost \ {p}
    /\ Fault
    /\ UNCHANGED <<setup, lock, graph, jobs, audit, operator, clock, overlapped>>

-----------------------------------------------------------------------------
(* advance_campaign.                                                       *)

\* The first read of the graph.
Load(p) ==
    /\ At(p, "load")
    /\ Continue(p, [planner[p] EXCEPT !.pc = "check", !.copy = graph])
    /\ OnlyPlanner

\* p will open the breaker (n times: a budget that is used up opens it once, the
\* gate it closes once more) and record the stop.
StopFor(p, what, copy, n) ==
    Continue(p, [planner[p] EXCEPT !.pc = IF n = 0 THEN "record" ELSE "stamp",
                                   !.what = what, !.copy = copy, !.trips = n])

\* Mutant: the breaker is not consulted.
X_MustStop(copy) == FALSE

MustStop(copy) == OpenIn(copy.breaker)

\* An open breaker, an unstable history and a spent runtime stop the planner.
CheckStops(p) ==
    LET copy == planner[p].copy IN
    /\ At(p, "check")
    /\ \/ MustStop(copy) /\ StopFor(p, "open", copy, 0)
       \/ /\ ~MustStop(copy)
          /\ Reopened(copy.decisions) \/ MayOscillate(copy.decisions)
          /\ StopFor(p, "unstable", copy, 1)
       \/ /\ ~MustStop(copy) /\ ~Reopened(copy.decisions)
          /\ StopFor(p, "spent", graph, 1)
    /\ OnlyPlanner

\* Otherwise it reads the graph again, without another look at the breaker.
CheckPasses(p) ==
    LET copy == planner[p].copy IN
    /\ At(p, "check")
    /\ ~MustStop(copy) /\ ~Reopened(copy.decisions)
    /\ Continue(p, [planner[p] EXCEPT !.pc = "plan", !.copy = graph])
    /\ OnlyPlanner

\* inventory: a graph without assets gets the primary target, and is read again.
Seed(p) ==
    /\ At(p, "plan") /\ planner[p].copy.facts = 0
    /\ graph' = [graph EXCEPT !.facts = IF @ = 0 THEN 1 ELSE @]
    /\ Goto(p, "reload")
    /\ OnlyGraph

Reload(p) ==
    /\ At(p, "reload")
    /\ Continue(p, [planner[p] EXCEPT !.pc = "plan", !.copy = graph])
    /\ OnlyPlanner

\* apply_budget and the autonomy gate may stop any plan ...
PlanStops(p) ==
    /\ At(p, "plan")
    /\ \E n \in 0..2 : StopFor(p, "other", planner[p].copy, n)
    /\ OnlyPlanner

\* Mutant: the engines are not cut to what is left of the budget.
X_Allocated(S) == Cardinality(S) <= MaxScans

\* coordinate_pipeline_action: as many scans as the budget has left.
Allocated(S) == Cardinality(Scans(jobs)) + Cardinality(S) <= MaxScans

Key(p, kind) == [kind |-> kind, of |-> Fingerprint(planner[p].copy)]

Carry(p, what, kinds) ==
    Continue(p, [planner[p] EXCEPT !.pc = "enqueue", !.what = what,
                                   !.plan = {Key(p, kind) : kind \in kinds}])

\* ... which otherwise enqueues scans within their budget, or any other work.
PlanGoes(p) ==
    /\ At(p, "plan") /\ planner[p].copy.facts > 0
    /\ \/ \E S \in SUBSET Engines : Allocated(S) /\ Carry(p, "scan", S)
       \/ Carry(p, "work", {"work"})
    /\ OnlyPlanner

\* One queue.enqueue after the other; a key that is known finds its job.
Enqueue(p) ==
    /\ At(p, "enqueue")
    /\ \/ \E k \in planner[p].plan :
            /\ jobs' = jobs \cup {k}
            /\ Continue(p, [planner[p] EXCEPT !.plan = @ \ {k}])
       \/ planner[p].plan = {} /\ Goto(p, "record") /\ UNCHANGED jobs
    /\ UNCHANGED <<setup, lock, graph, audit, operator, clock, left, lost, overlapped>>

\* _record_decision: the copy says whether the decision is known, and which one
\* it follows; the store refuses an id it knows with other contents, which fails
\* the planning after its jobs were enqueued.
Recorded(id, ds) == \E i \in DOMAIN ds : ds[i].id = id

Record(p) ==
    LET l  == planner[p]
        id == [what |-> l.what, of |-> Fingerprint(l.copy)]
    IN
    /\ At(p, "record")
    /\ IF Recorded(id, l.copy.decisions) \/ Recorded(id, graph.decisions) THEN UNCHANGED graph
       ELSE \E link \in Links(l.copy.decisions) :
              graph' = [graph EXCEPT !.decisions =
                          Append(@, [id |-> id, seq |-> link.seq, prev |-> link.prev])]
    /\ Goto(p, "unlock")
    /\ OnlyGraph

-----------------------------------------------------------------------------
(* record_circuit_open: the stamp is taken, the graph read, the event put. *)

Stamp(p) ==
    /\ At(p, "stamp")
    /\ clock' = clock + 1
    /\ Continue(p, [planner[p] EXCEPT !.pc = "trip", !.at = clock + 1])
    /\ UNCHANGED <<setup, lock, graph, jobs, audit, operator, left, lost, overlapped>>

\* On to the next opening for the same stop, or to its record.
Tripped(p) ==
    IF planner[p].trips > 1
    THEN Continue(p, [planner[p] EXCEPT !.pc = "stamp", !.trips = @ - 1])
    ELSE Goto(p, "record")

\* A breaker that is open already stays as it is.
TripSkips(p) ==
    /\ At(p, "trip") /\ OpenIn(graph.breaker)
    /\ Tripped(p)
    /\ OnlyPlanner

TripReads(p) ==
    /\ At(p, "trip") /\ ~OpenIn(graph.breaker)
    /\ Goto(p, "put")
    /\ OnlyPlanner

TripPut(p) ==
    /\ At(p, "put")
    /\ graph' = [graph EXCEPT !.breaker = @ \cup {[state |-> "open", at |-> planner[p].at]}]
    /\ Tripped(p)
    /\ OnlyGraph

\* The campaign's jobs add to the graph.
Learn ==
    /\ graph.facts > 0 /\ graph.facts < MaxFacts
    /\ graph' = [graph EXCEPT !.facts = @ + 1]
    /\ UNCHANGED planner
    /\ OnlyGraph

-----------------------------------------------------------------------------
(* reset_campaign_circuit_breaker.                                         *)

OperatorAt(o, pc)  == operator[o].pc = pc
Resetting(o, local) == operator' = [operator EXCEPT ![o] = local]
OnlyOperator == UNCHANGED <<setup, lock, graph, jobs, planner, audit, clock, left, lost, overlapped>>

Event(type, of) == [type |-> type, of |-> of]
Logged(e) == \E i \in DOMAIN audit : audit[i] = e

\* A request without its completion.
IsPending(i) ==
    audit[i].type = "requested" /\ ~Logged(Event("completed", audit[i].of))

\* The handler reads the campaign, with the last request that is pending, and then
\* the graph.
ResetRead(o) ==
    /\ OperatorAt(o, "idle")
    /\ left.resets > 0 /\ left' = [left EXCEPT !.resets = @ - 1]
    /\ \/ /\ \A i \in DOMAIN audit : ~IsPending(i)
          /\ Resetting(o, [NoReset EXCEPT !.pc = "look"])
       \/ \E i \in DOMAIN audit :
            /\ IsPending(i) /\ \A j \in DOMAIN audit : IsPending(j) => j <= i
            /\ Resetting(o, [NoReset EXCEPT !.pc = "look", !.pending = audit[i].of])
    /\ UNCHANGED <<setup, lock, graph, jobs, planner, audit, clock, lost, overlapped>>

\* Mutant: a request that is pending is taken for a reset that was done.
X_ResetLook(o) ==
    LET pending == operator[o].pending IN
    /\ OperatorAt(o, "look")
    /\ \/ /\ pending = 0
          /\ \E e \in graph.breaker :
               /\ e.state = "open" /\ \A f \in graph.breaker : f.at <= e.at
               /\ Resetting(o, [operator[o] EXCEPT !.pc = "request", !.of = e.at])
       \/ pending # 0 /\ Resetting(o, [operator[o] EXCEPT !.pc = "complete", !.of = pending])
       \/ pending = 0 /\ ~OpenIn(graph.breaker) /\ Resetting(o, NoReset)
    /\ OnlyOperator

\* An open breaker is reset under the request that is pending, or a new one named
\* after the opening; if it is closed, only a pending request is completed.
ResetLook(o) ==
    LET pending == operator[o].pending IN
    /\ OperatorAt(o, "look")
    /\ \/ \E e \in graph.breaker :
            /\ e.state = "open" /\ \A f \in graph.breaker : f.at <= e.at
            /\ Resetting(o, [operator[o] EXCEPT !.pc = "request",
                               !.of = IF pending = 0 THEN e.at ELSE pending])
       \/ /\ ~OpenIn(graph.breaker) /\ pending # 0
          /\ Resetting(o, [operator[o] EXCEPT !.pc = "complete", !.of = pending])
       \/ ~OpenIn(graph.breaker) /\ pending = 0 /\ Resetting(o, NoReset)
    /\ OnlyOperator

\* _persist_breaker_reset_event: append and save under the version read, unless
\* the event is there.
Persist(o, type, next) ==
    /\ audit' = IF Logged(Event(type, operator[o].of)) THEN audit
                ELSE Append(audit, Event(type, operator[o].of))
    /\ Resetting(o, next)
    /\ UNCHANGED <<setup, lock, graph, jobs, planner, clock, left, lost, overlapped>>

ResetRequest(o) ==
    /\ OperatorAt(o, "request")
    /\ Persist(o, "requested", [operator[o] EXCEPT !.pc = "stamp"])

\* record_circuit_reset
ResetStamp(o) ==
    /\ OperatorAt(o, "stamp")
    /\ clock' = clock + 1
    /\ Resetting(o, [operator[o] EXCEPT !.pc = "reset", !.at = clock + 1])
    /\ UNCHANGED <<setup, lock, graph, jobs, planner, audit, left, lost, overlapped>>

ResetReread(o) ==
    /\ OperatorAt(o, "reset")
    /\ Resetting(o, [operator[o] EXCEPT !.pc = IF OpenIn(graph.breaker) THEN "put"
                                               ELSE "complete"])
    /\ OnlyOperator

ResetPut(o) ==
    /\ OperatorAt(o, "put")
    /\ graph' = [graph EXCEPT !.breaker = @ \cup {[state |-> "reset", at |-> operator[o].at]}]
    /\ Resetting(o, [operator[o] EXCEPT !.pc = "complete"])
    /\ UNCHANGED <<setup, lock, jobs, planner, audit, clock, left, lost, overlapped>>

ResetComplete(o) ==
    /\ OperatorAt(o, "complete")
    /\ Persist(o, "completed", NoReset)

\* The handler dies, or its save conflicts three times.
ResetFails(o) ==
    /\ ~OperatorAt(o, "idle")
    /\ Resetting(o, NoReset)
    /\ Fault
    /\ UNCHANGED <<setup, lock, graph, jobs, planner, audit, clock, lost, overlapped>>

-----------------------------------------------------------------------------

Advance(p) ==
    \/ Load(p) \/ CheckStops(p) \/ CheckPasses(p) \/ Seed(p) \/ Reload(p)
    \/ PlanStops(p) \/ PlanGoes(p) \/ Enqueue(p) \/ Record(p)
    \/ Stamp(p) \/ TripSkips(p) \/ TripReads(p) \/ TripPut(p)

Reset(o) ==
    \/ ResetRead(o) \/ ResetLook(o) \/ ResetRequest(o) \/ ResetStamp(o)
    \/ ResetReread(o) \/ ResetPut(o) \/ ResetComplete(o) \/ ResetFails(o)

Next ==
    \/ \E p \in Workers : Acquire(p)
    \/ \E p \in Planners : BeginUnlocked(p) \/ Advance(p) \/ Unlock(p) \/ Dies(p)
    \/ Expire \/ Learn
    \/ \E o \in Operators : Reset(o)

Spec == Init /\ [][Next]_vars

-----------------------------------------------------------------------------
(* Properties.                                                             *)

Stamps      == [state : {"open", "reset"}, at : Nat]
Prints      == [facts : Nat, breaker : SUBSET Stamps]
DecisionIds == [what : Works \cup Stops, of : Prints]
Decisions   == [id : DecisionIds, seq : Nat, prev : DecisionIds \cup {Nobody}]
Graphs      == [decisions : Seq(Decisions), breaker : SUBSET Stamps, facts : Nat]
Keys        == [kind : Engines \cup {"work"}, of : Prints]

PlannerSteps == {"idle", "load", "check", "plan", "reload", "enqueue",
                 "stamp", "trip", "put", "record", "unlock"}
ResetSteps   == {"idle", "look", "request", "stamp", "reset", "put", "complete"}

\* The graph, its copies, jobs and events are what the code can store, and no time
\* stamp lies ahead of the clock.
TypeOK ==
    /\ setup \in [redis : BOOLEAN, planners : SUBSET Planners]
    /\ lock \in Workers \cup {Nobody} /\ lost \subseteq Planners /\ overlapped \in BOOLEAN
    /\ graph \in Graphs /\ jobs \subseteq Keys
    /\ planner \in [Planners -> [pc : PlannerSteps, copy : Graphs, what : Works \cup Stops,
                                plan : SUBSET Keys, trips : 0..2, at : Nat]]
    /\ audit \in Seq([type : {"requested", "completed"}, of : Nat])
    /\ operator \in [Operators -> [pc : ResetSteps, pending : Nat, of : Nat, at : Nat]]
    /\ left \in [plannings : Nat, resets : Nat, faults : Nat]
    /\ clock \in Nat
    /\ \A e \in graph.breaker : e.at <= clock
    /\ \A p \in Planners : planner[p].at <= clock
    /\ \A o \in Operators : operator[o].at <= clock

\* planner_lock.py: with a queue in Redis two workers are in advance_campaign at
\* once only if one of them was still planning when its lease ran out: a late
\* release never takes the lease of the next holder away.
LeaseExcludes ==
    setup.redis => \A p, q \in Workers :
               p # q /\ Planning(p) /\ Planning(q) => p \in lost \/ q \in lost

\* verify_decision_audit_chain: as long as no two plannings have overlapped, the
\* decisions are numbered without a gap and each names the one before it,
\* whichever planners died between enqueueing and recording.
DecisionsChain ==
    ~overlapped =>
      \A i \in DOMAIN graph.decisions :
        /\ graph.decisions[i].seq = i
        /\ graph.decisions[i].prev = IF i = 1 THEN Nobody ELSE graph.decisions[i - 1].id

\* apply_budget and coordinate_pipeline_action: as long as no two plannings have
\* overlapped, the campaign never gets more scans than XBOW_PLANNER_MAX_SCANS,
\* whatever was enqueued by planners that died before their decision.
ScansCapped == ~overlapped => Cardinality(Scans(jobs)) <= MaxScans

\* advance_campaign looks at the breaker once and enqueues much later; as long as
\* no two plannings have overlapped, it still enqueues nothing new while the
\* breaker is open, whatever operators did to it in between.
NothingWhileOpen == [][jobs' # jobs /\ ~overlapped => ~OpenIn(graph.breaker)]_vars

\* reset_campaign_circuit_breaker writes request, reset and completion in three
\* steps, and may die between them or run twice: every event is in the audit once
\* and is about an opening that happened, a completion follows its request and a
\* reset no earlier than the opening, and no reset went without a request.
ResetAuditTrue ==
    /\ \A i, j \in DOMAIN audit : audit[i] = audit[j] => i = j
    /\ \A i \in DOMAIN audit :
         /\ [state |-> "open", at |-> audit[i].of] \in graph.breaker
         /\ audit[i].type = "completed" =>
              /\ \E j \in 1..(i - 1) : audit[j] = Event("requested", audit[i].of)
              /\ \E e \in graph.breaker : e.state = "reset" /\ e.at >= audit[i].of
    /\ \A e \in graph.breaker :
         e.state = "reset" =>
           \E i \in DOMAIN audit : audit[i].type = "requested" /\ audit[i].of < e.at
=============================================================================
