--------------------------- MODULE MCBatchCoordinator ---------------------------
(* Small instances of BatchCoordinator for TLC: a general worker and a GET   *)
(* handler, two campaigns.                                                   *)
EXTENDS BatchCoordinator, TLC

CONSTANTS worker, handler

Scenario(mode, active, answers, scans, f, j, a) ==
    [mode |-> mode, active |-> active, answers |-> answers, scans |-> scans,
     reviewed |-> {}, faults |-> f, jobs |-> j, aborts |-> a, expires |-> FALSE]

Expiring(s)     == [s EXCEPT !.expires = TRUE]
Reviewed(ms, s) == [s EXCEPT !.reviewed = ms]

All == {"ready", "validating", "completed"}

\* A campaign waits so long that its runtime is over before it is started.
WaitScenarios == {Expiring(Scenario("sequential", {worker}, {"ok"}, {"completed"}, 0, 0, 0))}

\* In turn: every outcome of a scan and one failure; a handler that works from
\* an old copy; every answer of HackerOne; cancels, one of them between a verdict
\* and its completion; both modes; expiry.
BatchScenarios ==
    {Scenario("sequential", {worker}, {"ok"}, All, 1, 0, 0),
     Scenario("sequential", {worker}, {"ok"}, {"ready"}, 1, 1, 0),
     Scenario("sequential", {worker, handler}, {"ok"}, {"ready"}, 0, 0, 0),
     Scenario("sequential", {worker, handler}, {"ok", "review", "unavailable"}, {}, 0, 0, 0),
     Scenario("sequential", {worker}, {"ok"}, {}, 1, 0, 1),
     Reviewed({2}, Scenario("sequential", {worker}, {"ok"}, {"validating"}, 0, 0, 1)),
     Reviewed({1}, Scenario("sequential", {worker}, {"ok"}, {}, 1, 0, 0)),
     Reviewed({1}, Scenario("parallel", {worker}, {"ok"}, {"validating"}, 0, 0, 0)),
     Scenario("parallel", {worker}, {"ok"}, {}, 0, 1, 0),
     Scenario("parallel", {worker, handler}, {"ok"}, {}, 0, 0, 0)}
      \cup WaitScenarios
=============================================================================
