--------------------------- MODULE MCPlannerControl ---------------------------
(* Small instances of PlannerControl for TLC: two workers, the handler of    *)
(* POST /start, two operators and two engines with budget for three scans.   *)
EXTENDS PlannerControl

CONSTANTS w1, w2, s1

Scenario(r, P, n, m, f) ==
    [redis |-> r, planners |-> P, plannings |-> n, resets |-> m, faults |-> f]

\* Leases that expire under their holders, and late releases; a handler without
\* the lease, and a deployment without one; one planner again and again, with an
\* operator and a death; two operators that cross each other and the planner.
ControlScenarios ==
    {Scenario(TRUE, {w1, w2}, 3, 0, 1),
     Scenario(TRUE, {w1, s1}, 2, 0, 0),
     Scenario(FALSE, {w1, w2}, 2, 0, 1),
     Scenario(TRUE, {w1}, 3, 1, 1),
     Scenario(TRUE, {w1}, 2, 2, 0),
     Scenario(TRUE, {w1}, 1, 2, 1)}
=============================================================================
