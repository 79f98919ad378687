----------------------------- MODULE MCJobQueue -----------------------------
(* Small instances of JobQueue for TLC.                                     *)
EXTENDS JobQueue, TLC

CONSTANTS w1, w2, c1, c2, camp, scan, flow, k1, x, y

Plan(kind, key, payload, budget) ==
    [campaign |-> camp, kind |-> kind, dedupe_key |-> key,
     payload |-> payload, max_attempts |-> budget]

\* A role-less worker, and one that takes every kind it is asked for.
MCServes == w1 :> {} @@ w2 :> {scan, flow}

\* One key asked for with two payloads, retryable and not, and a keyless flow
\* with a single attempt.
QueuePlans == {Plan(scan, k1, x, 2), Plan(scan, k1, y, 1), Plan(flow, NoKey, x, 1)}

=============================================================================
