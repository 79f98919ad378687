--------------------------- MODULE MCRedisJobQueue ---------------------------
(* Small instances of RedisJobQueue for TLC.                                *)
EXTENDS RedisJobQueue, TLC

CONSTANTS w1, w2, c1, c2, camp, scan, flow, k1, x, y

Plan(kind, key, payload, budget) ==
    [campaign |-> camp, kind |-> kind, dedupe_key |-> key,
     payload |-> payload, max_attempts |-> budget]

\* A role-less worker (claim) and a scanner worker (claim_allowed); a dedicated
\* worker (claim_kind), with one key asked for with two payloads.
Instances ==
    {[serves  |-> w1 :> {} @@ w2 :> {scan},
      callers |-> {c1},
      plans   |-> {Plan(scan, NoKey, x, 2)}],
     [serves  |-> w1 :> {flow},
      callers |-> {c1, c2},
      plans   |-> {Plan(scan, NoKey, x, 1), Plan(flow, k1, x, 2), Plan(flow, k1, y, 1)}]}
=============================================================================
