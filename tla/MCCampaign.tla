----------------------------- MODULE MCCampaign -----------------------------
(***************************************************************************)
(* Instances of Campaign for TLC.  A run's scenarios say what the clients  *)
(* ask for, how rich the target looks and how many faults there are.       *)
(***************************************************************************)
EXTENDS Campaign, TLC

CONSTANTS c1, c2, c3

AllStages == {"seeded", "known", "mapped"}

Rules(enriched, n) == [scannable |-> TRUE, enriched |-> enriched, inflight |-> n]
Asked(a, b, rs, n) == [requests |-> c1 :> a @@ c2 :> b, rules |-> rs, faults |-> n]
Plain(a, b) == Asked(a, b, Rules(AllStages, 1), 1)
Unscannable(s) == [s EXCEPT !.rules.scannable = FALSE]

(* No findings: starts, reports, outbox repairs and cancels that cross.    *)
ControlScenarios ==
    {Plain("start", b) : b \in {"start", "cancel"}}
      \cup {Plain("report", b) : b \in {"report", "outbox", "cancel"}}
      \cup {Unscannable(Plain("start", b)) : b \in {"start", "cancel"}}

(* One finding: found by a scan that may run twice, or reported; judged by *)
(* workers and clients; and the planner's longer way to a scan.            *)
EvidenceScenarios ==
    {Plain("start", "validate"), Plain("add", "validate"), Plain("add", "outbox"),
     Asked("start", "none", Rules({"known", "mapped"}, 3), 0)}

(* A scan, a verdict and a cancel.                                         *)
CancelScenarios ==
    {[requests |-> c1 :> "start" @@ c2 :> "validate" @@ c3 :> "cancel",
      rules |-> Rules(AllStages, 1), faults |-> 1]}

=============================================================================
