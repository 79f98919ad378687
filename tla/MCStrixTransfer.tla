--------------------------- MODULE MCStrixTransfer ---------------------------
(* One transfer of a manifest of two files, with a restart of the runner   *)
(* and calls of others; and two transfers at once of one manifest without  *)
(* files under one contract.                                               *)
EXTENDS StrixTransfer

MCTransfers == {"t1", "t2", "t3"}
MCIdentity == [t \in MCTransfers |-> IF t = "t1" THEN "two files" ELSE "no file"]
MCChunks == [t \in MCTransfers |-> IF t = "t1" THEN <<1, 1>> ELSE <<>>]
MCSids == 1..3
Budget(start, restarts, others) == [start |-> start, restarts |-> restarts, others |-> others]
MCBudgets == {Budget({"t1"}, 1, 2), Budget({"t2", "t3"}, 0, 0)}
=============================================================================
