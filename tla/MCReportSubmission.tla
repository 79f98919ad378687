------------------------- MODULE MCReportSubmission -------------------------
(* Three states of the findings: one confirmed finding, the same edited,   *)
(* and one more finding that is not ready for review.                      *)
EXTENDS ReportSubmission

B(id, confirmed, ready) ==
    [id |-> id, confirmed |-> confirmed, ready |-> ready, direct |-> confirmed = 1]
MCBases == {B("first", 1, TRUE), B("edited", 1, TRUE), B("two", 2, FALSE)}
MCActivities == <<"needs-info", "comment">>

First == CHOOSE b \in MCBases : b.id = "first"

(* Every order of approvals, edits and requests; the worker while they go  *)
(* on; a second report at HackerOne after a second approval, recorded      *)
(* while the worker may hold what it fetched of the first.                 *)
MCBounds ==
    {[bases |-> {b \in MCBases : b.id # "edited"}, cancels |-> TRUE,
      events |-> 5, reports |-> 1, activities |-> 0],
     [bases |-> {b \in MCBases : b.ready}, cancels |-> FALSE,
      events |-> 5, reports |-> 1, activities |-> 2],
     [bases |-> {First}, cancels |-> FALSE, events |-> 8, reports |-> 2, activities |-> 1]}
=============================================================================
