-------------------------- MODULE MCIncidentObserver --------------------------
(* Small instances of IncidentObserver for TLC.                             *)
EXTENDS IncidentObserver, TLC

CONSTANTS o1, o2, p, q

Found(w, o) == [d \in DOMAINS |->
                  CASE d = "workload" -> w [] d = "observability" -> o [] OTHER -> NoPrint]

\* Healthy, incidents in two of the three domains, and the workload incident rotated to
\* another fingerprint while the other domain recovers.
MCSnapshots == {Found(NoPrint, NoPrint), Found(p, p), Found(q, NoPrint)}

Symmetry == Permutations({o1, o2})

=============================================================================
