---------------------------- MODULE IncidentHistory ----------------------------
(***************************************************************************)
(* The operational incident document and the two functions that rewrite    *)
(* it: apply_domain_incidents, which the observer runs on a snapshot of    *)
(* the health of every domain, and acknowledge_incident, which an operator *)
(* runs on a fingerprint.  Oldest incident first.                          *)
(*                                                                         *)
(* Timestamps are left out.  opened_at is the version of the document that *)
(* opened the incident, which with its domain identifies it for good, and  *)
(* acked says that acknowledged_at is set.  Severity is a function of the  *)
(* fingerprint.                                                            *)
(***************************************************************************)
EXTENDS Naturals, Sequences

CONSTANTS
    Prints,        \* the fingerprints an unhealthy domain can have
    NoPrint,       \* the fingerprint of a healthy domain
    MaxHistory     \* how many incidents the document keeps

ASSUME HistoryAssumption ==
    /\ NoPrint \notin Prints
    /\ MaxHistory \in Nat \ {0}

DOMAINS == {"workload", "control_plane", "observability"}

Incident ==
    [domain: DOMAINS, print: Prints, status: {"opened", "acknowledged", "resolved"},
     acked: BOOLEAN, opened_at: Nat]

\* What build_domain_incidents reports: the fingerprint of every domain.
Snapshot == [DOMAINS -> Prints \cup {NoPrint}]

Kept(h) == IF Len(h) > MaxHistory THEN SubSeq(h, Len(h) - MaxHistory + 1, Len(h)) ELSE h

Active(h, d) == {i \in DOMAIN h : h[i].domain = d /\ h[i].status # "resolved"}

IsLast(i, S) == i \in S /\ \A j \in S : j <= i

\* Mutant: an acknowledged incident is not taken as active any more.
IsCurrentIncident_OpenedOnly(h, i, d) ==
    h[i].status = "opened" /\ IsLast(i, Active(h, d))

\* Entry i is the incident that apply_domain_incidents takes as active in d.
IsCurrentIncident(h, i, d) == IsLast(i, Active(h, d))

Ongoing(h, d, p) == \E i \in DOMAIN h : IsCurrentIncident(h, i, d) /\ h[i].print = p

\* Mutant: a new fingerprint does not resolve the incident it replaces.
Settled_HealthyOnly(h, d, p) ==
    [i \in DOMAIN h |->
       IF IsCurrentIncident(h, i, d) /\ p = NoPrint
       THEN [h[i] EXCEPT !.status = "resolved"]
       ELSE h[i]]

\* The active incident of a domain is resolved by a healthy snapshot and by
\* another fingerprint; the same fingerprint only refreshes it.
Settled(h, d, p) ==
    [i \in DOMAIN h |->
       IF IsCurrentIncident(h, i, d) /\ h[i].print # p
       THEN [h[i] EXCEPT !.status = "resolved"]
       ELSE h[i]]

Opened(d, p, version) ==
    [domain |-> d, print |-> p, status |-> "opened", acked |-> FALSE, opened_at |-> version]

\* The lifecycle step of one domain that reports fingerprint p.
ApplyDomain(h, d, p, version) ==
    IF p # NoPrint /\ ~Ongoing(h, d, p)
    THEN Append(Settled(h, d, p), Opened(d, p, version))
    ELSE Settled(h, d, p)

apply_domain_incidents(h, snap, version) ==
    LET h1 == ApplyDomain(Kept(h), "workload", snap["workload"], version)
        h2 == ApplyDomain(h1, "control_plane", snap["control_plane"], version)
        h3 == ApplyDomain(h2, "observability", snap["observability"], version)
    IN  Kept(h3)

\* A refresh writes last_seen_at, so the document is unchanged only while all
\* domains are healthy and nothing is left to resolve.
Unchanged(h, snap) ==
    /\ Len(h) <= MaxHistory
    /\ \A d \in DOMAINS : snap[d] = NoPrint /\ Active(h, d) = {}

\* The entries an operator could acknowledge under a fingerprint, which the
\* domain is part of.
Open(h, d, p) ==
    {i \in DOMAIN h : h[i].domain = d /\ h[i].print = p /\ h[i].status = "opened"}

Acknowledged(h, d, p) ==
    [i \in DOMAIN h |->
       IF IsLast(i, Open(h, d, p))
       THEN [h[i] EXCEPT !.status = "acknowledged", !.acked = TRUE]
       ELSE h[i]]

acknowledge_incident(h, d, p) == Acknowledged(Kept(h), d, p)

-----------------------------------------------------------------------------
(* What the two functions promise; the observer's properties are stated    *)
(* with these.                                                             *)

\* At most one active incident in each domain.
OneActive(h) == \A d \in DOMAINS : \A i, j \in Active(h, d) : i = j

\* What may become of an incident: it keeps its identity and its
\* acknowledgement, and its status moves forward only.
Advances(a, b) ==
    /\ <<a.domain, a.print, a.opened_at>> = <<b.domain, b.print, b.opened_at>>
    /\ a.acked => b.acked
    /\ a.status = "acknowledged" => b.status # "opened"
    /\ a.status = "resolved" => b = a

\* How one write changes the document: some of the oldest incidents go, only
\* from a history that ends up full; the others move on; others are added.
MovesOn(old, new) ==
    \E k \in 0..Len(old) :
      /\ Len(old) - k <= Len(new)
      /\ k > 0 => Len(new) = MaxHistory
      /\ \A i \in 1..(Len(old) - k) : Advances(old[i + k], new[i])

=============================================================================
