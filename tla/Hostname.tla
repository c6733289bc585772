------------------------------ MODULE Hostname ------------------------------
(***************************************************************************)
(* Hostnames that may begin with a wildcard label (pkg/common/hostname.go) *)
(* and the test that the hosts a policy names lie within the hostnames of  *)
(* its target (ValidSubdomains of pkg/common/common.go).                   *)
(*                                                                         *)
(* A name is the sequence of its labels after the wildcard label, which    *)
(* "must appear by itself as the first label": "*" has none, "*.a.b" has   *)
(* two. A suffix ".a.b" of a string is then a suffix of the labels with at *)
(* least one label, or the "*", before it.                                 *)
(***************************************************************************)
EXTENDS Naturals, Sequences

CONSTANT Labels

Host == Seq(Labels) \ {<< >>}

Name == [wild : {FALSE}, labels : Host] \cup [wild : {TRUE}, labels : Seq(Labels)]

\* s ends with t.
HasSuffix(s, t) ==
    /\ Len(t) <= Len(s)
    /\ \A i \in 1..Len(t) : s[Len(s) - Len(t) + i] = t[i]

\* Mutant: a wildcard covers the bare domain as well.
SubsetOfBare(n, o) ==
    IF o.wild
    THEN HasSuffix(n.labels, o.labels)
    ELSE ~n.wild /\ n.labels = o.labels

\* n is covered by o.
SubsetOf(n, o) ==
    IF o.wild
    THEN HasSuffix(n.labels, o.labels) /\ (n.wild \/ Len(n.labels) > Len(o.labels))
    ELSE ~n.wild /\ n.labels = o.labels

\* The subdomains that no domain covers: the first of them is reported.
Invalid(domains, subdomains) ==
    {i \in DOMAIN subdomains :
        \A j \in DOMAIN domains : ~SubsetOf(subdomains[i], domains[j])}

ValidSubdomains(domains, subdomains) ==
    LET bad == Invalid(domains, subdomains)
    IN  IF bad = {}
        THEN [valid |-> TRUE, reported |-> << >>]
        ELSE [valid |-> FALSE,
              reported |-> <<subdomains[CHOOSE i \in bad : \A j \in bad : i <= j]>>]

-----------------------------------------------------------------------------
(* What the names mean, and what the test is for.                          *)

\* The hosts of H that a name stands for: a wildcard takes one label or more.
HostsOf(n, H) ==
    {h \in H : IF n.wild
               THEN Len(h) > Len(n.labels) /\ HasSuffix(h, n.labels)
               ELSE h = n.labels}

\* SubsetOf is containment of the sets of hosts.
SubsetOfIsContainment(n, o, H) == SubsetOf(n, o) <=> HostsOf(n, H) \subseteq HostsOf(o, H)

\* The subdomains stand for hosts of the domains only.
StaysInside(domains, subdomains, H) ==
    \A i \in DOMAIN subdomains :
        HostsOf(subdomains[i], H) \subseteq UNION {HostsOf(domains[j], H) : j \in DOMAIN domains}

\* ValidSubdomains accepts only hosts inside the domains, and what it reports
\* is a subdomain with a host outside every one of them.
ValidSubdomainsIsRight(domains, subdomains, H) ==
    LET result == ValidSubdomains(domains, subdomains)
    IN  IF result.valid
        THEN StaysInside(domains, subdomains, H)
        ELSE \A j \in DOMAIN domains :
                ~(HostsOf(result.reported[1], H) \subseteq HostsOf(domains[j], H))
=============================================================================
