----------------------------- MODULE Algorithms -----------------------------
(***************************************************************************)
(* The pure algorithms against their reference definitions, on every input *)
(* of the given sets, and the limit index through sequences of changes.    *)
(***************************************************************************)
EXTENDS Hostname, RouteRules, LimitIndex

CONSTANTS
    DomainLists, SubdomainLists,   \* arguments of ValidSubdomains
    Hosts,                         \* the hosts on which names are compared
    HostSets, MatchSets,           \* HTTPRoutes
    Requests,                      \* the requests they are tried on
    LimitLists                     \* arguments of SameLimitList

\* The hosts of H tell what n stands for: a host that is n, or two with a label
\* or more where n has its wildcard.
Told(n, H) ==
    IF n.wild
    THEN \E a \in Labels : /\ <<a>> \o n.labels \in H
                           /\ HostsOf(n, H) # {<<a>> \o n.labels}
    ELSE n.labels \in H

ASSUME AlgorithmsAssumption ==
    /\ DomainLists \cup SubdomainLists \subseteq Seq(Name)
    /\ Hosts \subseteq Host
    /\ \A list \in SubdomainLists : \A i \in DOMAIN list : Told(list[i], Hosts)
    /\ None \notin {"PathPrefix", "Exact", "RegularExpression"}
    /\ \A matches \in MatchSets : matches \subseteq Match
    /\ Requests \subseteq Request
    /\ LimitLists \subseteq Seq(RateLimit)

VARIABLE input   \* the algorithm and its arguments; "index" runs the machine

vars == <<limits, wanted, input>>

NameInputs == [of : {"names"}, domains : DomainLists, subdomains : SubdomainLists]
RouteInputs == [of : {"route"}, hosts : HostSets, matches : MatchSets]
ListInputs == [of : {"lists"}, a : LimitLists, b : LimitLists]

Init ==
    /\ input \in NameInputs \cup RouteInputs \cup ListInputs \cup {[of |-> "index"]}
    /\ LimitInit

Next ==
    /\ input.of = "index"
    /\ LimitNext
    /\ UNCHANGED input

Spec == Init /\ [][Next]_vars

-----------------------------------------------------------------------------
\* SubsetOf is containment of the hosts two names stand for, whether either is
\* a wildcard, and ValidSubdomains lets a policy name hosts of its target only.
HostnamesContained ==
    input.of = "names" =>
        /\ ValidSubdomainsIsRight(input.domains, input.subdomains, Hosts)
        /\ \A i \in DOMAIN input.domains, j \in DOMAIN input.subdomains :
              SubsetOfIsContainment(input.subdomains[j], input.domains[i], Hosts)

\* A policy without rules is documented to match all requests. RulesFromHTTPRoute
\* writes patterns of characters for matches by elements of the path, and they
\* select every request that some match lets through, but for those that only a
\* match left out lets through, or only a prefix with a slash at its end.
RouteRequestsSelected ==
    input.of = "route" => RulesCoverMatches(input.hosts, input.matches, Requests)

\* SameLimitList is equality up to order, duplicates counted, although its Less
\* is no strict order and sort.Sort is not stable.
SameListsExactly ==
    input.of = "lists" => SameLimitListIsBagEquality(input.a, input.b)
=============================================================================
