----------------------------- MODULE RouteRules -----------------------------
(***************************************************************************)
(* The rules a policy without rules gets from its HTTPRoute                *)
(* (pkg/common/gatewayapi_utils.go): the AuthPolicy controller writes them *)
(* into AuthorizationPolicies, the RateLimitPolicy controller into the     *)
(* WASM configuration. A rule with no methods selects every method, one    *)
(* with no paths every path.                                               *)
(*                                                                         *)
(* A path, and a rule's pattern, is a sequence of characters: the route    *)
(* matches by elements between slashes, the rule by characters. The rules  *)
(* of an HTTPRoute only group its matches: a route is the set of all.      *)
(***************************************************************************)
EXTENDS Naturals, Sequences, SequencesExt

CONSTANTS Methods, Hostnames,
          Characters, \* of paths, "/" among them
          Wildcard,   \* the hostname "*"
          None        \* a nil pointer

Path == {p \in Seq(Characters) : p # << >> /\ p[1] = "/"}

\* The text of a regular expression plays no role.
PathMatch ==
    [type : {None, "PathPrefix", "Exact", "RegularExpression"}, value : {None} \cup Path]

\* others: the match asks for headers or query parameters too.
Match ==
    [method : Methods \cup {None}, path : PathMatch \cup {None}, others : BOOLEAN]

RouteHTTPMethodToRuleMethod(method) == {method} \ {None}

RouteHostnames(hosts) == IF hosts = {} THEN {Wildcard} ELSE hosts

ValueOr(value) == IF value = None THEN <<"/">> ELSE value

\* Mutant: the prefix is taken to end between two elements of the path.
routePathMatchToRulePathBelow(path) ==
    IF path = None \/ path.type = "RegularExpression"
    THEN {}
    ELSE {ValueOr(path.value) \o IF path.type = "Exact" THEN << >> ELSE <<"/", "*">>}

\* Only exact and prefix matches have a path; a missing type means prefix.
routePathMatchToRulePath(path) ==
    IF path = None \/ path.type = "RegularExpression"
    THEN {}
    ELSE {ValueOr(path.value) \o IF path.type = "Exact" THEN << >> ELSE <<"*">>}

RuleOf(hosts, match) ==
    [hosts |-> RouteHostnames(hosts),
     methods |-> RouteHTTPMethodToRuleMethod(match.method),
     paths |-> routePathMatchToRulePath(match.path)]

\* Mutant: a rule is appended when it has methods and paths.
RulesFromHTTPRouteBoth(hosts, matches) ==
    LET rules == {r \in {RuleOf(hosts, m) : m \in matches} : r.methods # {} /\ r.paths # {}}
    IN  IF rules = {}
        THEN {[hosts |-> RouteHostnames(hosts), methods |-> {}, paths |-> {}]}
        ELSE rules

RulesFromHTTPRoute(hosts, matches) ==
    LET rules == {r \in {RuleOf(hosts, m) : m \in matches} : r.methods # {} \/ r.paths # {}}
    IN  IF rules = {}
        THEN {[hosts |-> RouteHostnames(hosts), methods |-> {}, paths |-> {}]}
        ELSE rules

-----------------------------------------------------------------------------
(* What the gateway does with a request.                                   *)

Request == [host : Hostnames, method : Methods, path : Path, others : BOOLEAN]

EndsInSlash(value) == Last(value) = "/"

\* A prefix ends where an element of the path does, and a slash at its end
\* makes no difference: "/a" and "/a/" both route "/a" and "/a/b", not "/ab".
UnderPrefix(value, path) ==
    LET elements == IF EndsInSlash(value) THEN Front(value) ELSE value
    IN  path = elements \/ IsPrefix(elements \o <<"/">>, path)

\* Some regular expression matches any path.
PathRouted(match, path) ==
    \/ match = None
    \/ match.type = "RegularExpression"
    \/ (match.type = "Exact" /\ path = ValueOr(match.value))
    \/ (match.type \in {None, "PathPrefix"} /\ UnderPrefix(ValueOr(match.value), path))

Routed(hosts, match, req) ==
    /\ hosts = {} \/ req.host \in hosts
    /\ match.method \in {None, req.method}
    /\ match.others => req.others
    /\ PathRouted(match.path, req.path)

(* What Istio and the WASM filter do with the rules.                       *)

\* A star at the end of a pattern stands for any characters.
Covers(pattern, path) ==
    path = pattern \/ (Last(pattern) = "*" /\ IsPrefix(Front(pattern), path))

Selected(rule, req) ==
    /\ Wildcard \in rule.hosts \/ req.host \in rule.hosts
    /\ rule.methods = {} \/ req.method \in rule.methods
    /\ rule.paths = {} \/ \E pattern \in rule.paths : Covers(pattern, req.path)

-----------------------------------------------------------------------------
\* The match says something that a rule can say.
Compiles(match) ==
    match.method # None \/ (match.path # None /\ match.path.type # "RegularExpression")

\* A match that compiles to nothing gets no rule next to others that do.
LeftOut(matches, m) == ~Compiles(m) /\ \E other \in matches : Compiles(other)

\* A prefix "/a/" routes the path "/a", and the rule "/a/*" does not select it.
AbovePattern(match, path) ==
    /\ match # None
    /\ match.type \in {None, "PathPrefix"}
    /\ EndsInSlash(ValueOr(match.value)) /\ path = Front(ValueOr(match.value))

\* Apart from these two the rules select every request that a match routes.
RulesCoverMatches(hosts, matches, Requests) ==
    \A m \in matches, req \in Requests :
        Routed(hosts, m, req) /\ ~LeftOut(matches, m) /\ ~AbovePattern(m.path, req.path)
        => \E r \in RulesFromHTTPRoute(hosts, matches) : Selected(r, req)
=============================================================================
