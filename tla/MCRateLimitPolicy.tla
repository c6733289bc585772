------------------------- MODULE MCRateLimitPolicy -------------------------
(***************************************************************************)
(* Small instances of the RateLimitPolicy controller for TLC: what users   *)
(* write in the objects they own.                                          *)
(***************************************************************************)
EXTENDS RateLimitPolicyProperties

CONSTANTS p1, p2, pg,     \* policies
          r1, r2,         \* routes
          g1, g2,         \* gateways
          u1,             \* a Service, say
          s1, s2,         \* policy specs
          h1, h2, star    \* hostnames

OneHostList == {{h1}}
WithEmptyList == {{}, {h1}}

EverySpecFits == Specs \X SUBSET Hostnames
OnlyS1Fits == {s1} \X SUBSET Hostnames

\* A route of its own for p1 and p2, the gateway g1 for pg.
OwnTargets ==
    [p \in Policies |-> CASE p = p1 -> {r1} [] p = p2 -> {r2} [] p = pg -> {g1}]

\* Every policy targets the route r1.
SharedRoute == [p \in Policies |-> {r1}]

\* p1 and p2 compete for the route r1, pg has the gateway g1.
CompetingTargets == [p \in Policies |-> IF p = pg THEN {g1} ELSE {r1}]

\* p1 may be moved between the routes, pg stays with g1.
MovingTargets == [p \in Policies |-> IF p = pg THEN {g1} ELSE Routes]

\* Any policy may have any target.
AnyTarget == [p \in Policies |-> Targets]

OneNamespace == Policies \X (Routes \cup Gateways)

StayAtG1 == [r \in Routes |-> {{g1}}]
OnlyR1Moves == [r \in Routes |-> IF r = r1 THEN SUBSET Gateways ELSE {{g2}}]
AnyParents == [r \in Routes |-> SUBSET Gateways]

OneSection == [r \in Routes |-> {1}]
TwoSections == [r \in Routes |-> {1, 2}]
=============================================================================
