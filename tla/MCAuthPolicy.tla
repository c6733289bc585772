---------------------------- MODULE MCAuthPolicy ----------------------------
(***************************************************************************)
(* Small instances of the AuthPolicy controller for TLC.                   *)
(***************************************************************************)
EXTENDS AuthPolicyProperties

CONSTANTS p1, p2,         \* policies
          r1,             \* a route
          g1, g2,         \* gateways
          u1,             \* a Service, say
          s1, s2, s3,     \* policy specs
          h1, star        \* hostnames

OneHostList == {{h1}}
WithEmptyList == {{}, {h1}}

EverySpecFits == Specs \X SUBSET Hostnames

\* A policy on the route r1, or on the gateway g1.
RouteOrGateway == [p \in Policies |-> {r1, g1}]

\* Every policy may target the route r1, and p2 anything else.
SharedOrAny == [p \in Policies |-> IF p = p2 THEN Targets ELSE {r1}]

OneNamespace == Policies \X (Routes \cup Gateways)

AllGateways == [r \in Routes |-> {Gateways}]
AnyParents == [r \in Routes |-> SUBSET Gateways]

\* Routes in one namespace and policies whose names do not run together.
OwnRouteNames == [r \in Routes |-> r]
OwnConfigNames == [p \in Policies |-> p]

\* parentRefs that name a gateway once, or two of its listeners.
OneSection == [r \in Routes |-> {1}]
TwoSections == [r \in Routes |-> {1, 2}]
=============================================================================
