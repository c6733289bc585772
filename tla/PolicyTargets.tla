--------------------------- MODULE PolicyTargets ---------------------------
(***************************************************************************)
(* What the RateLimitPolicy and the AuthPolicy controller have in common:  *)
(* the HTTPRoutes and Gateways that policies target, as the API server     *)
(* holds them (store) and as the controller's informers do (cache), the    *)
(* users and gateway providers that edit them, and the way the target      *)
(* reference reconciler and the base reconciler read and write objects.    *)
(*                                                                         *)
(* The reconciler's client "reads objects from the cache and writes to the *)
(* Kubernetes APIServer" (pkg/reconcilers/base_reconciler.go): every read  *)
(* of a controller is a read of cache, every write a write of store.       *)
(***************************************************************************)
EXTENDS Naturals

CONSTANTS
    Policies,    \* policy keys
    Routes,      \* HTTPRoute keys
    Gateways,    \* Gateway keys
    Unsupported, \* keys of other kinds that a targetRef may name
    Specs,       \* what a policy asks for, targetRef aside
    Hostnames,   \* hostnames a route or a gateway listener may list
    Wildcard,    \* the hostname "*"
    HostLists,   \* the hostname lists users give to routes and gateways
    Fits,        \* <<spec, hosts>>: the hosts the spec names lie within hosts
    SameNamespace, \* <<policy, target>>: they are in one namespace
    TargetsOf,   \* the targetRefs users give to each policy
    ParentsOf,   \* the gateways users name in the parentRefs of each route
    Sections,    \* the sections of a gateway that each route's parentRefs name
    NoPolicy,    \* an annotation that is not there
    None,        \* the fields of an object that is not there
    Lagging,     \* the kinds whose informer may lag behind the API server
    Edits,       \* the kinds of change the environment makes
    MaxEdits,    \* how many changes the environment makes
    MaxFaults    \* how many API calls fail, or crashes happen

Targets == Routes \cup Gateways \cup Unsupported

Kinds ==
    {"policy", "route", "gateway", "limitador", "plugin", "filter", "iap", "config"}

ASSUME ClusterAssumption ==
    /\ Routes \cap Gateways = {}
    /\ Unsupported \cap (Routes \cup Gateways) = {}
    /\ NoPolicy \notin Policies
    /\ None \notin Targets
    /\ Wildcard \in Hostnames
    /\ HostLists \subseteq SUBSET Hostnames
    /\ Fits \subseteq Specs \X SUBSET Hostnames
    /\ SameNamespace \subseteq Policies \X Targets
    /\ TargetsOf \in [Policies -> SUBSET Targets]
    /\ ParentsOf \in [Routes -> SUBSET SUBSET Gateways]
    /\ Sections \in [Routes -> (SUBSET Nat) \ {{}}]
    /\ Lagging \subseteq Kinds
    /\ MaxEdits \in Nat
    /\ MaxFaults \in Nat

-----------------------------------------------------------------------------
(* Objects.                                                                *)

\* An HTTPRoute: the gateways of its parentRefs, hostnames, the gateways whose status entry says
\* Accepted = False, and the policy named by the back-reference annotation.
Route ==
    [live : BOOLEAN, parents : SUBSET Gateways, hosts : SUBSET Hostnames,
     rejecting : SUBSET Gateways, backref : Policies \cup {NoPolicy}]

NoSuchRoute ==
    [live |-> FALSE, parents |-> {}, hosts |-> {},
     rejecting |-> {}, backref |-> NoPolicy]

\* A Gateway: listener hostnames, the Ready condition, the back-reference
\* annotation and the annotation that lists the RateLimitPolicies that
\* configure it.
Gateway ==
    [live : BOOLEAN, hosts : SUBSET Hostnames, ready : BOOLEAN,
     backref : Policies \cup {NoPolicy}, refs : SUBSET Policies]

NoSuchGateway ==
    [live |-> FALSE, hosts |-> {}, ready |-> FALSE,
     backref |-> NoPolicy, refs |-> {}]

-----------------------------------------------------------------------------
VARIABLES
    store,   \* the objects in the API server, by kind
    cache,   \* the objects in the controller's informers, by kind
    queue,   \* the policies waiting to be reconciled
    edits    \* the environment changes left

\* An informer outside Lagging delivers before anything else happens.
Settled == \A kind \in DOMAIN store \ Lagging : cache[kind] = store[kind]

-----------------------------------------------------------------------------
(* Targets, as read from a copy c of the cluster.                          *)

\* The targetRef has a supported kind and stays within the namespace.
Validate(p, t) == t \in Routes \cup Gateways /\ <<p, t>> \in SameNamespace

\* Fetching the route, not found or some current parent says not Accepted.
FetchValidHTTPRoute(c, r) ==
    c.route[r].live /\ c.route[r].parents \cap c.route[r].rejecting = {}

FetchValidGateway(c, g) == c.gateway[g].live /\ c.gateway[g].ready

FetchValidTargetRef(c, t) ==
    \/ t \in Routes /\ FetchValidHTTPRoute(c, t)
    \/ t \in Gateways /\ FetchValidGateway(c, t)

TargetLive(c, t) ==
    \/ t \in Routes /\ c.route[t].live
    \/ t \in Gateways /\ c.gateway[t].live

\* Only a route target is checked: a gateway key is returned as it is.
TargetedGatewayKeysOK(c, t) == t \in Routes => FetchValidHTTPRoute(c, t)

TargetedGatewayKeys(c, t) == IF t \in Routes THEN c.route[t].parents ELSE {t} \cap Gateways

\* There is one key for every parentRef: a route that names more sections of a
\* gateway than one has its key more than once.
RepeatedGatewayKeys(c, t) ==
    {g \in TargetedGatewayKeys(c, t) : t \in Routes /\ \E i, j \in Sections[t] : i # j}

OrWildcard(hs) == IF hs = {} THEN {Wildcard} ELSE hs

TargetHostnames(c, t) ==
    OrWildcard(IF t \in Routes THEN c.route[t].hosts ELSE c.gateway[t].hosts)

BackRef(c, t) == IF t \in Routes THEN c.route[t].backref ELSE c.gateway[t].backref

-----------------------------------------------------------------------------
(* What the API server accepts.                                            *)

\* Mutant: updates are forced, as a merge patch would be.
UpdateForced(stored, copy) == TRUE

\* An update carries the resourceVersion of the copy it was made from: the
\* server refuses it when the stored object has changed, or is gone.
UpdateAccepted(stored, copy) == stored = copy

\* ReconcileResource: create, delete or update, by what the cache shows. The
\* server refuses to create what exists, to delete what does not, and to
\* update from an outdated copy.
ResourceAccepted(cached, stored, desired, none) ==
    CASE cached = none -> stored = none
      [] cached # none /\ desired = none -> stored # none
      [] OTHER -> UpdateAccepted(stored, cached)

-----------------------------------------------------------------------------
(* The environment: users edit routes and gateways, the gateway provider   *)
(* sets their conditions. Edits go to the API server and never conflict.   *)

Edit(kind, after) ==
    /\ kind \in Edits
    /\ edits > 0
    /\ Settled
    /\ edits' = edits - 1
    /\ store' = after
    /\ UNCHANGED <<cache, queue>>

CreateRoute(r, ps, hs) ==
    /\ ~store.route[r].live
    /\ Edit("route", [store EXCEPT !.route[r] =
                         [NoSuchRoute EXCEPT !.live = TRUE, !.parents = ps, !.hosts = hs]])

DeleteRoute(r) ==
    /\ store.route[r].live
    /\ Edit("route", [store EXCEPT !.route[r] = NoSuchRoute])

EditParents(r, ps) ==
    /\ store.route[r].live
    /\ store.route[r].parents # ps
    /\ Edit("parents", [store EXCEPT !.route[r].parents = ps])

EditRouteHosts(r, hs) ==
    /\ store.route[r].live
    /\ store.route[r].hosts # hs
    /\ Edit("routeHosts", [store EXCEPT !.route[r].hosts = hs])

\* The gateway provider reports Accepted for the route, or takes it back.
SetRejecting(r, gs) ==
    /\ store.route[r].live
    /\ store.route[r].rejecting # gs
    /\ Edit("rejecting", [store EXCEPT !.route[r].rejecting = gs])

CreateGateway(g, hs) ==
    /\ ~store.gateway[g].live
    /\ Edit("gateway", [store EXCEPT !.gateway[g] =
                           [NoSuchGateway EXCEPT !.live = TRUE, !.ready = TRUE, !.hosts = hs]])

\* The objects made for the gateway have no owner reference to it: they stay.
DeleteGateway(g) ==
    /\ store.gateway[g].live
    /\ Edit("gateway", [store EXCEPT !.gateway[g] = NoSuchGateway])

EditGatewayHosts(g, hs) ==
    /\ store.gateway[g].live
    /\ store.gateway[g].hosts # hs
    /\ Edit("gatewayHosts", [store EXCEPT !.gateway[g].hosts = hs])

SetReady(g, b) ==
    /\ store.gateway[g].live
    /\ store.gateway[g].ready # b
    /\ Edit("ready", [store EXCEPT !.gateway[g].ready = b])

EditRoutes ==
    \E r \in Routes :
        \/ \E ps \in ParentsOf[r], hs \in HostLists : CreateRoute(r, ps, hs)
        \/ DeleteRoute(r)
        \/ \E ps \in ParentsOf[r] : EditParents(r, ps)
        \/ \E hs \in HostLists : EditRouteHosts(r, hs)
        \/ \E gs \in SUBSET Gateways : SetRejecting(r, gs)

EditGateways ==
    \E g \in Gateways :
        \/ \E hs \in HostLists : CreateGateway(g, hs)
        \/ DeleteGateway(g)
        \/ \E hs \in HostLists : EditGatewayHosts(g, hs)
        \/ \E b \in BOOLEAN : SetReady(g, b)
=============================================================================
