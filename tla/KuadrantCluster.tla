-------------------------- MODULE KuadrantCluster --------------------------
(***************************************************************************)
(* The Kubernetes cluster that the RateLimitPolicy controller works on:    *)
(* beside the policies' targets, the policies themselves and the objects   *)
(* it configures (Limitador, WasmPlugins, EnvoyFilters), the watch events  *)
(* that feed its work queue, and the users and operators that edit them.   *)
(***************************************************************************)
EXTENDS PolicyTargets

-----------------------------------------------------------------------------
(* Objects.                                                                *)

\* A RateLimitPolicy: metadata (deletionTimestamp, the controller's
\* finalizer), spec, and status; observed says that status.observedGeneration
\* equals metadata.generation.
Policy ==
    [live : BOOLEAN, deleting : BOOLEAN, finalizer : BOOLEAN,
     target : Targets \cup {None}, spec : Specs \cup {None},
     observed : BOOLEAN, available : {"Unknown", "True", "False"},
     gwLimits : SUBSET (Gateways \X (Specs \cup {None}))]

NoSuchPolicy ==
    [live |-> FALSE, deleting |-> FALSE, finalizer |-> FALSE,
     target |-> None, spec |-> None,
     observed |-> FALSE, available |-> "Unknown", gwLimits |-> {}]

NewPolicy(t, s) == [NoSuchPolicy EXCEPT !.live = TRUE, !.target = t, !.spec = s]

\* One domain's share of a policy, as a Limitador limit or as an action of
\* the WASM filter: <<domain, policy, spec it was computed from>>.
Entry == Hostnames \X Policies \X (Specs \cup {None})

\* The Limitador custom resource, its limits indexed by gateway.
Limitador ==
    [status : {"absent", "notReady", "ready"}, limits : [Gateways -> SUBSET Entry]]

NoLimits == [g \in Gateways |-> {}]

\* The WasmPlugin of a gateway.
Plugin == [live : BOOLEAN, conf : SUBSET Entry]

NoPlugin == [live |-> FALSE, conf |-> {}]

Cluster ==
    [policy : [Policies -> Policy], route : [Routes -> Route],
     gateway : [Gateways -> Gateway], limitador : Limitador,
     plugin : [Gateways -> Plugin], filter : [Gateways -> BOOLEAN]]

-----------------------------------------------------------------------------
(* Event mappers: which policies an object of the watch event stands for.  *)

\* Mutant: nobody tells the other policies of the gateway.
MapRouteRateLimitPolicyToNone(rlp) == {}

\* RLP events targeting a Gateway go to all the RLPs configuring it.
MapRouteRateLimitPolicy(rlp) ==
    IF rlp.target \in Gateways THEN cache.gateway[rlp.target].refs ELSE {}

\* Mutant: the presence of the annotation is not checked.
MapHTTPRouteUnchecked(route) == {route.backref}

\* HTTPRoute events go to the RLP of the back reference.
MapHTTPRouteToRateLimitPolicy(route) == {route.backref} \ {NoPolicy}

\* Mutant: gateway events are not watched.
MapGatewayToNone(gateway) == {}

\* Gateway events go to the RLPs listed in the annotation.
MapGatewayToRateLimitPolicy(gateway) == gateway.refs

-----------------------------------------------------------------------------
(* Watch events. A delivery brings the cache to the latest stored version  *)
(* and maps both the old and the new object, as the handlers do for an     *)
(* update; an absent object maps to nothing.                               *)

DeliverPolicy(p) ==
    /\ cache.policy[p] # store.policy[p]
    /\ cache' = [cache EXCEPT !.policy[p] = store.policy[p]]
    /\ queue' = queue \cup {p}
                      \cup MapRouteRateLimitPolicy(cache.policy[p])
                      \cup MapRouteRateLimitPolicy(store.policy[p])
    /\ UNCHANGED <<store, edits>>

DeliverRoute(r) ==
    /\ cache.route[r] # store.route[r]
    /\ cache' = [cache EXCEPT !.route[r] = store.route[r]]
    /\ queue' = queue \cup MapHTTPRouteToRateLimitPolicy(cache.route[r])
                      \cup MapHTTPRouteToRateLimitPolicy(store.route[r])
    /\ UNCHANGED <<store, edits>>

DeliverGateway(g) ==
    /\ cache.gateway[g] # store.gateway[g]
    /\ cache' = [cache EXCEPT !.gateway[g] = store.gateway[g]]
    /\ queue' = queue \cup MapGatewayToRateLimitPolicy(cache.gateway[g])
                      \cup MapGatewayToRateLimitPolicy(store.gateway[g])
    /\ UNCHANGED <<store, edits>>

\* Limitador, WasmPlugin and EnvoyFilter are read through informers too, but
\* the controller does not watch them: their events reconcile nothing.
DeliverLimitador ==
    /\ cache.limitador # store.limitador
    /\ cache' = [cache EXCEPT !.limitador = store.limitador]
    /\ UNCHANGED <<store, queue, edits>>

DeliverPlugin(g) ==
    /\ cache.plugin[g] # store.plugin[g]
    /\ cache' = [cache EXCEPT !.plugin[g] = store.plugin[g]]
    /\ UNCHANGED <<store, queue, edits>>

DeliverFilter(g) ==
    /\ cache.filter[g] # store.filter[g]
    /\ cache' = [cache EXCEPT !.filter[g] = store.filter[g]]
    /\ UNCHANGED <<store, queue, edits>>

Deliver ==
    \/ \E p \in Policies : DeliverPolicy(p)
    \/ \E r \in Routes : DeliverRoute(r)
    \/ \E g \in Gateways : DeliverGateway(g)
    \/ DeliverLimitador
    \/ \E g \in Gateways : DeliverPlugin(g)
    \/ \E g \in Gateways : DeliverFilter(g)

-----------------------------------------------------------------------------
(* The environment: users edit policies, and the Limitador operator sets   *)
(* Limitador's status.                                                     *)

CreatePolicy(p, t, s) ==
    /\ ~store.policy[p].live
    /\ Edit("create", [store EXCEPT !.policy[p] = NewPolicy(t, s)])

\* A change of spec raises metadata.generation.
EditSpec(p, s) ==
    /\ store.policy[p].live
    /\ store.policy[p].spec # s
    /\ Edit("spec", [store EXCEPT !.policy[p] = [@ EXCEPT !.spec = s, !.observed = FALSE]])

Retarget(p, t) ==
    /\ store.policy[p].live
    /\ store.policy[p].target # t
    /\ Edit("retarget", [store EXCEPT !.policy[p] = [@ EXCEPT !.target = t, !.observed = FALSE]])

\* The API server keeps an object with a finalizer and marks it.
DeletePolicy(p) ==
    /\ store.policy[p].live
    /\ store.policy[p].finalizer
    /\ ~store.policy[p].deleting
    /\ Edit("delete", [store EXCEPT !.policy[p] = [@ EXCEPT !.deleting = TRUE, !.observed = FALSE]])

\* A policy the controller has not put its finalizer on goes at once.
DeleteUnmarkedPolicy(p) ==
    /\ store.policy[p].live
    /\ ~store.policy[p].finalizer
    /\ Edit("deleteUnmarked", [store EXCEPT !.policy[p] = NoSuchPolicy])

\* Deleting Limitador drops its limits.
SetLimitador(s) ==
    /\ store.limitador.status # s
    /\ Edit("limitador",
            [store EXCEPT !.limitador =
                [status |-> s,
                 limits |-> IF s = "absent" THEN NoLimits ELSE store.limitador.limits]])

EditPolicies ==
    \E p \in Policies :
        \/ \E t \in TargetsOf[p], s \in Specs : CreatePolicy(p, t, s)
        \/ \E s \in Specs : EditSpec(p, s)
        \/ \E t \in TargetsOf[p] : Retarget(p, t)
        \/ DeletePolicy(p)
        \/ DeleteUnmarkedPolicy(p)

EditLimitador == \E s \in {"absent", "notReady", "ready"} : SetLimitador(s)

-----------------------------------------------------------------------------
\* The controller starts in a cluster with its routes and gateways set up
\* and the policies created so far; the first listing of each informer
\* enqueues them all.
ClusterInit ==
    /\ \E S \in SUBSET Policies, ts \in [Policies -> Targets], ss \in [Policies -> Specs],
          ps \in [Routes -> SUBSET Gateways],
          hs \in [Routes \cup Gateways -> HostLists] :
          /\ \A p \in Policies : ts[p] \in TargetsOf[p]
          /\ \A r \in Routes : ps[r] \in ParentsOf[r]
          /\ store =
              [policy |-> [p \in Policies |->
                             IF p \in S THEN NewPolicy(ts[p], ss[p]) ELSE NoSuchPolicy],
               route |-> [r \in Routes |->
                             [NoSuchRoute EXCEPT !.live = TRUE, !.parents = ps[r], !.hosts = hs[r]]],
               gateway |-> [g \in Gateways |->
                             [NoSuchGateway EXCEPT !.live = TRUE, !.ready = TRUE, !.hosts = hs[g]]],
               limitador |-> [status |-> "ready", limits |-> NoLimits],
               plugin |-> [g \in Gateways |-> NoPlugin],
               filter |-> [g \in Gateways |-> FALSE]]
          /\ queue = S
    /\ cache = store
    /\ edits = MaxEdits

ClusterTypeOK ==
    /\ store \in Cluster
    /\ cache \in Cluster
    /\ queue \in SUBSET Policies
    /\ edits \in Nat
=============================================================================
