----------------------- MODULE RateLimitPolicyProofs -----------------------
(***************************************************************************)
(* Theorems about the RateLimitPolicy controller, for any number of        *)
(* policies, routes, gateways and hostnames, any lag of the caches, any    *)
(* number of edits and faults: type correctness, then what the stages of a *)
(* reconciliation establish on the way, and the action properties that     *)
(* follow from it.                                                         *)
(***************************************************************************)
EXTENDS RateLimitPolicyProperties, TLAPS

-----------------------------------------------------------------------------
(* Type correctness. First, the objects and how a write changes a cluster. *)

\* The records standing for absent objects are objects.
LEMMA AbsentTypes ==
    /\ NoSuchPolicy \in Policy
    /\ NoSuchRoute \in Route
    /\ NoSuchGateway \in Gateway
    /\ NoPlugin \in Plugin
    /\ NoLimits \in [Gateways -> SUBSET Entry]
BY DEF NoSuchPolicy, NoSuchRoute, NoSuchGateway, NoPlugin, NoLimits,
       Policy, Route, Gateway, Plugin

\* Replacing one object of a cluster leaves a cluster.
LEMMA PutTypes ==
    ASSUME NEW c \in Cluster
    PROVE  /\ \A p \in Policies, x \in Policy : [c EXCEPT !.policy[p] = x] \in Cluster
           /\ \A r \in Routes, x \in Route : [c EXCEPT !.route[r] = x] \in Cluster
           /\ \A g \in Gateways, x \in Gateway : [c EXCEPT !.gateway[g] = x] \in Cluster
           /\ \A x \in Limitador : [c EXCEPT !.limitador = x] \in Cluster
           /\ \A g \in Gateways, x \in Plugin : [c EXCEPT !.plugin[g] = x] \in Cluster
           /\ \A g \in Gateways, x \in BOOLEAN : [c EXCEPT !.filter[g] = x] \in Cluster
<1>1. \A p \in Policies, x \in Policy : [c EXCEPT !.policy[p] = x] \in Cluster
  BY DEF Cluster
<1>2. \A r \in Routes, x \in Route : [c EXCEPT !.route[r] = x] \in Cluster
  BY DEF Cluster
<1>3. \A g \in Gateways, x \in Gateway : [c EXCEPT !.gateway[g] = x] \in Cluster
  BY DEF Cluster
<1>4. \A x \in Limitador : [c EXCEPT !.limitador = x] \in Cluster
  BY DEF Cluster
<1>5. \A g \in Gateways, x \in Plugin : [c EXCEPT !.plugin[g] = x] \in Cluster
  BY DEF Cluster
<1>6. \A g \in Gateways, x \in BOOLEAN : [c EXCEPT !.filter[g] = x] \in Cluster
  BY DEF Cluster
<1> QED BY <1>1, <1>2, <1>3, <1>4, <1>5, <1>6

\* The objects of a cluster have their types.
LEMMA GetTypes ==
    ASSUME NEW c \in Cluster
    PROVE  /\ \A p \in Policies : c.policy[p] \in Policy
           /\ \A r \in Routes : c.route[r] \in Route
           /\ \A g \in Gateways : c.gateway[g] \in Gateway
           /\ c.gateway \in [Gateways -> Gateway]
           /\ c.limitador \in Limitador
           /\ \A g \in Gateways : c.plugin[g] \in Plugin
           /\ \A g \in Gateways : c.filter[g] \in BOOLEAN
BY DEF Cluster

\* What aggregation computes for a gateway is a set of entries.
LEMMA GatewayConfigType ==
    ASSUME NEW c \in Cluster, NEW gw \in Gateway, NEW R \in SUBSET Policies
    PROVE  GatewayConfig(c, gw, R) \in SUBSET Entry
<1>1. \A q \in Policies : c.policy[q] \in Policy
  BY GetTypes
<1>2. \A q \in Policies, hs \in SUBSET Hostnames : Share(c, q, hs) \subseteq Entry
  BY <1>1 DEF Share, Entry, Policy
<1>3. OrWildcard(gw.hosts) \in SUBSET Hostnames
  BY ClusterAssumption DEF OrWildcard, Gateway
<1>4. GatewayShare(c, gw, R) \subseteq Entry
  BY <1>2, <1>3 DEF GatewayShare, GatewayPolicies
<1>5. \A q \in RoutePolicies(c, R) : c.route[c.policy[q].target].hosts \in SUBSET Hostnames
  BY GetTypes DEF RoutePolicies, Route
<1>6. RouteShare(c, R) \subseteq Entry
  <2>1. SUFFICES ASSUME NEW q \in RoutePolicies(c, R),
                        NEW x \in {q} \cup GatewayPolicies(c, R)
                 PROVE  Share(c, x, c.route[c.policy[q].target].hosts) \subseteq Entry
    BY DEF RouteShare
  <2>2. x \in Policies
    BY <2>1 DEF RoutePolicies, GatewayPolicies
  <2> QED BY <1>2, <1>5, <2>2
<1> QED BY <1>4, <1>6 DEF GatewayConfig

\* The gateway-level limits reported for a route have the type of the status.
LEMMA GatewaysRateLimitsType ==
    ASSUME NEW c \in Cluster, NEW t \in Routes
    PROVE  GatewaysRateLimits(c, t) \in SUBSET (Gateways \X (Specs \cup {None}))
<1>1. c.route[t].parents \in SUBSET Gateways
  BY GetTypes DEF Route
<1>2. \A q \in Policies : c.policy[q].spec \in Specs \cup {None}
  BY GetTypes DEF Policy
<1> QED BY <1>1, <1>2 DEF GatewaysRateLimits, TargetedGatewayKeys

-----------------------------------------------------------------------------
(* The inductive invariant adds that a busy worker has a policy.           *)

BusyWithPolicy == wk.pc # "idle" => wk.p \in Policies

TypeInv == TypeOK /\ BusyWithPolicy

\* How a step may leave the worker and the queue.
WorkerTyped ==
    /\ wk' \in Worker
    /\ wk'.pc # "idle" => wk'.p \in Policies
    /\ queue' \in SUBSET Policies

LEMMA IdleType == Idle \in Worker /\ Idle.pc = "idle"
BY AbsentTypes DEF Idle, Worker, Stages, SpecStages

\* An error leaves the worker reporting it, or idle with the policy requeued.
LEMMA FailType ==
    ASSUME TypeInv, wk.pc # "idle", Fail
    PROVE  WorkerTyped
<1>1. CASE Requeue
  BY <1>1, IdleType DEF Requeue, WorkerTyped, TypeInv, TypeOK, BusyWithPolicy, ClusterTypeOK
<1>2. CASE Goto([wk EXCEPT !.pc = "status", !.err = TRUE])
  BY <1>2 DEF Goto, WorkerTyped, TypeInv, TypeOK, BusyWithPolicy, ClusterTypeOK,
              Worker, Stages
<1> QED BY <1>1, <1>2 DEF Fail

\* The initial cluster, worker and counters are well typed.
LEMMA InitTypeInv == Init => TypeInv
<1> SUFFICES ASSUME Init PROVE TypeInv
  OBVIOUS
<1>1. PICK S \in SUBSET Policies, ts \in [Policies -> Targets], ss \in [Policies -> Specs],
           ps \in [Routes -> SUBSET Gateways], hs \in [Routes \cup Gateways -> HostLists] :
        /\ store =
              [policy |-> [p \in Policies |->
                             IF p \in S THEN NewPolicy(ts[p], ss[p]) ELSE NoSuchPolicy],
               route |-> [r \in Routes |->
                             [NoSuchRoute EXCEPT !.live = TRUE, !.parents = ps[r], !.hosts = hs[r]]],
               gateway |-> [g \in Gateways |->
                             [NoSuchGateway EXCEPT !.live = TRUE, !.ready = TRUE, !.hosts = hs[g]]],
               limitador |-> [status |-> "ready", limits |-> NoLimits],
               plugin |-> [g \in Gateways |-> NoPlugin],
               filter |-> [g \in Gateways |-> FALSE]]
        /\ queue = S
  BY DEF Init, ClusterInit
<1>2. \A t \in Targets, s \in Specs : NewPolicy(t, s) \in Policy
  BY DEF NewPolicy, NoSuchPolicy, Policy
<1>3. \A t \in Routes \cup Gateways : hs[t] \in SUBSET Hostnames
  BY ClusterAssumption
<1>4. \A r \in Routes :
        [NoSuchRoute EXCEPT !.live = TRUE, !.parents = ps[r], !.hosts = hs[r]] \in Route
  BY <1>3 DEF NoSuchRoute, Route, Targets
<1>5. \A g \in Gateways :
        [NoSuchGateway EXCEPT !.live = TRUE, !.ready = TRUE, !.hosts = hs[g]] \in Gateway
  BY <1>3 DEF NoSuchGateway, Gateway, Targets
<1>6. [status |-> "ready", limits |-> NoLimits] \in Limitador
  BY AbsentTypes DEF Limitador
<1>7. store \in Cluster
  BY <1>1, <1>2, <1>4, <1>5, <1>6, AbsentTypes DEF Cluster
<1> QED
  BY <1>1, <1>7, IdleType, ClusterAssumption
  DEF Init, ClusterInit, TypeInv, TypeOK, ClusterTypeOK, BusyWithPolicy

\* A watch event copies one object and enqueues policies.
LEMMA DeliverTypeInv == TypeInv /\ Watch => TypeInv'
<1> SUFFICES ASSUME TypeInv, Watch PROVE TypeInv'
  OBVIOUS
<1> USE DEF TypeInv, TypeOK, ClusterTypeOK, BusyWithPolicy
<1>1. wk' = wk /\ faults' = faults /\ Deliver
  BY DEF Watch
<1>2. \A x \in Policy : MapRouteRateLimitPolicy(x) \in SUBSET Policies
  BY GetTypes DEF MapRouteRateLimitPolicy, Gateway
<1>3. \A x \in Route : MapHTTPRouteToRateLimitPolicy(x) \in SUBSET Policies
  BY DEF MapHTTPRouteToRateLimitPolicy, Route
<1>4. \A x \in Gateway : MapGatewayToRateLimitPolicy(x) \in SUBSET Policies
  BY DEF MapGatewayToRateLimitPolicy, Gateway
<1>5. ASSUME NEW p \in Policies, DeliverPolicy(p) PROVE TypeInv'
  BY <1>1, <1>2, <1>5, GetTypes, PutTypes DEF DeliverPolicy
<1>6. ASSUME NEW r \in Routes, DeliverRoute(r) PROVE TypeInv'
  BY <1>1, <1>3, <1>6, GetTypes, PutTypes DEF DeliverRoute
<1>7. ASSUME NEW g \in Gateways, DeliverGateway(g) PROVE TypeInv'
  BY <1>1, <1>4, <1>7, GetTypes, PutTypes DEF DeliverGateway
<1>8. CASE DeliverLimitador
  BY <1>1, <1>8, GetTypes, PutTypes DEF DeliverLimitador
<1>9. ASSUME NEW g \in Gateways, DeliverPlugin(g) PROVE TypeInv'
  BY <1>1, <1>9, GetTypes, PutTypes DEF DeliverPlugin
<1>10. ASSUME NEW g \in Gateways, DeliverFilter(g) PROVE TypeInv'
  BY <1>1, <1>10, GetTypes, PutTypes DEF DeliverFilter
<1> QED BY <1>1, <1>5, <1>6, <1>7, <1>8, <1>9, <1>10 DEF Deliver

\* An edit keeps the types when the cluster after it is a cluster.
LEMMA EditTypeInv ==
    ASSUME TypeInv, UNCHANGED <<wk, faults>>,
           NEW kind, NEW after \in Cluster, Edit(kind, after)
    PROVE  TypeInv'
BY DEF Edit, TypeInv, TypeOK, ClusterTypeOK, BusyWithPolicy

\* Every change of the environment writes well-typed objects.
LEMMA EnvironmentTypeInv == TypeInv /\ Environment => TypeInv'
<1> SUFFICES ASSUME TypeInv, Environment PROVE TypeInv'
  OBVIOUS
<1>1. UNCHANGED <<wk, faults>>
  BY DEF Environment
<1>2. store \in Cluster
  BY DEF TypeInv, TypeOK, ClusterTypeOK
<1>3. CASE EditPolicies
  <2>1. PICK p \in Policies :
          \/ \E t \in TargetsOf[p], s \in Specs : CreatePolicy(p, t, s)
          \/ \E s \in Specs : EditSpec(p, s)
          \/ \E t \in TargetsOf[p] : Retarget(p, t)
          \/ DeletePolicy(p)
          \/ DeleteUnmarkedPolicy(p)
    BY <1>3 DEF EditPolicies
  <2>2. TargetsOf[p] \subseteq Targets /\ store.policy[p] \in Policy
    BY <1>2, ClusterAssumption, GetTypes
  <2>3. ASSUME NEW t \in Targets, NEW s \in Specs, CreatePolicy(p, t, s) PROVE TypeInv'
    <3>1. NewPolicy(t, s) \in Policy
      BY DEF NewPolicy, NoSuchPolicy, Policy
    <3> QED BY <1>1, <1>2, <2>3, <3>1, PutTypes, EditTypeInv DEF CreatePolicy
  <2>4. ASSUME NEW s \in Specs, EditSpec(p, s) PROVE TypeInv'
    <3>1. [store.policy[p] EXCEPT !.spec = s, !.observed = FALSE] \in Policy
      BY <2>2 DEF Policy
    <3> QED BY <1>1, <1>2, <2>4, <3>1, PutTypes, EditTypeInv DEF EditSpec
  <2>5. ASSUME NEW t \in Targets, Retarget(p, t) PROVE TypeInv'
    <3>1. [store.policy[p] EXCEPT !.target = t, !.observed = FALSE] \in Policy
      BY <2>2 DEF Policy
    <3> QED BY <1>1, <1>2, <2>5, <3>1, PutTypes, EditTypeInv DEF Retarget
  <2>6. CASE DeletePolicy(p)
    <3>1. [store.policy[p] EXCEPT !.deleting = TRUE, !.observed = FALSE] \in Policy
      BY <2>2 DEF Policy
    <3> QED BY <1>1, <1>2, <2>6, <3>1, PutTypes, EditTypeInv DEF DeletePolicy
  <2>7. CASE DeleteUnmarkedPolicy(p)
    BY <1>1, <1>2, <2>7, AbsentTypes, PutTypes, EditTypeInv DEF DeleteUnmarkedPolicy
  <2> QED BY <2>1, <2>2, <2>3, <2>4, <2>5, <2>6, <2>7
<1>4. CASE EditRoutes
  <2>1. PICK r \in Routes :
          \/ \E ps \in ParentsOf[r], hs \in HostLists : CreateRoute(r, ps, hs)
          \/ DeleteRoute(r)
          \/ \E ps \in ParentsOf[r] : EditParents(r, ps)
          \/ \E hs \in HostLists : EditRouteHosts(r, hs)
          \/ \E gs \in SUBSET Gateways : SetRejecting(r, gs)
    BY <1>4 DEF EditRoutes
  <2>2. ParentsOf[r] \subseteq SUBSET Gateways /\ HostLists \subseteq SUBSET Hostnames
    BY ClusterAssumption
  <2>3. ASSUME NEW ps \in SUBSET Gateways, NEW hs \in SUBSET Hostnames, CreateRoute(r, ps, hs)
        PROVE  TypeInv'
    <3>1. [NoSuchRoute EXCEPT !.live = TRUE, !.parents = ps, !.hosts = hs] \in Route
      BY DEF NoSuchRoute, Route
    <3> QED BY <1>1, <1>2, <2>3, <3>1, PutTypes, EditTypeInv DEF CreateRoute
  <2>4. CASE DeleteRoute(r)
    BY <1>1, <1>2, <2>4, AbsentTypes, PutTypes, EditTypeInv DEF DeleteRoute
  <2>5. ASSUME NEW ps \in SUBSET Gateways, EditParents(r, ps) PROVE TypeInv'
    <3>1. [store.route[r] EXCEPT !.parents = ps] \in Route
      BY <1>2, GetTypes DEF Route
    <3> QED BY <1>1, <1>2, <2>5, <3>1, PutTypes, EditTypeInv DEF EditParents
  <2>6. ASSUME NEW hs \in SUBSET Hostnames, EditRouteHosts(r, hs) PROVE TypeInv'
    <3>1. [store.route[r] EXCEPT !.hosts = hs] \in Route
      BY <1>2, GetTypes DEF Route
    <3> QED BY <1>1, <1>2, <2>6, <3>1, PutTypes, EditTypeInv DEF EditRouteHosts
  <2>7. ASSUME NEW gs \in SUBSET Gateways, SetRejecting(r, gs) PROVE TypeInv'
    <3>1. [store.route[r] EXCEPT !.rejecting = gs] \in Route
      BY <1>2, GetTypes DEF Route
    <3> QED BY <1>1, <1>2, <2>7, <3>1, PutTypes, EditTypeInv DEF SetRejecting
  <2> QED BY <2>1, <2>2, <2>3, <2>4, <2>5, <2>6, <2>7
<1>5. CASE EditGateways
  <2>1. PICK g \in Gateways :
          \/ \E hs \in HostLists : CreateGateway(g, hs)
          \/ DeleteGateway(g)
          \/ \E hs \in HostLists : EditGatewayHosts(g, hs)
          \/ \E b \in BOOLEAN : SetReady(g, b)
    BY <1>5 DEF EditGateways
  <2>2. HostLists \subseteq SUBSET Hostnames
    BY ClusterAssumption
  <2>3. ASSUME NEW hs \in SUBSET Hostnames, CreateGateway(g, hs) PROVE TypeInv'
    <3>1. [NoSuchGateway EXCEPT !.live = TRUE, !.ready = TRUE, !.hosts = hs] \in Gateway
      BY DEF NoSuchGateway, Gateway
    <3> QED BY <1>1, <1>2, <2>3, <3>1, PutTypes, EditTypeInv DEF CreateGateway
  <2>4. CASE DeleteGateway(g)
    BY <1>1, <1>2, <2>4, AbsentTypes, PutTypes, EditTypeInv DEF DeleteGateway
  <2>5. ASSUME NEW hs \in SUBSET Hostnames, EditGatewayHosts(g, hs) PROVE TypeInv'
    <3>1. [store.gateway[g] EXCEPT !.hosts = hs] \in Gateway
      BY <1>2, GetTypes DEF Gateway
    <3> QED BY <1>1, <1>2, <2>5, <3>1, PutTypes, EditTypeInv DEF EditGatewayHosts
  <2>6. ASSUME NEW b \in BOOLEAN, SetReady(g, b) PROVE TypeInv'
    <3>1. [store.gateway[g] EXCEPT !.ready = b] \in Gateway
      BY <1>2, GetTypes DEF Gateway
    <3> QED BY <1>1, <1>2, <2>6, <3>1, PutTypes, EditTypeInv DEF SetReady
  <2> QED BY <2>1, <2>2, <2>3, <2>4, <2>5, <2>6
<1>6. CASE EditLimitador
  <2>1. PICK s \in {"absent", "notReady", "ready"} : SetLimitador(s)
    BY <1>6 DEF EditLimitador
  <2>2. [status |-> s, limits |-> IF s = "absent" THEN NoLimits ELSE store.limitador.limits]
          \in Limitador
    BY <1>2, AbsentTypes, GetTypes DEF Limitador
  <2> QED BY <1>1, <1>2, <2>1, <2>2, PutTypes, EditTypeInv DEF SetLimitador
<1> QED BY <1>3, <1>4, <1>5, <1>6 DEF Environment

-----------------------------------------------------------------------------
(* The steps of the worker. Each ends in Advance, Abort or Call.           *)

\* The worker may go on in this state.
Continues(next) == next \in Worker /\ (next.pc # "idle" => next.p \in Policies)

LEMMA AdvanceTypeInv ==
    ASSUME TypeInv, UNCHANGED <<cache, edits>>, NEW next, Continues(next), Advance(next)
    PROVE  TypeInv'
BY DEF Advance, Goto, Continues, TypeInv, TypeOK, ClusterTypeOK, BusyWithPolicy

LEMMA AbortTypeInv ==
    ASSUME TypeInv, wk.pc # "idle", UNCHANGED <<cache, edits>>, Abort
    PROVE  TypeInv'
BY FailType DEF Abort, WorkerTyped, TypeInv, TypeOK, ClusterTypeOK, BusyWithPolicy

LEMMA CallTypeInv ==
    ASSUME TypeInv, wk.pc # "idle", UNCHANGED <<cache, edits>>,
           NEW accepted, NEW after \in Cluster, NEW next, Continues(next),
           Call(accepted, after, Goto(next))
    PROVE  TypeInv'
<1>1. CASE accepted /\ store' = after /\ Goto(next) /\ UNCHANGED faults
  BY <1>1 DEF Goto, Continues, TypeInv, TypeOK, ClusterTypeOK, BusyWithPolicy
<1>2. CASE Abort
  BY <1>2, AbortTypeInv
<1>3. CASE /\ faults > 0
           /\ faults' = faults - 1
           /\ store' \in {store, IF accepted THEN after ELSE store}
           /\ Fail
  BY <1>3, FailType DEF WorkerTyped, TypeInv, TypeOK, ClusterTypeOK, BusyWithPolicy
<1> QED BY <1>1, <1>2, <1>3 DEF Call

\* The parts of the invariant that the steps use.
LEMMA TypeParts ==
    ASSUME TypeInv
    PROVE  /\ store \in Cluster
           /\ cache \in Cluster
           /\ wk \in Worker
           /\ wk.pc # "idle" => wk.p \in Policies
           /\ wk.rlp \in Policy
           /\ \A g \in Gateways : wk.gws[g] \in Gateway
           /\ wk.todo \in SUBSET Gateways
BY DEF TypeInv, TypeOK, ClusterTypeOK, BusyWithPolicy, Worker

\* Reading a policy from the queue.
LEMMA StartTypeInv == TypeInv /\ (\E p \in Policies : Start(p)) => TypeInv'
<1> SUFFICES ASSUME TypeInv, NEW p \in Policies, Start(p) PROVE TypeInv'
  OBVIOUS
<1>1. cache.policy[p] \in Policy
  BY TypeParts, GetTypes
<1>2. EntryStage(cache.policy[p]) \in Stages
  BY DEF EntryStage, Stages, SpecStages
<1>3. wk' \in Worker /\ (wk'.pc # "idle" => wk'.p \in Policies)
  BY <1>1, <1>2, IdleType DEF Start, Worker, Idle
<1> QED BY <1>3 DEF Start, At, TypeInv, TypeOK, ClusterTypeOK, BusyWithPolicy

\* Adding the finalizer to the worker's copy and to the policy.
LEMMA AddFinalizerTypeInv == TypeInv /\ AddFinalizer => TypeInv'
<1> SUFFICES ASSUME TypeInv, AddFinalizer PROVE TypeInv'
  OBVIOUS
<1> DEFINE next == [wk EXCEPT !.pc = "backRef", !.rlp.finalizer = TRUE]
<1>1. wk.pc # "idle" /\ UNCHANGED <<cache, edits>>
  BY DEF AddFinalizer, At
<1>2. next.rlp \in Policy /\ Continues(next)
  BY <1>1, TypeParts DEF Continues, Worker, Policy, Stages, SpecStages
<1>3. [store EXCEPT !.policy[wk.p] = next.rlp] \in Cluster
  BY <1>1, <1>2, TypeParts, PutTypes
<1>4. \/ Advance(next)
      \/ Call(UpdateAccepted(store.policy[wk.p], wk.rlp),
              [store EXCEPT !.policy[wk.p] = next.rlp], Goto(next))
  BY DEF AddFinalizer
<1> HIDE DEF next
<1> QED BY <1>1, <1>2, <1>3, <1>4, AdvanceTypeInv, CallTypeInv

\* Writing or removing the back reference of the target.
LEMMA BackRefTypes ==
    ASSUME TypeInv, NEW p \in Policies \cup {NoPolicy}
    PROVE  /\ \A t \in Routes : WithRouteBackRef(t, p) \in Cluster
           /\ \A t \in Gateways : WithGatewayBackRef(t, p) \in Cluster
<1>1. \A t \in Routes : [cache.route[t] EXCEPT !.backref = p] \in Route
  BY TypeParts, GetTypes DEF Route
<1>2. \A t \in Gateways : [cache.gateway[t] EXCEPT !.backref = p] \in Gateway
  BY TypeParts, GetTypes DEF Gateway
<1> QED BY <1>1, <1>2, TypeParts, PutTypes DEF WithRouteBackRef, WithGatewayBackRef

LEMMA ReconcileDirectBackReferenceTypeInv ==
    TypeInv /\ ReconcileDirectBackReference => TypeInv'
<1> SUFFICES ASSUME TypeInv, ReconcileDirectBackReference PROVE TypeInv'
  OBVIOUS
<1> DEFINE next == [wk EXCEPT !.pc = "diff"]
           t == wk.rlp.target
<1>1. wk.pc # "idle" /\ UNCHANGED <<cache, edits>>
  BY DEF ReconcileDirectBackReference, At
<1>2. Continues(next)
  BY <1>1, TypeParts DEF Continues, Worker, Stages, SpecStages
<1>3. \/ Abort
      \/ Advance(next)
      \/ t \in Routes /\ Call(UpdateAccepted(store.route[t], cache.route[t]),
                              WithRouteBackRef(t, wk.p), Goto(next))
      \/ t \in Gateways /\ Call(UpdateAccepted(store.gateway[t], cache.gateway[t]),
                                WithGatewayBackRef(t, wk.p), Goto(next))
  BY DEF ReconcileDirectBackReference
<1> HIDE DEF next, t
<1>4. /\ t \in Routes => WithRouteBackRef(t, wk.p) \in Cluster
      /\ t \in Gateways => WithGatewayBackRef(t, wk.p) \in Cluster
  BY <1>1, TypeParts, BackRefTypes
<1> QED BY <1>1, <1>2, <1>3, <1>4, AbortTypeInv, AdvanceTypeInv, CallTypeInv

LEMMA DeleteNetworkResourceBackReferenceTypeInv ==
    TypeInv /\ DeleteNetworkResourceBackReference => TypeInv'
<1> SUFFICES ASSUME TypeInv, DeleteNetworkResourceBackReference PROVE TypeInv'
  OBVIOUS
<1> DEFINE next == [wk EXCEPT !.pc = "finRemove"]
           t == wk.rlp.target
<1>1. wk.pc # "idle" /\ UNCHANGED <<cache, edits>>
  BY DEF DeleteNetworkResourceBackReference, At
<1>2. Continues(next)
  BY <1>1, TypeParts DEF Continues, Worker, Stages, SpecStages
<1>3. \/ Abort
      \/ Advance(next)
      \/ t \in Routes /\ Call(UpdateAccepted(store.route[t], cache.route[t]),
                              WithRouteBackRef(t, NoPolicy), Goto(next))
      \/ t \in Gateways /\ Call(UpdateAccepted(store.gateway[t], cache.gateway[t]),
                                WithGatewayBackRef(t, NoPolicy), Goto(next))
  BY DEF DeleteNetworkResourceBackReference
<1> HIDE DEF next, t
<1>4. /\ t \in Routes => WithRouteBackRef(t, NoPolicy) \in Cluster
      /\ t \in Gateways => WithGatewayBackRef(t, NoPolicy) \in Cluster
  BY BackRefTypes
<1> QED BY <1>1, <1>2, <1>3, <1>4, AbortTypeInv, AdvanceTypeInv, CallTypeInv

\* The diffs are sets of gateways.
LEMMA ComputeGatewayDiffsTypeInv == TypeInv /\ ComputeGatewayDiffs => TypeInv'
<1> SUFFICES ASSUME TypeInv, ComputeGatewayDiffs PROVE TypeInv'
  OBVIOUS
<1> DEFINE keys == TargetedGatewayKeys(cache, wk.rlp.target)
           next == [wk EXCEPT !.pc = "limits", !.gws = cache.gateway,
                              !.left = LeftGateways(cache, wk.p, keys),
                              !.same = SameGateways(cache, wk.p, keys),
                              !.new = NewGateways(cache, wk.p, keys)]
<1>1. wk.pc # "idle" /\ UNCHANGED <<cache, edits>>
  BY DEF ComputeGatewayDiffs, At
<1>2. keys \in SUBSET Gateways
  BY TypeParts, GetTypes DEF TargetedGatewayKeys, Route
<1>3. Abort \/ Advance(next)
  BY DEF ComputeGatewayDiffs
<1>4. Continues(next)
  <2> HIDE DEF keys
  <2>1. /\ LeftGateways(cache, wk.p, keys) \in SUBSET Gateways
        /\ SameGateways(cache, wk.p, keys) \in SUBSET Gateways
        /\ NewGateways(cache, wk.p, keys) \in SUBSET Gateways
    BY <1>2 DEF LeftGateways, SameGateways, NewGateways
  <2> QED BY <1>1, <2>1, TypeParts, GetTypes DEF Continues, Worker, Stages, SpecStages
<1> HIDE DEF next
<1> QED BY <1>1, <1>3, <1>4, AbortTypeInv, AdvanceTypeInv

LEMMA ComputeFinalizeGatewayDiffTypeInv == TypeInv /\ ComputeFinalizeGatewayDiff => TypeInv'
<1> SUFFICES ASSUME TypeInv, ComputeFinalizeGatewayDiff PROVE TypeInv'
  OBVIOUS
<1> DEFINE t == wk.rlp.target
           keys == IF t \in Routes /\ ~TargetLive(cache, t) THEN {}
                   ELSE TargetedGatewayKeys(cache, t)
           left == {g \in keys : cache.gateway[g].live}
           twice == left \cap RepeatedGatewayKeys(cache, t)
           next == [wk EXCEPT !.pc = "refs", !.gws = cache.gateway,
                              !.left = left, !.twice = twice, !.todo = left, !.again = twice]
<1>1. wk.pc # "idle" /\ UNCHANGED <<cache, edits>>
  BY DEF ComputeFinalizeGatewayDiff, At
<1>2. left \in SUBSET Gateways /\ twice \in SUBSET Gateways
  BY TypeParts, GetTypes DEF TargetedGatewayKeys, Route
<1>3. Abort \/ Advance(next)
  BY DEF ComputeFinalizeGatewayDiff
<1>4. Continues(next)
  <2> HIDE DEF left, twice
  <2> QED BY <1>1, <1>2, TypeParts, GetTypes DEF Continues, Worker, Stages, SpecStages
<1> HIDE DEF next
<1> QED BY <1>1, <1>3, <1>4, AbortTypeInv, AdvanceTypeInv

\* A visit of g changes how often the loop still comes to g, and no more.
LEMMA VisitedFields ==
    ASSUME TypeInv, NEW g \in Gateways, NEW next,
           \/ next = Visited(g)
           \/ next = [Visited(g) EXCEPT !.gws[g].refs = RLPRefsAfter(g)]
    PROVE  /\ next.pc = wk.pc /\ next.p = wk.p /\ next.mode = wk.mode /\ next.rlp = wk.rlp
           /\ next.left = wk.left /\ next.same = wk.same /\ next.new = wk.new
           /\ next.twice = wk.twice /\ next.err = wk.err
           /\ next.again = wk.again \ {g}
           /\ next.todo = IF g \in wk.again THEN wk.todo ELSE wk.todo \ {g}
<1>1. wk \in Worker
  BY TypeParts
<1>2. CASE g \in wk.again
  BY <1>1, <1>2 DEF Visited, Worker
<1>3. CASE g \notin wk.again
  <2>1. wk.again \ {g} = wk.again
    BY <1>3
  <2> QED BY <1>1, <1>3, <2>1 DEF Visited, Worker
<1> QED BY <1>2, <1>3

\* Entering the stage that follows, and going on with the loop of a stage.
LEMMA EnterType ==
    ASSUME TypeInv, wk.pc # "idle"
    PROVE  /\ Continues(Enter(Following))
           /\ \A g \in Gateways : Continues(Visited(g))
<1>1. Following \in Stages /\ Following # "idle"
  BY DEF Following, Stages, SpecStages
<1>2. \A pc \in Stages : Enter(pc) \in Worker /\ Enter(pc).p = wk.p
  BY TypeParts DEF Enter, Worker
<1>3. \A g \in Gateways : Continues(Visited(g))
  BY TypeParts DEF Visited, Continues, Worker
<1> QED BY <1>1, <1>2, <1>3, TypeParts DEF Continues

\* The policies after this reconciliation, and the configuration they give.
LEMMA AfterTypes ==
    ASSUME TypeInv, wk.pc # "idle", NEW g \in Gateways
    PROVE  /\ RLPRefsAfter(g) \in SUBSET Policies
           /\ GatewayConfig(cache, wk.gws[g], RLPRefsAfter(g)) \in SUBSET Entry
<1>1. RLPRefsAfter(g) \in SUBSET Policies
  BY TypeParts DEF RLPRefsAfter, Gateway
<1> QED BY <1>1, TypeParts, GatewayConfigType

LEMMA ReconcileLimitsTypeInv == TypeInv /\ ReconcileLimits => TypeInv'
<1> SUFFICES ASSUME TypeInv, ReconcileLimits PROVE TypeInv'
  OBVIOUS
<1> DEFINE next == Enter(Following)
           lim == [cache.limitador EXCEPT !.limits = LimitsAfter]
<1>1. wk.pc # "idle" /\ UNCHANGED <<cache, edits>>
  BY DEF ReconcileLimits, At
<1>2. LimitsAfter \in [Gateways -> SUBSET Entry]
  BY <1>1, AfterTypes, TypeParts, GetTypes DEF LimitsAfter, Limitador
<1>3. [store EXCEPT !.limitador = lim] \in Cluster
  <2>1. lim \in Limitador
    BY <1>2, TypeParts, GetTypes DEF Limitador
  <2> QED BY <2>1, TypeParts, PutTypes
<1>4. \/ Abort
      \/ Advance(next)
      \/ Call(UpdateAccepted(store.limitador, cache.limitador),
              [store EXCEPT !.limitador = lim], Goto(next))
  BY DEF ReconcileLimits
<1>5. Continues(next)
  BY <1>1, EnterType
<1> HIDE DEF next, lim
<1> QED BY <1>1, <1>3, <1>4, <1>5, AbortTypeInv, AdvanceTypeInv, CallTypeInv

LEMMA ReconcileFilterTypeInv ==
    ASSUME TypeInv, NEW g \in Gateways, ReconcileFilter(g)
    PROVE  TypeInv'
<1> DEFINE desired == RLPRefsAfter(g) # {}
           accepted == ResourceAccepted(cache.filter[g], store.filter[g], desired, FALSE)
<1>1. wk.pc # "idle" /\ UNCHANGED <<cache, edits>>
  BY DEF ReconcileFilter, At
<1>2. [store EXCEPT !.filter[g] = desired] \in Cluster
  BY TypeParts, PutTypes
<1>3. \/ Abort
      \/ Advance(Visited(g))
      \/ Call(accepted, [store EXCEPT !.filter[g] = desired], Goto(Visited(g)))
  BY DEF ReconcileFilter
<1> HIDE DEF desired, accepted
<1> QED BY <1>1, <1>2, <1>3, EnterType, AbortTypeInv, AdvanceTypeInv, CallTypeInv

LEMMA ReconcilePluginTypeInv ==
    ASSUME TypeInv, NEW g \in Gateways, ReconcilePlugin(g)
    PROVE  TypeInv'
<1> DEFINE refs == RLPRefsAfter(g)
           desired == IF refs = {} THEN NoPlugin
                      ELSE [live |-> TRUE, conf |-> GatewayConfig(cache, wk.gws[g], refs)]
           accepted == ResourceAccepted(cache.plugin[g], store.plugin[g], desired, NoPlugin)
<1>1. wk.pc # "idle" /\ UNCHANGED <<cache, edits>>
  BY DEF ReconcilePlugin, At
<1>2. desired \in Plugin
  BY <1>1, AfterTypes, AbsentTypes DEF Plugin
<1>3. \/ Abort
      \/ Advance(Visited(g))
      \/ Call(accepted, [store EXCEPT !.plugin[g] = desired], Goto(Visited(g)))
  BY DEF ReconcilePlugin
<1> HIDE DEF desired, accepted
<1>4. [store EXCEPT !.plugin[g] = desired] \in Cluster
  BY <1>2, TypeParts, PutTypes
<1> QED BY <1>1, <1>3, <1>4, EnterType, AbortTypeInv, AdvanceTypeInv, CallTypeInv

LEMMA ReconcileGatewayRLPReferencesTypeInv ==
    ASSUME TypeInv, NEW g \in Gateways, ReconcileGatewayRLPReferences(g)
    PROVE  TypeInv'
<1> DEFINE refs == RLPRefsAfter(g)
           noted == [Visited(g) EXCEPT !.gws[g].refs = refs]
           next == IF g \in wk.again THEN Visited(g) ELSE noted
           gw == [wk.gws[g] EXCEPT !.refs = refs]
<1>1. wk.pc # "idle" /\ UNCHANGED <<cache, edits>>
  BY DEF ReconcileGatewayRLPReferences, At
<1>2. refs \in SUBSET Policies
  BY <1>1, AfterTypes
<1>3. \/ Advance(Visited(g))
      \/ Call(UpdateAccepted(store.gateway[g], wk.gws[g]),
              [store EXCEPT !.gateway[g] = gw], Goto(next))
  BY DEF ReconcileGatewayRLPReferences
<1> HIDE DEF refs
<1>4. gw \in Gateway
  BY <1>2, TypeParts DEF Gateway
<1>5. Continues(next)
  <2>1. Visited(g).gws = wk.gws /\ Continues(Visited(g))
    BY <1>1, TypeParts, EnterType DEF Visited, Worker
  <2>2. noted = [Visited(g) EXCEPT !.gws = [wk.gws EXCEPT ![g] = gw]]
    BY <2>1
  <2>3. [wk.gws EXCEPT ![g] = gw] \in [Gateways -> Gateway]
    BY <1>4, TypeParts DEF Worker
  <2>4. next = Visited(g) \/ next = noted
    OBVIOUS
  <2> HIDE DEF next, noted, gw
  <2>5. Continues(noted)
    BY <2>1, <2>2, <2>3 DEF Continues, Worker
  <2> QED BY <2>1, <2>4, <2>5
<1> HIDE DEF next, gw
<1>6. [store EXCEPT !.gateway[g] = gw] \in Cluster
  BY <1>4, TypeParts, PutTypes
<1> QED BY <1>1, <1>3, <1>5, <1>6, EnterType, AdvanceTypeInv, CallTypeInv

LEMMA NextStageTypeInv == TypeInv /\ NextStage => TypeInv'
<1> SUFFICES ASSUME TypeInv, NextStage PROVE TypeInv'
  OBVIOUS
<1>1. wk.pc # "idle" /\ UNCHANGED <<cache, edits>>
  BY DEF NextStage, At
<1> QED BY <1>1, EnterType, AdvanceTypeInv DEF NextStage

\* The status is computed from the worker's copy and written back.
LEMMA ReconcileStatusTypeInv == TypeInv /\ ReconcileStatus => TypeInv'
<1> SUFFICES ASSUME TypeInv, ReconcileStatus PROVE TypeInv'
  OBVIOUS
<1> DEFINE t == wk.rlp.target
           gwLimits == IF t \in Routes /\ cache.route[t].live
                       THEN GatewaysRateLimits(cache, t) ELSE {}
           status == [wk.rlp EXCEPT !.observed = TRUE, !.gwLimits = gwLimits,
                                    !.available = IF wk.err THEN "False" ELSE "True"]
           after == [store EXCEPT !.policy[wk.p] = status]
           accepted == UpdateAccepted(store.policy[wk.p], wk.rlp)
<1>1. wk.pc # "idle" /\ wk.p \in Policies /\ UNCHANGED <<cache, edits>>
  BY TypeParts DEF ReconcileStatus, At
<1>2. gwLimits \in SUBSET (Gateways \X (Specs \cup {None}))
  BY TypeParts, GatewaysRateLimitsType
<1>3. \/ Abort
      \/ (Requeue \/ Goto(Idle)) /\ UNCHANGED <<store, faults>>
      \/ Call(accepted, after, IF wk.err THEN Requeue ELSE Goto(Idle))
  BY DEF ReconcileStatus
<1>4. after \in Cluster
  <2> HIDE DEF gwLimits
  <2>1. status \in Policy
    BY <1>2, TypeParts DEF Policy
  <2> HIDE DEF status
  <2> QED BY <1>1, <2>1, TypeParts, PutTypes
<1> HIDE DEF after, accepted
<1>5. Requeue \/ Goto(Idle) => WorkerTyped
  BY <1>1, IdleType DEF Requeue, Goto, WorkerTyped, TypeInv, TypeOK, ClusterTypeOK
<1>6. CASE Abort
  BY <1>1, <1>6, AbortTypeInv
<1>7. CASE (Requeue \/ Goto(Idle)) /\ UNCHANGED <<store, faults>>
  BY <1>1, <1>5, <1>7 DEF WorkerTyped, TypeInv, TypeOK, ClusterTypeOK, BusyWithPolicy
<1>8. CASE (Requeue \/ Goto(Idle)) /\ store' = after /\ UNCHANGED faults
  BY <1>1, <1>4, <1>5, <1>8 DEF WorkerTyped, TypeInv, TypeOK, ClusterTypeOK, BusyWithPolicy
<1>9. CASE /\ faults > 0
           /\ faults' = faults - 1
           /\ store' \in {store, IF accepted THEN after ELSE store}
           /\ Fail
  BY <1>1, <1>4, <1>9, FailType DEF WorkerTyped, TypeInv, TypeOK, ClusterTypeOK, BusyWithPolicy
<1> QED BY <1>3, <1>6, <1>7, <1>8, <1>9 DEF Call

LEMMA RemoveFinalizerTypeInv == TypeInv /\ RemoveFinalizer => TypeInv'
<1> SUFFICES ASSUME TypeInv, RemoveFinalizer PROVE TypeInv'
  OBVIOUS
<1>1. wk.pc # "idle" /\ UNCHANGED <<cache, edits>>
  BY DEF RemoveFinalizer, At
<1>2. [store EXCEPT !.policy[wk.p] = NoSuchPolicy] \in Cluster
  BY <1>1, TypeParts, AbsentTypes, PutTypes
<1>3. Continues(Idle)
  BY IdleType DEF Continues
<1> QED BY <1>1, <1>2, <1>3, AdvanceTypeInv, CallTypeInv DEF RemoveFinalizer

LEMMA CrashTypeInv == TypeInv /\ Crash => TypeInv'
BY IdleType DEF Crash, TypeInv, TypeOK, ClusterTypeOK, BusyWithPolicy

\* Every step of the specification keeps the types.
LEMMA NextTypeInv == TypeInv /\ [Next]_vars => TypeInv'
<1> SUFFICES ASSUME TypeInv, [Next]_vars PROVE TypeInv'
  OBVIOUS
<1>1. CASE Apply
  BY <1>1, AddFinalizerTypeInv, ReconcileDirectBackReferenceTypeInv,
     ComputeGatewayDiffsTypeInv, ReconcileStatusTypeInv DEF Apply
<1>2. CASE Configure
  BY <1>2, ReconcileLimitsTypeInv, ReconcileFilterTypeInv, ReconcilePluginTypeInv,
     ReconcileGatewayRLPReferencesTypeInv, NextStageTypeInv DEF Configure
<1>3. CASE Finalize
  BY <1>3, ComputeFinalizeGatewayDiffTypeInv, DeleteNetworkResourceBackReferenceTypeInv,
     RemoveFinalizerTypeInv DEF Finalize
<1>4. CASE UNCHANGED vars
  BY <1>4 DEF vars, TypeInv, TypeOK, ClusterTypeOK, BusyWithPolicy
<1> QED
  BY <1>1, <1>2, <1>3, <1>4, StartTypeInv, DeliverTypeInv, EnvironmentTypeInv, CrashTypeInv
  DEF Next, Work

\* The inductive invariant holds in every reachable state.
THEOREM TypeInvariant == Spec => []TypeInv
<1>1. Init => TypeInv
  BY InitTypeInv
<1>2. TypeInv /\ [Next]_vars => TypeInv'
  BY NextTypeInv
<1> QED BY <1>1, <1>2, PTL DEF Spec

\* Every object the controller reads or writes, and its own state, keep their
\* types, whatever the lag, the edits and the faults.
THEOREM TypeCorrect == Spec => []TypeOK
<1>1. TypeInv => TypeOK
  BY DEF TypeInv
<1> QED BY <1>1, TypeInvariant, PTL

-----------------------------------------------------------------------------
(* How a worker step ends, told by its effect on the store and the worker. *)

\* The worker gave up: it is idle, or about to report the error.
GaveUp ==
    \/ wk' = Idle
    \/ wk.mode = "apply" /\ wk' = [wk EXCEPT !.pc = "status", !.err = TRUE]

LEMMA FailEffect == Fail => GaveUp
BY DEF Fail, Goto, Requeue, GaveUp

LEMMA AbortEffect == Abort => store' = store /\ GaveUp
BY FailEffect DEF Abort

LEMMA CallEffect ==
    ASSUME NEW accepted, NEW after, NEW next, Call(accepted, after, Goto(next))
    PROVE  \/ accepted /\ store' = after /\ wk' = next
           \/ accepted /\ store' = after /\ GaveUp
           \/ store' = store /\ GaveUp
<1>1. CASE accepted /\ store' = after /\ Goto(next) /\ UNCHANGED faults
  BY <1>1 DEF Goto
<1>2. CASE ~accepted /\ Abort
  BY <1>2, AbortEffect
<1>3. CASE /\ faults > 0
           /\ faults' = faults - 1
           /\ store' \in {store, IF accepted THEN after ELSE store}
           /\ Fail
  BY <1>3, FailEffect
<1> QED BY <1>1, <1>2, <1>3 DEF Call

\* A visit of the annotation stage, with or without the copy kept up to date.
LEMMA RefsEffect ==
    ASSUME NEW g, ReconcileGatewayRLPReferences(g)
    PROVE  /\ \/ store' = store
              \/ /\ UpdateAccepted(store.gateway[g], wk.gws[g])
                 /\ store' = [store EXCEPT !.gateway[g] = [wk.gws[g] EXCEPT !.refs = RLPRefsAfter(g)]]
           /\ \/ wk' = Visited(g)
              \/ wk' = [Visited(g) EXCEPT !.gws[g].refs = RLPRefsAfter(g)]
              \/ GaveUp
<1> DEFINE noted == [Visited(g) EXCEPT !.gws[g].refs = RLPRefsAfter(g)]
           next == IF g \in wk.again THEN Visited(g) ELSE noted
           accepted == UpdateAccepted(store.gateway[g], wk.gws[g])
           after == [store EXCEPT !.gateway[g] = [wk.gws[g] EXCEPT !.refs = RLPRefsAfter(g)]]
<1>1. Advance(Visited(g)) \/ Call(accepted, after, Goto(next))
  BY DEF ReconcileGatewayRLPReferences
<1>2. next = Visited(g) \/ next = noted
  OBVIOUS
<1> HIDE DEF noted, next, accepted, after
<1>3. /\ store' = store \/ (accepted /\ store' = after)
      /\ wk' = Visited(g) \/ wk' = next \/ GaveUp
  BY <1>1, CallEffect DEF Advance, Goto
<1> QED BY <1>2, <1>3 DEF noted, accepted, after

-----------------------------------------------------------------------------
(* The shape of a reconciliation.                                          *)

\* A finalization is of a policy being deleted, and all its gateways are left;
\* the diff is disjoint, and a stage visits gateways of the diff. Only a
\* finalization may have a gateway twice.
WorkerInv ==
    /\ wk.pc \in {"addFinalizer", "backRef", "diff", "status"} => wk.mode = "apply"
    /\ wk.pc \in {"finDiff", "finBackRef", "finRemove"} => wk.mode = "finalize"
    /\ wk.mode = "finalize" => wk.rlp.deleting /\ wk.same = {} /\ wk.new = {}
    /\ wk.left \cap (wk.same \cup wk.new) = {}
    /\ wk.todo \subseteq wk.left \cup wk.same \cup wk.new
    /\ wk.pc \in {"addFinalizer", "backRef", "diff"} => wk.todo = {}
    /\ wk.again \subseteq wk.twice
    /\ wk.again \subseteq wk.todo
    /\ wk.twice \subseteq wk.left
    /\ wk.mode = "apply" => wk.twice = {}

LEMMA GaveUpWorkerInv == TypeInv /\ WorkerInv /\ GaveUp => WorkerInv'
<1> SUFFICES ASSUME TypeInv, WorkerInv, GaveUp PROVE WorkerInv'
  OBVIOUS
<1>1. CASE wk' = Idle
  BY <1>1 DEF Idle, WorkerInv
<1>2. CASE wk.mode = "apply" /\ wk' = [wk EXCEPT !.pc = "status", !.err = TRUE]
  BY <1>2, TypeParts DEF WorkerInv, Worker
<1> QED BY <1>1, <1>2 DEF GaveUp

LEMMA EnterWorkerInv ==
    ASSUME TypeInv, WorkerInv, wk.pc \in {"limits", "filter", "plugin", "refs"},
           wk' = Enter(Following)
    PROVE  WorkerInv'
<1>1. /\ wk'.mode = wk.mode /\ wk'.rlp = wk.rlp
      /\ wk'.left = wk.left /\ wk'.same = wk.same /\ wk'.new = wk.new
      /\ wk'.pc = Following
      /\ wk'.todo \subseteq wk.left \cup wk.same \cup wk.new
      /\ wk'.twice = wk.twice /\ wk'.again \subseteq wk.twice
      /\ wk'.again # {} => wk.left \subseteq wk'.todo
  BY TypeParts DEF Enter, Worker
<1>2. /\ wk.mode = "apply" => Following \in {"filter", "plugin", "refs", "status"}
      /\ wk.mode # "apply" => Following \in {"plugin", "filter", "limits", "finBackRef"}
  BY DEF Following
<1>3. wk.mode \in {"apply", "finalize"}
  BY TypeParts DEF Worker
<1> QED BY <1>1, <1>2, <1>3 DEF WorkerInv

LEMMA VisitedWorkerInv ==
    ASSUME TypeInv, WorkerInv, NEW g \in Gateways,
           \/ wk' = Visited(g)
           \/ wk' = [Visited(g) EXCEPT !.gws[g].refs = RLPRefsAfter(g)]
    PROVE  WorkerInv'
<1>1. /\ wk'.pc = wk.pc /\ wk'.mode = wk.mode /\ wk'.rlp = wk.rlp
      /\ wk'.left = wk.left /\ wk'.same = wk.same /\ wk'.new = wk.new
      /\ wk'.twice = wk.twice /\ wk'.again = wk.again \ {g}
      /\ wk'.todo = IF g \in wk.again THEN wk.todo ELSE wk.todo \ {g}
  BY VisitedFields
<1> QED BY <1>1 DEF WorkerInv

\* Every step of the worker keeps its shape.
LEMMA NextWorkerInv == TypeInv /\ WorkerInv /\ [Next]_vars => WorkerInv'
<1> SUFFICES ASSUME TypeInv, WorkerInv, [Next]_vars PROVE WorkerInv'
  OBVIOUS
<1>1. ASSUME NEW p \in Policies, Start(p) PROVE WorkerInv'
  BY <1>1 DEF Start, EntryStage, Idle, WorkerInv
<1>2. CASE AddFinalizer
  <2> DEFINE next == [wk EXCEPT !.pc = "backRef", !.rlp.finalizer = TRUE]
  <2>1. wk.pc = "addFinalizer" /\ (wk' = next \/ GaveUp)
    BY <1>2, CallEffect DEF AddFinalizer, At, Advance, Goto
  <2>2. CASE wk' = next
    BY <2>1, <2>2, TypeParts DEF WorkerInv, Worker
  <2> QED BY <2>1, <2>2, GaveUpWorkerInv
<1>3. CASE ReconcileDirectBackReference
  <2> DEFINE next == [wk EXCEPT !.pc = "diff"]
  <2>1. wk.pc = "backRef" /\ (wk' = next \/ GaveUp)
    BY <1>3, CallEffect, AbortEffect DEF ReconcileDirectBackReference, At, Advance, Goto
  <2>2. CASE wk' = next
    BY <2>1, <2>2, TypeParts DEF WorkerInv, Worker
  <2> QED BY <2>1, <2>2, GaveUpWorkerInv
<1>4. CASE ComputeGatewayDiffs
  <2> DEFINE keys == TargetedGatewayKeys(cache, wk.rlp.target)
             next == [wk EXCEPT !.pc = "limits", !.gws = cache.gateway,
                                !.left = LeftGateways(cache, wk.p, keys),
                                !.same = SameGateways(cache, wk.p, keys),
                                !.new = NewGateways(cache, wk.p, keys)]
  <2>1. wk.pc = "diff" /\ (wk' = next \/ GaveUp)
    BY <1>4, AbortEffect DEF ComputeGatewayDiffs, At, Advance, Goto
  <2>2. CASE wk' = next
    <3>1. wk.mode = "apply" /\ wk.todo = {} /\ wk.twice = {} /\ wk.again = {}
      BY <2>1 DEF WorkerInv
    <3> QED BY <2>2, <3>1, TypeParts
            DEF WorkerInv, Worker, LeftGateways, SameGateways, NewGateways
  <2> QED BY <2>1, <2>2, GaveUpWorkerInv
<1>5. CASE ReconcileLimits
  <2>1. wk.pc = "limits" /\ (wk' = Enter(Following) \/ GaveUp)
    BY <1>5, CallEffect, AbortEffect DEF ReconcileLimits, At, Advance, Goto
  <2> QED BY <2>1, GaveUpWorkerInv, EnterWorkerInv
<1>6. ASSUME NEW g \in Gateways, ReconcileFilter(g) PROVE WorkerInv'
  <2>1. wk' = Visited(g) \/ GaveUp
    BY <1>6, CallEffect, AbortEffect DEF ReconcileFilter, At, Advance, Goto
  <2> QED BY <2>1, GaveUpWorkerInv, VisitedWorkerInv
<1>7. ASSUME NEW g \in Gateways, ReconcilePlugin(g) PROVE WorkerInv'
  <2>1. wk' = Visited(g) \/ GaveUp
    BY <1>7, CallEffect, AbortEffect DEF ReconcilePlugin, At, Advance, Goto
  <2> QED BY <2>1, GaveUpWorkerInv, VisitedWorkerInv
<1>8. ASSUME NEW g \in Gateways, ReconcileGatewayRLPReferences(g) PROVE WorkerInv'
  <2>1. \/ wk' = Visited(g)
        \/ wk' = [Visited(g) EXCEPT !.gws[g].refs = RLPRefsAfter(g)]
        \/ GaveUp
    BY <1>8, RefsEffect
  <2> QED BY <2>1, GaveUpWorkerInv, VisitedWorkerInv
<1>9. CASE NextStage
  BY <1>9, EnterWorkerInv DEF NextStage, Advance, Goto
<1>10. CASE ReconcileStatus
  <2>1. wk' = Idle \/ GaveUp
    BY <1>10, FailEffect, AbortEffect DEF ReconcileStatus, Call, Requeue, Goto
  <2> QED BY <2>1, GaveUpWorkerInv DEF GaveUp
<1>11. CASE ComputeFinalizeGatewayDiff
  <2> DEFINE t == wk.rlp.target
             keys == IF t \in Routes /\ ~TargetLive(cache, t) THEN {}
                     ELSE TargetedGatewayKeys(cache, t)
             left == {g \in keys : cache.gateway[g].live}
             twice == left \cap RepeatedGatewayKeys(cache, t)
             next == [wk EXCEPT !.pc = "refs", !.gws = cache.gateway,
                                !.left = left, !.twice = twice, !.todo = left, !.again = twice]
  <2>1. wk.pc = "finDiff" /\ (wk' = next \/ GaveUp)
    BY <1>11, AbortEffect DEF ComputeFinalizeGatewayDiff, At, Advance, Goto
  <2>2. CASE wk' = next
    <3>1. twice \subseteq left /\ wk.mode = "finalize"
      BY <2>1 DEF WorkerInv
    <3> HIDE DEF left, twice
    <3> QED BY <2>1, <2>2, <3>1, TypeParts DEF WorkerInv, Worker
  <2> QED BY <2>1, <2>2, GaveUpWorkerInv
<1>12. CASE DeleteNetworkResourceBackReference
  <2> DEFINE next == [wk EXCEPT !.pc = "finRemove"]
  <2>1. wk.pc = "finBackRef" /\ (wk' = next \/ GaveUp)
    BY <1>12, CallEffect, AbortEffect DEF DeleteNetworkResourceBackReference, At, Advance, Goto
  <2>2. CASE wk' = next
    BY <2>1, <2>2, TypeParts DEF WorkerInv, Worker
  <2> QED BY <2>1, <2>2, GaveUpWorkerInv
<1>13. CASE RemoveFinalizer
  <2>1. wk' = Idle \/ GaveUp
    BY <1>13, CallEffect DEF RemoveFinalizer, Advance, Goto
  <2> QED BY <2>1, GaveUpWorkerInv DEF GaveUp
<1>14. CASE Crash
  BY <1>14, GaveUpWorkerInv DEF Crash, GaveUp
<1>15. CASE UNCHANGED wk
  BY <1>15 DEF WorkerInv
<1> QED
  BY <1>1, <1>2, <1>3, <1>4, <1>5, <1>6, <1>7, <1>8, <1>9, <1>10, <1>11, <1>12, <1>13,
     <1>14, <1>15
  DEF Next, Work, Apply, Configure, Finalize, Watch, Environment, vars

\* The shape holds in every reachable state.
THEOREM WorkerInvariant == Spec => [](TypeInv /\ WorkerInv)
<1>1. Init => TypeInv /\ WorkerInv
  BY InitTypeInv DEF Init, Idle, WorkerInv
<1>2. TypeInv /\ WorkerInv /\ [Next]_vars => (TypeInv /\ WorkerInv)'
  BY NextTypeInv, NextWorkerInv
<1> QED BY <1>1, <1>2, PTL DEF Spec

-----------------------------------------------------------------------------
(* No lost updates.                                                        *)

\* The gateways whose configuration the reconciliation is about.
InDiff == wk.left \cup wk.same \cup wk.new

\* Writing one object, with its users' part as it is stored, loses nothing.
LEMMA WriteLosesNothing ==
    ASSUME TypeInv
    PROVE  /\ store' = store => LosesNothing
           /\ \A p \in Policies, x \in Policy :
                /\ store' = [store EXCEPT !.policy[p] = x]
                /\ \/ UsersPolicy(x) = UsersPolicy(store.policy[p])
                   \/ p = wk.p /\ store.policy[p].deleting /\ ~x.live
                => LosesNothing
           /\ \A r \in Routes, x \in Route :
                /\ store' = [store EXCEPT !.route[r] = x]
                /\ UsersRoute(x) = UsersRoute(store.route[r])
                => LosesNothing
           /\ \A g \in Gateways, x \in Gateway :
                /\ store' = [store EXCEPT !.gateway[g] = x]
                /\ UsersGateway(x) = UsersGateway(store.gateway[g])
                /\ \A p \in Policies \ {wk.p} : p \in x.refs <=> p \in store.gateway[g].refs
                => LosesNothing
           /\ \A x \in Limitador :
                /\ store' = [store EXCEPT !.limitador = x]
                /\ x.status = store.limitador.status
                /\ \A g \in Gateways \ InDiff : x.limits[g] = store.limitador.limits[g]
                => LosesNothing
           /\ \A g \in Gateways : \A x :
                /\ g \in InDiff
                /\ \/ store' = [store EXCEPT !.plugin[g] = x]
                   \/ store' = [store EXCEPT !.filter[g] = x]
                => LosesNothing
<1>1. store \in Cluster
  BY TypeParts
<1>2. store' = store => LosesNothing
  BY DEF LosesNothing
<1>3. ASSUME NEW p \in Policies, NEW x \in Policy,
             store' = [store EXCEPT !.policy[p] = x],
             \/ UsersPolicy(x) = UsersPolicy(store.policy[p])
             \/ p = wk.p /\ store.policy[p].deleting /\ ~x.live
      PROVE  LosesNothing
  <2>1. /\ store'.route = store.route /\ store'.gateway = store.gateway
        /\ store'.limitador = store.limitador
        /\ store'.plugin = store.plugin /\ store'.filter = store.filter
        /\ store'.policy[p] = x
        /\ \A q \in Policies \ {p} : store'.policy[q] = store.policy[q]
    BY <1>1, <1>3 DEF Cluster
  <2> QED BY <1>3, <2>1 DEF LosesNothing
<1>4. ASSUME NEW r \in Routes, NEW x \in Route,
             store' = [store EXCEPT !.route[r] = x],
             UsersRoute(x) = UsersRoute(store.route[r])
      PROVE  LosesNothing
  <2>1. /\ store'.policy = store.policy /\ store'.gateway = store.gateway
        /\ store'.limitador = store.limitador
        /\ store'.plugin = store.plugin /\ store'.filter = store.filter
        /\ store'.route[r] = x
        /\ \A q \in Routes \ {r} : store'.route[q] = store.route[q]
    BY <1>1, <1>4 DEF Cluster
  <2> QED BY <1>4, <2>1 DEF LosesNothing
<1>5. ASSUME NEW g \in Gateways, NEW x \in Gateway,
             store' = [store EXCEPT !.gateway[g] = x],
             UsersGateway(x) = UsersGateway(store.gateway[g]),
             \A p \in Policies \ {wk.p} : p \in x.refs <=> p \in store.gateway[g].refs
      PROVE  LosesNothing
  <2>1. /\ store'.policy = store.policy /\ store'.route = store.route
        /\ store'.limitador = store.limitador
        /\ store'.plugin = store.plugin /\ store'.filter = store.filter
        /\ store'.gateway[g] = x
        /\ \A q \in Gateways \ {g} : store'.gateway[q] = store.gateway[q]
    BY <1>1, <1>5 DEF Cluster
  <2> QED BY <1>5, <2>1 DEF LosesNothing
<1>6. ASSUME NEW x \in Limitador,
             store' = [store EXCEPT !.limitador = x],
             x.status = store.limitador.status,
             \A g \in Gateways \ InDiff : x.limits[g] = store.limitador.limits[g]
      PROVE  LosesNothing
  <2>1. /\ store'.policy = store.policy /\ store'.route = store.route
        /\ store'.gateway = store.gateway /\ store'.limitador = x
        /\ store'.plugin = store.plugin /\ store'.filter = store.filter
    BY <1>1, <1>6 DEF Cluster
  <2> QED BY <1>6, <2>1 DEF LosesNothing, InDiff
<1>7. ASSUME NEW g \in Gateways, NEW x, g \in InDiff,
             \/ store' = [store EXCEPT !.plugin[g] = x]
             \/ store' = [store EXCEPT !.filter[g] = x]
      PROVE  LosesNothing
  <2>1. /\ store'.policy = store.policy /\ store'.route = store.route
        /\ store'.gateway = store.gateway /\ store'.limitador = store.limitador
    BY <1>1, <1>7 DEF Cluster
  <2>2. \A h \in Gateways \ {g} :
          store'.plugin[h] = store.plugin[h] /\ store'.filter[h] = store.filter[h]
    BY <1>1, <1>7 DEF Cluster
  <2> QED BY <1>7, <2>1, <2>2 DEF LosesNothing, InDiff
<1> QED BY <1>2, <1>3, <1>4, <1>5, <1>6, <1>7

\* The target t keeps what is stored, or is written back with the annotation p.
BackRefWritten(t, p) ==
    \/ store' = store
    \/ t \in Routes /\ store.route[t] = cache.route[t] /\ store' = WithRouteBackRef(t, p)
    \/ t \in Gateways /\ store.gateway[t] = cache.gateway[t] /\ store' = WithGatewayBackRef(t, p)

LEMMA BackRefEffect ==
    TypeInv /\ (ReconcileDirectBackReference \/ DeleteNetworkResourceBackReference) =>
        \E p \in Policies \cup {NoPolicy} : BackRefWritten(wk.rlp.target, p)
<1> SUFFICES ASSUME TypeInv, ReconcileDirectBackReference \/ DeleteNetworkResourceBackReference
             PROVE  \E p \in Policies \cup {NoPolicy} : BackRefWritten(wk.rlp.target, p)
  OBVIOUS
<1> USE DEF UpdateAccepted
<1> DEFINE t == wk.rlp.target
<1>1. CASE ReconcileDirectBackReference
  <2> DEFINE next == [wk EXCEPT !.pc = "diff"]
  <2>1. wk.p \in Policies
    BY <1>1, TypeParts DEF ReconcileDirectBackReference, At
  <2>2. \/ Abort
        \/ Advance(next)
        \/ t \in Routes /\ Call(UpdateAccepted(store.route[t], cache.route[t]),
                                WithRouteBackRef(t, wk.p), Goto(next))
        \/ t \in Gateways /\ Call(UpdateAccepted(store.gateway[t], cache.gateway[t]),
                                  WithGatewayBackRef(t, wk.p), Goto(next))
    BY <1>1 DEF ReconcileDirectBackReference
  <2> HIDE DEF next, t
  <2>3. BackRefWritten(t, wk.p)
    BY <2>2, CallEffect, AbortEffect DEF Advance, BackRefWritten
  <2> QED BY <2>1, <2>3 DEF t
<1>2. CASE DeleteNetworkResourceBackReference
  <2> DEFINE next == [wk EXCEPT !.pc = "finRemove"]
  <2>1. \/ Abort
        \/ Advance(next)
        \/ t \in Routes /\ Call(UpdateAccepted(store.route[t], cache.route[t]),
                                WithRouteBackRef(t, NoPolicy), Goto(next))
        \/ t \in Gateways /\ Call(UpdateAccepted(store.gateway[t], cache.gateway[t]),
                                  WithGatewayBackRef(t, NoPolicy), Goto(next))
    BY <1>2 DEF DeleteNetworkResourceBackReference
  <2> HIDE DEF next, t
  <2>2. BackRefWritten(t, NoPolicy)
    BY <2>1, CallEffect, AbortEffect DEF Advance, BackRefWritten
  <2> QED BY <2>2 DEF t
<1> QED BY <1>1, <1>2

\* Every step of the worker writes back the users' part that is stored: the
\* update would have been refused otherwise.
LEMMA WorkLosesNothing == TypeInv /\ WorkerInv /\ Work => LosesNothing
<1> SUFFICES ASSUME TypeInv, WorkerInv, Work PROVE LosesNothing
  OBVIOUS
<1> USE DEF UpdateAccepted
<1>0. wk.pc # "idle" => wk.p \in Policies
  BY TypeParts
<1>1. CASE AddFinalizer
  <2> DEFINE next == [wk EXCEPT !.pc = "backRef", !.rlp.finalizer = TRUE]
  <2>1. \/ store' = store
        \/ store.policy[wk.p] = wk.rlp /\ store' = [store EXCEPT !.policy[wk.p] = next.rlp]
    BY <1>1, CallEffect DEF AddFinalizer, Advance
  <2>2. next.rlp \in Policy /\ UsersPolicy(next.rlp) = UsersPolicy(wk.rlp)
    BY TypeParts DEF Worker, Policy, UsersPolicy
  <2>3. wk.p \in Policies
    BY <1>0, <1>1 DEF AddFinalizer, At
  <2> HIDE DEF next
  <2> QED BY <2>1, <2>2, <2>3, WriteLosesNothing
<1>2. CASE ReconcileDirectBackReference \/ DeleteNetworkResourceBackReference
  <2> DEFINE t == wk.rlp.target
  <2>1. PICK p \in Policies \cup {NoPolicy} : BackRefWritten(t, p)
    BY <1>2, BackRefEffect
  <2>2. CASE t \in Routes /\ store.route[t] = cache.route[t] /\ store' = WithRouteBackRef(t, p)
    <3> DEFINE x == [cache.route[t] EXCEPT !.backref = p]
    <3>1. x \in Route /\ UsersRoute(x) = UsersRoute(store.route[t])
      BY <2>2, TypeParts, GetTypes DEF Route, UsersRoute
    <3>2. store' = [store EXCEPT !.route[t] = x]
      BY <2>2 DEF WithRouteBackRef
    <3> HIDE DEF x, t
    <3> QED BY <2>2, <3>1, <3>2, WriteLosesNothing
  <2>3. CASE /\ t \in Gateways /\ store.gateway[t] = cache.gateway[t]
             /\ store' = WithGatewayBackRef(t, p)
    <3> DEFINE x == [cache.gateway[t] EXCEPT !.backref = p]
    <3>1. /\ x \in Gateway /\ x.refs = store.gateway[t].refs
          /\ UsersGateway(x) = UsersGateway(store.gateway[t])
      BY <2>3, TypeParts, GetTypes DEF Gateway, UsersGateway
    <3>2. store' = [store EXCEPT !.gateway[t] = x]
      BY <2>3 DEF WithGatewayBackRef
    <3> HIDE DEF x, t
    <3> QED BY <2>3, <3>1, <3>2, WriteLosesNothing
  <2> QED BY <2>1, <2>2, <2>3, WriteLosesNothing DEF BackRefWritten
<1>3. CASE ReconcileLimits
  <2> DEFINE lim == [cache.limitador EXCEPT !.limits = LimitsAfter]
  <2>1. \/ store' = store
        \/ store.limitador = cache.limitador /\ store' = [store EXCEPT !.limitador = lim]
    BY <1>3, CallEffect, AbortEffect DEF ReconcileLimits, Advance
  <2>2. LimitsAfter \in [Gateways -> SUBSET Entry]
    <3>1. wk.pc # "idle"
      BY <1>3 DEF ReconcileLimits, At
    <3> QED BY <3>1, AfterTypes, TypeParts, GetTypes DEF LimitsAfter, Limitador
  <2>3. /\ lim \in Limitador /\ lim.status = cache.limitador.status
        /\ lim.limits = LimitsAfter
    BY <2>2, TypeParts, GetTypes DEF Limitador
  <2>4. \A g \in Gateways \ InDiff : LimitsAfter[g] = cache.limitador.limits[g]
    BY DEF LimitsAfter, InDiff
  <2> HIDE DEF lim
  <2> QED BY <2>1, <2>3, <2>4, WriteLosesNothing
<1>4. ASSUME NEW g \in Gateways, ReconcileFilter(g) \/ ReconcilePlugin(g)
      PROVE  LosesNothing
  <2>1. \/ store' = store
        \/ \E x : \/ store' = [store EXCEPT !.plugin[g] = x]
                  \/ store' = [store EXCEPT !.filter[g] = x]
    BY <1>4, CallEffect, AbortEffect DEF ReconcileFilter, ReconcilePlugin, Advance
  <2>2. g \in InDiff
    BY <1>4 DEF ReconcileFilter, ReconcilePlugin, Visit, WorkerInv, InDiff
  <2> QED BY <2>1, <2>2, WriteLosesNothing
<1>5. ASSUME NEW g \in Gateways, ReconcileGatewayRLPReferences(g) PROVE LosesNothing
  <2> DEFINE x == [wk.gws[g] EXCEPT !.refs = RLPRefsAfter(g)]
  <2>1. \/ store' = store
        \/ store.gateway[g] = wk.gws[g] /\ store' = [store EXCEPT !.gateway[g] = x]
    BY <1>5, CallEffect DEF ReconcileGatewayRLPReferences, Advance
  <2>2. RLPRefsAfter(g) \in SUBSET Policies
    BY <1>5, AfterTypes DEF ReconcileGatewayRLPReferences, At
  <2>3. /\ x \in Gateway /\ UsersGateway(x) = UsersGateway(wk.gws[g])
        /\ x.refs = RLPRefsAfter(g)
    BY <2>2, TypeParts DEF Gateway, UsersGateway
  <2>4. \A p \in Policies \ {wk.p} : p \in x.refs <=> p \in wk.gws[g].refs
    BY <2>3 DEF RLPRefsAfter
  <2> HIDE DEF x
  <2> QED BY <2>1, <2>3, <2>4, WriteLosesNothing
<1>6. CASE ReconcileStatus
  <2> DEFINE t == wk.rlp.target
             gwLimits == IF t \in Routes /\ cache.route[t].live
                         THEN GatewaysRateLimits(cache, t) ELSE {}
             status == [wk.rlp EXCEPT !.observed = TRUE, !.gwLimits = gwLimits,
                                      !.available = IF wk.err THEN "False" ELSE "True"]
  <2>1. \/ store' = store
        \/ store.policy[wk.p] = wk.rlp /\ store' = [store EXCEPT !.policy[wk.p] = status]
    BY <1>6, AbortEffect DEF ReconcileStatus, Call
  <2>2. gwLimits \in SUBSET (Gateways \X (Specs \cup {None}))
    BY TypeParts, GatewaysRateLimitsType
  <2>3. status \in Policy /\ UsersPolicy(status) = UsersPolicy(wk.rlp)
    <3> HIDE DEF gwLimits
    <3> QED BY <2>2, TypeParts DEF Policy, UsersPolicy
  <2>4. wk.p \in Policies
    BY <1>0, <1>6 DEF ReconcileStatus, At
  <2> HIDE DEF status
  <2> QED BY <2>1, <2>3, <2>4, WriteLosesNothing
<1>7. CASE RemoveFinalizer
  <2>1. \/ store' = store
        \/ store.policy[wk.p] = wk.rlp /\ store' = [store EXCEPT !.policy[wk.p] = NoSuchPolicy]
    BY <1>7, CallEffect DEF RemoveFinalizer, Advance
  <2>2. wk.p \in Policies /\ wk.rlp.deleting
    BY <1>0, <1>7 DEF RemoveFinalizer, At, WorkerInv
  <2>3. NoSuchPolicy \in Policy /\ ~NoSuchPolicy.live
    BY AbsentTypes DEF NoSuchPolicy
  <2> QED BY <2>1, <2>2, <2>3, WriteLosesNothing
<1>8. CASE ComputeGatewayDiffs \/ ComputeFinalizeGatewayDiff \/ NextStage
  BY <1>8, AbortEffect, WriteLosesNothing
     DEF ComputeGatewayDiffs, ComputeFinalizeGatewayDiff, NextStage, Advance
<1> QED
  BY <1>1, <1>2, <1>3, <1>4, <1>5, <1>6, <1>7, <1>8 DEF Work, Apply, Configure, Finalize

\* However stale the caches, whatever the conflicts and faults, the controller
\* never overwrites what a user or another reconciliation has written.
THEOREM UpdatesAreNeverLost == Spec => NeverLosesUpdates
<1>1. TypeInv /\ WorkerInv /\ [Next]_vars => [NoLostUpdate]_vars
  BY WorkLosesNothing DEF NoLostUpdate
<1> QED BY <1>1, WorkerInvariant, PTL DEF Spec, NeverLosesUpdates
-----------------------------------------------------------------------------
(* The EnvoyFilter comes before the annotation.                            *)

\* Past the filter stage every new gateway has its EnvoyFilter, and during it
\* those that are still to be visited may lack it; the filter and annotation
\* stages leave the same gateways alone.
FilterInv ==
    /\ wk.pc \in {"filter", "refs"} => wk.todo \subseteq wk.left \cup wk.new
    /\ wk.pc \in {"filter", "plugin", "refs"} =>
          \A g \in wk.new : store.filter[g] \/ (wk.pc = "filter" /\ g \in wk.todo)

\* A step that adds and removes no EnvoyFilter and adds no annotation.
KeepsFilters ==
    /\ store'.filter = store.filter
    /\ \A g \in Gateways : store'.gateway[g].refs \subseteq store.gateway[g].refs

\* Only the filter stage and the annotation stage do more than that.
LEMMA WriteKeepsFilters ==
    ASSUME TypeInv
    PROVE  /\ store' = store => KeepsFilters
           /\ \A x : /\ \/ \E p \in Policies : store' = [store EXCEPT !.policy[p] = x]
                        \/ \E r \in Routes : store' = [store EXCEPT !.route[r] = x]
                        \/ \E g \in Gateways : store' = [store EXCEPT !.plugin[g] = x]
                        \/ store' = [store EXCEPT !.limitador = x]
                     => KeepsFilters
           /\ \A g \in Gateways, x \in Gateway :
                /\ store' = [store EXCEPT !.gateway[g] = x]
                /\ x.refs \subseteq store.gateway[g].refs
                => KeepsFilters
<1>1. store \in Cluster
  BY TypeParts
<1>2. store' = store => KeepsFilters
  BY DEF KeepsFilters
<1>3. ASSUME NEW x, \/ \E p \in Policies : store' = [store EXCEPT !.policy[p] = x]
                    \/ \E r \in Routes : store' = [store EXCEPT !.route[r] = x]
                    \/ \E g \in Gateways : store' = [store EXCEPT !.plugin[g] = x]
                    \/ store' = [store EXCEPT !.limitador = x]
      PROVE  KeepsFilters
  <2>1. store'.filter = store.filter /\ store'.gateway = store.gateway
    BY <1>1, <1>3 DEF Cluster
  <2> QED BY <2>1 DEF KeepsFilters
<1>4. ASSUME NEW g \in Gateways, NEW x \in Gateway,
             store' = [store EXCEPT !.gateway[g] = x], x.refs \subseteq store.gateway[g].refs
      PROVE  KeepsFilters
  <2>1. /\ store'.filter = store.filter
        /\ store'.gateway[g] = x
        /\ \A h \in Gateways \ {g} : store'.gateway[h] = store.gateway[h]
    BY <1>1, <1>4 DEF Cluster
  <2> QED BY <1>4, <2>1 DEF KeepsFilters
<1> QED BY <1>2, <1>3, <1>4

LEMMA BackRefKeepsFilters ==
    ASSUME TypeInv, NEW t, NEW p \in Policies \cup {NoPolicy}, BackRefWritten(t, p)
    PROVE  KeepsFilters
<1>1. CASE t \in Routes /\ store' = WithRouteBackRef(t, p)
  <2> DEFINE x == [cache.route[t] EXCEPT !.backref = p]
  <2>1. store' = [store EXCEPT !.route[t] = x]
    BY <1>1 DEF WithRouteBackRef
  <2> HIDE DEF x
  <2> QED BY <1>1, <2>1, WriteKeepsFilters
<1>2. CASE t \in Gateways /\ store.gateway[t] = cache.gateway[t] /\ store' = WithGatewayBackRef(t, p)
  <2> DEFINE x == [cache.gateway[t] EXCEPT !.backref = p]
  <2>1. x \in Gateway /\ x.refs = store.gateway[t].refs
    BY <1>2, TypeParts, GetTypes DEF Gateway
  <2>2. store' = [store EXCEPT !.gateway[t] = x]
    BY <1>2 DEF WithGatewayBackRef
  <2> HIDE DEF x
  <2> QED BY <1>2, <2>1, <2>2, WriteKeepsFilters
<1> QED BY <1>1, <1>2, WriteKeepsFilters DEF BackRefWritten

\* What users and operators change, and the annotations they may take away
\* with a gateway, are not the controller's EnvoyFilters.
LEMMA EnvironmentKeepsFilters == TypeInv /\ Environment => KeepsFilters
<1> SUFFICES ASSUME TypeInv, Environment PROVE KeepsFilters
  OBVIOUS
<1>0. store \in Cluster
  BY TypeParts
<1>1. CASE EditPolicies
  BY <1>1, WriteKeepsFilters
     DEF EditPolicies, CreatePolicy, EditSpec, Retarget, DeletePolicy, DeleteUnmarkedPolicy, Edit
<1>2. CASE EditRoutes
  BY <1>0, <1>2
     DEF EditRoutes, CreateRoute, DeleteRoute, EditParents, EditRouteHosts, SetRejecting, Edit,
         KeepsFilters, Cluster
<1>3. CASE EditGateways
  <2>1. ASSUME NEW g \in Gateways, NEW hs, CreateGateway(g, hs) PROVE KeepsFilters
    BY <1>0, <2>1 DEF CreateGateway, Edit, KeepsFilters, Cluster, NoSuchGateway
  <2>2. ASSUME NEW g \in Gateways, DeleteGateway(g) PROVE KeepsFilters
    BY <1>0, <2>2 DEF DeleteGateway, Edit, KeepsFilters, Cluster, NoSuchGateway
  <2>3. ASSUME NEW g \in Gateways, NEW hs, EditGatewayHosts(g, hs) PROVE KeepsFilters
    BY <1>0, <2>3 DEF EditGatewayHosts, Edit, KeepsFilters, Cluster, Gateway
  <2>4. ASSUME NEW g \in Gateways, NEW b, SetReady(g, b) PROVE KeepsFilters
    BY <1>0, <2>4 DEF SetReady, Edit, KeepsFilters, Cluster, Gateway
  <2> QED BY <1>3, <2>1, <2>2, <2>3, <2>4 DEF EditGateways
<1>4. CASE EditLimitador
  BY <1>4, WriteKeepsFilters DEF EditLimitador, SetLimitador, Edit
<1> QED BY <1>1, <1>2, <1>3, <1>4 DEF Environment
LEMMA OthersKeepFilters ==
    TypeInv /\ [Next]_vars =>
        \/ KeepsFilters
        \/ \E g \in Gateways : ReconcileFilter(g) \/ ReconcileGatewayRLPReferences(g)
<1> SUFFICES ASSUME TypeInv, [Next]_vars,
                    ~\E g \in Gateways : ReconcileFilter(g) \/ ReconcileGatewayRLPReferences(g)
             PROVE  KeepsFilters
  OBVIOUS
<1>0. wk.pc # "idle" => wk.p \in Policies
  BY TypeParts
<1>1. CASE UNCHANGED store
  BY <1>1, WriteKeepsFilters
<1>2. CASE AddFinalizer
  <2>1. \/ store' = store
        \/ \E x : store' = [store EXCEPT !.policy[wk.p] = x]
    BY <1>2, CallEffect DEF AddFinalizer, Advance
  <2> QED BY <1>0, <1>2, <2>1, WriteKeepsFilters DEF AddFinalizer, At
<1>3. CASE ReconcileDirectBackReference \/ DeleteNetworkResourceBackReference
  BY <1>3, BackRefEffect, BackRefKeepsFilters
<1>4. CASE ComputeGatewayDiffs \/ ComputeFinalizeGatewayDiff \/ NextStage
  BY <1>1, <1>4, AbortEffect
     DEF ComputeGatewayDiffs, ComputeFinalizeGatewayDiff, NextStage, Advance
<1>5. CASE ReconcileLimits
  <2>1. \/ store' = store
        \/ \E x : store' = [store EXCEPT !.limitador = x]
    BY <1>5, CallEffect, AbortEffect DEF ReconcileLimits, Advance
  <2> QED BY <2>1, WriteKeepsFilters
<1>6. ASSUME NEW g \in Gateways, ReconcilePlugin(g) PROVE KeepsFilters
  <2>1. \/ store' = store
        \/ \E x : store' = [store EXCEPT !.plugin[g] = x]
    BY <1>6, CallEffect, AbortEffect DEF ReconcilePlugin, Advance
  <2> QED BY <2>1, WriteKeepsFilters
<1>7. CASE ReconcileStatus
  <2>1. \/ store' = store
        \/ \E x : store' = [store EXCEPT !.policy[wk.p] = x]
    BY <1>7, AbortEffect DEF ReconcileStatus, Call
  <2> QED BY <1>0, <1>7, <2>1, WriteKeepsFilters DEF ReconcileStatus, At
<1>8. CASE RemoveFinalizer
  <2>1. \/ store' = store
        \/ \E x : store' = [store EXCEPT !.policy[wk.p] = x]
    BY <1>8, CallEffect DEF RemoveFinalizer, Advance
  <2> QED BY <1>0, <1>8, <2>1, WriteKeepsFilters DEF RemoveFinalizer, At
<1>9. CASE Watch
  BY <1>1, <1>9 DEF Watch, Deliver, DeliverPolicy, DeliverRoute, DeliverGateway,
                    DeliverLimitador, DeliverPlugin, DeliverFilter
<1>10. ASSUME NEW p \in Policies, Start(p) PROVE KeepsFilters
  BY <1>1, <1>10 DEF Start
<1>11. CASE Crash
  BY <1>1, <1>11 DEF Crash
<1>12. CASE UNCHANGED vars
  BY <1>1, <1>12 DEF vars
<1> QED
  BY <1>2, <1>3, <1>4, <1>5, <1>6, <1>7, <1>8, <1>9, <1>10, <1>11, <1>12,
     EnvironmentKeepsFilters DEF Next, Work, Apply, Configure, Finalize
\* Giving up leaves the stages FilterInv speaks of.
LEMMA GaveUpFilterInv == TypeInv /\ GaveUp => FilterInv'
<1> SUFFICES ASSUME TypeInv, GaveUp PROVE FilterInv'
  OBVIOUS
<1>1. CASE wk' = Idle
  BY <1>1 DEF Idle, FilterInv
<1>2. CASE wk' = [wk EXCEPT !.pc = "status", !.err = TRUE]
  BY <1>2, TypeParts DEF FilterInv, Worker
<1> QED BY <1>1, <1>2 DEF GaveUp

\* A stage that is over hands on what it has established.
LEMMA EnterFilterInv ==
    ASSUME TypeInv, WorkerInv, FilterInv, KeepsFilters,
           wk.pc \in {"limits", "filter", "plugin", "refs"},
           wk.pc = "filter" => wk.todo = {},
           wk' = Enter(Following)
    PROVE  FilterInv'
<1>1. /\ wk'.left = wk.left /\ wk'.new = wk.new /\ wk'.pc = Following
      /\ Following \in {"filter", "refs"} => wk'.todo = wk.left \cup wk.new
  BY TypeParts DEF Enter, Worker
<1>2. store'.filter = store.filter
  BY DEF KeepsFilters
<1>3. CASE wk.mode = "apply"
  <2>1. /\ Following = "filter" => wk.pc = "limits"
        /\ Following = "plugin" => wk.pc = "filter"
        /\ Following = "refs" => wk.pc = "plugin"
    BY <1>3 DEF Following
  <2> QED BY <1>1, <1>2, <2>1 DEF FilterInv
<1>4. CASE wk.mode = "finalize"
  <2>1. wk.new = {}
    BY <1>4 DEF WorkerInv
  <2> QED BY <1>1, <2>1 DEF FilterInv
<1> QED BY <1>3, <1>4, TypeParts DEF Worker

\* A visit of the filter stage leaves the gateway with its EnvoyFilter if the
\* policy is new there.
LEMMA ReconcileFilterFilterInv ==
    ASSUME TypeInv, WorkerInv, FilterInv, NEW g \in Gateways, ReconcileFilter(g)
    PROVE  FilterInv'
<1> DEFINE desired == RLPRefsAfter(g) # {}
<1>0. wk.pc = "filter" /\ g \in wk.todo /\ store \in Cluster
  BY TypeParts DEF ReconcileFilter, At, Visit
<1>1. \/ GaveUp
      \/ wk' = Visited(g) /\ store' = [store EXCEPT !.filter[g] = desired]
      \/ wk' = Visited(g) /\ store' = store /\ ~desired
  BY CallEffect, AbortEffect DEF ReconcileFilter, Advance, Goto
<1>2. g \in wk.new => desired
  BY DEF WorkerInv, RLPRefsAfter
<1>3. CASE /\ wk' = Visited(g)
           /\ \/ store' = [store EXCEPT !.filter[g] = desired]
              \/ store' = store /\ ~desired
  <2>1. /\ wk'.pc = wk.pc /\ wk'.left = wk.left /\ wk'.new = wk.new
        /\ wk'.todo \in {wk.todo, wk.todo \ {g}}
    BY <1>3, VisitedFields
  <2>2. \A h \in Gateways \ {g} : store'.filter[h] = store.filter[h]
    <3> HIDE DEF desired
    <3> QED BY <1>0, <1>3 DEF Cluster
  <2>3. g \in wk.new => store'.filter[g]
    <3> HIDE DEF desired
    <3> QED BY <1>0, <1>2, <1>3 DEF Cluster
  <2>4. wk.new \subseteq Gateways
    BY TypeParts DEF Worker
  <2> QED BY <1>0, <2>1, <2>2, <2>3, <2>4 DEF FilterInv
<1> HIDE DEF desired
<1> QED BY <1>1, <1>3, GaveUpFilterInv

LEMMA VisitedFilterInv ==
    ASSUME TypeInv, FilterInv, NEW g \in Gateways, store'.filter = store.filter,
           wk.pc \in {"plugin", "refs"},
           \/ wk' = Visited(g)
           \/ wk' = [Visited(g) EXCEPT !.gws[g].refs = RLPRefsAfter(g)]
    PROVE  FilterInv'
<1>1. /\ wk'.pc = wk.pc /\ wk'.left = wk.left /\ wk'.new = wk.new
      /\ wk'.todo \in {wk.todo, wk.todo \ {g}}
  BY VisitedFields
<1> QED BY <1>1 DEF FilterInv

LEMMA NextFilterInv == TypeInv /\ WorkerInv /\ FilterInv /\ [Next]_vars => FilterInv'
<1> SUFFICES ASSUME TypeInv, WorkerInv, FilterInv, [Next]_vars PROVE FilterInv'
  OBVIOUS
<1>1. ASSUME NEW g \in Gateways, ReconcileGatewayRLPReferences(g) PROVE FilterInv'
  <2> DEFINE x == [wk.gws[g] EXCEPT !.refs = RLPRefsAfter(g)]
  <2>1. /\ wk.pc = "refs"
        /\ store' = store \/ store' = [store EXCEPT !.gateway[g] = x]
        /\ \/ wk' = Visited(g)
           \/ wk' = [Visited(g) EXCEPT !.gws[g].refs = RLPRefsAfter(g)]
           \/ GaveUp
    BY <1>1, RefsEffect DEF ReconcileGatewayRLPReferences, At
  <2> HIDE DEF x
  <2>2. store'.filter = store.filter
    BY <2>1, TypeParts DEF Cluster
  <2> QED BY <2>1, <2>2, VisitedFilterInv, GaveUpFilterInv
<1>2. CASE KeepsFilters /\ ~\E g \in Gateways : ReconcileFilter(g) \/ ReconcileGatewayRLPReferences(g)
  <2>0. store'.filter = store.filter
    BY <1>2 DEF KeepsFilters
  <2>1. ASSUME NEW p \in Policies, Start(p) PROVE FilterInv'
    BY <2>1 DEF Start, EntryStage, Idle, FilterInv
  <2>2. CASE AddFinalizer \/ ReconcileDirectBackReference \/ ComputeGatewayDiffs
             \/ DeleteNetworkResourceBackReference
    <3>1. CASE AddFinalizer
      <4>1. GaveUp \/ wk' = [wk EXCEPT !.pc = "backRef", !.rlp.finalizer = TRUE]
        BY <3>1, CallEffect DEF AddFinalizer, Advance, Goto
      <4> QED BY <4>1, GaveUpFilterInv, TypeParts DEF FilterInv, Worker
    <3>2. CASE ReconcileDirectBackReference
      <4>1. GaveUp \/ wk' = [wk EXCEPT !.pc = "diff"]
        BY <3>2, CallEffect, AbortEffect DEF ReconcileDirectBackReference, Advance, Goto
      <4> QED BY <4>1, GaveUpFilterInv, TypeParts DEF FilterInv, Worker
    <3>3. CASE ComputeGatewayDiffs
      <4> DEFINE keys == TargetedGatewayKeys(cache, wk.rlp.target)
                 left == LeftGateways(cache, wk.p, keys)
                 same == SameGateways(cache, wk.p, keys)
                 new == NewGateways(cache, wk.p, keys)
      <4>1. \/ GaveUp
            \/ wk' = [wk EXCEPT !.pc = "limits", !.gws = cache.gateway,
                                !.left = left, !.same = same, !.new = new]
        BY <3>3, AbortEffect DEF ComputeGatewayDiffs, Advance, Goto
      <4> HIDE DEF left, same, new
      <4>2. GaveUp \/ wk'.pc = "limits"
        BY <4>1, TypeParts DEF Worker
      <4> QED BY <4>2, GaveUpFilterInv DEF FilterInv
    <3>4. CASE DeleteNetworkResourceBackReference
      <4>1. GaveUp \/ wk' = [wk EXCEPT !.pc = "finRemove"]
        BY <3>4, CallEffect, AbortEffect DEF DeleteNetworkResourceBackReference, Advance, Goto
      <4> QED BY <4>1, GaveUpFilterInv, TypeParts DEF FilterInv, Worker
    <3> QED BY <2>2, <3>1, <3>2, <3>3, <3>4
  <2>3. CASE ReconcileStatus
    BY <2>3, FailEffect, AbortEffect, GaveUpFilterInv DEF ReconcileStatus, Call, Requeue, Goto, GaveUp
  <2>4. CASE RemoveFinalizer
    BY <2>4, CallEffect, GaveUpFilterInv DEF RemoveFinalizer, Advance, Goto, GaveUp
  <2>5. CASE Crash
    BY <2>5, GaveUpFilterInv DEF Crash, GaveUp
  <2>6. CASE ReconcileLimits
    <3>1. wk.pc = "limits" /\ (wk' = Enter(Following) \/ GaveUp)
      BY <2>6, CallEffect, AbortEffect DEF ReconcileLimits, At, Advance, Goto
    <3> QED BY <1>2, <3>1, EnterFilterInv, GaveUpFilterInv
  <2>7. CASE NextStage
    BY <1>2, <2>7, EnterFilterInv DEF NextStage, Advance, Goto
  <2>8. ASSUME NEW g \in Gateways, ReconcilePlugin(g) PROVE FilterInv'
    <3>1. wk.pc = "plugin" /\ (wk' = Visited(g) \/ GaveUp)
      BY <2>8, CallEffect, AbortEffect DEF ReconcilePlugin, At, Advance, Goto
    <3> QED BY <2>0, <3>1, VisitedFilterInv, GaveUpFilterInv
  <2>9. CASE ComputeFinalizeGatewayDiff
    <3> DEFINE t == wk.rlp.target
               keys == IF t \in Routes /\ ~TargetLive(cache, t) THEN {}
                       ELSE TargetedGatewayKeys(cache, t)
               left == {g \in keys : cache.gateway[g].live}
               twice == left \cap RepeatedGatewayKeys(cache, t)
               next == [wk EXCEPT !.pc = "refs", !.gws = cache.gateway,
                                  !.left = left, !.twice = twice, !.todo = left, !.again = twice]
    <3>1. wk.pc = "finDiff" /\ (wk' = next \/ GaveUp)
      BY <2>9, AbortEffect DEF ComputeFinalizeGatewayDiff, At, Advance, Goto
    <3>2. CASE wk' = next
      <4>1. wk.new = {}
        BY <3>1 DEF WorkerInv
      <4> HIDE DEF left, twice
      <4>2. wk'.todo = wk'.left /\ wk'.new = wk.new
        BY <3>2, TypeParts DEF Worker
      <4> QED BY <4>1, <4>2 DEF FilterInv
    <3> QED BY <3>1, <3>2, GaveUpFilterInv
  <2>10. CASE UNCHANGED wk
    BY <2>0, <2>10 DEF FilterInv
  <2> QED BY <1>2, <2>1, <2>2, <2>3, <2>4, <2>5, <2>6, <2>7, <2>8, <2>9, <2>10
          DEF Next, Work, Apply, Configure, Finalize, Watch, Environment, vars
<1> QED BY <1>1, <1>2, ReconcileFilterFilterInv, OthersKeepFilters

\* Past the filter stage the new gateways have their EnvoyFilter.
THEOREM FilterInvariant == Spec => [](TypeInv /\ WorkerInv /\ FilterInv)
<1>1. Init => FilterInv
  BY DEF Init, Idle, FilterInv
<1>2. TypeInv /\ WorkerInv /\ FilterInv /\ [Next]_vars => FilterInv'
  BY NextFilterInv
<1> QED BY <1>1, <1>2, WorkerInvariant, PTL DEF Spec

\* However old the copies in the caches and whatever fails, a policy enters a
\* gateway's annotation only when the gateway has its EnvoyFilter.
THEOREM FilterComesFirst == Spec => FilterIsFirst
<1>1. TypeInv /\ WorkerInv /\ FilterInv /\ [Next]_vars => [FilterFirst]_vars
  <2> SUFFICES ASSUME TypeInv, WorkerInv, FilterInv, [Next]_vars PROVE FilterFirst
    OBVIOUS
  <2>1. CASE KeepsFilters
    BY <2>1 DEF KeepsFilters, FilterFirst
  <2>2. ASSUME NEW g \in Gateways, ReconcileFilter(g) PROVE FilterFirst
    <3>1. store' = store \/ store' = [store EXCEPT !.filter[g] = RLPRefsAfter(g) # {}]
      BY <2>2, CallEffect, AbortEffect DEF ReconcileFilter, Advance
    <3>2. store'.gateway = store.gateway
      BY <3>1, TypeParts DEF Cluster
    <3> QED BY <3>2 DEF FilterFirst
  <2>3. ASSUME NEW g \in Gateways, ReconcileGatewayRLPReferences(g) PROVE FilterFirst
    <3> DEFINE x == [wk.gws[g] EXCEPT !.refs = RLPRefsAfter(g)]
    <3>1. \/ store' = store
          \/ store.gateway[g] = wk.gws[g] /\ store' = [store EXCEPT !.gateway[g] = x]
      BY <2>3, CallEffect DEF ReconcileGatewayRLPReferences, Advance, UpdateAccepted
    <3>2. g \in wk.left \/ store.filter[g]
      BY <2>3 DEF FilterInv, ReconcileGatewayRLPReferences, At, Visit
    <3>3. x.refs = RLPRefsAfter(g)
      BY TypeParts DEF Gateway
    <3>4. g \in wk.left => x.refs \subseteq wk.gws[g].refs
      BY <3>3 DEF RLPRefsAfter
    <3> HIDE DEF x
    <3>5. CASE store.gateway[g] = wk.gws[g] /\ store' = [store EXCEPT !.gateway[g] = x]
      <4>1. /\ store'.gateway[g] = x
            /\ \A h \in Gateways \ {g} : store'.gateway[h] = store.gateway[h]
        BY <3>5, TypeParts DEF Cluster
      <4> QED BY <3>2, <3>4, <3>5, <4>1 DEF FilterFirst
    <3> QED BY <3>1, <3>5 DEF FilterFirst
  <2> QED BY <2>1, <2>2, <2>3, OthersKeepFilters
<1> QED BY <1>1, FilterInvariant, PTL DEF Spec, FilterIsFirst
=============================================================================
