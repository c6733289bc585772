--------------------- MODULE RateLimitPolicyProperties ---------------------
(***************************************************************************)
(* What the RateLimitPolicy controller promises about the cluster.         *)
(***************************************************************************)
EXTENDS RateLimitPolicyReconciler

\* Every object, copy and counter has the shape its Go type gives it, and the
\* worker's program counter is one of the stages of Reconcile.
TypeOK ==
    /\ ClusterTypeOK
    /\ wk \in Worker
    /\ faults \in Nat

-----------------------------------------------------------------------------
(* What steps may never do.                                                *)

\* The policies that some of the entries come from.
Named(entries) == {e[2] : e \in entries}

\* A gateway enforces p: its proxies know the Limitador cluster, run the WASM
\* filter with actions of p, and Limitador has limits of p for it.
Enforced(p, g) ==
    /\ store.filter[g]
    /\ p \in Named(store.plugin[g].conf)
    /\ p \in Named(store.limitador.limits[g])

\* The gateway annotation comes last in reconcileGatewayDiffs ("only when all
\* the reconciliation steps succeed"): a policy is added to it only when
\* limits, EnvoyFilter and WasmPlugin of that gateway already are in place.
AnnotationLast ==
    \A p \in Policies, g \in Gateways :
        p \in store'.gateway[g].refs \ store.gateway[g].refs => Enforced(p, g)

\* Every step keeps the annotation last: no crash, failed call or concurrent
\* edit makes reconcileGatewayDiffs announce a gateway it has not configured.
AnnotationIsLast == [][AnnotationLast]_vars

\* What users own in an object.
UsersPolicy(p) == [live |-> p.live, deleting |-> p.deleting, target |-> p.target, spec |-> p.spec]
UsersRoute(r) == [live |-> r.live, parents |-> r.parents, hosts |-> r.hosts, rejecting |-> r.rejecting]
UsersGateway(g) == [live |-> g.live, hosts |-> g.hosts, ready |-> g.ready]

\* What users write stays, except that a policy being deleted goes. In the
\* gateways' annotations only the key of the policy being reconciled comes and
\* goes, and the limits, EnvoyFilter and WasmPlugin of a gateway change only
\* when the gateway is in the diff.
LosesNothing ==
    /\ \A p \in Policies :
          \/ UsersPolicy(store'.policy[p]) = UsersPolicy(store.policy[p])
          \/ p = wk.p /\ store.policy[p].deleting /\ ~store'.policy[p].live
    /\ \A r \in Routes : UsersRoute(store'.route[r]) = UsersRoute(store.route[r])
    /\ \A g \in Gateways :
          /\ UsersGateway(store'.gateway[g]) = UsersGateway(store.gateway[g])
          /\ \A p \in Policies \ {wk.p} :
                p \in store'.gateway[g].refs <=> p \in store.gateway[g].refs
    /\ store'.limitador.status = store.limitador.status
    /\ \A g \in Gateways \ (wk.left \cup wk.same \cup wk.new) :
          /\ store'.limitador.limits[g] = store.limitador.limits[g]
          /\ store'.plugin[g] = store.plugin[g]
          /\ store'.filter[g] = store.filter[g]

\* A step of the worker loses nobody else's update.
NoLostUpdate == Work => LosesNothing

\* However old the copies in the caches and in the worker are, no update that
\* Reconcile sends (finalizer, back reference, limits, annotation, status)
\* overwrites what a user or another reconciliation has written meanwhile. The
\* one list of limits that all gateways share is where that is least obvious.
NeverLosesUpdates == [][NoLostUpdate]_vars

\* A policy enters a gateway's annotation only when the EnvoyFilter the gateway
\* needs for it is there.
FilterFirst ==
    \A p \in Policies, g \in Gateways :
        p \in store'.gateway[g].refs \ store.gateway[g].refs => store.filter[g]

\* However old the copies are, reconcileGatewayDiffs creates the EnvoyFilter of
\* a new gateway before it annotates the gateway. Later reconciliations count
\* on that: they skip the EnvoyFilters of annotated ("same") gateways.
FilterIsFirst == [][FilterFirst]_vars

-----------------------------------------------------------------------------
(* Ownership and cleanup.                                                  *)

\* Something in the cluster still speaks of p.
Mentioned(p) ==
    \/ \E r \in Routes : store.route[r].backref = p
    \/ \E g \in Gateways :
          \/ store.gateway[g].backref = p
          \/ p \in store.gateway[g].refs
          \/ p \in Named(store.plugin[g].conf)
          \/ p \in Named(store.limitador.limits[g])

\* While anything speaks of a policy the finalizer keeps its object: the
\* finalizer is added before the first trace and removed after the last.
FinalizerCoversTraces ==
    \A p \in Policies :
        Mentioned(p) => store.policy[p].live /\ store.policy[p].finalizer

\* A gateway takes configuration only from the policy its target names in
\* the back reference; the policies that came later are kept out.
OnlyOwnersReferenced ==
    \A p \in Policies, g \in Gateways :
        p \in store.gateway[g].refs => BackRef(store, store.policy[p].target) = p

\* At most one of the policies with a given target configures gateways
\* (reconcileSpec: "Ensure only one RLP is targeting the Gateway/HTTPRoute").
OnePolicyPerTarget ==
    \A p, q \in Policies, g, h \in Gateways :
        /\ p \in store.gateway[g].refs /\ q \in store.gateway[h].refs
        /\ store.policy[p].live /\ store.policy[q].live
        /\ store.policy[p].target = store.policy[q].target
        => p = q

\* The annotations as a lock on the targets: see TargetOwnership.
Ownership == INSTANCE TargetOwnership WITH
    Targets <- Routes \cup Gateways,
    Aims <- Targets \cup {None},
    there <- [t \in Routes \cup Gateways |-> TargetLive(store, t)],
    owner <- [t \in Routes \cup Gateways |-> BackRef(store, t)],
    job <- [policy |-> wk.p, target |-> wk.rlp.target, deleting |-> wk.rlp.deleting]

\* The back references of RateLimitPolicies implement the lock: whatever the
\* caches hold, ReconcileTargetBackReference takes only a free target of the
\* policy at work, and only finalizations (or deleting the target) free one.
OwnershipIsALock == Ownership!Spec

-----------------------------------------------------------------------------
(* Where the controller comes to rest.                                     *)

Quiescent == wk.pc = "idle" /\ queue = {} /\ cache = store

\* At rest the annotation of a gateway lists the policies whose target leads
\* to it: none is missing and none stays behind.
ReferencesConverge ==
    Quiescent =>
        \A p \in Policies, g \in Gateways :
            store.gateway[g].live =>
                (p \in store.gateway[g].refs <=>
                    /\ store.policy[p].live
                    /\ g \in TargetedGatewayKeys(store, store.policy[p].target))

\* At rest Limitador and the WasmPlugin of every gateway hold exactly what the
\* policies in its annotation ask for, as these and their routes now are.
ConfigConverges ==
    Quiescent =>
        \A g \in Gateways :
            LET refs == store.gateway[g].refs
                conf == GatewayConfig(store, store.gateway[g], refs)
            IN  /\ store.limitador.limits[g] = conf
                /\ store.plugin[g] = [live |-> refs # {}, conf |-> conf]

\* At rest a gateway has its EnvoyFilter exactly when policies configure it.
FilterConverges ==
    Quiescent => \A g \in Gateways : store.filter[g] <=> store.gateway[g].refs # {}

\* At rest every policy reports success on its current generation, and a
\* route policy the limits of the gateway policies it is subject to.
StatusConverges ==
    Quiescent =>
        \A p \in Policies :
            LET rlp == store.policy[p]
            IN  rlp.live =>
                    /\ rlp.observed
                    /\ rlp.available = "True"
                    /\ rlp.target \in Routes =>
                          rlp.gwLimits = GatewaysRateLimits(store, rlp.target)

-----------------------------------------------------------------------------
(* What must happen in the end.                                            *)

\* A deleted policy goes away: its finalizer is always removed in the end.
DeletionCompletes ==
    \A p \in Policies : store.policy[p].deleting ~> ~store.policy[p].deleting

\* What the controller cannot help: every policy's target is accepted and
\* ready, and Limitador too.
TargetsValid ==
    /\ store.limitador.status = "ready"
    /\ \A p \in Policies :
          LET rlp == store.policy[p]
          IN  rlp.live =>
                /\ Validate(p, rlp.target)
                /\ FetchValidTargetRef(store, rlp.target)
                /\ <<rlp.spec, TargetHostnames(store, rlp.target)>> \in Fits

\* Once the environment is still and the targets are valid, the controller
\* comes to rest: it neither keeps failing nor wakes itself up for ever.
ComesToRest == <>[]TargetsValid => <>[]Quiescent
=============================================================================
