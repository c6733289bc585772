--------------------- MODULE RateLimitPolicyReconciler ---------------------
(***************************************************************************)
(* The RateLimitPolicy controller: one worker (MaxConcurrentReconciles is  *)
(* left at its default of 1) takes a policy from the work queue and runs   *)
(* Reconcile, one API call per step, on the copies it read from the cache. *)
(*                                                                         *)
(* Reconcile either applies the policy: add the finalizer, back-reference  *)
(* the target, compute the gateway diff, then limits, EnvoyFilter,         *)
(* WasmPlugin and last the gateway annotation, and report the status; or,  *)
(* when the policy is being deleted, finalizes it in the opposite order.   *)
(***************************************************************************)
EXTENDS KuadrantCluster

VARIABLES
    wk,      \* the worker: program counter and local copies
    faults   \* the API failures and crashes left

vars == <<store, cache, queue, edits, wk, faults>>

\* reconcileSpec's stages: an error in one of them is reported in the status.
SpecStages == {"backRef", "diff", "limits", "filter", "plugin", "refs"}

Stages == SpecStages \cup
    {"idle", "addFinalizer", "status", "finDiff", "finBackRef", "finRemove"}

\* mode: applying or finalizing; rlp and gws: the copies of the policy and of
\* the gateways read from the cache; left, same, new: the gateway diff; twice:
\* the left gateways it lists with two copies (a third would be met as the
\* second is); todo: the gateways the current stage has yet to visit; again:
\* those of them it visits once more after that; err: reconcileSpec failed.
Worker ==
    [pc : Stages, p : Policies \cup {NoPolicy}, mode : {"apply", "finalize"},
     rlp : Policy, gws : [Gateways -> Gateway],
     left : SUBSET Gateways, same : SUBSET Gateways, new : SUBSET Gateways,
     twice : SUBSET Gateways, todo : SUBSET Gateways, again : SUBSET Gateways,
     err : BOOLEAN]

Idle ==
    [pc |-> "idle", p |-> NoPolicy, mode |-> "apply",
     rlp |-> NoSuchPolicy, gws |-> [g \in Gateways |-> NoSuchGateway],
     left |-> {}, same |-> {}, new |-> {},
     twice |-> {}, todo |-> {}, again |-> {}, err |-> FALSE]

-----------------------------------------------------------------------------
(* The configuration of a gateway that the policies R refer to, from the   *)
(* policies and routes of c. Limits and WASM actions have one shape: each  *)
(* policy's share on each of its domains.                                  *)

GatewayPolicies(c, R) == {q \in R : c.policy[q].target \in Gateways}

RoutePolicies(c, R) == {q \in R : c.policy[q].target \in Routes}

\* Every policy is found, at most one targets a gateway, all routes are valid.
ConfigOK(c, R) ==
    /\ \A q \in R : c.policy[q].live
    /\ \A q1, q2 \in GatewayPolicies(c, R) : q1 = q2
    /\ \A q \in RoutePolicies(c, R) : FetchValidHTTPRoute(c, c.policy[q].target)

Share(c, q, hs) == {<<h, q, c.policy[q].spec>> : h \in hs}

\* The gateway policy on the listeners' hostnames.
GatewayShare(c, gw, R) ==
    UNION {Share(c, q, OrWildcard(gw.hosts)) : q \in GatewayPolicies(c, R)}

\* Each route policy merged with the gateway policy on the route's hostnames.
RouteShare(c, R) ==
    UNION {UNION {Share(c, x, c.route[c.policy[q].target].hosts)
                    : x \in {q} \cup GatewayPolicies(c, R)}
             : q \in RoutePolicies(c, R)}

GatewayConfig(c, gw, R) == GatewayShare(c, gw, R) \cup RouteShare(c, R)

\* The gateway-level limits reported in the status of a route policy.
GatewaysRateLimits(c, t) ==
    LET reporting == {g \in TargetedGatewayKeys(c, t) :
                        /\ c.gateway[g].live
                        /\ c.gateway[g].backref \in Policies
                        /\ c.policy[c.gateway[g].backref].live}
    IN  {<<g, c.policy[c.gateway[g].backref].spec>> : g \in reporting}

-----------------------------------------------------------------------------
(* The gateway diff, from the annotations of the gateways in c.            *)

NewGateways(c, p, keys) == {g \in keys : c.gateway[g].live /\ p \notin c.gateway[g].refs}

SameGateways(c, p, keys) == {g \in keys : c.gateway[g].live /\ p \in c.gateway[g].refs}

\* Mutant: gateways the policy no longer applies to are not looked for.
LeftGatewaysForgotten(c, p, keys) == {}

LeftGateways(c, p, keys) ==
    {g \in Gateways \ keys : c.gateway[g].live /\ p \in c.gateway[g].refs}

\* Mutant: a left gateway loses the references of every policy.
RLPRefsAfterDropAll(g) == IF g \in wk.left THEN {} ELSE wk.gws[g].refs \cup {wk.p}

\* Mutant: a left gateway keeps the reference.
RLPRefsAfterKept(g) == wk.gws[g].refs \cup {wk.p}

\* The policies that configure g once this reconciliation is done.
RLPRefsAfter(g) ==
    IF g \in wk.left THEN wk.gws[g].refs \ {wk.p} ELSE wk.gws[g].refs \cup {wk.p}

-----------------------------------------------------------------------------
(* How a step of the worker ends.                                          *)

\* Mutant: an error is not returned to the work queue.
RequeueForgotten == wk' = Idle /\ UNCHANGED queue

Requeue == wk' = Idle /\ queue' = queue \cup {wk.p}

Goto(next) == wk' = next /\ UNCHANGED queue

\* An error in reconcileSpec goes to the status, any other ends Reconcile;
\* the policy is requeued in the end either way.
Fail ==
    IF wk.mode = "apply" /\ wk.pc \in SpecStages
    THEN Goto([wk EXCEPT !.pc = "status", !.err = TRUE])
    ELSE Requeue

\* Without an API call.
Advance(next) == Goto(next) /\ UNCHANGED <<store, faults>>

Abort == Fail /\ UNCHANGED <<store, faults>>

\* Mutant: the error of a failed call is not looked at.
CallUnchecked(accepted, after, done) ==
    \/ accepted /\ store' = after /\ done /\ UNCHANGED faults
    \/ ~accepted /\ Abort
    \/ /\ faults > 0
       /\ faults' = faults - 1
       /\ store' \in {store, IF accepted THEN after ELSE store}
       /\ done

\* A write: the server accepts or refuses it, or the call fails on the way
\* there, or on the way back after the server has applied it.
Call(accepted, after, done) ==
    \/ accepted /\ store' = after /\ done /\ UNCHANGED faults
    \/ ~accepted /\ Abort
    \/ /\ faults > 0
       /\ faults' = faults - 1
       /\ store' \in {store, IF accepted THEN after ELSE store}
       /\ Fail

\* Mutant: new gateways are left out of the annotation stage.
EnterRefsOfLeft(pc) ==
    [wk EXCEPT !.pc = pc,
               !.todo = CASE pc = "plugin" -> wk.left \cup wk.same \cup wk.new
                          [] pc = "filter" -> wk.left \cup wk.new
                          [] pc = "refs" -> wk.left
                          [] OTHER -> {},
               !.again = IF pc \in {"filter", "plugin", "refs"} THEN wk.twice ELSE {}]

\* Mutant: the EnvoyFilters of left gateways are not visited.
EnterFilterOfNew(pc) ==
    [wk EXCEPT !.pc = pc,
               !.todo = CASE pc = "plugin" -> wk.left \cup wk.same \cup wk.new
                          [] pc = "filter" -> wk.new
                          [] pc = "refs" -> wk.left \cup wk.new
                          [] OTHER -> {},
               !.again = IF pc \in {"filter", "plugin", "refs"} THEN wk.twice ELSE {}]

\* Mutant: the WasmPlugins of left gateways are not visited.
EnterPluginOfStaying(pc) ==
    [wk EXCEPT !.pc = pc,
               !.todo = CASE pc = "plugin" -> wk.same \cup wk.new
                          [] pc \in {"filter", "refs"} -> wk.left \cup wk.new
                          [] OTHER -> {},
               !.again = IF pc \in {"filter", "plugin", "refs"} THEN wk.twice ELSE {}]

\* Mutant: the WasmPlugins of the same gateways are not visited.
EnterPluginOfChanged(pc) ==
    [wk EXCEPT !.pc = pc,
               !.todo = IF pc \in {"plugin", "filter", "refs"}
                        THEN wk.left \cup wk.new ELSE {},
               !.again = IF pc \in {"filter", "plugin", "refs"} THEN wk.twice ELSE {}]

Enter(pc) ==
    [wk EXCEPT !.pc = pc,
               !.todo = CASE pc = "plugin" -> wk.left \cup wk.same \cup wk.new
                          [] pc \in {"filter", "refs"} -> wk.left \cup wk.new
                          [] OTHER -> {},
               !.again = IF pc \in {"filter", "plugin", "refs"} THEN wk.twice ELSE {}]

\* Mutant: the EnvoyFilter stage comes after the annotation.
FollowingFilterLast ==
    IF wk.mode = "apply"
    THEN CASE wk.pc = "limits" -> "plugin"
           [] wk.pc = "plugin" -> "refs"
           [] wk.pc = "refs" -> "filter"
           [] OTHER -> "status"
    ELSE CASE wk.pc = "refs" -> "plugin"
           [] wk.pc = "plugin" -> "filter"
           [] wk.pc = "filter" -> "limits"
           [] OTHER -> "finBackRef"

\* Mutant: a finalization leaves the EnvoyFilters alone.
FollowingWithoutFilter ==
    IF wk.mode = "apply"
    THEN CASE wk.pc = "limits" -> "filter"
           [] wk.pc = "filter" -> "plugin"
           [] wk.pc = "plugin" -> "refs"
           [] OTHER -> "status"
    ELSE CASE wk.pc = "refs" -> "plugin"
           [] wk.pc = "plugin" -> "limits"
           [] OTHER -> "finBackRef"

Following ==
    IF wk.mode = "apply"
    THEN CASE wk.pc = "limits" -> "filter"
           [] wk.pc = "filter" -> "plugin"
           [] wk.pc = "plugin" -> "refs"
           [] OTHER -> "status"
    ELSE CASE wk.pc = "refs" -> "plugin"
           [] wk.pc = "plugin" -> "filter"
           [] wk.pc = "filter" -> "limits"
           [] OTHER -> "finBackRef"

\* The loops visit the left gateways, then the same ones, then the new ones.
Visit(g) ==
    /\ g \in wk.todo
    /\ g \in wk.same => wk.todo \cap wk.left = {}
    /\ g \in wk.new => wk.todo \cap (wk.left \cup wk.same) = {}

\* Of two copies of a gateway the first is done.
Visited(g) ==
    IF g \in wk.again THEN [wk EXCEPT !.again = @ \ {g}] ELSE [wk EXCEPT !.todo = @ \ {g}]

At(pc) ==
    /\ wk.pc = pc
    /\ Settled
    /\ UNCHANGED <<cache, edits>>

-----------------------------------------------------------------------------
(* Reconcile.                                                              *)

\* Mutant: the finalizer is not added.
EntryStageUnfinalized(rlp) ==
    IF rlp.live
    THEN IF rlp.deleting
         THEN IF rlp.finalizer THEN "finDiff" ELSE "idle"
         ELSE "backRef"
    ELSE "idle"

\* Mutant: a policy being deleted is ignored.
EntryStageUndeleted(rlp) ==
    IF rlp.live /\ ~rlp.deleting
    THEN IF rlp.finalizer THEN "backRef" ELSE "addFinalizer"
    ELSE "idle"

\* Mutant: a policy that carries the finalizer is taken to own its target.
EntryStageOwner(rlp) ==
    IF rlp.live
    THEN IF rlp.deleting
         THEN IF rlp.finalizer THEN "finDiff" ELSE "idle"
         ELSE IF rlp.finalizer THEN "diff" ELSE "addFinalizer"
    ELSE "idle"

\* Where Reconcile begins with the policy it read: one that is gone, or that
\* is being deleted and no longer carries the finalizer, needs nothing.
EntryStage(rlp) ==
    IF rlp.live
    THEN IF rlp.deleting
         THEN IF rlp.finalizer THEN "finDiff" ELSE "idle"
         ELSE IF rlp.finalizer THEN "backRef" ELSE "addFinalizer"
    ELSE "idle"

\* Mutant: every reconciliation asks to be run again.
StartAgain(p) ==
    /\ At("idle")
    /\ p \in queue
    /\ UNCHANGED queue
    /\ LET rlp == cache.policy[p]
           pc  == EntryStage(rlp)
       IN  wk' = IF pc = "idle" THEN Idle
                 ELSE [Idle EXCEPT !.pc = pc, !.p = p, !.rlp = rlp,
                                   !.mode = IF pc = "finDiff" THEN "finalize" ELSE "apply"]
    /\ UNCHANGED <<store, faults>>

\* Take a policy from the queue and read it.
Start(p) ==
    /\ At("idle")
    /\ p \in queue
    /\ queue' = queue \ {p}
    /\ LET rlp == cache.policy[p]
           pc  == EntryStage(rlp)
       IN  wk' = IF pc = "idle" THEN Idle
                 ELSE [Idle EXCEPT !.pc = pc, !.p = p, !.rlp = rlp,
                                   !.mode = IF pc = "finDiff" THEN "finalize" ELSE "apply"]
    /\ UNCHANGED <<store, faults>>

\* Mutant: any error of the update is taken for "not found".
AddFinalizerUnchecked ==
    /\ At("addFinalizer")
    /\ LET next == [wk EXCEPT !.pc = "backRef", !.rlp.finalizer = TRUE]
       IN  \/ ~store.policy[wk.p].live /\ Advance(next)
           \/ /\ store.policy[wk.p].live
              /\ Call(UpdateAccepted(store.policy[wk.p], wk.rlp),
                      [store EXCEPT !.policy[wk.p] = next.rlp], Goto(next))
           \/ faults > 0 /\ faults' = faults - 1 /\ Goto(next) /\ UNCHANGED store

\* The update of a policy that is no longer there is not an error: Reconcile
\* goes on with its copy.
AddFinalizer ==
    /\ At("addFinalizer")
    /\ LET next == [wk EXCEPT !.pc = "backRef", !.rlp.finalizer = TRUE]
       IN  \/ ~store.policy[wk.p].live /\ Advance(next)
           \/ /\ store.policy[wk.p].live
              /\ Call(UpdateAccepted(store.policy[wk.p], wk.rlp),
                      [store EXCEPT !.policy[wk.p] = next.rlp], Goto(next))

\* The target as the worker read it, with the annotation set or taken away.
WithRouteBackRef(t, p) ==
    [store EXCEPT !.route[t] = [cache.route[t] EXCEPT !.backref = p]]

WithGatewayBackRef(t, p) ==
    [store EXCEPT !.gateway[t] = [cache.gateway[t] EXCEPT !.backref = p]]

\* Validate the targetRef, and the rule hosts against the target's hostnames,
\* then write the policy's key in the target's annotation unless it is there
\* already; the key of another policy is an error.
ReconcileDirectBackReference ==
    /\ At("backRef")
    /\ LET t     == wk.rlp.target
           next  == [wk EXCEPT !.pc = "diff"]
           valid == /\ Validate(wk.p, t)
                    /\ FetchValidTargetRef(cache, t)
                    /\ <<wk.rlp.spec, TargetHostnames(cache, t)>> \in Fits
       IN  \/ ~valid /\ Abort
           \/ valid /\ BackRef(cache, t) \notin {wk.p, NoPolicy} /\ Abort
           \/ valid /\ BackRef(cache, t) = wk.p /\ Advance(next)
           \/ /\ valid /\ BackRef(cache, t) = NoPolicy /\ t \in Routes
              /\ Call(UpdateAccepted(store.route[t], cache.route[t]),
                      WithRouteBackRef(t, wk.p), Goto(next))
           \/ /\ valid /\ BackRef(cache, t) = NoPolicy /\ t \in Gateways
              /\ Call(UpdateAccepted(store.gateway[t], cache.gateway[t]),
                      WithGatewayBackRef(t, wk.p), Goto(next))

\* Copy the gateways and sort them by what the target and their annotations say.
ComputeGatewayDiffs ==
    /\ At("diff")
    /\ LET t    == wk.rlp.target
           keys == TargetedGatewayKeys(cache, t)
       IN  \/ ~TargetedGatewayKeysOK(cache, t) /\ Abort
           \/ /\ TargetedGatewayKeysOK(cache, t)
              /\ Advance([wk EXCEPT !.pc = "limits", !.gws = cache.gateway,
                                    !.left = LeftGateways(cache, wk.p, keys),
                                    !.same = SameGateways(cache, wk.p, keys),
                                    !.new = NewGateways(cache, wk.p, keys)])

\* Everything the left gateways had goes, whichever policy it came from; the
\* limits of the other gateways in the diff are computed again.
LimitsAfter ==
    [g \in Gateways |->
        CASE g \in wk.left -> {}
          [] g \in (wk.same \cup wk.new) \ wk.left ->
                GatewayConfig(cache, wk.gws[g], RLPRefsAfter(g))
          [] OTHER -> cache.limitador.limits[g]]

\* One update of Limitador for all the gateways, when the limits differ. A
\* finalization does without a Limitador that is not found.
ReconcileLimits ==
    /\ At("limits")
    /\ LET next == Enter(Following)
           found(c) == c.limitador.status # "absent"
           computed == \A g \in wk.same \cup wk.new : ConfigOK(cache, RLPRefsAfter(g))
           changed == LimitsAfter # cache.limitador.limits
           NotFound == IF wk.mode = "finalize" THEN Advance(next) ELSE Abort
       IN  \/ ~found(cache) /\ NotFound
           \/ found(cache) /\ ~computed /\ Abort
           \/ found(cache) /\ computed /\ ~changed /\ Advance(next)
           \/ found(cache) /\ computed /\ changed /\ ~found(store) /\ NotFound
           \/ /\ found(cache) /\ computed /\ changed /\ found(store)
              /\ Call(UpdateAccepted(store.limitador, cache.limitador),
                      [store EXCEPT !.limitador =
                          [cache.limitador EXCEPT !.limits = LimitsAfter]],
                      Goto(next))

\* The EnvoyFilter exists while some policy configures the gateway; it points
\* to Limitador, which must be ready. An existing one is always updated.
ReconcileFilter(g) ==
    /\ At("filter")
    /\ Visit(g)
    /\ LET desired == RLPRefsAfter(g) # {}
       IN  \/ desired /\ cache.limitador.status # "ready" /\ Abort
           \/ ~desired /\ ~cache.filter[g] /\ Advance(Visited(g))
           \/ /\ desired => cache.limitador.status = "ready"
              /\ desired \/ cache.filter[g]
              /\ Call(ResourceAccepted(cache.filter[g], store.filter[g], desired, FALSE),
                      [store EXCEPT !.filter[g] = desired], Goto(Visited(g)))

\* The WasmPlugin exists while some policy configures the gateway. Its domains
\* come out of a map in no fixed order, so an update may also rewrite what
\* is there.
ReconcilePlugin(g) ==
    /\ At("plugin")
    /\ Visit(g)
    /\ LET refs == RLPRefsAfter(g)
           desired == IF refs = {} THEN NoPlugin
                      ELSE [live |-> TRUE, conf |-> GatewayConfig(cache, wk.gws[g], refs)]
       IN  \/ ~ConfigOK(cache, refs) /\ Abort
           \/ ConfigOK(cache, refs) /\ cache.plugin[g] = desired /\ Advance(Visited(g))
           \/ /\ ConfigOK(cache, refs)
              /\ desired.live \/ cache.plugin[g].live
              /\ Call(ResourceAccepted(cache.plugin[g], store.plugin[g], desired, NoPlugin),
                      [store EXCEPT !.plugin[g] = desired], Goto(Visited(g)))

\* The annotation of the local copy, written when it changes. A second copy of
\* the gateway still has the annotation it was read with.
ReconcileGatewayRLPReferences(g) ==
    /\ At("refs")
    /\ Visit(g)
    /\ LET refs == RLPRefsAfter(g)
       IN  \/ refs = wk.gws[g].refs /\ Advance(Visited(g))
           \/ /\ refs # wk.gws[g].refs
              /\ Call(UpdateAccepted(store.gateway[g], wk.gws[g]),
                      [store EXCEPT !.gateway[g] = [wk.gws[g] EXCEPT !.refs = refs]],
                      Goto(IF g \in wk.again THEN Visited(g)
                           ELSE [Visited(g) EXCEPT !.gws[g].refs = refs]))

\* The loop of a stage is done.
NextStage ==
    /\ wk.pc \in {"filter", "plugin", "refs"}
    /\ At(wk.pc)
    /\ wk.todo = {}
    /\ Advance(Enter(Following))

\* The status is written when it changes or lags behind the generation, and
\* always when a route has no gateway limits: the empty list computed never
\* equals the nil list read back. A conflict requeues, as does any error.
ReconcileStatus ==
    /\ At("status")
    /\ LET t == wk.rlp.target
           gwLimits == IF t \in Routes /\ cache.route[t].live
                       THEN GatewaysRateLimits(cache, t) ELSE {}
           status == [wk.rlp EXCEPT !.observed = TRUE, !.gwLimits = gwLimits,
                                    !.available = IF wk.err THEN "False" ELSE "True"]
           steady == status = wk.rlp /\ (t \in Routes => gwLimits # {})
           failed == t \in Routes /\ cache.route[t].live /\ ~FetchValidHTTPRoute(cache, t)
           Finish == IF wk.err THEN Requeue ELSE Goto(Idle)
       IN  \/ failed /\ Abort
           \/ ~failed /\ steady /\ Finish /\ UNCHANGED <<store, faults>>
           \/ ~failed /\ ~steady /\ Call(UpdateAccepted(store.policy[wk.p], wk.rlp),
                                         [store EXCEPT !.policy[wk.p] = status], Finish)

-----------------------------------------------------------------------------
(* Finalization of a deleted policy.                                       *)

\* The gateways of the current target that exist are all left, one copy for
\* each of their keys; a route that is not found has none.
ComputeFinalizeGatewayDiff ==
    /\ At("finDiff")
    /\ LET t     == wk.rlp.target
           found == TargetLive(cache, t)
           keys  == IF t \in Routes /\ ~found THEN {} ELSE TargetedGatewayKeys(cache, t)
           left  == {g \in keys : cache.gateway[g].live}
           twice == left \cap RepeatedGatewayKeys(cache, t)
       IN  \/ found /\ ~TargetedGatewayKeysOK(cache, t) /\ Abort
           \/ /\ found => TargetedGatewayKeysOK(cache, t)
              /\ Advance([wk EXCEPT !.pc = "refs", !.gws = cache.gateway,
                                    !.left = left, !.twice = twice,
                                    !.todo = left, !.again = twice])

\* Whatever policy the annotation of the target names, it goes. A target that
\* is not found is no error, one of an unsupported kind is.
DeleteNetworkResourceBackReference ==
    /\ At("finBackRef")
    /\ LET t     == wk.rlp.target
           next  == [wk EXCEPT !.pc = "finRemove"]
           valid == FetchValidTargetRef(cache, t)
           gone  == t \notin Unsupported /\ ~TargetLive(cache, t)
       IN  \/ gone /\ Advance(next)
           \/ ~gone /\ ~valid /\ Abort
           \/ valid /\ BackRef(cache, t) = NoPolicy /\ Advance(next)
           \/ /\ valid /\ BackRef(cache, t) # NoPolicy /\ t \in Routes
              /\ Call(UpdateAccepted(store.route[t], cache.route[t]),
                      WithRouteBackRef(t, NoPolicy), Goto(next))
           \/ /\ valid /\ BackRef(cache, t) # NoPolicy /\ t \in Gateways
              /\ Call(UpdateAccepted(store.gateway[t], cache.gateway[t]),
                      WithGatewayBackRef(t, NoPolicy), Goto(next))

\* Without its finalizer the API server drops the object.
RemoveFinalizer ==
    /\ At("finRemove")
    /\ \/ ~store.policy[wk.p].live /\ Advance(Idle)
       \/ /\ store.policy[wk.p].live
          /\ Call(UpdateAccepted(store.policy[wk.p], wk.rlp),
                  [store EXCEPT !.policy[wk.p] = NoSuchPolicy], Goto(Idle))

-----------------------------------------------------------------------------
\* The process stops and another takes over: caches are listed afresh and the
\* events of that listing enqueue every policy the mappers name.
Crash ==
    /\ faults > 0
    /\ wk.pc # "idle"
    /\ faults' = faults - 1
    /\ wk' = Idle
    /\ cache' = store
    /\ queue' = {p \in Policies :
                    \/ store.policy[p].live
                    \/ \E r \in Routes : store.route[r].backref = p
                    \/ \E g \in Gateways : p \in store.gateway[g].refs}
    /\ UNCHANGED <<store, edits>>

Apply ==
    \/ AddFinalizer
    \/ ReconcileDirectBackReference
    \/ ComputeGatewayDiffs
    \/ ReconcileStatus

Configure ==
    \/ ReconcileLimits
    \/ \E g \in Gateways :
          ReconcileFilter(g) \/ ReconcilePlugin(g) \/ ReconcileGatewayRLPReferences(g)
    \/ NextStage

Finalize ==
    \/ ComputeFinalizeGatewayDiff
    \/ DeleteNetworkResourceBackReference
    \/ RemoveFinalizer

Work == Apply \/ Configure \/ Finalize

Environment ==
    /\ EditPolicies \/ EditRoutes \/ EditGateways \/ EditLimitador
    /\ UNCHANGED <<wk, faults>>

Watch == Deliver /\ UNCHANGED <<wk, faults>>

Init ==
    /\ ClusterInit
    /\ wk = Idle
    /\ faults = MaxFaults

Next ==
    \/ \E p \in Policies : Start(p)
    \/ Work
    \/ Watch
    \/ Environment
    \/ Crash

Spec == Init /\ [][Next]_vars

\* Informers deliver, a worker that has begun goes on, and the queue is first
\* in, first out, so that no policy in it waits forever. Users and faults owe
\* nothing.
Fairness ==
    /\ WF_vars(Watch)
    /\ WF_vars(Work)
    /\ \A p \in Policies : SF_vars(Start(p))

FairSpec == Spec /\ Fairness
=============================================================================
