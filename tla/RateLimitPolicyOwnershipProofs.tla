------------------- MODULE RateLimitPolicyOwnershipProofs -------------------
(***************************************************************************)
(* The back-reference annotations of the RateLimitPolicy controller        *)
(* implement the lock of TargetOwnership, whatever the caches hold.        *)
(***************************************************************************)
EXTENDS RateLimitPolicyProofs

-----------------------------------------------------------------------------
(* What a step means for the lock.                                         *)

Lockable == Routes \cup Gateways

\* The annotation of t becomes p; every other target is as it was.
OwnerBecomes(t, p) ==
    \A u \in Lockable :
        /\ TargetLive(store', u) = TargetLive(store, u)
        /\ BackRef(store', u) = IF u = t THEN p ELSE BackRef(store, u)

OwnersKept ==
    \A u \in Lockable :
        /\ TargetLive(store', u) = TargetLive(store, u)
        /\ BackRef(store', u) = BackRef(store, u)

JobKept ==
    /\ wk'.p = wk.p
    /\ wk'.rlp.target = wk.rlp.target
    /\ wk'.rlp.deleting = wk.rlp.deleting

LEMMA StutterStep == OwnersKept /\ JobKept => UNCHANGED Ownership!vars
BY DEF OwnersKept, JobKept, Lockable, Ownership!vars

\* An idle worker has no job.
LEMMA IdleJob == [policy |-> Idle.p, target |-> Idle.rlp.target, deleting |-> Idle.rlp.deleting] = Ownership!NoJob
<1>1. Idle.p = NoPolicy /\ Idle.rlp = NoSuchPolicy
  BY DEF Idle
<1>2. NoSuchPolicy.target = None /\ NoSuchPolicy.deleting = FALSE
  BY DEF NoSuchPolicy
<1> QED BY <1>1, <1>2 DEF Ownership!NoJob

LEMMA EndStep == OwnersKept /\ wk' = Idle => Ownership!Next
BY IdleJob DEF OwnersKept, Lockable, Ownership!Next, Ownership!End

LEMMA ClaimStep ==
    ASSUME NEW t \in Lockable, t = wk.rlp.target, ~wk.rlp.deleting, wk.p \in Policies,
           TargetLive(store, t), BackRef(store, t) = NoPolicy,
           OwnerBecomes(t, wk.p), JobKept
    PROVE  Ownership!Next
<1>1. wk.p # NoPolicy
  BY ClusterAssumption
<1>2. Ownership!Claim(t)
  BY <1>1 DEF OwnerBecomes, JobKept, Lockable, Ownership!Claim, Ownership!NoJob
<1> QED BY <1>2 DEF Lockable, Ownership!Next

LEMMA ReleaseStep ==
    ASSUME NEW t \in Lockable, t = wk.rlp.target, wk.rlp.deleting, wk.p \in Policies,
           TargetLive(store, t), OwnerBecomes(t, NoPolicy), JobKept \/ wk' = Idle
    PROVE  Ownership!Next
<1> DEFINE job == [policy |-> wk.p, target |-> wk.rlp.target, deleting |-> wk.rlp.deleting]
<1>1. job' \in {job, Ownership!NoJob}
  BY IdleJob DEF JobKept
<1>2. job # Ownership!NoJob /\ job.target = t /\ job.deleting
  BY ClusterAssumption DEF Ownership!NoJob
<1>3. [u \in Lockable |-> TargetLive(store, u)][t]
  OBVIOUS
<1>4. [u \in Lockable |-> BackRef(store, u)]'
        = [[u \in Lockable |-> BackRef(store, u)] EXCEPT ![t] = NoPolicy]
  BY DEF OwnerBecomes, Lockable
<1>5. [u \in Lockable |-> TargetLive(store, u)]' = [u \in Lockable |-> TargetLive(store, u)]
  BY DEF OwnerBecomes, Lockable
<1>6. Ownership!Release(t)
  BY <1>1, <1>2, <1>3, <1>4, <1>5 DEF Lockable, Ownership!Release
<1> QED BY <1>6 DEF Lockable, Ownership!Next

\* A step that leaves the annotations alone and the job as it is, or done.
LEMMA QuietStep ==
    OwnersKept /\ (JobKept \/ wk' = Idle) => [Ownership!Next]_(Ownership!vars)
BY StutterStep, EndStep

-----------------------------------------------------------------------------
(* Which steps are quiet.                                                  *)

\* Writing an object that is no target, or a gateway with the annotation it has.
LEMMA PutKeepsOwners ==
    ASSUME TypeInv
    PROVE  /\ store' = store => OwnersKept
           /\ \A p \in Policies : \A x : store' = [store EXCEPT !.policy[p] = x] => OwnersKept
           /\ \A x : store' = [store EXCEPT !.limitador = x] => OwnersKept
           /\ \A g \in Gateways : \A x :
                \/ store' = [store EXCEPT !.plugin[g] = x]
                \/ store' = [store EXCEPT !.filter[g] = x]
                => OwnersKept
           /\ \A r \in Routes : \A x :
                /\ store' = [store EXCEPT !.route[r] = x]
                /\ x.live = store.route[r].live
                /\ x.backref = store.route[r].backref
                => OwnersKept
           /\ \A g \in Gateways : \A x :
                /\ store' = [store EXCEPT !.gateway[g] = x]
                /\ x.live = store.gateway[g].live
                /\ x.backref = store.gateway[g].backref
                => OwnersKept
<1>1. store \in Cluster
  BY TypeParts
<1>2. store'.route = store.route /\ store'.gateway = store.gateway => OwnersKept
  BY DEF OwnersKept, TargetLive, BackRef
<1>3. /\ store' = store => OwnersKept
      /\ \A p \in Policies : \A x : store' = [store EXCEPT !.policy[p] = x] => OwnersKept
      /\ \A x : store' = [store EXCEPT !.limitador = x] => OwnersKept
      /\ \A g \in Gateways : \A x :
            \/ store' = [store EXCEPT !.plugin[g] = x]
            \/ store' = [store EXCEPT !.filter[g] = x]
            => OwnersKept
  BY <1>1, <1>2 DEF Cluster
<1>4. ASSUME NEW r \in Routes, NEW x, store' = [store EXCEPT !.route[r] = x],
             x.live = store.route[r].live, x.backref = store.route[r].backref
      PROVE  OwnersKept
  <2>1. /\ store'.gateway = store.gateway
        /\ store'.route[r] = x
        /\ \A q \in Routes \ {r} : store'.route[q] = store.route[q]
    BY <1>1, <1>4 DEF Cluster
  <2> QED BY <1>4, <2>1 DEF OwnersKept, TargetLive, BackRef, Lockable
<1>5. ASSUME NEW g \in Gateways, NEW x, store' = [store EXCEPT !.gateway[g] = x],
             x.live = store.gateway[g].live, x.backref = store.gateway[g].backref
      PROVE  OwnersKept
  <2>1. /\ store'.route = store.route
        /\ store'.gateway[g] = x
        /\ \A q \in Gateways \ {g} : store'.gateway[q] = store.gateway[q]
    BY <1>1, <1>5 DEF Cluster
  <2> QED BY <1>5, <2>1 DEF OwnersKept, TargetLive, BackRef, Lockable
<1> QED BY <1>3, <1>4, <1>5

LEMMA GaveUpJob == TypeInv /\ GaveUp => JobKept \/ wk' = Idle
BY TypeParts DEF GaveUp, JobKept, Worker

\* Every step of the worker but those on the back reference.
LEMMA QuietWork ==
    ASSUME TypeInv, Work, ~ReconcileDirectBackReference, ~DeleteNetworkResourceBackReference
    PROVE  OwnersKept /\ (JobKept \/ wk' = Idle)
<1> USE DEF UpdateAccepted
<1>0. /\ wk.pc # "idle" => wk.p \in Policies
      /\ wk \in Worker /\ store \in Cluster
  BY TypeParts
<1>1. CASE AddFinalizer
  <2> DEFINE next == [wk EXCEPT !.pc = "backRef", !.rlp.finalizer = TRUE]
  <2>1. /\ wk.pc = "addFinalizer"
        /\ store' = store \/ store' = [store EXCEPT !.policy[wk.p] = next.rlp]
        /\ wk' = next \/ GaveUp
    BY <1>1, CallEffect DEF AddFinalizer, Advance, Goto, At
  <2>2. wk' = next => JobKept
    BY <1>0, TypeParts DEF JobKept, Worker, Policy
  <2> HIDE DEF next
  <2> QED BY <1>0, <2>1, <2>2, PutKeepsOwners, GaveUpJob
<1>2. CASE ComputeGatewayDiffs
  <2>1. store' = store /\ (JobKept \/ GaveUp)
    BY <1>0, <1>2, AbortEffect DEF ComputeGatewayDiffs, Advance, Goto, JobKept, Worker
  <2> QED BY <2>1, PutKeepsOwners, GaveUpJob
<1>3. CASE ReconcileStatus
  <2>1. wk.pc = "status" /\ (wk' = Idle \/ GaveUp)
    BY <1>3, FailEffect, AbortEffect DEF ReconcileStatus, Call, Requeue, Goto, At
  <2>2. store' = store \/ \E x : store' = [store EXCEPT !.policy[wk.p] = x]
    BY <1>3, AbortEffect DEF ReconcileStatus, Call
  <2> QED BY <1>0, <2>1, <2>2, PutKeepsOwners, GaveUpJob
<1>4. CASE ReconcileLimits
  <2>1. wk' = Enter(Following) => JobKept
    BY <1>0 DEF Enter, JobKept, Worker
  <2> DEFINE next == Enter(Following)
             x == [cache.limitador EXCEPT !.limits = LimitsAfter]
             after == [store EXCEPT !.limitador = x]
  <2>2. \/ Abort
        \/ Advance(next)
        \/ Call(UpdateAccepted(store.limitador, cache.limitador), after, Goto(next))
    BY <1>4 DEF ReconcileLimits
  <2>3. store' = after => OwnersKept
    BY PutKeepsOwners
  <2> HIDE DEF next, x, after
  <2>4. (store' = store \/ store' = after) /\ (wk' = next \/ GaveUp)
    BY <2>2, CallEffect, AbortEffect DEF Advance, Goto
  <2> QED BY <2>1, <2>3, <2>4, PutKeepsOwners, GaveUpJob DEF next
<1>5. ASSUME NEW g \in Gateways,
             ReconcileFilter(g) \/ ReconcilePlugin(g) \/ ReconcileGatewayRLPReferences(g)
      PROVE  OwnersKept /\ (JobKept \/ wk' = Idle)
  <2>1. wk' = Visited(g) => JobKept
    BY <1>5, VisitedFields DEF JobKept
  <2>2. CASE ReconcileFilter(g)
    <3>1. /\ store' = store \/ \E x : store' = [store EXCEPT !.filter[g] = x]
          /\ wk' = Visited(g) \/ GaveUp
      BY <2>2, CallEffect, AbortEffect DEF ReconcileFilter, Advance, Goto
    <3> QED BY <2>1, <3>1, PutKeepsOwners, GaveUpJob
  <2>3. CASE ReconcilePlugin(g)
    <3>1. /\ store' = store \/ \E x : store' = [store EXCEPT !.plugin[g] = x]
          /\ wk' = Visited(g) \/ GaveUp
      BY <2>3, CallEffect, AbortEffect DEF ReconcilePlugin, Advance, Goto
    <3> QED BY <2>1, <3>1, PutKeepsOwners, GaveUpJob
  <2>4. CASE ReconcileGatewayRLPReferences(g)
    <3> DEFINE x == [wk.gws[g] EXCEPT !.refs = RLPRefsAfter(g)]
               next == [Visited(g) EXCEPT !.gws[g].refs = RLPRefsAfter(g)]
    <3>1. /\ \/ store' = store
             \/ store.gateway[g] = wk.gws[g] /\ store' = [store EXCEPT !.gateway[g] = x]
          /\ wk' = Visited(g) \/ wk' = next \/ GaveUp
      BY <2>4, RefsEffect DEF UpdateAccepted
    <3>2. x.live = wk.gws[g].live /\ x.backref = wk.gws[g].backref
      BY TypeParts DEF Gateway
    <3>3. wk' = next => JobKept
      BY <1>5, VisitedFields DEF JobKept
    <3> HIDE DEF x, next
    <3> QED BY <2>1, <3>1, <3>2, <3>3, PutKeepsOwners, GaveUpJob
  <2> QED BY <1>5, <2>2, <2>3, <2>4
<1>6. CASE NextStage
  <2>1. store' = store /\ JobKept
    BY <1>0, <1>6 DEF NextStage, Advance, Goto, Enter, JobKept, Worker
  <2> QED BY <2>1, PutKeepsOwners
<1>7. CASE ComputeFinalizeGatewayDiff
  <2>1. store' = store /\ (JobKept \/ GaveUp)
    BY <1>0, <1>7, AbortEffect DEF ComputeFinalizeGatewayDiff, Advance, Goto, JobKept, Worker
  <2> QED BY <2>1, PutKeepsOwners, GaveUpJob
<1>8. CASE RemoveFinalizer
  <2>1. /\ wk.pc = "finRemove"
        /\ store' = store \/ store' = [store EXCEPT !.policy[wk.p] = NoSuchPolicy]
        /\ wk' = Idle \/ GaveUp
    BY <1>8, CallEffect DEF RemoveFinalizer, Advance, Goto, At
  <2> QED BY <1>0, <2>1, PutKeepsOwners, GaveUpJob
<1> QED BY <1>1, <1>2, <1>3, <1>4, <1>5, <1>6, <1>7, <1>8 DEF Work, Apply, Configure, Finalize

-----------------------------------------------------------------------------
(* The steps that the lock sees.                                           *)

Claims(t) ==
    /\ t = wk.rlp.target /\ ~wk.rlp.deleting /\ wk.p \in Policies
    /\ TargetLive(store, t) /\ BackRef(store, t) = NoPolicy
    /\ OwnerBecomes(t, wk.p)
    /\ JobKept

Releases(t) ==
    /\ t = wk.rlp.target /\ wk.rlp.deleting /\ wk.p \in Policies
    /\ TargetLive(store, t)
    /\ OwnerBecomes(t, NoPolicy)
    /\ JobKept \/ wk' = Idle

\* Users make t appear or vanish, and its annotation goes with it.
Toggles(t) ==
    /\ TargetLive(store', t) <=> ~TargetLive(store, t)
    /\ BackRef(store', t) = NoPolicy
    /\ \A u \in Lockable \ {t} :
          /\ TargetLive(store', u) = TargetLive(store, u)
          /\ BackRef(store', u) = BackRef(store, u)
    /\ JobKept

LEMMA BackRefPut ==
    ASSUME TypeInv, NEW t, NEW p,
           \/ t \in Routes /\ store.route[t] = cache.route[t] /\ store' = WithRouteBackRef(t, p)
           \/ t \in Gateways /\ store.gateway[t] = cache.gateway[t] /\ store' = WithGatewayBackRef(t, p)
    PROVE  OwnerBecomes(t, p)
<1>0. store \in Cluster /\ cache \in Cluster
  BY TypeParts
<1>1. CASE t \in Routes /\ store.route[t] = cache.route[t] /\ store' = WithRouteBackRef(t, p)
  <2> DEFINE x == [cache.route[t] EXCEPT !.backref = p]
  <2>1. x.live = store.route[t].live /\ x.backref = p
    BY <1>0, <1>1, GetTypes DEF Route
  <2>2. /\ store'.gateway = store.gateway
        /\ store'.route[t] = x
        /\ \A q \in Routes \ {t} : store'.route[q] = store.route[q]
    BY <1>0, <1>1 DEF Cluster, WithRouteBackRef
  <2> HIDE DEF x
  <2> QED BY <1>1, <2>1, <2>2, ClusterAssumption DEF OwnerBecomes, TargetLive, BackRef, Lockable
<1>2. CASE t \in Gateways /\ store.gateway[t] = cache.gateway[t] /\ store' = WithGatewayBackRef(t, p)
  <2> DEFINE x == [cache.gateway[t] EXCEPT !.backref = p]
  <2>1. x.live = store.gateway[t].live /\ x.backref = p
    BY <1>0, <1>2, GetTypes DEF Gateway
  <2>2. /\ store'.route = store.route
        /\ store'.gateway[t] = x
        /\ \A q \in Gateways \ {t} : store'.gateway[q] = store.gateway[q]
    BY <1>0, <1>2 DEF Cluster, WithGatewayBackRef
  <2> HIDE DEF x
  <2> QED BY <1>2, <2>1, <2>2, ClusterAssumption DEF OwnerBecomes, TargetLive, BackRef, Lockable
<1> QED BY <1>1, <1>2

\* A policy at work on its back reference is not being deleted, only an idle
\* worker has no policy, and a target that is not there carries no annotation.
LockInv ==
    /\ wk.pc \in {"addFinalizer", "backRef"} => ~wk.rlp.deleting
    /\ wk.pc = "idle" => wk = Idle
    /\ \A u \in Lockable : ~TargetLive(store, u) => BackRef(store, u) = NoPolicy

\* The copy the worker found the target free in is what is stored, or the
\* update is refused.
LEMMA ClaimOrQuiet ==
    ASSUME TypeInv, WorkerInv, LockInv, ReconcileDirectBackReference
    PROVE  \/ OwnersKept /\ (JobKept \/ wk' = Idle)
           \/ \E t \in Lockable : Claims(t)
<1> USE DEF UpdateAccepted
<1> DEFINE t == wk.rlp.target
           next == [wk EXCEPT !.pc = "diff"]
           wrote == \/ t \in Routes /\ store.route[t] = cache.route[t] /\ store' = WithRouteBackRef(t, wk.p)
                    \/ t \in Gateways /\ store.gateway[t] = cache.gateway[t] /\ store' = WithGatewayBackRef(t, wk.p)
           free == FetchValidTargetRef(cache, t) /\ BackRef(cache, t) = NoPolicy
<1>0. /\ wk.pc = "backRef" /\ wk.p \in Policies /\ wk.mode = "apply" /\ ~wk.rlp.deleting
      /\ wk \in Worker
  BY TypeParts DEF ReconcileDirectBackReference, At, WorkerInv, LockInv
<1>1. wk' = next => JobKept
  BY <1>0 DEF JobKept, Worker
<1>2. Fail => JobKept
  BY <1>0 DEF Fail, Goto, JobKept, Worker, SpecStages
<1>3. \/ Abort
      \/ Advance(next)
      \/ free /\ t \in Routes /\ Call(UpdateAccepted(store.route[t], cache.route[t]),
                                      WithRouteBackRef(t, wk.p), Goto(next))
      \/ free /\ t \in Gateways /\ Call(UpdateAccepted(store.gateway[t], cache.gateway[t]),
                                        WithGatewayBackRef(t, wk.p), Goto(next))
  BY DEF ReconcileDirectBackReference
<1> HIDE DEF next
<1>4. (store' = store \/ (free /\ wrote)) /\ JobKept
  <2> HIDE DEF free, t
  <2> QED BY <1>1, <1>2, <1>3 DEF Abort, Advance, Goto, Call
<1>5. CASE store' = store
  BY <1>4, <1>5, PutKeepsOwners
<1>6. CASE free /\ wrote
  <2>1. t \in Lockable
    BY <1>6 DEF Lockable
  <2>2. OwnerBecomes(t, wk.p)
    BY <1>6, BackRefPut
  <2>3. TargetLive(store, t) /\ BackRef(store, t) = NoPolicy
    BY <1>6, ClusterAssumption
    DEF FetchValidTargetRef, FetchValidHTTPRoute, FetchValidGateway, TargetLive, BackRef
  <2>4. Claims(t)
    BY <1>0, <1>4, <2>2, <2>3 DEF Claims
  <2> QED BY <2>1, <2>4
<1> QED BY <1>4, <1>5, <1>6

LEMMA ReleaseOrQuiet ==
    ASSUME TypeInv, WorkerInv, DeleteNetworkResourceBackReference
    PROVE  \/ OwnersKept /\ (JobKept \/ wk' = Idle)
           \/ \E t \in Lockable : Releases(t)
<1> USE DEF UpdateAccepted
<1> DEFINE t == wk.rlp.target
           next == [wk EXCEPT !.pc = "finRemove"]
           wrote == \/ t \in Routes /\ store.route[t] = cache.route[t] /\ store' = WithRouteBackRef(t, NoPolicy)
                    \/ t \in Gateways /\ store.gateway[t] = cache.gateway[t] /\ store' = WithGatewayBackRef(t, NoPolicy)
           found == FetchValidTargetRef(cache, t)
<1>0. wk.pc = "finBackRef" /\ wk.p \in Policies /\ wk.rlp.deleting /\ wk \in Worker
  BY TypeParts DEF DeleteNetworkResourceBackReference, At, WorkerInv
<1>1. wk' = next => JobKept
  BY <1>0 DEF JobKept, Worker
<1>2. \/ Abort
      \/ Advance(next)
      \/ found /\ t \in Routes /\ Call(UpdateAccepted(store.route[t], cache.route[t]),
                                       WithRouteBackRef(t, NoPolicy), Goto(next))
      \/ found /\ t \in Gateways /\ Call(UpdateAccepted(store.gateway[t], cache.gateway[t]),
                                         WithGatewayBackRef(t, NoPolicy), Goto(next))
  BY DEF DeleteNetworkResourceBackReference
<1> HIDE DEF next
<1>3. (store' = store \/ (found /\ wrote)) /\ (JobKept \/ wk' = Idle)
  <2>1. (store' = store \/ (found /\ wrote)) /\ (wk' = next \/ GaveUp)
    <3> HIDE DEF found, t
    <3> QED BY <1>2, CallEffect, AbortEffect DEF Advance, Goto
  <2> QED BY <1>1, <2>1, GaveUpJob
<1>4. CASE store' = store
  BY <1>3, <1>4, PutKeepsOwners
<1>5. CASE found /\ wrote
  <2>1. t \in Lockable
    BY <1>5 DEF Lockable
  <2>2. OwnerBecomes(t, NoPolicy)
    BY <1>5, BackRefPut
  <2>3. TargetLive(store, t)
    BY <1>5, ClusterAssumption
    DEF FetchValidTargetRef, FetchValidHTTPRoute, FetchValidGateway, TargetLive
  <2>4. Releases(t)
    BY <1>0, <1>3, <2>2, <2>3 DEF Releases
  <2> QED BY <2>1, <2>4
<1> QED BY <1>3, <1>4, <1>5

\* Users and operators create and delete targets, and leave annotations alone.
LEMMA EnvironmentStep ==
    ASSUME TypeInv, Environment
    PROVE  \/ OwnersKept /\ JobKept
           \/ \E t \in Lockable : Toggles(t)
<1>0. store \in Cluster /\ JobKept
  BY TypeParts DEF Environment, JobKept
<1>1. ASSUME NEW r \in Routes, NEW x, store' = [store EXCEPT !.route[r] = x],
             x.live <=> ~store.route[r].live, x.backref = NoPolicy
      PROVE  \E t \in Lockable : Toggles(t)
  <2>1. /\ store'.gateway = store.gateway
        /\ store'.route[r] = x
        /\ \A q \in Routes \ {r} : store'.route[q] = store.route[q]
    BY <1>0, <1>1 DEF Cluster
  <2>2. Toggles(r)
    BY <1>0, <1>1, <2>1, ClusterAssumption DEF Toggles, TargetLive, BackRef, Lockable
  <2> QED BY <2>2 DEF Lockable
<1>2. ASSUME NEW g \in Gateways, NEW x, store' = [store EXCEPT !.gateway[g] = x],
             x.live <=> ~store.gateway[g].live, x.backref = NoPolicy
      PROVE  \E t \in Lockable : Toggles(t)
  <2>1. /\ store'.route = store.route
        /\ store'.gateway[g] = x
        /\ \A q \in Gateways \ {g} : store'.gateway[q] = store.gateway[q]
    BY <1>0, <1>2 DEF Cluster
  <2>2. Toggles(g)
    BY <1>0, <1>2, <2>1, ClusterAssumption DEF Toggles, TargetLive, BackRef, Lockable
  <2> QED BY <2>2 DEF Lockable
<1>3. CASE EditPolicies
  <2>1. \E p \in Policies : \E x : store' = [store EXCEPT !.policy[p] = x]
    BY <1>3, <1>0
       DEF EditPolicies, CreatePolicy, EditSpec, Retarget, DeletePolicy, DeleteUnmarkedPolicy, Edit
  <2> QED BY <1>0, <2>1, PutKeepsOwners
<1>4. CASE EditRoutes
  <2>0. \A r \in Routes : store.route[r] \in Route
    BY <1>0, GetTypes
  <2>1. ASSUME NEW r \in Routes, NEW ps, NEW hs, CreateRoute(r, ps, hs)
        PROVE  \E t \in Lockable : Toggles(t)
    <3> DEFINE x == [NoSuchRoute EXCEPT !.live = TRUE, !.parents = ps, !.hosts = hs]
    <3>1. store' = [store EXCEPT !.route[r] = x] /\ ~store.route[r].live
      BY <2>1 DEF CreateRoute, Edit
    <3>2. x.live = TRUE /\ x.backref = NoPolicy
      BY DEF NoSuchRoute
    <3> HIDE DEF x
    <3> QED BY <1>1, <2>0, <3>1, <3>2 DEF Route
  <2>2. ASSUME NEW r \in Routes, DeleteRoute(r) PROVE \E t \in Lockable : Toggles(t)
    <3>1. store' = [store EXCEPT !.route[r] = NoSuchRoute] /\ store.route[r].live
      BY <2>2 DEF DeleteRoute, Edit
    <3>2. NoSuchRoute.live = FALSE /\ NoSuchRoute.backref = NoPolicy
      BY DEF NoSuchRoute
    <3> QED BY <1>1, <2>0, <3>1, <3>2 DEF Route
  <2>3. ASSUME NEW r \in Routes, NEW y,
               EditParents(r, y) \/ EditRouteHosts(r, y) \/ SetRejecting(r, y)
        PROVE  OwnersKept
    <3>1. CASE EditParents(r, y)
      <4> DEFINE x == [store.route[r] EXCEPT !.parents = y]
      <4>1. store' = [store EXCEPT !.route[r] = x]
        BY <3>1 DEF EditParents, Edit
      <4>2. x.live = store.route[r].live /\ x.backref = store.route[r].backref
        BY <2>0 DEF Route
      <4> HIDE DEF x
      <4> QED BY <4>1, <4>2, PutKeepsOwners
    <3>2. CASE EditRouteHosts(r, y)
      <4> DEFINE x == [store.route[r] EXCEPT !.hosts = y]
      <4>1. store' = [store EXCEPT !.route[r] = x]
        BY <3>2 DEF EditRouteHosts, Edit
      <4>2. x.live = store.route[r].live /\ x.backref = store.route[r].backref
        BY <2>0 DEF Route
      <4> HIDE DEF x
      <4> QED BY <4>1, <4>2, PutKeepsOwners
    <3>3. CASE SetRejecting(r, y)
      <4> DEFINE x == [store.route[r] EXCEPT !.rejecting = y]
      <4>1. store' = [store EXCEPT !.route[r] = x]
        BY <3>3 DEF SetRejecting, Edit
      <4>2. x.live = store.route[r].live /\ x.backref = store.route[r].backref
        BY <2>0 DEF Route
      <4> HIDE DEF x
      <4> QED BY <4>1, <4>2, PutKeepsOwners
    <3> QED BY <2>3, <3>1, <3>2, <3>3
  <2> QED BY <1>0, <1>4, <2>1, <2>2, <2>3 DEF EditRoutes
<1>5. CASE EditGateways
  <2>0. \A g \in Gateways : store.gateway[g] \in Gateway
    BY <1>0, GetTypes
  <2>1. ASSUME NEW g \in Gateways, NEW hs, CreateGateway(g, hs)
        PROVE  \E t \in Lockable : Toggles(t)
    <3> DEFINE x == [NoSuchGateway EXCEPT !.live = TRUE, !.ready = TRUE, !.hosts = hs]
    <3>1. store' = [store EXCEPT !.gateway[g] = x] /\ ~store.gateway[g].live
      BY <2>1 DEF CreateGateway, Edit
    <3>2. x.live = TRUE /\ x.backref = NoPolicy
      BY DEF NoSuchGateway
    <3> HIDE DEF x
    <3> QED BY <1>2, <2>0, <3>1, <3>2 DEF Gateway
  <2>2. ASSUME NEW g \in Gateways, DeleteGateway(g) PROVE \E t \in Lockable : Toggles(t)
    <3>1. store' = [store EXCEPT !.gateway[g] = NoSuchGateway] /\ store.gateway[g].live
      BY <2>2 DEF DeleteGateway, Edit
    <3>2. NoSuchGateway.live = FALSE /\ NoSuchGateway.backref = NoPolicy
      BY DEF NoSuchGateway
    <3> QED BY <1>2, <2>0, <3>1, <3>2 DEF Gateway
  <2>3. ASSUME NEW g \in Gateways, NEW y, EditGatewayHosts(g, y) \/ SetReady(g, y)
        PROVE  OwnersKept
    <3>1. CASE EditGatewayHosts(g, y)
      <4> DEFINE x == [store.gateway[g] EXCEPT !.hosts = y]
      <4>1. store' = [store EXCEPT !.gateway[g] = x]
        BY <3>1 DEF EditGatewayHosts, Edit
      <4>2. x.live = store.gateway[g].live /\ x.backref = store.gateway[g].backref
        BY <2>0 DEF Gateway
      <4> HIDE DEF x
      <4> QED BY <4>1, <4>2, PutKeepsOwners
    <3>2. CASE SetReady(g, y)
      <4> DEFINE x == [store.gateway[g] EXCEPT !.ready = y]
      <4>1. store' = [store EXCEPT !.gateway[g] = x]
        BY <3>2 DEF SetReady, Edit
      <4>2. x.live = store.gateway[g].live /\ x.backref = store.gateway[g].backref
        BY <2>0 DEF Gateway
      <4> HIDE DEF x
      <4> QED BY <4>1, <4>2, PutKeepsOwners
    <3> QED BY <2>3, <3>1, <3>2
  <2> QED BY <1>0, <1>5, <2>1, <2>2, <2>3 DEF EditGateways
<1>6. CASE EditLimitador
  <2>1. \E x : store' = [store EXCEPT !.limitador = x]
    BY <1>0, <1>6 DEF EditLimitador, SetLimitador, Edit, Cluster
  <2> QED BY <1>0, <2>1, PutKeepsOwners
<1> QED BY <1>3, <1>4, <1>5, <1>6 DEF Environment

\* Taking up a policy with its target.
Begins(p) ==
    /\ wk = Idle
    /\ OwnersKept
    /\ wk'.p = p /\ wk'.rlp \in Policy

\* Every step is one of these to the lock.
LEMMA NextKinds ==
    ASSUME TypeInv, WorkerInv, LockInv, [Next]_vars
    PROVE  \/ OwnersKept /\ (JobKept \/ wk' = Idle)
           \/ \E p \in Policies : Begins(p)
           \/ \E t \in Lockable : Claims(t) \/ Releases(t) \/ Toggles(t)
<1>1. ASSUME NEW p \in Policies, Start(p)
      PROVE  Begins(p) \/ (OwnersKept /\ wk' = Idle)
  <2>1. wk = Idle /\ store' = store
    BY <1>1 DEF Start, At, LockInv
  <2>2. cache.policy[p] \in Policy
    BY TypeParts, GetTypes
  <2>3. wk' = Idle \/ (wk'.p = p /\ wk'.rlp \in Policy)
    BY <1>1, <2>2 DEF Start, Idle
  <2> QED BY <2>1, <2>3, PutKeepsOwners DEF Begins
<1>2. CASE Work
  BY <1>2, QuietWork, ClaimOrQuiet, ReleaseOrQuiet
<1>3. CASE Watch \/ UNCHANGED vars
  BY <1>3, PutKeepsOwners DEF Watch, Deliver, DeliverPolicy, DeliverRoute, DeliverGateway,
     DeliverLimitador, DeliverPlugin, DeliverFilter, vars, JobKept
<1>4. CASE Environment
  BY <1>4, EnvironmentStep
<1>5. CASE Crash
  BY <1>5, PutKeepsOwners DEF Crash
<1> QED BY <1>1, <1>2, <1>3, <1>4, <1>5 DEF Next

-----------------------------------------------------------------------------
(* The invariant, and the refinement.                                      *)

\* At first no target carries an annotation.
LEMMA InitUnlocked ==
    Init => \A u \in Lockable : BackRef(store, u) = NoPolicy /\ TargetLive(store, u) \in BOOLEAN
<1> SUFFICES ASSUME Init
             PROVE  \A u \in Lockable : BackRef(store, u) = NoPolicy /\ TargetLive(store, u) \in BOOLEAN
  OBVIOUS
<1>1. PICK S \in SUBSET Policies, ts \in [Policies -> Targets], ss \in [Policies -> Specs],
           ps \in [Routes -> SUBSET Gateways], hs \in [Routes \cup Gateways -> HostLists] :
        /\ store =
              [policy |-> [p \in Policies |->
                             IF p \in S THEN NewPolicy(ts[p], ss[p]) ELSE NoSuchPolicy],
               route |-> [r \in Routes |->
                             [NoSuchRoute EXCEPT !.live = TRUE, !.parents = ps[r], !.hosts = hs[r]]],
               gateway |-> [g \in Gateways |->
                             [NoSuchGateway EXCEPT !.live = TRUE, !.ready = TRUE, !.hosts = hs[g]]],
               limitador |-> [status |-> "ready", limits |-> NoLimits],
               plugin |-> [g \in Gateways |-> NoPlugin],
               filter |-> [g \in Gateways |-> FALSE]]
        /\ queue = S
  BY DEF Init, ClusterInit
<1>2. \A a, b : [NoSuchRoute EXCEPT !.live = TRUE, !.parents = a, !.hosts = b].backref = NoPolicy
  BY DEF NoSuchRoute
<1>3. \A b : [NoSuchGateway EXCEPT !.live = TRUE, !.ready = TRUE, !.hosts = b].backref = NoPolicy
  BY DEF NoSuchGateway
<1>4. \A r \in Routes : store.route[r].backref = NoPolicy
  <2> TAKE r \in Routes
  <2>1. store.route[r] = [NoSuchRoute EXCEPT !.live = TRUE, !.parents = ps[r], !.hosts = hs[r]]
    BY <1>1
  <2> QED BY <1>2, <2>1, Zenon
<1>5. \A g \in Gateways : store.gateway[g].backref = NoPolicy
  <2> TAKE g \in Gateways
  <2>1. store.gateway[g] = [NoSuchGateway EXCEPT !.live = TRUE, !.ready = TRUE, !.hosts = hs[g]]
    BY <1>1
  <2> QED BY <1>3, <2>1, Zenon
<1> QED BY <1>4, <1>5 DEF BackRef, Lockable, TargetLive

LEMMA InitLockInv == Init => LockInv
BY InitUnlocked DEF LockInv, Init, Idle

\* How a step may leave the worker, as far as LockInv looks at it.
LEMMA NextClaimant ==
    ASSUME TypeInv, WorkerInv, LockInv, [Next]_vars
    PROVE  /\ wk'.pc \in {"addFinalizer", "backRef"} => ~wk'.rlp.deleting
           /\ wk'.pc = "idle" => wk' = Idle
<1> DEFINE Good == /\ wk'.pc \in {"addFinalizer", "backRef"} => ~wk'.rlp.deleting
                   /\ wk'.pc = "idle" => wk' = Idle
<1> SUFFICES Good
  OBVIOUS
<1>0. wk \in Worker
  BY TypeParts
<1>1. wk' = Idle => Good
  BY DEF Idle
<1>2. GaveUp => Good
  BY <1>0, <1>1 DEF GaveUp, Worker
<1>3. wk' = wk => Good
  BY DEF LockInv
<1>4. ASSUME NEW p \in Policies, Start(p) PROVE Good
  BY <1>4 DEF Start, EntryStage, Idle
<1>5. CASE AddFinalizer
  <2> DEFINE next == [wk EXCEPT !.pc = "backRef", !.rlp.finalizer = TRUE]
  <2>1. wk.pc = "addFinalizer" /\ (wk' = next \/ GaveUp)
    BY <1>5, CallEffect DEF AddFinalizer, At, Advance, Goto
  <2>2. wk' = next => Good
    BY <1>0, <2>1, TypeParts DEF LockInv, Worker, Policy
  <2> QED BY <1>2, <2>1, <2>2
<1>6. CASE ReconcileDirectBackReference
  <2>1. GaveUp \/ wk' = [wk EXCEPT !.pc = "diff"]
    BY <1>6, CallEffect, AbortEffect DEF ReconcileDirectBackReference, Advance, Goto
  <2> QED BY <1>0, <1>2, <2>1 DEF Worker
<1>7. CASE ComputeGatewayDiffs
  <2>1. GaveUp \/ wk'.pc = "limits"
    BY <1>0, <1>7, AbortEffect DEF ComputeGatewayDiffs, Advance, Goto, Worker
  <2> QED BY <1>2, <2>1
<1>8. Following \notin {"addFinalizer", "backRef", "idle"}
  BY DEF Following
<1>9. wk' = Enter(Following) => Good
  BY <1>0, <1>8 DEF Enter, Worker
<1>10. CASE ReconcileLimits
  <2>1. GaveUp \/ wk' = Enter(Following)
    BY <1>10, CallEffect, AbortEffect DEF ReconcileLimits, Advance, Goto
  <2> QED BY <1>2, <1>9, <2>1
<1>11. ASSUME NEW g \in Gateways,
              ReconcileFilter(g) \/ ReconcilePlugin(g) \/ ReconcileGatewayRLPReferences(g)
       PROVE  Good
  <2>1. wk.pc \in {"filter", "plugin", "refs"}
    BY <1>11 DEF ReconcileFilter, ReconcilePlugin, ReconcileGatewayRLPReferences, At
  <2>2. \/ GaveUp
        \/ wk' = Visited(g)
        \/ wk' = [Visited(g) EXCEPT !.gws[g].refs = RLPRefsAfter(g)]
    <3>1. CASE ReconcileFilter(g)
      BY <3>1, CallEffect, AbortEffect DEF ReconcileFilter, Advance, Goto
    <3>2. CASE ReconcilePlugin(g)
      BY <3>2, CallEffect, AbortEffect DEF ReconcilePlugin, Advance, Goto
    <3>3. CASE ReconcileGatewayRLPReferences(g)
      BY <3>3, RefsEffect
    <3> QED BY <1>11, <3>1, <3>2, <3>3
  <2>3. GaveUp \/ wk'.pc = wk.pc
    BY <1>0, <1>11, <2>2, VisitedFields
  <2> QED BY <1>0, <1>2, <2>1, <2>3
<1>12. CASE NextStage
  BY <1>9, <1>12 DEF NextStage, Advance, Goto
<1>13. CASE ReconcileStatus
  <2>1. wk' = Idle \/ GaveUp
    BY <1>13, FailEffect, AbortEffect DEF ReconcileStatus, Call, Requeue, Goto
  <2> QED BY <1>1, <1>2, <2>1
<1>14. CASE ComputeFinalizeGatewayDiff
  <2>1. GaveUp \/ wk'.pc = "refs"
    BY <1>0, <1>14, AbortEffect DEF ComputeFinalizeGatewayDiff, Advance, Goto, Worker
  <2> QED BY <1>2, <2>1
<1>15. CASE DeleteNetworkResourceBackReference
  <2>1. GaveUp \/ wk' = [wk EXCEPT !.pc = "finRemove"]
    BY <1>15, CallEffect, AbortEffect DEF DeleteNetworkResourceBackReference, Advance, Goto
  <2> QED BY <1>0, <1>2, <2>1 DEF Worker
<1>16. CASE RemoveFinalizer
  <2>1. wk' = Idle \/ GaveUp
    BY <1>16, CallEffect DEF RemoveFinalizer, Advance, Goto
  <2> QED BY <1>1, <1>2, <2>1
<1>17. CASE Crash
  BY <1>1, <1>17 DEF Crash
<1>18. CASE UNCHANGED wk
  BY <1>3, <1>18
<1> HIDE DEF Good
<1>19. CASE Work
  <2>1. Apply => Good
    BY <1>5, <1>6, <1>7, <1>13 DEF Apply
  <2>2. Configure => Good
    BY <1>10, <1>11, <1>12 DEF Configure
  <2>3. Finalize => Good
    BY <1>14, <1>15, <1>16 DEF Finalize
  <2> QED BY <1>19, <2>1, <2>2, <2>3 DEF Work
<1>20. Watch \/ Environment \/ UNCHANGED vars => UNCHANGED wk
  BY DEF Watch, Environment, vars
<1> QED BY <1>4, <1>17, <1>18, <1>19, <1>20 DEF Next

LEMMA NextLockInv == TypeInv /\ WorkerInv /\ LockInv /\ [Next]_vars => LockInv'
<1> SUFFICES ASSUME TypeInv, WorkerInv, LockInv, [Next]_vars PROVE LockInv'
  OBVIOUS
<1>1. \A u \in Lockable : ~TargetLive(store', u) => BackRef(store', u) = NoPolicy
  <2>1. CASE OwnersKept
    BY <2>1 DEF OwnersKept, LockInv
  <2>2. ASSUME NEW t \in Lockable, Claims(t) \/ Releases(t)
        PROVE  \A u \in Lockable : ~TargetLive(store', u) => BackRef(store', u) = NoPolicy
    BY <2>2 DEF Claims, Releases, OwnerBecomes, LockInv
  <2>3. ASSUME NEW t \in Lockable, Toggles(t)
        PROVE  \A u \in Lockable : ~TargetLive(store', u) => BackRef(store', u) = NoPolicy
    BY <2>3 DEF Toggles, LockInv
  <2> QED BY <2>1, <2>2, <2>3, NextKinds DEF Begins
<1> QED BY <1>1, NextClaimant DEF LockInv, Lockable

\* Every step is a step of the lock, or none.
LEMMA NextIsOwnershipStep ==
    TypeInv /\ WorkerInv /\ LockInv /\ [Next]_vars => [Ownership!Next]_(Ownership!vars)
<1> SUFFICES ASSUME TypeInv, WorkerInv, LockInv, [Next]_vars
             PROVE  [Ownership!Next]_(Ownership!vars)
  OBVIOUS
<1>1. CASE OwnersKept /\ (JobKept \/ wk' = Idle)
  BY <1>1, QuietStep
<1>2. ASSUME NEW p \in Policies, Begins(p) PROVE Ownership!Next
  <2>1. wk'.rlp.target \in Targets \cup {None} /\ wk'.rlp.deleting \in BOOLEAN
    BY <1>2 DEF Begins, Policy
  <2>2. Ownership!Begin(p, wk'.rlp.target, wk'.rlp.deleting)
    BY <1>2, IdleJob DEF Begins, OwnersKept, Lockable, Ownership!Begin
  <2> QED BY <2>1, <2>2 DEF Ownership!Next
<1>3. ASSUME NEW t \in Lockable, Claims(t) PROVE Ownership!Next
  BY <1>3, ClaimStep DEF Claims
<1>4. ASSUME NEW t \in Lockable, Releases(t) PROVE Ownership!Next
  BY <1>4, ReleaseStep DEF Releases
<1>5. ASSUME NEW t \in Lockable, Toggles(t) PROVE Ownership!Next
  <2>1. CASE TargetLive(store, t)
    <3>1. [u \in Lockable |-> TargetLive(store, u)]'
            = [[u \in Lockable |-> TargetLive(store, u)] EXCEPT ![t] = FALSE]
      <4>1. TargetLive(store', t) = FALSE
        BY <1>5, <2>1 DEF Toggles
      <4> QED BY <1>5, <4>1 DEF Toggles, Lockable
    <3>2. [u \in Lockable |-> BackRef(store, u)]'
            = [[u \in Lockable |-> BackRef(store, u)] EXCEPT ![t] = NoPolicy]
      BY <1>5 DEF Toggles, Lockable
    <3>3. Ownership!Vanish(t)
      BY <1>5, <2>1, <3>1, <3>2 DEF Toggles, JobKept, Lockable, Ownership!Vanish
    <3> QED BY <3>3 DEF Lockable, Ownership!Next
  <2>2. CASE ~TargetLive(store, t)
    <3>1. BackRef(store, t) = NoPolicy
      BY <2>2 DEF LockInv
    <3>2. Ownership!Appear(t)
      BY <1>5, <2>2, <3>1 DEF Toggles, JobKept, Lockable, Ownership!Appear
    <3> QED BY <3>2 DEF Lockable, Ownership!Next
  <2> QED BY <2>1, <2>2
<1> QED BY <1>1, <1>2, <1>3, <1>4, <1>5, NextKinds

LEMMA InitOwnership == Init => Ownership!Init
BY InitUnlocked, IdleJob DEF Ownership!Init, Lockable, Init

\* Whatever the caches hold, whichever calls fail and whenever the process
\* crashes, a RateLimitPolicy takes the back reference of a route or gateway
\* only when no policy has it, and loses it only to a finalization of a policy
\* with that target or to the deletion of the target.
THEOREM OwnershipImplementsLock == Spec => OwnershipIsALock
<1>1. Init => TypeInv /\ WorkerInv /\ LockInv /\ Ownership!Init
  BY InitTypeInv, InitLockInv, InitOwnership DEF Init, Idle, WorkerInv
<1>2. TypeInv /\ WorkerInv /\ LockInv /\ [Next]_vars => (TypeInv /\ WorkerInv /\ LockInv)'
  BY NextTypeInv, NextWorkerInv, NextLockInv
<1>3. TypeInv /\ WorkerInv /\ LockInv /\ [Next]_vars => [Ownership!Next]_(Ownership!vars)
  BY NextIsOwnershipStep
<1> QED BY <1>1, <1>2, <1>3, PTL DEF Spec, OwnershipIsALock, Ownership!Spec
=============================================================================
