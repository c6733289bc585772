--------------------- MODULE RateLimitPolicyTraceProofs ---------------------
(***************************************************************************)
(* What the RateLimitPolicy controller leaves in the cluster: only owners  *)
(* are listed in the gateways' annotations, a gateway is annotated last,   *)
(* and the finalizer covers every trace of a policy.                       *)
(***************************************************************************)
EXTENDS RateLimitPolicyOwnershipProofs

-----------------------------------------------------------------------------
(* The steps of the worker, stage by stage: how the worker goes on and     *)
(* which object is written.                                                *)

SameJob == wk'.p = wk.p /\ wk'.rlp = wk.rlp /\ wk'.mode = wk.mode
SameDiff == wk'.left = wk.left /\ wk'.same = wk.same /\ wk'.new = wk.new
Kept == SameJob /\ SameDiff /\ wk'.gws = wk.gws

MovesTo(pc) == wk'.pc = pc /\ Kept /\ wk'.err = wk.err /\ queue' = queue
Reports == wk'.pc = "status" /\ Kept /\ wk'.err = TRUE /\ queue' = queue
GivesUp == wk' = Idle /\ queue' = queue \cup {wk.p}
Ends == wk' = Idle /\ queue' = queue
Fails == IF wk.mode = "apply" /\ wk.pc \in SpecStages THEN Reports ELSE GivesUp

Enters(pc) == MovesTo(pc) /\ wk'.todo = Enter(pc).todo

\* The loop has done a copy of g: the only one, or the first of two.
Passes(g) ==
    /\ wk'.again = wk.again \ {g}
    /\ wk'.todo = IF g \in wk.again THEN wk.todo ELSE wk.todo \ {g}

Visits(g) == MovesTo(wk.pc) /\ Passes(g)

\* A visit after which the copy of g carries the new annotation; of two copies
\* the second keeps the old one.
Annotates(g) ==
    /\ wk'.pc = wk.pc /\ SameJob /\ SameDiff /\ wk'.err = wk.err /\ queue' = queue
    /\ Passes(g)
    /\ wk'.gws[g] = IF g \in wk.again THEN wk.gws[g]
                    ELSE [wk.gws[g] EXCEPT !.refs = RLPRefsAfter(g)]
    /\ \A h \in Gateways \ {g} : wk'.gws[h] = wk.gws[h]

\* Only a finalization meets a gateway twice.
LEMMA AppliesOnce ==
    ASSUME WorkerInv, wk.mode = "apply"
    PROVE  /\ wk.again = {}
           /\ \A g : Passes(g) => wk'.todo = wk.todo \ {g}
BY DEF WorkerInv, Passes

\* What a visit leaves to be done is g at most less.
LEMMA PassesTodo == \A g : Passes(g) => wk.todo \ {g} \subseteq wk'.todo /\ wk'.todo \subseteq wk.todo
BY DEF Passes

LEMMA FailMoves ==
    ASSUME TypeInv
    PROVE  /\ Fail => Fails
           /\ Requeue => GivesUp
           /\ Goto(Idle) => Ends
           /\ \A pc : Goto([wk EXCEPT !.pc = pc]) => MovesTo(pc)
           /\ \A pc : Goto(Enter(pc)) => Enters(pc)
           /\ \A g \in Gateways : Goto(Visited(g)) => Visits(g)
<1>1. wk \in Worker
  BY TypeParts
<1>2. Fail => Fails
  BY <1>1 DEF Fail, Requeue, Goto, Fails, Reports, GivesUp, Kept, SameJob, SameDiff, Worker
<1>3. (Requeue => GivesUp) /\ (Goto(Idle) => Ends)
  BY DEF Requeue, Goto, GivesUp, Ends
<1>4. \A pc : Goto([wk EXCEPT !.pc = pc]) => MovesTo(pc)
  BY <1>1 DEF Goto, MovesTo, Kept, SameJob, SameDiff, Worker
<1>6. ASSUME NEW g \in Gateways, Goto(Visited(g)) PROVE Visits(g)
  <2>1. Visited(g).gws = wk.gws
    BY <1>1 DEF Visited, Worker
  <2> QED BY <1>6, <2>1, VisitedFields
          DEF Goto, Visits, Passes, MovesTo, Kept, SameJob, SameDiff
<1>5. ASSUME NEW pc, Goto(Enter(pc)) PROVE Enters(pc)
  BY <1>1, <1>5 DEF Goto, Enters, Enter, MovesTo, Kept, SameJob, SameDiff, Worker
<1> QED BY <1>2, <1>3, <1>4, <1>5, <1>6

\* How a call ends, the queue included.
LEMMA CallMoves ==
    ASSUME NEW accepted, NEW after, NEW done, Call(accepted, after, done)
    PROVE  \/ accepted /\ store' = after /\ (done \/ Fail)
           \/ store' = store /\ Fail
BY DEF Call, Abort

LEMMA AdvanceMoves ==
    /\ Abort => store' = store /\ Fail
    /\ \A next : Advance(next) => store' = store /\ Goto(next)
BY DEF Abort, Advance

\* One object of the store becomes x, and all else stays.
PolicyBecomes(p, x) ==
    /\ store'.policy[p] = x
    /\ \A q \in Policies \ {p} : store'.policy[q] = store.policy[q]
    /\ store'.route = store.route /\ store'.gateway = store.gateway
    /\ store'.limitador = store.limitador
    /\ store'.plugin = store.plugin /\ store'.filter = store.filter

RouteBecomes(r, x) ==
    /\ store'.route[r] = x
    /\ \A s \in Routes \ {r} : store'.route[s] = store.route[s]
    /\ store'.policy = store.policy /\ store'.gateway = store.gateway
    /\ store'.limitador = store.limitador
    /\ store'.plugin = store.plugin /\ store'.filter = store.filter

GatewayBecomes(g, x) ==
    /\ store'.gateway[g] = x
    /\ \A h \in Gateways \ {g} : store'.gateway[h] = store.gateway[h]
    /\ store'.policy = store.policy /\ store'.route = store.route
    /\ store'.limitador = store.limitador
    /\ store'.plugin = store.plugin /\ store'.filter = store.filter

LimitadorBecomes(x) ==
    /\ store'.limitador = x
    /\ store'.policy = store.policy /\ store'.route = store.route
    /\ store'.gateway = store.gateway
    /\ store'.plugin = store.plugin /\ store'.filter = store.filter

PluginBecomes(g, x) ==
    /\ store'.plugin[g] = x
    /\ \A h \in Gateways \ {g} : store'.plugin[h] = store.plugin[h]
    /\ store'.policy = store.policy /\ store'.route = store.route
    /\ store'.gateway = store.gateway
    /\ store'.limitador = store.limitador /\ store'.filter = store.filter

FilterBecomes(g, x) ==
    /\ store'.filter[g] = x
    /\ \A h \in Gateways \ {g} : store'.filter[h] = store.filter[h]
    /\ store'.policy = store.policy /\ store'.route = store.route
    /\ store'.gateway = store.gateway
    /\ store'.limitador = store.limitador /\ store'.plugin = store.plugin

LEMMA PutBecomes ==
    ASSUME TypeInv, NEW x
    PROVE  /\ \A p \in Policies : store' = [store EXCEPT !.policy[p] = x] => PolicyBecomes(p, x)
           /\ \A r \in Routes : store' = [store EXCEPT !.route[r] = x] => RouteBecomes(r, x)
           /\ \A g \in Gateways : store' = [store EXCEPT !.gateway[g] = x] => GatewayBecomes(g, x)
           /\ store' = [store EXCEPT !.limitador = x] => LimitadorBecomes(x)
           /\ \A g \in Gateways : store' = [store EXCEPT !.plugin[g] = x] => PluginBecomes(g, x)
           /\ \A g \in Gateways : store' = [store EXCEPT !.filter[g] = x] => FilterBecomes(g, x)
<1>0. store \in Cluster
  BY TypeParts
<1>1. \A p \in Policies : store' = [store EXCEPT !.policy[p] = x] => PolicyBecomes(p, x)
  BY <1>0 DEF Cluster, PolicyBecomes
<1>2. \A r \in Routes : store' = [store EXCEPT !.route[r] = x] => RouteBecomes(r, x)
  BY <1>0 DEF Cluster, RouteBecomes
<1>3. \A g \in Gateways : store' = [store EXCEPT !.gateway[g] = x] => GatewayBecomes(g, x)
  BY <1>0 DEF Cluster, GatewayBecomes
<1>4. store' = [store EXCEPT !.limitador = x] => LimitadorBecomes(x)
  BY <1>0 DEF Cluster, LimitadorBecomes
<1>5. \A g \in Gateways : store' = [store EXCEPT !.plugin[g] = x] => PluginBecomes(g, x)
  BY <1>0 DEF Cluster, PluginBecomes
<1>6. \A g \in Gateways : store' = [store EXCEPT !.filter[g] = x] => FilterBecomes(g, x)
  BY <1>0 DEF Cluster, FilterBecomes
<1> QED BY <1>1, <1>2, <1>3, <1>4, <1>5, <1>6

\* The annotation of t, of which the cache has the stored copy, becomes p.
OwnerWritten(t, p) ==
    /\ t \in Lockable
    /\ TargetLive(store, t) = TargetLive(cache, t)
    /\ BackRef(store, t) = BackRef(cache, t)
    /\ OwnerBecomes(t, p)
    /\ \/ /\ t \in Routes
          /\ RouteBecomes(t, [store.route[t] EXCEPT !.backref = p])
       \/ /\ t \in Gateways
          /\ GatewayBecomes(t, [store.gateway[t] EXCEPT !.backref = p])

LEMMA BackRefStored ==
    ASSUME TypeInv, NEW t, NEW p,
           \/ t \in Routes /\ store.route[t] = cache.route[t] /\ store' = WithRouteBackRef(t, p)
           \/ t \in Gateways /\ store.gateway[t] = cache.gateway[t] /\ store' = WithGatewayBackRef(t, p)
    PROVE  OwnerWritten(t, p)
<1>0. OwnerBecomes(t, p)
  BY BackRefPut
<1>1. CASE t \in Routes /\ store.route[t] = cache.route[t] /\ store' = WithRouteBackRef(t, p)
  <2>1. RouteBecomes(t, [store.route[t] EXCEPT !.backref = p])
    BY <1>1, PutBecomes DEF WithRouteBackRef
  <2>2. TargetLive(store, t) = TargetLive(cache, t) /\ BackRef(store, t) = BackRef(cache, t)
    BY <1>1, ClusterAssumption DEF TargetLive, BackRef
  <2> QED BY <1>0, <1>1, <2>1, <2>2 DEF OwnerWritten, Lockable
<1>2. CASE t \in Gateways /\ store.gateway[t] = cache.gateway[t] /\ store' = WithGatewayBackRef(t, p)
  <2>1. GatewayBecomes(t, [store.gateway[t] EXCEPT !.backref = p])
    BY <1>2, PutBecomes DEF WithGatewayBackRef
  <2>2. TargetLive(store, t) = TargetLive(cache, t) /\ BackRef(store, t) = BackRef(cache, t)
    BY <1>2, ClusterAssumption DEF TargetLive, BackRef
  <2> QED BY <1>0, <1>2, <2>1, <2>2 DEF OwnerWritten, Lockable
<1> QED BY <1>1, <1>2

\* The worker has put the finalizer on its copy.
Armed ==
    /\ wk'.pc = "backRef" /\ wk'.p = wk.p /\ wk'.mode = wk.mode /\ queue' = queue
    /\ wk'.rlp = [wk.rlp EXCEPT !.finalizer = TRUE]

AddFinalizerStep ==
    /\ wk.pc = "addFinalizer"
    /\ \/ store' = store /\ Fails
       \/ ~store.policy[wk.p].live /\ store' = store /\ Armed
       \/ /\ store.policy[wk.p].live /\ store.policy[wk.p] = wk.rlp
          /\ PolicyBecomes(wk.p, [wk.rlp EXCEPT !.finalizer = TRUE])
          /\ Armed \/ Fails

TargetValid == Validate(wk.p, wk.rlp.target) /\ FetchValidTargetRef(cache, wk.rlp.target)

BackRefStep ==
    /\ wk.pc = "backRef"
    /\ \/ store' = store /\ Fails
       \/ TargetValid /\ BackRef(cache, wk.rlp.target) = wk.p /\ store' = store /\ MovesTo("diff")
       \/ /\ TargetValid /\ BackRef(cache, wk.rlp.target) = NoPolicy
          /\ OwnerWritten(wk.rlp.target, wk.p)
          /\ MovesTo("diff") \/ Fails

\* The diff of the cached gateways against the gateways of the target.
Sorted(keys) ==
    /\ wk'.pc = "limits" /\ SameJob /\ wk'.gws = cache.gateway /\ queue' = queue
    /\ wk'.left = LeftGateways(cache, wk.p, keys)
    /\ wk'.same = SameGateways(cache, wk.p, keys)
    /\ wk'.new = NewGateways(cache, wk.p, keys)

DiffStep ==
    /\ wk.pc = "diff" /\ store' = store
    /\ \/ Fails
       \/ /\ TargetedGatewayKeysOK(cache, wk.rlp.target)
          /\ Sorted(TargetedGatewayKeys(cache, wk.rlp.target))

LimitsComputed == \A g \in wk.same \cup wk.new : ConfigOK(cache, RLPRefsAfter(g))

LimitsStep ==
    /\ wk.pc = "limits"
    /\ \/ store' = store /\ Fails
       \/ /\ wk.mode = "finalize"
          /\ cache.limitador.status = "absent" \/ store.limitador.status = "absent"
          /\ store' = store /\ Enters(Following)
       \/ /\ LimitsComputed /\ LimitsAfter = cache.limitador.limits
          /\ store' = store /\ Enters(Following)
       \/ /\ LimitsComputed /\ store.limitador = cache.limitador
          /\ cache.limitador.status # "absent"
          /\ LimitadorBecomes([cache.limitador EXCEPT !.limits = LimitsAfter])
          /\ Enters(Following) \/ Fails

FilterStep ==
    /\ wk.pc = "filter"
    /\ \E g \in wk.todo :
          \/ store' = store /\ Fails
          \/ RLPRefsAfter(g) = {} /\ ~cache.filter[g] /\ store' = store /\ Visits(g)
          \/ FilterBecomes(g, RLPRefsAfter(g) # {}) /\ (Visits(g) \/ Fails)

\* The plugin that the policies of g ask for once this reconciliation is done.
PluginAfter(g) ==
    IF RLPRefsAfter(g) = {} THEN NoPlugin
    ELSE [live |-> TRUE, conf |-> GatewayConfig(cache, wk.gws[g], RLPRefsAfter(g))]

PluginStep ==
    /\ wk.pc = "plugin"
    /\ \E g \in wk.todo :
          \/ store' = store /\ Fails
          \/ /\ ConfigOK(cache, RLPRefsAfter(g)) /\ cache.plugin[g] = PluginAfter(g)
             /\ store' = store /\ Visits(g)
          \/ /\ ConfigOK(cache, RLPRefsAfter(g))
             /\ PluginBecomes(g, PluginAfter(g))
             /\ Visits(g) \/ Fails

RefsStep ==
    /\ wk.pc = "refs"
    /\ \E g \in wk.todo :
          \/ store' = store /\ Fails
          \/ RLPRefsAfter(g) = wk.gws[g].refs /\ store' = store /\ Visits(g)
          \/ /\ store.gateway[g] = wk.gws[g]
             /\ GatewayBecomes(g, [wk.gws[g] EXCEPT !.refs = RLPRefsAfter(g)])
             /\ Annotates(g) \/ Fails

LoopStep ==
    /\ wk.pc \in {"filter", "plugin", "refs"} /\ wk.todo = {}
    /\ store' = store /\ Enters(Following)

\* The status a reconciliation without or with an error ends with.
NewStatus ==
    [wk.rlp EXCEPT !.observed = TRUE,
                   !.gwLimits = IF wk.rlp.target \in Routes /\ cache.route[wk.rlp.target].live
                                THEN GatewaysRateLimits(cache, wk.rlp.target) ELSE {},
                   !.available = IF wk.err THEN "False" ELSE "True"]

StatusStep ==
    /\ wk.pc = "status"
    /\ \/ store' = store /\ GivesUp
       \/ store' = store /\ NewStatus = wk.rlp /\ ~wk.err /\ Ends
       \/ /\ store.policy[wk.p] = wk.rlp
          /\ PolicyBecomes(wk.p, NewStatus)
          /\ GivesUp \/ (~wk.err /\ Ends)

\* The gateways a finalization visits.
FinalGateways ==
    {g \in IF wk.rlp.target \in Routes /\ ~TargetLive(cache, wk.rlp.target) THEN {}
           ELSE TargetedGatewayKeys(cache, wk.rlp.target) : cache.gateway[g].live}

FinDiffStep ==
    /\ wk.pc = "finDiff" /\ store' = store
    /\ \/ Fails
       \/ /\ wk'.pc = "refs" /\ SameJob /\ wk'.gws = cache.gateway /\ queue' = queue
          /\ wk'.left = FinalGateways /\ wk'.todo = FinalGateways
          /\ wk'.same = wk.same /\ wk'.new = wk.new
          /\ wk'.again = wk'.twice
          /\ wk'.twice = FinalGateways \cap RepeatedGatewayKeys(cache, wk.rlp.target)

FinBackRefStep ==
    /\ wk.pc = "finBackRef"
    /\ \/ store' = store /\ Fails
       \/ /\ wk.rlp.target \notin Unsupported /\ ~TargetLive(cache, wk.rlp.target)
          /\ store' = store /\ MovesTo("finRemove")
       \/ /\ FetchValidTargetRef(cache, wk.rlp.target) /\ BackRef(cache, wk.rlp.target) = NoPolicy
          /\ store' = store /\ MovesTo("finRemove")
       \/ /\ FetchValidTargetRef(cache, wk.rlp.target)
          /\ OwnerWritten(wk.rlp.target, NoPolicy)
          /\ MovesTo("finRemove") \/ Fails

FinRemoveStep ==
    /\ wk.pc = "finRemove"
    /\ \/ store' = store /\ Fails
       \/ ~store.policy[wk.p].live /\ store' = store /\ Ends
       \/ /\ store.policy[wk.p].live /\ store.policy[wk.p] = wk.rlp
          /\ PolicyBecomes(wk.p, NoSuchPolicy)
          /\ Ends \/ Fails

WorkStep ==
    \/ AddFinalizerStep \/ BackRefStep \/ DiffStep \/ LimitsStep \/ FilterStep \/ PluginStep
    \/ RefsStep \/ LoopStep \/ StatusStep \/ FinDiffStep \/ FinBackRefStep \/ FinRemoveStep

LEMMA ApplySteps ==
    ASSUME TypeInv, Apply
    PROVE  AddFinalizerStep \/ BackRefStep \/ DiffStep \/ StatusStep
<1> USE DEF UpdateAccepted
<1>0. store \in Cluster /\ wk \in Worker /\ (wk.pc # "idle" => wk.p \in Policies)
  BY TypeParts
<1> DEFINE t == wk.rlp.target
<1>1. CASE AddFinalizer
  <2> DEFINE next == [wk EXCEPT !.pc = "backRef", !.rlp.finalizer = TRUE]
  <2>1. wk.pc = "addFinalizer" /\ wk.p \in Policies
    BY <1>0, <1>1 DEF AddFinalizer, At
  <2>2. next.rlp = [wk.rlp EXCEPT !.finalizer = TRUE]
    BY <1>0 DEF Worker
  <2>3. Goto(next) => Armed
    BY <1>0 DEF Goto, Armed, Worker
  <2>4. \/ ~store.policy[wk.p].live /\ Advance(next)
        \/ /\ store.policy[wk.p].live
           /\ Call(store.policy[wk.p] = wk.rlp, [store EXCEPT !.policy[wk.p] = next.rlp], Goto(next))
    BY <1>1 DEF AddFinalizer
  <2> HIDE DEF next
  <2>5. CASE ~store.policy[wk.p].live /\ Advance(next)
    BY <2>1, <2>3, <2>5, AdvanceMoves DEF AddFinalizerStep
  <2>6. CASE /\ store.policy[wk.p].live
             /\ Call(store.policy[wk.p] = wk.rlp, [store EXCEPT !.policy[wk.p] = next.rlp], Goto(next))
    <3>1. \/ /\ store.policy[wk.p] = wk.rlp /\ store' = [store EXCEPT !.policy[wk.p] = next.rlp]
             /\ Armed \/ Fails
          \/ store' = store /\ Fails
      BY <2>3, <2>6, CallMoves, FailMoves
    <3> QED BY <2>1, <2>2, <2>6, <3>1, PutBecomes DEF AddFinalizerStep
  <2> QED BY <2>4, <2>5, <2>6
<1>2. CASE ReconcileDirectBackReference
  <2> DEFINE next == [wk EXCEPT !.pc = "diff"]
  <2>1. wk.pc = "backRef"
    BY <1>2 DEF ReconcileDirectBackReference, At
  <2>2. Goto(next) => MovesTo("diff")
    BY FailMoves
  <2>3. \/ Abort
        \/ TargetValid /\ BackRef(cache, t) = wk.p /\ Advance(next)
        \/ /\ TargetValid /\ BackRef(cache, t) = NoPolicy /\ t \in Routes
           /\ Call(store.route[t] = cache.route[t], WithRouteBackRef(t, wk.p), Goto(next))
        \/ /\ TargetValid /\ BackRef(cache, t) = NoPolicy /\ t \in Gateways
           /\ Call(store.gateway[t] = cache.gateway[t], WithGatewayBackRef(t, wk.p), Goto(next))
    BY <1>2 DEF ReconcileDirectBackReference, TargetValid
  <2> HIDE DEF next
  <2>4. CASE Abort
    BY <2>1, <2>4, AdvanceMoves, FailMoves DEF BackRefStep
  <2>5. CASE TargetValid /\ BackRef(cache, t) = wk.p /\ Advance(next)
    BY <2>1, <2>2, <2>5, AdvanceMoves DEF BackRefStep
  <2>6. CASE /\ TargetValid /\ BackRef(cache, t) = NoPolicy /\ t \in Routes
             /\ Call(store.route[t] = cache.route[t], WithRouteBackRef(t, wk.p), Goto(next))
    <3>1. \/ /\ store.route[t] = cache.route[t] /\ store' = WithRouteBackRef(t, wk.p)
             /\ MovesTo("diff") \/ Fails
          \/ store' = store /\ Fails
      BY <2>2, <2>6, CallMoves, FailMoves
    <3> QED BY <2>1, <2>6, <3>1, BackRefStored DEF BackRefStep
  <2>7. CASE /\ TargetValid /\ BackRef(cache, t) = NoPolicy /\ t \in Gateways
             /\ Call(store.gateway[t] = cache.gateway[t], WithGatewayBackRef(t, wk.p), Goto(next))
    <3>1. \/ /\ store.gateway[t] = cache.gateway[t] /\ store' = WithGatewayBackRef(t, wk.p)
             /\ MovesTo("diff") \/ Fails
          \/ store' = store /\ Fails
      BY <2>2, <2>7, CallMoves, FailMoves
    <3> QED BY <2>1, <2>7, <3>1, BackRefStored DEF BackRefStep
  <2> QED BY <2>3, <2>4, <2>5, <2>6, <2>7
<1>3. CASE ComputeGatewayDiffs
  <2> DEFINE keys == TargetedGatewayKeys(cache, t)
             next == [wk EXCEPT !.pc = "limits", !.gws = cache.gateway,
                                !.left = LeftGateways(cache, wk.p, keys),
                                !.same = SameGateways(cache, wk.p, keys),
                                !.new = NewGateways(cache, wk.p, keys)]
  <2>1. wk.pc = "diff" /\ (Abort \/ (TargetedGatewayKeysOK(cache, t) /\ Advance(next)))
    BY <1>3 DEF ComputeGatewayDiffs, At
  <2>2. Goto(next) => Sorted(keys)
    BY <1>0 DEF Goto, Sorted, SameJob, Worker
  <2> HIDE DEF next
  <2> QED BY <2>1, <2>2, AdvanceMoves, FailMoves DEF DiffStep
<1>4. CASE ReconcileStatus
  <2> DEFINE Finish == IF wk.err THEN Requeue ELSE Goto(Idle)
  <2>1. wk.pc = "status" /\ wk.p \in Policies
    BY <1>0, <1>4 DEF ReconcileStatus, At
  <2>2. \/ Abort
        \/ NewStatus = wk.rlp /\ Finish /\ store' = store
        \/ Call(store.policy[wk.p] = wk.rlp, [store EXCEPT !.policy[wk.p] = NewStatus], Finish)
    BY <1>4 DEF ReconcileStatus, NewStatus
  <2>3. Finish => GivesUp \/ (~wk.err /\ Ends)
    BY FailMoves
  <2>4. Fail => GivesUp
    BY <2>1, FailMoves DEF Fails, SpecStages
  <2> HIDE DEF Finish
  <2>5. CASE Abort
    BY <2>1, <2>4, <2>5, AdvanceMoves DEF StatusStep
  <2>6. CASE NewStatus = wk.rlp /\ Finish /\ store' = store
    BY <2>1, <2>3, <2>6 DEF StatusStep
  <2>7. CASE Call(store.policy[wk.p] = wk.rlp, [store EXCEPT !.policy[wk.p] = NewStatus], Finish)
    <3>1. \/ /\ store.policy[wk.p] = wk.rlp /\ store' = [store EXCEPT !.policy[wk.p] = NewStatus]
             /\ GivesUp \/ (~wk.err /\ Ends)
          \/ store' = store /\ GivesUp
      BY <2>3, <2>4, <2>7, CallMoves
    <3> QED BY <2>1, <3>1, PutBecomes DEF StatusStep
  <2> QED BY <2>2, <2>5, <2>6, <2>7
<1> QED BY <1>1, <1>2, <1>3, <1>4 DEF Apply

LEMMA ConfigureSteps ==
    ASSUME TypeInv, Configure
    PROVE  LimitsStep \/ FilterStep \/ PluginStep \/ RefsStep \/ LoopStep
<1> USE DEF UpdateAccepted
<1>0. store \in Cluster /\ wk \in Worker
  BY TypeParts
<1>1. CASE ReconcileLimits
  <2> DEFINE next == Enter(Following)
             lim == [cache.limitador EXCEPT !.limits = LimitsAfter]
  <2>1. wk.pc = "limits"
    BY <1>1 DEF ReconcileLimits, At
  <2>2. Goto(next) => Enters(Following)
    BY FailMoves
  <2>3. \/ Abort
        \/ /\ wk.mode = "finalize"
           /\ cache.limitador.status = "absent" \/ store.limitador.status = "absent"
           /\ Advance(next)
        \/ LimitsComputed /\ LimitsAfter = cache.limitador.limits /\ Advance(next)
        \/ /\ LimitsComputed /\ cache.limitador.status # "absent"
           /\ Call(store.limitador = cache.limitador, [store EXCEPT !.limitador = lim], Goto(next))
    BY <1>1 DEF ReconcileLimits, LimitsComputed
  <2> HIDE DEF next
  <2>4. CASE Abort
    BY <2>1, <2>4, AdvanceMoves, FailMoves DEF LimitsStep
  <2>5. CASE /\ wk.mode = "finalize"
             /\ cache.limitador.status = "absent" \/ store.limitador.status = "absent"
             /\ Advance(next)
    BY <2>1, <2>2, <2>5, AdvanceMoves DEF LimitsStep
  <2>6. CASE LimitsComputed /\ LimitsAfter = cache.limitador.limits /\ Advance(next)
    BY <2>1, <2>2, <2>6, AdvanceMoves DEF LimitsStep
  <2>7. CASE /\ LimitsComputed /\ cache.limitador.status # "absent"
             /\ Call(store.limitador = cache.limitador, [store EXCEPT !.limitador = lim], Goto(next))
    <3> HIDE DEF lim
    <3>1. \/ /\ store.limitador = cache.limitador /\ store' = [store EXCEPT !.limitador = lim]
             /\ Enters(Following) \/ Fails
          \/ store' = store /\ Fails
      BY <2>2, <2>7, CallMoves, FailMoves
    <3>2. CASE store' = store /\ Fails
      BY <2>1, <3>2 DEF LimitsStep
    <3>3. CASE /\ store.limitador = cache.limitador /\ store' = [store EXCEPT !.limitador = lim]
               /\ Enters(Following) \/ Fails
      <4>1. LimitadorBecomes(lim)
        BY <3>3, PutBecomes
      <4> QED BY <2>1, <2>7, <3>3, <4>1 DEF LimitsStep, lim
    <3> QED BY <3>1, <3>2, <3>3
  <2> QED BY <2>3, <2>4, <2>5, <2>6, <2>7
<1>2. ASSUME NEW g \in Gateways, ReconcileFilter(g) PROVE FilterStep
  <2> DEFINE desired == RLPRefsAfter(g) # {}
             accepted == ResourceAccepted(cache.filter[g], store.filter[g], desired, FALSE)
  <2>1. wk.pc = "filter" /\ g \in wk.todo
    BY <1>2 DEF ReconcileFilter, At, Visit
  <2>2. Goto(Visited(g)) => Visits(g)
    BY FailMoves
  <2>3. \/ Abort
        \/ ~desired /\ ~cache.filter[g] /\ Advance(Visited(g))
        \/ Call(accepted, [store EXCEPT !.filter[g] = desired], Goto(Visited(g)))
    BY <1>2 DEF ReconcileFilter
  <2> HIDE DEF accepted
  <2>4. CASE Abort
    BY <2>1, <2>4, AdvanceMoves, FailMoves DEF FilterStep
  <2>5. CASE ~desired /\ ~cache.filter[g] /\ Advance(Visited(g))
    BY <2>1, <2>2, <2>5, AdvanceMoves DEF FilterStep
  <2>6. CASE Call(accepted, [store EXCEPT !.filter[g] = desired], Goto(Visited(g)))
    <3> HIDE DEF desired
    <3>1. \/ store' = [store EXCEPT !.filter[g] = desired] /\ (Visits(g) \/ Fails)
          \/ store' = store /\ Fails
      BY <2>2, <2>6, CallMoves, FailMoves
    <3>2. CASE store' = store /\ Fails
      BY <2>1, <3>2 DEF FilterStep
    <3>3. CASE store' = [store EXCEPT !.filter[g] = desired] /\ (Visits(g) \/ Fails)
      <4>1. FilterBecomes(g, desired)
        BY <3>3, PutBecomes
      <4> QED BY <2>1, <3>3, <4>1 DEF FilterStep, desired
    <3> QED BY <3>1, <3>2, <3>3
  <2> QED BY <2>3, <2>4, <2>5, <2>6
<1>3. ASSUME NEW g \in Gateways, ReconcilePlugin(g) PROVE PluginStep
  <2> DEFINE accepted == ResourceAccepted(cache.plugin[g], store.plugin[g], PluginAfter(g), NoPlugin)
  <2>1. wk.pc = "plugin" /\ g \in wk.todo
    BY <1>3 DEF ReconcilePlugin, At, Visit
  <2>2. Goto(Visited(g)) => Visits(g)
    BY FailMoves
  <2>3. \/ Abort
        \/ ConfigOK(cache, RLPRefsAfter(g)) /\ cache.plugin[g] = PluginAfter(g) /\ Advance(Visited(g))
        \/ /\ ConfigOK(cache, RLPRefsAfter(g))
           /\ Call(accepted, [store EXCEPT !.plugin[g] = PluginAfter(g)], Goto(Visited(g)))
    BY <1>3 DEF ReconcilePlugin, PluginAfter
  <2> HIDE DEF accepted
  <2>4. CASE Abort
    BY <2>1, <2>4, AdvanceMoves, FailMoves DEF PluginStep
  <2>5. CASE ConfigOK(cache, RLPRefsAfter(g)) /\ cache.plugin[g] = PluginAfter(g) /\ Advance(Visited(g))
    BY <2>1, <2>2, <2>5, AdvanceMoves DEF PluginStep
  <2>6. CASE /\ ConfigOK(cache, RLPRefsAfter(g))
             /\ Call(accepted, [store EXCEPT !.plugin[g] = PluginAfter(g)], Goto(Visited(g)))
    <3>1. \/ store' = [store EXCEPT !.plugin[g] = PluginAfter(g)] /\ (Visits(g) \/ Fails)
          \/ store' = store /\ Fails
      BY <2>2, <2>6, CallMoves, FailMoves
    <3>2. CASE store' = store /\ Fails
      BY <2>1, <3>2 DEF PluginStep
    <3>3. CASE store' = [store EXCEPT !.plugin[g] = PluginAfter(g)] /\ (Visits(g) \/ Fails)
      <4>1. PluginBecomes(g, PluginAfter(g))
        BY <3>3, PutBecomes
      <4> QED BY <2>1, <2>6, <3>3, <4>1 DEF PluginStep
    <3> QED BY <3>1, <3>2, <3>3
  <2> QED BY <2>3, <2>4, <2>5, <2>6
<1>4. ASSUME NEW g \in Gateways, ReconcileGatewayRLPReferences(g) PROVE RefsStep
  <2> DEFINE refs == RLPRefsAfter(g)
             gw == [wk.gws[g] EXCEPT !.refs = refs]
             noted == [Visited(g) EXCEPT !.gws[g].refs = refs]
             next == IF g \in wk.again THEN Visited(g) ELSE noted
  <2>1. wk.pc = "refs" /\ g \in wk.todo
    BY <1>4 DEF ReconcileGatewayRLPReferences, At, Visit
  <2>2. Goto(Visited(g)) => Visits(g)
    BY FailMoves
  <2>3. \/ refs = wk.gws[g].refs /\ Advance(Visited(g))
        \/ Call(store.gateway[g] = wk.gws[g], [store EXCEPT !.gateway[g] = gw], Goto(next))
    BY <1>4 DEF ReconcileGatewayRLPReferences
  <2>4. Goto(next) => Annotates(g)
    <3> HIDE DEF refs
    <3>1. Visited(g).gws = wk.gws
      BY <1>0 DEF Visited, Worker
    <3>2. noted = [Visited(g) EXCEPT !.gws = [wk.gws EXCEPT ![g] = gw]]
      BY <3>1
    <3> DEFINE gws == [wk.gws EXCEPT ![g] = gw]
    <3>3. gws[g] = gw /\ \A h \in Gateways \ {g} : gws[h] = wk.gws[h]
      BY <1>0 DEF Worker
    <3>4. next = Visited(g) \/ next = [Visited(g) EXCEPT !.gws[g].refs = RLPRefsAfter(g)]
      BY DEF refs
    <3>5. next.gws = IF g \in wk.again THEN wk.gws ELSE gws
      <4> HIDE DEF noted, gws, gw
      <4>1. noted.gws = gws
        BY <1>0, <3>2 DEF Visited, Worker, gws
      <4> QED BY <3>1, <4>1
    <3> HIDE DEF next, noted, gws
    <3>6. /\ next.pc = wk.pc /\ next.p = wk.p /\ next.rlp = wk.rlp /\ next.mode = wk.mode
          /\ next.left = wk.left /\ next.same = wk.same /\ next.new = wk.new
          /\ next.err = wk.err /\ next.again = wk.again \ {g}
          /\ next.todo = IF g \in wk.again THEN wk.todo ELSE wk.todo \ {g}
      BY <3>4, VisitedFields
    <3> QED BY <3>3, <3>5, <3>6 DEF Goto, Annotates, Passes, SameJob, SameDiff, gw, refs
  <2>5. CASE refs = wk.gws[g].refs /\ Advance(Visited(g))
    BY <2>1, <2>2, <2>5, AdvanceMoves DEF RefsStep
  <2>6. CASE Call(store.gateway[g] = wk.gws[g], [store EXCEPT !.gateway[g] = gw], Goto(next))
    <3> HIDE DEF gw, next, noted
    <3>1. \/ /\ store.gateway[g] = wk.gws[g] /\ store' = [store EXCEPT !.gateway[g] = gw]
             /\ Annotates(g) \/ Fails
          \/ store' = store /\ Fails
      BY <2>4, <2>6, CallMoves, FailMoves
    <3>2. CASE store' = store /\ Fails
      BY <2>1, <3>2 DEF RefsStep
    <3>3. CASE /\ store.gateway[g] = wk.gws[g] /\ store' = [store EXCEPT !.gateway[g] = gw]
               /\ Annotates(g) \/ Fails
      <4>1. GatewayBecomes(g, gw)
        BY <3>3, PutBecomes
      <4> QED BY <2>1, <3>3, <4>1 DEF RefsStep, gw
    <3> QED BY <3>1, <3>2, <3>3
  <2> QED BY <2>3, <2>5, <2>6
<1>5. CASE NextStage
  BY <1>5, AdvanceMoves, FailMoves DEF NextStage, LoopStep
<1> QED BY <1>1, <1>2, <1>3, <1>4, <1>5 DEF Configure

LEMMA FinalizeSteps ==
    ASSUME TypeInv, Finalize
    PROVE  FinDiffStep \/ FinBackRefStep \/ FinRemoveStep
<1> USE DEF UpdateAccepted
<1>0. store \in Cluster /\ wk \in Worker /\ (wk.pc # "idle" => wk.p \in Policies)
  BY TypeParts
<1> DEFINE t == wk.rlp.target
<1>1. CASE ComputeFinalizeGatewayDiff
  <2> DEFINE twice == FinalGateways \cap RepeatedGatewayKeys(cache, t)
             next == [wk EXCEPT !.pc = "refs", !.gws = cache.gateway,
                                !.left = FinalGateways, !.twice = twice,
                                !.todo = FinalGateways, !.again = twice]
  <2>1. wk.pc = "finDiff" /\ (Abort \/ Advance(next))
    BY <1>1 DEF ComputeFinalizeGatewayDiff, At, FinalGateways
  <2>2. Goto(next) => /\ wk'.pc = "refs" /\ SameJob /\ wk'.gws = cache.gateway /\ queue' = queue
                      /\ wk'.left = FinalGateways /\ wk'.todo = FinalGateways
                      /\ wk'.same = wk.same /\ wk'.new = wk.new
                      /\ wk'.again = twice /\ wk'.twice = twice
    BY <1>0 DEF Goto, SameJob, Worker
  <2> HIDE DEF next
  <2> QED BY <2>1, <2>2, AdvanceMoves, FailMoves DEF FinDiffStep
<1>2. CASE DeleteNetworkResourceBackReference
  <2> DEFINE next == [wk EXCEPT !.pc = "finRemove"]
             valid == FetchValidTargetRef(cache, t)
  <2>1. wk.pc = "finBackRef"
    BY <1>2 DEF DeleteNetworkResourceBackReference, At
  <2>2. Goto(next) => MovesTo("finRemove")
    BY FailMoves
  <2>3. \/ Abort
        \/ t \notin Unsupported /\ ~TargetLive(cache, t) /\ Advance(next)
        \/ valid /\ BackRef(cache, t) = NoPolicy /\ Advance(next)
        \/ /\ valid /\ t \in Routes
           /\ Call(store.route[t] = cache.route[t], WithRouteBackRef(t, NoPolicy), Goto(next))
        \/ /\ valid /\ t \in Gateways
           /\ Call(store.gateway[t] = cache.gateway[t], WithGatewayBackRef(t, NoPolicy), Goto(next))
    BY <1>2 DEF DeleteNetworkResourceBackReference
  <2> HIDE DEF next
  <2>4. CASE Abort
    BY <2>1, <2>4, AdvanceMoves, FailMoves DEF FinBackRefStep
  <2>5. CASE t \notin Unsupported /\ ~TargetLive(cache, t) /\ Advance(next)
    BY <2>1, <2>2, <2>5, AdvanceMoves DEF FinBackRefStep
  <2>6. CASE valid /\ BackRef(cache, t) = NoPolicy /\ Advance(next)
    BY <2>1, <2>2, <2>6, AdvanceMoves DEF FinBackRefStep
  <2>7. CASE /\ valid /\ t \in Routes
             /\ Call(store.route[t] = cache.route[t], WithRouteBackRef(t, NoPolicy), Goto(next))
    <3>1. \/ /\ store.route[t] = cache.route[t] /\ store' = WithRouteBackRef(t, NoPolicy)
             /\ MovesTo("finRemove") \/ Fails
          \/ store' = store /\ Fails
      BY <2>2, <2>7, CallMoves, FailMoves
    <3> QED BY <2>1, <2>7, <3>1, BackRefStored DEF FinBackRefStep
  <2>8. CASE /\ valid /\ t \in Gateways
             /\ Call(store.gateway[t] = cache.gateway[t], WithGatewayBackRef(t, NoPolicy), Goto(next))
    <3>1. \/ /\ store.gateway[t] = cache.gateway[t] /\ store' = WithGatewayBackRef(t, NoPolicy)
             /\ MovesTo("finRemove") \/ Fails
          \/ store' = store /\ Fails
      BY <2>2, <2>8, CallMoves, FailMoves
    <3> QED BY <2>1, <2>8, <3>1, BackRefStored DEF FinBackRefStep
  <2> QED BY <2>3, <2>4, <2>5, <2>6, <2>7, <2>8
<1>3. CASE RemoveFinalizer
  <2>1. wk.pc = "finRemove" /\ wk.p \in Policies
    BY <1>0, <1>3 DEF RemoveFinalizer, At
  <2>2. \/ ~store.policy[wk.p].live /\ Advance(Idle)
        \/ /\ store.policy[wk.p].live
           /\ Call(store.policy[wk.p] = wk.rlp, [store EXCEPT !.policy[wk.p] = NoSuchPolicy], Goto(Idle))
    BY <1>3 DEF RemoveFinalizer
  <2>3. CASE ~store.policy[wk.p].live /\ Advance(Idle)
    BY <2>1, <2>3, AdvanceMoves, FailMoves DEF FinRemoveStep
  <2>4. CASE /\ store.policy[wk.p].live
             /\ Call(store.policy[wk.p] = wk.rlp, [store EXCEPT !.policy[wk.p] = NoSuchPolicy], Goto(Idle))
    <3>1. \/ /\ store.policy[wk.p] = wk.rlp /\ store' = [store EXCEPT !.policy[wk.p] = NoSuchPolicy]
             /\ Ends \/ Fails
          \/ store' = store /\ Fails
      BY <2>4, CallMoves, FailMoves
    <3> QED BY <2>1, <2>4, <3>1, PutBecomes DEF FinRemoveStep
  <2> QED BY <2>2, <2>3, <2>4
<1> QED BY <1>1, <1>2, <1>3 DEF Finalize

\* Every step of the worker is one of its stages; it leaves the cache alone.
LEMMA WorkSteps ==
    ASSUME TypeInv, Work
    PROVE  /\ WorkStep /\ wk.pc # "idle" /\ wk.p \in Policies
           /\ Settled /\ cache' = cache
<1>1. wk.pc # "idle" /\ Settled /\ cache' = cache
  BY DEF Work, Apply, Configure, Finalize, AddFinalizer, ReconcileDirectBackReference,
         ComputeGatewayDiffs, ReconcileStatus, ReconcileLimits, ReconcileFilter, ReconcilePlugin,
         ReconcileGatewayRLPReferences, NextStage, ComputeFinalizeGatewayDiff,
         DeleteNetworkResourceBackReference, RemoveFinalizer, At
<1> QED BY <1>1, ApplySteps, ConfigureSteps, FinalizeSteps, TypeParts DEF Work, WorkStep

-----------------------------------------------------------------------------
(* The other steps: what the environment edits, what a delivery brings,    *)
(* and where a reconciliation begins.                                      *)

PolicyEdited(p) ==
    \E x \in Policy :
        /\ PolicyBecomes(p, x)
        /\ \/ /\ ~store.policy[p].live
              /\ x.live /\ ~x.deleting /\ ~x.finalizer
           \/ /\ "spec" \in Edits /\ store.policy[p].live
              /\ x.live /\ x.target = store.policy[p].target
              /\ x.deleting = store.policy[p].deleting
              /\ x.finalizer = store.policy[p].finalizer
           \/ /\ "delete" \in Edits /\ store.policy[p].live
              /\ x.live /\ x.target = store.policy[p].target
              /\ x.deleting /\ x.finalizer /\ store.policy[p].finalizer
           \/ "retarget" \in Edits
           \/ "deleteUnmarked" \in Edits

RouteEdited(r) ==
    \E x \in Route :
        /\ RouteBecomes(r, x)
        /\ x.live => x.hosts \in HostLists \/ (store.route[r].live /\ x.hosts = store.route[r].hosts)
        /\ \/ "route" \in Edits
           \/ /\ x.live = store.route[r].live /\ x.backref = store.route[r].backref
              /\ "parents" \in Edits \/ x.parents = store.route[r].parents

GatewayEdited(g) ==
    \E x \in Gateway :
        /\ GatewayBecomes(g, x)
        /\ \/ "gateway" \in Edits /\ x.refs = {}
           \/ /\ x.live = store.gateway[g].live /\ x.backref = store.gateway[g].backref
              /\ x.refs = store.gateway[g].refs

LimitadorEdited ==
    \E x \in Limitador :
        /\ "limitador" \in Edits
        /\ LimitadorBecomes(x)
        /\ \/ x.limits = NoLimits
           \/ x.limits = store.limitador.limits /\ x.status # "absent"

LEMMA EditPoliciesEffect ==
    ASSUME TypeInv, EditPolicies
    PROVE  \E p \in Policies : PolicyEdited(p)
<1>0. store \in Cluster
  BY TypeParts
<1>1. PICK p \in Policies :
        \/ \E t \in TargetsOf[p], s \in Specs : CreatePolicy(p, t, s)
        \/ \E s \in Specs : EditSpec(p, s)
        \/ \E t \in TargetsOf[p] : Retarget(p, t)
        \/ DeletePolicy(p)
        \/ DeleteUnmarkedPolicy(p)
  BY DEF EditPolicies
<1>2. store.policy[p] \in Policy /\ TargetsOf[p] \subseteq Targets
  BY <1>0, GetTypes, ClusterAssumption
<1>3. ASSUME NEW t \in TargetsOf[p], NEW s \in Specs, CreatePolicy(p, t, s) PROVE PolicyEdited(p)
  <2> DEFINE x == NewPolicy(t, s)
  <2>1. x \in Policy /\ x.live /\ ~x.deleting /\ ~x.finalizer
    BY <1>2 DEF NewPolicy, NoSuchPolicy, Policy
  <2>2. ~store.policy[p].live /\ store' = [store EXCEPT !.policy[p] = x]
    BY <1>3 DEF CreatePolicy, Edit
  <2> HIDE DEF x
  <2>3. PolicyBecomes(p, x)
    BY <2>2, PutBecomes
  <2> QED BY <2>1, <2>2, <2>3 DEF PolicyEdited
<1>4. ASSUME NEW s \in Specs, EditSpec(p, s) PROVE PolicyEdited(p)
  <2> DEFINE x == [store.policy[p] EXCEPT !.spec = s, !.observed = FALSE]
  <2>1. /\ x \in Policy /\ x.live = store.policy[p].live /\ x.target = store.policy[p].target
        /\ x.deleting = store.policy[p].deleting /\ x.finalizer = store.policy[p].finalizer
    BY <1>2 DEF Policy
  <2>2. "spec" \in Edits /\ store.policy[p].live /\ store' = [store EXCEPT !.policy[p] = x]
    BY <1>4 DEF EditSpec, Edit
  <2> HIDE DEF x
  <2>3. PolicyBecomes(p, x)
    BY <2>2, PutBecomes
  <2> QED BY <2>1, <2>2, <2>3 DEF PolicyEdited
<1>5. ASSUME NEW t \in TargetsOf[p], Retarget(p, t) PROVE PolicyEdited(p)
  <2> DEFINE x == [store.policy[p] EXCEPT !.target = t, !.observed = FALSE]
  <2>1. x \in Policy
    BY <1>2 DEF Policy
  <2>2. "retarget" \in Edits /\ store' = [store EXCEPT !.policy[p] = x]
    BY <1>5 DEF Retarget, Edit
  <2> HIDE DEF x
  <2>3. PolicyBecomes(p, x)
    BY <2>2, PutBecomes
  <2> QED BY <2>1, <2>2, <2>3 DEF PolicyEdited
<1>6. CASE DeletePolicy(p)
  <2> DEFINE x == [store.policy[p] EXCEPT !.deleting = TRUE, !.observed = FALSE]
  <2>1. /\ x \in Policy /\ x.live = store.policy[p].live /\ x.target = store.policy[p].target
        /\ x.deleting /\ x.finalizer = store.policy[p].finalizer
    BY <1>2 DEF Policy
  <2>2. /\ "delete" \in Edits /\ store.policy[p].live /\ store.policy[p].finalizer
        /\ store' = [store EXCEPT !.policy[p] = x]
    BY <1>6 DEF DeletePolicy, Edit
  <2> HIDE DEF x
  <2>3. PolicyBecomes(p, x)
    BY <2>2, PutBecomes
  <2> QED BY <2>1, <2>2, <2>3 DEF PolicyEdited
<1>7. CASE DeleteUnmarkedPolicy(p)
  <2>1. "deleteUnmarked" \in Edits /\ store' = [store EXCEPT !.policy[p] = NoSuchPolicy]
    BY <1>7 DEF DeleteUnmarkedPolicy, Edit
  <2>2. PolicyBecomes(p, NoSuchPolicy)
    BY <2>1, PutBecomes
  <2> QED BY <2>1, <2>2, AbsentTypes DEF PolicyEdited
<1> QED BY <1>1, <1>3, <1>4, <1>5, <1>6, <1>7

LEMMA EditRoutesEffect ==
    ASSUME TypeInv, EditRoutes
    PROVE  \E r \in Routes : RouteEdited(r)
<1>0. store \in Cluster
  BY TypeParts
<1>1. PICK r \in Routes :
        \/ \E ps \in ParentsOf[r], hs \in HostLists : CreateRoute(r, ps, hs)
        \/ DeleteRoute(r)
        \/ \E ps \in ParentsOf[r] : EditParents(r, ps)
        \/ \E hs \in HostLists : EditRouteHosts(r, hs)
        \/ \E gs \in SUBSET Gateways : SetRejecting(r, gs)
  BY DEF EditRoutes
<1>2. /\ store.route[r] \in Route /\ HostLists \subseteq SUBSET Hostnames
      /\ ParentsOf[r] \subseteq SUBSET Gateways
  BY <1>0, GetTypes, ClusterAssumption
<1>3. ASSUME NEW ps \in ParentsOf[r], NEW hs \in HostLists, CreateRoute(r, ps, hs)
      PROVE  RouteEdited(r)
  <2> DEFINE x == [NoSuchRoute EXCEPT !.live = TRUE, !.parents = ps, !.hosts = hs]
  <2>1. x \in Route /\ x.hosts = hs
    BY <1>2 DEF NoSuchRoute, Route
  <2>2. "route" \in Edits /\ store' = [store EXCEPT !.route[r] = x]
    BY <1>3 DEF CreateRoute, Edit
  <2> HIDE DEF x
  <2>3. RouteBecomes(r, x)
    BY <2>2, PutBecomes
  <2> QED BY <2>1, <2>2, <2>3 DEF RouteEdited
<1>4. CASE DeleteRoute(r)
  <2>1. "route" \in Edits /\ store' = [store EXCEPT !.route[r] = NoSuchRoute]
    BY <1>4 DEF DeleteRoute, Edit
  <2>2. RouteBecomes(r, NoSuchRoute) /\ ~NoSuchRoute.live
    BY <2>1, PutBecomes DEF NoSuchRoute
  <2> QED BY <2>1, <2>2, AbsentTypes DEF RouteEdited
<1>5. ASSUME NEW ps \in ParentsOf[r], EditParents(r, ps) PROVE RouteEdited(r)
  <2> DEFINE x == [store.route[r] EXCEPT !.parents = ps]
  <2>1. /\ x \in Route /\ x.hosts = store.route[r].hosts
        /\ x.live = store.route[r].live /\ x.backref = store.route[r].backref
    BY <1>2 DEF Route
  <2>2. "parents" \in Edits /\ store.route[r].live /\ store' = [store EXCEPT !.route[r] = x]
    BY <1>5 DEF EditParents, Edit
  <2> HIDE DEF x
  <2>3. RouteBecomes(r, x)
    BY <2>2, PutBecomes
  <2> QED BY <2>1, <2>2, <2>3 DEF RouteEdited
<1>6. ASSUME NEW hs \in HostLists, EditRouteHosts(r, hs) PROVE RouteEdited(r)
  <2> DEFINE x == [store.route[r] EXCEPT !.hosts = hs]
  <2>1. /\ x \in Route /\ x.hosts = hs /\ x.parents = store.route[r].parents
        /\ x.live = store.route[r].live /\ x.backref = store.route[r].backref
    BY <1>2 DEF Route
  <2>2. store' = [store EXCEPT !.route[r] = x]
    BY <1>6 DEF EditRouteHosts, Edit
  <2> HIDE DEF x
  <2>3. RouteBecomes(r, x)
    BY <2>2, PutBecomes
  <2> QED BY <2>1, <2>2, <2>3 DEF RouteEdited
<1>7. ASSUME NEW gs \in SUBSET Gateways, SetRejecting(r, gs) PROVE RouteEdited(r)
  <2> DEFINE x == [store.route[r] EXCEPT !.rejecting = gs]
  <2>1. /\ x \in Route /\ x.hosts = store.route[r].hosts /\ x.parents = store.route[r].parents
        /\ x.live = store.route[r].live /\ x.backref = store.route[r].backref
    BY <1>2 DEF Route
  <2>2. store.route[r].live /\ store' = [store EXCEPT !.route[r] = x]
    BY <1>7 DEF SetRejecting, Edit
  <2> HIDE DEF x
  <2>3. RouteBecomes(r, x)
    BY <2>2, PutBecomes
  <2> QED BY <2>1, <2>2, <2>3 DEF RouteEdited
<1> QED BY <1>1, <1>3, <1>4, <1>5, <1>6, <1>7

LEMMA EditGatewaysEffect ==
    ASSUME TypeInv, EditGateways
    PROVE  \E g \in Gateways : GatewayEdited(g)
<1>0. store \in Cluster
  BY TypeParts
<1>1. PICK g \in Gateways :
        \/ \E hs \in HostLists : CreateGateway(g, hs)
        \/ DeleteGateway(g)
        \/ \E hs \in HostLists : EditGatewayHosts(g, hs)
        \/ \E b \in BOOLEAN : SetReady(g, b)
  BY DEF EditGateways
<1>2. store.gateway[g] \in Gateway /\ HostLists \subseteq SUBSET Hostnames
  BY <1>0, GetTypes, ClusterAssumption
<1>3. ASSUME NEW hs \in HostLists, CreateGateway(g, hs) PROVE GatewayEdited(g)
  <2> DEFINE x == [NoSuchGateway EXCEPT !.live = TRUE, !.ready = TRUE, !.hosts = hs]
  <2>1. x \in Gateway /\ x.refs = {}
    BY <1>2 DEF NoSuchGateway, Gateway
  <2>2. "gateway" \in Edits /\ store' = [store EXCEPT !.gateway[g] = x]
    BY <1>3 DEF CreateGateway, Edit
  <2> HIDE DEF x
  <2> QED BY <2>1, <2>2, PutBecomes DEF GatewayEdited
<1>4. CASE DeleteGateway(g)
  <2>1. "gateway" \in Edits /\ store' = [store EXCEPT !.gateway[g] = NoSuchGateway]
    BY <1>4 DEF DeleteGateway, Edit
  <2>2. NoSuchGateway.refs = {}
    BY DEF NoSuchGateway
  <2> QED BY <2>1, <2>2, PutBecomes, AbsentTypes DEF GatewayEdited
<1>5. ASSUME NEW x \in Gateway, store' = [store EXCEPT !.gateway[g] = x],
             x.live = store.gateway[g].live, x.backref = store.gateway[g].backref,
             x.refs = store.gateway[g].refs
      PROVE  GatewayEdited(g)
  <2>1. GatewayBecomes(g, x)
    BY <1>5, PutBecomes
  <2> QED BY <1>5, <2>1 DEF GatewayEdited
<1>6. ASSUME NEW hs \in HostLists, EditGatewayHosts(g, hs) PROVE GatewayEdited(g)
  <2> DEFINE x == [store.gateway[g] EXCEPT !.hosts = hs]
  <2>1. /\ x \in Gateway /\ x.live = store.gateway[g].live
        /\ x.backref = store.gateway[g].backref /\ x.refs = store.gateway[g].refs
    BY <1>2 DEF Gateway
  <2>2. store' = [store EXCEPT !.gateway[g] = x]
    BY <1>6 DEF EditGatewayHosts, Edit
  <2> HIDE DEF x
  <2> QED BY <1>5, <2>1, <2>2
<1>7. ASSUME NEW b \in BOOLEAN, SetReady(g, b) PROVE GatewayEdited(g)
  <2> DEFINE x == [store.gateway[g] EXCEPT !.ready = b]
  <2>1. /\ x \in Gateway /\ x.live = store.gateway[g].live
        /\ x.backref = store.gateway[g].backref /\ x.refs = store.gateway[g].refs
    BY <1>2 DEF Gateway
  <2>2. store' = [store EXCEPT !.gateway[g] = x]
    BY <1>7 DEF SetReady, Edit
  <2> HIDE DEF x
  <2> QED BY <1>5, <2>1, <2>2
<1> QED BY <1>1, <1>3, <1>4, <1>6, <1>7

LEMMA EditLimitadorEffect ==
    ASSUME TypeInv, EditLimitador
    PROVE  LimitadorEdited
<1>0. store.limitador \in Limitador
  BY TypeParts, GetTypes
<1>1. PICK s \in {"absent", "notReady", "ready"} : SetLimitador(s)
  BY DEF EditLimitador
<1> DEFINE x == [status |-> s, limits |-> IF s = "absent" THEN NoLimits ELSE store.limitador.limits]
<1>2. x \in Limitador
  BY <1>0, AbsentTypes DEF Limitador
<1>3. \/ x.limits = NoLimits
      \/ x.limits = store.limitador.limits /\ x.status # "absent"
  OBVIOUS
<1>4. "limitador" \in Edits /\ store' = [store EXCEPT !.limitador = x]
  BY <1>1 DEF SetLimitador, Edit
<1> HIDE DEF x
<1>5. LimitadorBecomes(x)
  BY <1>4, PutBecomes
<1> QED BY <1>2, <1>3, <1>4, <1>5 DEF LimitadorEdited

LEMMA EnvironmentEffect ==
    ASSUME TypeInv, Environment
    PROVE  /\ UNCHANGED <<wk, cache, queue>> /\ Settled
           /\ \/ \E p \in Policies : PolicyEdited(p)
              \/ \E r \in Routes : RouteEdited(r)
              \/ \E g \in Gateways : GatewayEdited(g)
              \/ LimitadorEdited
<1>1. UNCHANGED wk
  BY DEF Environment
<1>2. Settled /\ UNCHANGED <<cache, queue>>
  BY DEF Environment, EditPolicies, EditRoutes, EditGateways, EditLimitador, CreatePolicy, EditSpec,
         Retarget, DeletePolicy, DeleteUnmarkedPolicy, CreateRoute, DeleteRoute, EditParents,
         EditRouteHosts, SetRejecting, CreateGateway, DeleteGateway, EditGatewayHosts, SetReady,
         SetLimitador, Edit
<1> QED BY <1>1, <1>2, EditPoliciesEffect, EditRoutesEffect, EditGatewaysEffect, EditLimitadorEffect
        DEF Environment

\* A delivery brings copies of what is stored.
LEMMA WatchCopies ==
    ASSUME TypeInv, Watch
    PROVE  /\ store' = store /\ wk' = wk
           /\ \A p \in Policies : cache'.policy[p] \in {cache.policy[p], store.policy[p]}
           /\ \A r \in Routes : cache'.route[r] \in {cache.route[r], store.route[r]}
           /\ \A g \in Gateways : cache'.gateway[g] \in {cache.gateway[g], store.gateway[g]}
<1>0. cache \in Cluster
  BY TypeParts
<1> DEFINE Good == /\ \A p \in Policies : cache'.policy[p] \in {cache.policy[p], store.policy[p]}
                   /\ \A r \in Routes : cache'.route[r] \in {cache.route[r], store.route[r]}
                   /\ \A g \in Gateways : cache'.gateway[g] \in {cache.gateway[g], store.gateway[g]}
<1>1. \A p \in Policies : DeliverPolicy(p) => Good
  BY <1>0 DEF DeliverPolicy, Cluster
<1>2. \A r \in Routes : DeliverRoute(r) => Good
  BY <1>0 DEF DeliverRoute, Cluster
<1>3. \A g \in Gateways : DeliverGateway(g) => Good
  BY <1>0 DEF DeliverGateway, Cluster
<1>4. DeliverLimitador => Good
  BY <1>0 DEF DeliverLimitador, Cluster
<1>5. \A g \in Gateways : DeliverPlugin(g) \/ DeliverFilter(g) => Good
  BY <1>0 DEF DeliverPlugin, DeliverFilter, Cluster
<1>6. store' = store /\ wk' = wk
  BY DEF Watch, Deliver, DeliverPolicy, DeliverRoute, DeliverGateway, DeliverLimitador,
         DeliverPlugin, DeliverFilter
<1> HIDE DEF Good
<1>7. Good
  BY <1>1, <1>2, <1>3, <1>4, <1>5 DEF Watch, Deliver
<1> QED BY <1>6, <1>7 DEF Good

\* The copies a step reads of a kind that does not lag are the stored ones.
LEMMA SettledKinds ==
    ASSUME TypeInv, Settled
    PROVE  /\ "policy" \notin Lagging => cache.policy = store.policy
           /\ "route" \notin Lagging => cache.route = store.route
           /\ "gateway" \notin Lagging => cache.gateway = store.gateway
           /\ "limitador" \notin Lagging => cache.limitador = store.limitador
           /\ "plugin" \notin Lagging => cache.plugin = store.plugin
           /\ "filter" \notin Lagging => cache.filter = store.filter
<1>1. DOMAIN store = {"policy", "route", "gateway", "limitador", "plugin", "filter"}
  BY TypeParts DEF Cluster
<1> QED BY <1>1 DEF Settled

\* The worker has taken up p with the cached copy.
Begun(p) ==
    /\ wk'.pc = EntryStage(cache.policy[p]) /\ wk'.p = p /\ wk'.rlp = cache.policy[p]
    /\ wk'.mode = IF wk'.pc = "finDiff" THEN "finalize" ELSE "apply"
    /\ wk'.pc \in {"addFinalizer", "backRef", "finDiff"}
    /\ ~wk'.err

LEMMA StartEffect ==
    ASSUME NEW p \in Policies, Start(p)
    PROVE  /\ store' = store /\ cache' = cache /\ Settled
           /\ queue' = queue \ {p} /\ wk.pc = "idle"
           /\ \/ wk' = Idle /\ EntryStage(cache.policy[p]) = "idle"
              \/ Begun(p)
<1>1. /\ store' = store /\ cache' = cache /\ Settled
      /\ queue' = queue \ {p} /\ wk.pc = "idle"
  BY DEF Start, At
<1>2. EntryStage(cache.policy[p]) \in {"idle", "addFinalizer", "backRef", "finDiff"}
  BY DEF EntryStage
<1> QED BY <1>1, <1>2 DEF Start, Begun, Idle

LEMMA InitFacts ==
    ASSUME Init
    PROVE  /\ cache = store /\ wk = Idle
           /\ \A p \in Policies : ~store.policy[p].deleting /\ ~store.policy[p].finalizer
           /\ \A p \in Policies : store.policy[p].live => p \in queue
           /\ \A r \in Routes : /\ store.route[r].live /\ store.route[r].hosts \in HostLists
                                /\ store.route[r].backref = NoPolicy
           /\ \A g \in Gateways : /\ store.gateway[g].live /\ store.gateway[g].refs = {}
                                  /\ store.gateway[g].backref = NoPolicy
                                  /\ store.plugin[g] = NoPlugin
                                  /\ store.filter[g] = FALSE
           /\ store.limitador.limits = NoLimits
<1>1. PICK S \in SUBSET Policies, ts \in [Policies -> Targets], ss \in [Policies -> Specs],
           ps \in [Routes -> SUBSET Gateways], hs \in [Routes \cup Gateways -> HostLists] :
        /\ store =
              [policy |-> [p \in Policies |->
                             IF p \in S THEN NewPolicy(ts[p], ss[p]) ELSE NoSuchPolicy],
               route |-> [r \in Routes |->
                             [NoSuchRoute EXCEPT !.live = TRUE, !.parents = ps[r], !.hosts = hs[r]]],
               gateway |-> [g \in Gateways |->
                             [NoSuchGateway EXCEPT !.live = TRUE, !.ready = TRUE, !.hosts = hs[g]]],
               limitador |-> [status |-> "ready", limits |-> NoLimits],
               plugin |-> [g \in Gateways |-> NoPlugin],
               filter |-> [g \in Gateways |-> FALSE]]
        /\ queue = S
  BY DEF Init, ClusterInit
<1>2. /\ ~NoSuchPolicy.live /\ ~NoSuchPolicy.deleting /\ ~NoSuchPolicy.finalizer
      /\ \A t, s : ~NewPolicy(t, s).deleting /\ ~NewPolicy(t, s).finalizer
  BY DEF NewPolicy, NoSuchPolicy
<1>3. ASSUME NEW p \in Policies
      PROVE  /\ ~store.policy[p].deleting /\ ~store.policy[p].finalizer
             /\ store.policy[p].live => p \in queue
  <2>1. store.policy[p] = IF p \in S THEN NewPolicy(ts[p], ss[p]) ELSE NoSuchPolicy
    BY <1>1
  <2> QED BY <1>1, <1>2, <2>1
<1>4. ASSUME NEW r \in Routes
      PROVE  /\ store.route[r].live /\ store.route[r].hosts \in HostLists
             /\ store.route[r].backref = NoPolicy
  <2>1. store.route[r] = [NoSuchRoute EXCEPT !.live = TRUE, !.parents = ps[r], !.hosts = hs[r]]
    BY <1>1
  <2>2. hs[r] \in HostLists
    OBVIOUS
  <2> QED BY <2>1, <2>2 DEF NoSuchRoute
<1>5. ASSUME NEW g \in Gateways
      PROVE  /\ store.gateway[g].live /\ store.gateway[g].refs = {}
             /\ store.gateway[g].backref = NoPolicy
             /\ store.plugin[g] = NoPlugin
             /\ store.filter[g] = FALSE
  <2>1. /\ store.gateway[g] = [NoSuchGateway EXCEPT !.live = TRUE, !.ready = TRUE, !.hosts = hs[g]]
        /\ store.plugin[g] = NoPlugin
        /\ store.filter[g] = FALSE
    BY <1>1
  <2> QED BY <2>1 DEF NoSuchGateway
<1>6. store.limitador.limits = NoLimits
  BY <1>1
<1>7. cache = store /\ wk = Idle
  BY DEF Init, ClusterInit
<1> QED BY <1>3, <1>4, <1>5, <1>6, <1>7

\* A step of the worker keeps its job, but for the finalizer on the copy, or
\* ends it.
LEMMA WorkJob ==
    ASSUME TypeInv, WorkerInv, Work
    PROVE  \/ wk' = Idle
           \/ /\ SameJob
              /\ wk.pc # "addFinalizer"
              /\ wk.mode = "apply" /\ wk'.pc \in {"diff", "limits", "filter", "plugin", "refs"} =>
                    wk.pc \in {"diff", "limits", "filter", "plugin", "refs"} \/ TargetValid
              /\ wk'.pc \in Stages \ {"idle", "addFinalizer", "backRef"}
           \/ wk.pc = "addFinalizer" /\ Armed
<1>0. WorkStep /\ wk.pc # "idle" /\ wk.mode \in {"apply", "finalize"}
  BY WorkSteps, TypeParts DEF Worker
<1> DEFINE Mid == {"diff", "limits", "filter", "plugin", "refs"}
           Late == Stages \ {"idle", "addFinalizer", "backRef"}
           Stays == /\ SameJob
                    /\ wk.pc # "addFinalizer"
                    /\ wk.mode = "apply" /\ wk'.pc \in Mid => wk.pc \in Mid \/ TargetValid
                    /\ wk'.pc \in Late
           Good == wk' = Idle \/ Stays \/ (wk.pc = "addFinalizer" /\ Armed)
<1>1. Fails => wk' = Idle \/ Stays
  BY DEF Fails, Reports, GivesUp, Kept, Stages, SpecStages
<1>2. GivesUp \/ Ends => wk' = Idle
  BY DEF GivesUp, Ends
<1>3. ASSUME NEW pc, MovesTo(pc), pc \in Late, wk.pc # "addFinalizer",
             wk.mode = "apply" /\ pc \in Mid => wk.pc \in Mid \/ TargetValid
      PROVE  Stays
  BY <1>3 DEF MovesTo, Kept
<1>4. Following \in Late
  BY DEF Following, Stages, SpecStages
<1>5. \A g : Annotates(g) /\ wk.pc \in Mid => Stays
  BY DEF Annotates, Stages, SpecStages
<1>6. {"diff", "limits", "filter", "plugin", "refs", "finRemove"} \subseteq Late
  BY DEF Stages, SpecStages
<1>7. CASE AddFinalizerStep
  BY <1>1, <1>7 DEF AddFinalizerStep
<1>8. CASE BackRefStep
  BY <1>1, <1>3, <1>6, <1>8 DEF BackRefStep
<1>9. CASE DiffStep
  BY <1>1, <1>6, <1>9 DEF DiffStep, Sorted
<1>10. CASE LimitsStep
  BY <1>1, <1>3, <1>4, <1>10 DEF LimitsStep, Enters
<1>11. CASE FilterStep
  BY <1>1, <1>3, <1>6, <1>11 DEF FilterStep, Visits
<1>12. CASE PluginStep
  BY <1>1, <1>3, <1>6, <1>12 DEF PluginStep, Visits
<1>13. CASE RefsStep
  BY <1>1, <1>3, <1>5, <1>6, <1>13 DEF RefsStep, Visits
<1>14. CASE LoopStep
  BY <1>3, <1>4, <1>14 DEF LoopStep, Enters
<1>15. CASE StatusStep
  BY <1>2, <1>15 DEF StatusStep
<1>16. CASE FinDiffStep
  <2>1. wk.pc = "finDiff" /\ wk.mode # "apply"
    BY <1>16 DEF FinDiffStep, WorkerInv
  <2> QED BY <1>1, <1>6, <1>16, <2>1 DEF FinDiffStep
<1>17. CASE FinBackRefStep
  BY <1>1, <1>3, <1>6, <1>17 DEF FinBackRefStep
<1>18. CASE FinRemoveStep
  BY <1>1, <1>2, <1>18 DEF FinRemoveStep
<1> QED BY <1>0, <1>7, <1>8, <1>9, <1>10, <1>11, <1>12, <1>13, <1>14, <1>15, <1>16, <1>17, <1>18
        DEF WorkStep

-----------------------------------------------------------------------------
(* The job: what the worker's copy of the policy says.                     *)

\* Between the back reference and the status of a policy that is applied.
MidStages == {"diff", "limits", "filter", "plugin", "refs"}

JobInv ==
    wk.pc # "idle" =>
        /\ wk.rlp.live
        /\ wk.mode = "apply" => ~wk.rlp.deleting
        /\ wk.pc # "addFinalizer" => wk.rlp.finalizer
        /\ wk.mode = "apply" /\ wk.pc \in MidStages => wk.rlp.target \in Lockable

LEMMA NextJobInv == TypeInv /\ WorkerInv /\ JobInv /\ [Next]_vars => JobInv'
<1> SUFFICES ASSUME TypeInv, WorkerInv, JobInv, [Next]_vars PROVE JobInv'
  OBVIOUS
<1>1. CASE wk' = Idle
  BY <1>1, IdleType DEF JobInv
<1>2. CASE wk' = wk
  BY <1>2 DEF JobInv
<1>3. ASSUME NEW p \in Policies, Start(p) PROVE JobInv'
  <2>1. CASE Begun(p)
    BY <2>1 DEF Begun, EntryStage, JobInv, MidStages
  <2> QED BY <1>1, <1>3, <2>1, StartEffect
<1>4. CASE Work
  <2>0. wk.pc # "idle" /\ wk.rlp \in Policy
    BY <1>4, WorkSteps, TypeParts
  <2>1. CASE /\ SameJob
             /\ wk.pc # "addFinalizer"
             /\ wk.mode = "apply" /\ wk'.pc \in MidStages => wk.pc \in MidStages \/ TargetValid
    BY <2>0, <2>1 DEF SameJob, JobInv, TargetValid, Validate, Lockable
  <2>2. CASE wk.pc = "addFinalizer" /\ Armed
    <3>1. /\ wk'.rlp.live = wk.rlp.live /\ wk'.rlp.deleting = wk.rlp.deleting
          /\ wk'.rlp.finalizer /\ wk'.mode = wk.mode /\ wk'.pc \notin MidStages
      BY <2>0, <2>2 DEF Armed, Policy, MidStages
    <3> QED BY <2>0, <3>1 DEF JobInv
  <2> QED BY <1>1, <1>4, <2>1, <2>2, WorkJob DEF MidStages
<1>5. Watch \/ Environment \/ UNCHANGED vars => wk' = wk
  BY DEF Watch, Environment, vars
<1>6. Crash => wk' = Idle
  BY DEF Crash
<1> QED BY <1>1, <1>2, <1>3, <1>4, <1>5, <1>6 DEF Next

\* The parts of the invariant proved so far, in every reachable state.
BaseInv == TypeInv /\ WorkerInv /\ FilterInv /\ LockInv /\ JobInv

THEOREM BaseInvariant == Spec => []BaseInv
<1>1. Init => BaseInv
  BY InitTypeInv, InitLockInv, IdleType DEF BaseInv, Init, Idle, WorkerInv, FilterInv, JobInv
<1>2. BaseInv /\ [Next]_vars => BaseInv'
  BY NextTypeInv, NextWorkerInv, NextFilterInv, NextLockInv, NextJobInv DEF BaseInv
<1> QED BY <1>1, <1>2, PTL DEF Spec

\* What a step of the worker does to the back references.
LEMMA WorkOwners ==
    ASSUME BaseInv, Work
    PROVE  OwnersKept \/ \E t \in Lockable : Claims(t) \/ Releases(t)
BY QuietWork, ClaimOrQuiet, ReleaseOrQuiet DEF BaseInv

-----------------------------------------------------------------------------
(* Only owners are listed, as long as nothing is deleted or retargeted.    *)

\* Policies and back references only come, and no copy is marked.
OwnersInv ==
    /\ \A p \in Policies :
          /\ ~store.policy[p].deleting /\ ~cache.policy[p].deleting
          /\ cache.policy[p].live =>
                store.policy[p].live /\ store.policy[p].target = cache.policy[p].target
    /\ wk.pc # "idle" => /\ ~wk.rlp.deleting /\ store.policy[wk.p].live
                         /\ store.policy[wk.p].target = wk.rlp.target
    /\ \A u \in Lockable, p \in Policies : BackRef(cache, u) = p => BackRef(store, u) = p
    /\ wk.pc \in MidStages => BackRef(store, wk.rlp.target) = wk.p

\* A policy in an annotation is there, and its target names it.
ListedInv ==
    \A p \in Policies, g \in Gateways :
        p \in store.gateway[g].refs =>
            /\ store.policy[p].live /\ store.policy[p].target \in Lockable
            /\ BackRef(store, store.policy[p].target) = p

\* A step that deletes and retargets nothing, and takes no back reference away.
Tame ==
    /\ \A p \in Policies :
          /\ ~store'.policy[p].deleting
          /\ store.policy[p].live =>
                store'.policy[p].live /\ store'.policy[p].target = store.policy[p].target
    /\ \A u \in Lockable, p \in Policies : BackRef(store, u) = p => BackRef(store', u) = p

LEMMA WorkTame ==
    ASSUME BaseInv, OwnersInv, Work
    PROVE  Tame
<1>0. /\ WorkStep /\ wk.p \in Policies /\ wk.rlp \in Policy /\ wk.pc # "idle"
      /\ ~wk.rlp.deleting /\ wk.rlp.live
  BY WorkSteps, TypeParts DEF BaseInv, OwnersInv, JobInv
<1>1. \A u \in Lockable, p \in Policies : BackRef(store, u) = p => BackRef(store', u) = p
  BY <1>0, WorkOwners, ClusterAssumption DEF OwnersKept, Claims, Releases, OwnerBecomes
<1> DEFINE Good == \A p \in Policies :
                      /\ ~store'.policy[p].deleting
                      /\ store.policy[p].live =>
                            store'.policy[p].live /\ store'.policy[p].target = store.policy[p].target
<1>2. store'.policy = store.policy => Good
  BY DEF OwnersInv
<1>3. ASSUME NEW x, store.policy[wk.p] = wk.rlp, PolicyBecomes(wk.p, x),
             x.live, ~x.deleting, x.target = wk.rlp.target
      PROVE  Good
  BY <1>0, <1>3 DEF PolicyBecomes, OwnersInv
<1> HIDE DEF Good
<1>4. AddFinalizerStep => Good
  <2> DEFINE x == [wk.rlp EXCEPT !.finalizer = TRUE]
  <2>1. x.live /\ ~x.deleting /\ x.target = wk.rlp.target
    BY <1>0 DEF Policy
  <2> QED BY <1>2, <1>3, <2>1 DEF AddFinalizerStep
<1>5. StatusStep => Good
  <2>1. NewStatus.live /\ ~NewStatus.deleting /\ NewStatus.target = wk.rlp.target
    BY <1>0 DEF Policy, NewStatus
  <2> QED BY <1>2, <1>3, <2>1 DEF StatusStep
<1>6. ~FinRemoveStep
  BY <1>0 DEF FinRemoveStep, BaseInv, WorkerInv
<1>7. BackRefStep \/ FinBackRefStep => Good
  BY <1>2 DEF BackRefStep, FinBackRefStep, OwnerWritten, RouteBecomes, GatewayBecomes
<1>8. DiffStep \/ LimitsStep \/ FilterStep => Good
  BY <1>2 DEF DiffStep, LimitsStep, FilterStep, LimitadorBecomes, FilterBecomes
<1>9. PluginStep \/ RefsStep \/ LoopStep \/ FinDiffStep => Good
  BY <1>2 DEF PluginStep, RefsStep, LoopStep, FinDiffStep, PluginBecomes, GatewayBecomes
<1>10. Good
  BY <1>0, <1>4, <1>5, <1>6, <1>7, <1>8, <1>9 DEF WorkStep
<1> QED BY <1>1, <1>10 DEF Tame, Good

\* The edits under which policies and their claims only come.
Growing == Edits \cap {"delete", "retarget", "deleteUnmarked", "route", "gateway"} = {}

LEMMA EnvironmentTame ==
    ASSUME BaseInv, OwnersInv, Environment, Growing
    PROVE  /\ Tame
           /\ \A g \in Gateways : store'.gateway[g].refs = store.gateway[g].refs
<1>0. TypeInv
  BY DEF BaseInv
<1>1. /\ \A p \in Policies : ~store.policy[p].deleting
      /\ store'.policy = store.policy => \A p \in Policies : ~store'.policy[p].deleting
  BY DEF OwnersInv
<1>2. ASSUME NEW p \in Policies, PolicyEdited(p)
      PROVE  /\ Tame
             /\ \A g \in Gateways : store'.gateway[g].refs = store.gateway[g].refs
  <2>1. PICK x \in Policy :
          /\ PolicyBecomes(p, x) /\ ~x.deleting
          /\ store.policy[p].live => x.live /\ x.target = store.policy[p].target
    BY <1>1, <1>2 DEF PolicyEdited, Growing
  <2>2. store'.route = store.route /\ store'.gateway = store.gateway
    BY <2>1 DEF PolicyBecomes
  <2> QED BY <1>1, <2>1, <2>2 DEF Tame, PolicyBecomes, BackRef
<1>3. ASSUME NEW r \in Routes, RouteEdited(r)
      PROVE  /\ Tame
             /\ \A g \in Gateways : store'.gateway[g].refs = store.gateway[g].refs
  <2>1. PICK x \in Route : RouteBecomes(r, x) /\ x.backref = store.route[r].backref
    BY <1>3 DEF RouteEdited, Growing
  <2> QED BY <1>1, <2>1 DEF Tame, RouteBecomes, BackRef
<1>4. ASSUME NEW g \in Gateways, GatewayEdited(g)
      PROVE  /\ Tame
             /\ \A h \in Gateways : store'.gateway[h].refs = store.gateway[h].refs
  <2>1. PICK x \in Gateway : /\ GatewayBecomes(g, x) /\ x.backref = store.gateway[g].backref
                             /\ x.refs = store.gateway[g].refs
    BY <1>4 DEF GatewayEdited, Growing
  <2> QED BY <1>1, <2>1 DEF Tame, GatewayBecomes, BackRef, Lockable
<1>5. CASE LimitadorEdited
  <2>1. /\ store'.policy = store.policy /\ store'.route = store.route
        /\ store'.gateway = store.gateway
    BY <1>5 DEF LimitadorEdited, LimitadorBecomes
  <2> QED BY <1>1, <2>1 DEF Tame, BackRef
<1> QED BY <1>0, <1>2, <1>3, <1>4, <1>5, EnvironmentEffect

\* Tame steps keep what the copies say.
LEMMA TameCopies ==
    ASSUME OwnersInv, Tame, cache' = cache
    PROVE  /\ \A p \in Policies :
                 /\ ~store'.policy[p].deleting /\ ~cache'.policy[p].deleting
                 /\ cache'.policy[p].live =>
                       store'.policy[p].live /\ store'.policy[p].target = cache'.policy[p].target
           /\ \A u \in Lockable, p \in Policies : BackRef(cache', u) = p => BackRef(store', u) = p
BY DEF OwnersInv, Tame

LEMMA WorkOwnersInv ==
    ASSUME BaseInv, OwnersInv, Work
    PROVE  OwnersInv'
<1>0. /\ WorkStep /\ wk.p \in Policies /\ wk.rlp \in Policy /\ wk.pc # "idle"
      /\ ~wk.rlp.deleting /\ cache' = cache /\ wk.mode = "apply"
      /\ store.policy[wk.p].live /\ store.policy[wk.p].target = wk.rlp.target
  BY WorkSteps, TypeParts DEF BaseInv, OwnersInv, WorkerInv, Worker
<1>1. Tame
  BY WorkTame
<1>2. CASE wk' = Idle
  BY <1>0, <1>1, <1>2, IdleType, TameCopies DEF OwnersInv, MidStages
<1>3. CASE wk' # Idle
  <2>1. wk'.p = wk.p /\ wk'.rlp.target = wk.rlp.target /\ wk'.rlp.deleting = wk.rlp.deleting
    BY <1>0, <1>3, WorkJob DEF BaseInv, SameJob, Armed, Policy
  <2>2. ~wk'.rlp.deleting /\ store'.policy[wk'.p].live /\ store'.policy[wk'.p].target = wk'.rlp.target
    BY <1>0, <1>1, <2>1 DEF Tame
  <2>3. wk'.pc \in MidStages => BackRef(store', wk.rlp.target) = wk.p
    <3>1. CASE wk.pc \in MidStages
      <4>1. wk.rlp.target \in Lockable /\ BackRef(store, wk.rlp.target) = wk.p
        BY <1>0, <3>1 DEF BaseInv, JobInv, OwnersInv
      <4> QED BY <1>0, <1>1, <4>1 DEF Tame
    <3>2. CASE BackRefStep
      <4>1. CASE TargetValid /\ BackRef(cache, wk.rlp.target) = wk.p
        <5>1. wk.rlp.target \in Lockable
          BY <4>1 DEF TargetValid, Validate, Lockable
        <5> QED BY <1>0, <1>1, <4>1, <5>1 DEF OwnersInv, Tame
      <4>2. CASE OwnerWritten(wk.rlp.target, wk.p)
        BY <4>2 DEF OwnerWritten, OwnerBecomes
      <4>3. Fails => wk'.pc \notin MidStages
        BY <1>3 DEF Fails, Reports, GivesUp, MidStages
      <4> QED BY <3>2, <4>1, <4>2, <4>3 DEF BackRefStep
    <3>3. CASE wk.pc \notin MidStages /\ ~BackRefStep
      <4>1. AddFinalizerStep \/ StatusStep
        BY <1>0, <3>3
           DEF WorkStep, MidStages, DiffStep, LimitsStep, FilterStep, PluginStep, RefsStep, LoopStep,
               FinDiffStep, FinBackRefStep, FinRemoveStep, BaseInv, WorkerInv
      <4> QED BY <1>3, <4>1
              DEF AddFinalizerStep, StatusStep, Fails, Reports, GivesUp, Ends, Armed, MidStages
    <3> QED BY <3>1, <3>2, <3>3
  <2> QED BY <1>0, <1>1, <2>1, <2>2, <2>3, TameCopies DEF OwnersInv
<1> QED BY <1>2, <1>3

LEMMA NextOwnersInv ==
    ASSUME BaseInv, OwnersInv, [Next]_vars, Growing
    PROVE  OwnersInv'
<1>0. TypeInv /\ (wk.pc # "idle" => wk.p \in Policies)
  BY TypeParts DEF BaseInv
<1>1. ASSUME NEW p \in Policies, Start(p) PROVE OwnersInv'
  <2>1. store' = store /\ cache' = cache
    BY <1>1, StartEffect
  <2>2. CASE wk' = Idle
    BY <2>1, <2>2, IdleType DEF OwnersInv, MidStages
  <2>3. CASE Begun(p)
    <3>1. cache.policy[p].live
      BY <2>3 DEF Begun, EntryStage
    <3> QED BY <2>1, <2>3, <3>1 DEF Begun, OwnersInv, MidStages
  <2> QED BY <1>1, <2>2, <2>3, StartEffect
<1>2. CASE Watch
  <2>1. /\ store' = store /\ wk' = wk
        /\ \A p \in Policies : cache'.policy[p] \in {cache.policy[p], store.policy[p]}
        /\ \A u \in Lockable : BackRef(cache', u) \in {BackRef(cache, u), BackRef(store, u)}
    BY <1>0, <1>2, WatchCopies DEF BackRef, Lockable
  <2> QED BY <2>1 DEF OwnersInv
<1>3. CASE Environment
  <2>1. wk' = wk /\ cache' = cache
    BY <1>0, <1>3, EnvironmentEffect
  <2>2. Tame
    BY <1>3, EnvironmentTame
  <2>3. wk.pc \in MidStages => wk.rlp.target \in Lockable /\ wk.pc # "idle"
    BY DEF BaseInv, JobInv, WorkerInv, OwnersInv, MidStages, TypeInv, TypeOK, Worker
  <2> QED BY <1>0, <2>1, <2>2, <2>3, TameCopies DEF OwnersInv, Tame
<1>4. CASE Crash
  BY <1>4, IdleType DEF Crash, OwnersInv, MidStages
<1>5. CASE UNCHANGED vars
  BY <1>5 DEF vars, OwnersInv
<1> QED BY <1>1, <1>2, <1>3, <1>4, <1>5, WorkOwnersInv DEF Next

LEMMA NextListedInv ==
    ASSUME BaseInv, OwnersInv, ListedInv, [Next]_vars, Growing
    PROVE  ListedInv'
<1>0. TypeInv
  BY DEF BaseInv
<1>1. ASSUME Tame, NEW p \in Policies,
             \/ \E g \in Gateways : p \in store.gateway[g].refs
             \/ p = wk.p /\ wk.pc \in MidStages
      PROVE  /\ store'.policy[p].live /\ store'.policy[p].target \in Lockable
             /\ BackRef(store', store'.policy[p].target) = p
  <2>1. /\ store.policy[p].live /\ store.policy[p].target \in Lockable
        /\ BackRef(store, store.policy[p].target) = p
    <3>1. CASE \E g \in Gateways : p \in store.gateway[g].refs
      BY <3>1 DEF ListedInv
    <3>2. CASE p = wk.p /\ wk.pc \in MidStages
      <4>1. wk.pc # "idle" /\ wk.mode = "apply"
        BY <1>0, <3>2, TypeParts DEF MidStages, OwnersInv, BaseInv, WorkerInv, Worker
      <4> QED BY <3>2, <4>1 DEF OwnersInv, BaseInv, JobInv
    <3> QED BY <1>1, <3>1, <3>2
  <2> QED BY <1>1, <2>1 DEF Tame
<1>2. ASSUME Tame, \A g \in Gateways : store'.gateway[g].refs = store.gateway[g].refs
      PROVE  ListedInv'
  BY <1>1, <1>2 DEF ListedInv
<1>3. CASE Work
  <2>0. Tame /\ WorkStep
    BY <1>0, <1>3, WorkTame, WorkSteps
  <2>1. CASE RefsStep
    <3>1. PICK g \in wk.todo :
            \/ store' = store
            \/ /\ store.gateway[g] = wk.gws[g] /\ wk.pc = "refs"
               /\ GatewayBecomes(g, [wk.gws[g] EXCEPT !.refs = RLPRefsAfter(g)])
      BY <2>1 DEF RefsStep
    <3>2. CASE /\ store.gateway[g] = wk.gws[g] /\ wk.pc = "refs"
               /\ GatewayBecomes(g, [wk.gws[g] EXCEPT !.refs = RLPRefsAfter(g)])
      <4>1. g \in Gateways /\ wk.gws[g] \in Gateway
        BY <1>0, TypeParts
      <4>2. store'.gateway[g].refs = RLPRefsAfter(g)
        BY <3>2, <4>1 DEF GatewayBecomes, Gateway
      <4>3. RLPRefsAfter(g) \subseteq store.gateway[g].refs \cup {wk.p}
        BY <3>2 DEF RLPRefsAfter
      <4>4. \A h \in Gateways : store'.gateway[h].refs \subseteq store.gateway[h].refs \cup {wk.p}
        BY <3>2, <4>2, <4>3 DEF GatewayBecomes
      <4>5. wk.pc \in MidStages
        BY <3>2 DEF MidStages
      <4> QED BY <1>1, <2>0, <4>4, <4>5 DEF ListedInv
    <3> QED BY <1>2, <2>0, <3>1, <3>2
  <2>2. CASE BackRefStep \/ FinBackRefStep
    <3>1. \A g \in Gateways : store'.gateway[g].refs = store.gateway[g].refs
      <4>1. CASE store' = store
        BY <4>1
      <4>2. ASSUME NEW t, NEW p, OwnerWritten(t, p)
            PROVE  \A g \in Gateways : store'.gateway[g].refs = store.gateway[g].refs
        <5>1. \A g \in Gateways : store.gateway[g] \in Gateway
          BY <1>0, TypeParts, GetTypes
        <5>2. \A g \in Gateways : [store.gateway[g] EXCEPT !.backref = p].refs = store.gateway[g].refs
          BY <5>1 DEF Gateway
        <5> QED BY <4>2, <5>2 DEF OwnerWritten, RouteBecomes, GatewayBecomes
      <4> QED BY <2>2, <4>1, <4>2 DEF BackRefStep, FinBackRefStep
    <3> QED BY <1>2, <2>0, <3>1
  <2>3. CASE AddFinalizerStep \/ DiffStep \/ LimitsStep \/ StatusStep
    BY <1>2, <2>0, <2>3
       DEF AddFinalizerStep, DiffStep, LimitsStep, StatusStep, PolicyBecomes, LimitadorBecomes
  <2>4. CASE FilterStep \/ PluginStep \/ LoopStep
    BY <1>2, <2>0, <2>4 DEF FilterStep, PluginStep, LoopStep, FilterBecomes, PluginBecomes
  <2>5. CASE FinDiffStep \/ FinRemoveStep
    BY <1>2, <2>0, <2>5 DEF FinDiffStep, FinRemoveStep, PolicyBecomes
  <2> QED BY <2>0, <2>1, <2>2, <2>3, <2>4, <2>5 DEF WorkStep
<1>4. CASE Environment
  BY <1>2, <1>4, EnvironmentTame
<1>5. store' = store => ListedInv'
  BY DEF ListedInv
<1>6. ASSUME NEW p \in Policies, Start(p) PROVE store' = store
  BY <1>6, StartEffect
<1>7. Watch => store' = store
  BY <1>0, WatchCopies
<1>8. Crash \/ UNCHANGED vars => store' = store
  BY DEF Crash, vars
<1> QED BY <1>3, <1>4, <1>5, <1>6, <1>7, <1>8 DEF Next

\* However old the copies are, whichever calls fail and whenever the process
\* crashes: as long as users delete no policy and no target, and retarget no
\* policy, the gateways' annotations list only policies that own their target,
\* hence at most one policy per target.
THEOREM OwnersReferenced ==
    ASSUME Growing
    PROVE  Spec => [](OnlyOwnersReferenced /\ OnePolicyPerTarget)
<1>1. Init => OwnersInv /\ ListedInv
  <2> SUFFICES ASSUME Init PROVE OwnersInv /\ ListedInv
    OBVIOUS
  <2>1. wk.pc = "idle"
    BY InitFacts, IdleType
  <2> QED BY <2>1, InitFacts DEF OwnersInv, ListedInv, MidStages
<1>2. BaseInv /\ OwnersInv /\ ListedInv /\ [Next]_vars => (OwnersInv /\ ListedInv)'
  BY NextOwnersInv, NextListedInv
<1>3. ListedInv => OnlyOwnersReferenced /\ OnePolicyPerTarget
  <2> SUFFICES ASSUME ListedInv PROVE OnlyOwnersReferenced /\ OnePolicyPerTarget
    OBVIOUS
  <2>1. \A p \in Policies, g \in Gateways :
          p \in store.gateway[g].refs => BackRef(store, store.policy[p].target) = p
    BY DEF ListedInv
  <2>2. OnlyOwnersReferenced
    BY <2>1 DEF OnlyOwnersReferenced
  <2>3. OnePolicyPerTarget
    BY <2>1 DEF OnePolicyPerTarget
  <2> QED BY <2>2, <2>3
<1> QED BY <1>1, <1>2, <1>3, BaseInvariant, PTL DEF Spec

-----------------------------------------------------------------------------
(* Stored policies and copies of them, when no policy is retargeted and    *)
(* none is deleted before it has the finalizer.                            *)

Holds(pol) == pol.live /\ pol.finalizer

\* What an old copy says of the stored policy: one that is not marked is of a
\* policy that is still there and keeps its finalizer; one that is marked is of
\* a marked policy, unless that is gone, whether or not it was created again.
CopyTrue(pol, rlp) ==
    /\ rlp.live /\ ~rlp.deleting =>
          pol.live /\ pol.target = rlp.target /\ (rlp.finalizer => pol.finalizer)
    /\ rlp.live /\ rlp.deleting /\ Holds(pol) => pol.deleting /\ pol.target = rlp.target

\* How others than the worker change such a policy.
Follows(old, new) ==
    /\ old.live => /\ new.live /\ new.target = old.target
                   /\ new.finalizer = old.finalizer
                   /\ old.deleting => new.deleting
    /\ ~old.live => ~Holds(new)

AllFollow == \A p \in Policies : Follows(store.policy[p], store'.policy[p])

LEMMA FollowsCopies ==
    ASSUME NEW old, NEW new, Follows(old, new)
    PROVE  /\ Holds(new) => Holds(old)
           /\ Holds(old) => Holds(new) /\ new.target = old.target
           /\ \A rlp : CopyTrue(old, rlp) => CopyTrue(new, rlp)
BY DEF Follows, Holds, CopyTrue

LEMMA CopyOfItself == \A pol : CopyTrue(pol, pol)
BY DEF CopyTrue, Holds

\* The edits under which a policy is only removed by its finalization.
Guarded == Edits \cap {"retarget", "deleteUnmarked"} = {}

LEMMA EnvironmentFollows ==
    ASSUME TypeInv, Environment, Guarded
    PROVE  AllFollow
<1>1. store'.policy = store.policy => AllFollow
  BY DEF AllFollow, Follows, Holds
<1>2. ASSUME NEW p \in Policies, PolicyEdited(p) PROVE AllFollow
  <2>1. PICK x \in Policy : PolicyBecomes(p, x) /\ Follows(store.policy[p], x)
    BY <1>2 DEF PolicyEdited, Follows, Holds, Guarded
  <2> QED BY <2>1 DEF PolicyBecomes, AllFollow, Follows, Holds
<1>3. \A r \in Routes : RouteEdited(r) => store'.policy = store.policy
  BY DEF RouteEdited, RouteBecomes
<1>4. \A g \in Gateways : GatewayEdited(g) => store'.policy = store.policy
  BY DEF GatewayEdited, GatewayBecomes
<1>5. LimitadorEdited => store'.policy = store.policy
  BY DEF LimitadorEdited, LimitadorBecomes
<1> QED BY <1>1, <1>2, <1>3, <1>4, <1>5, EnvironmentEffect

\* The cached copies, and the worker's. While a policy is applied, a mark in
\* the cache is in the store; while it is finalized the cache shows no
\* unmarked copy of it.
CopiesInv ==
    /\ \A p \in Policies : CopyTrue(store.policy[p], cache.policy[p])
    /\ wk.pc # "idle" => CopyTrue(store.policy[wk.p], wk.rlp)

MarkInv ==
    /\ wk.pc # "idle" /\ wk.mode = "apply" =>
          (cache.policy[wk.p].deleting => store.policy[wk.p].deleting)
    /\ wk.pc # "idle" /\ wk.mode = "finalize" /\ Holds(store.policy[wk.p]) =>
          (cache.policy[wk.p].live => cache.policy[wk.p].deleting)

\* What a step of the worker does to the stored policies: its own gets the
\* finalizer, or goes, or all stay what they were to others.
FinalizerAdded ==
    /\ wk.pc = "addFinalizer" /\ store.policy[wk.p] = wk.rlp
    /\ PolicyBecomes(wk.p, [wk.rlp EXCEPT !.finalizer = TRUE])
    /\ Armed \/ wk' = Idle

PolicyRemoved ==
    /\ wk.pc = "finRemove" /\ store.policy[wk.p] = wk.rlp
    /\ PolicyBecomes(wk.p, NoSuchPolicy)
    /\ wk' = Idle

LEMMA WorkPolicies ==
    ASSUME BaseInv, CopiesInv, Work
    PROVE  \/ FinalizerAdded
           \/ PolicyRemoved
           \/ AllFollow /\ (SameJob \/ wk' = Idle)
<1>0. /\ TypeInv /\ wk.p \in Policies /\ WorkStep /\ wk.rlp \in Policy /\ wk.rlp.live /\ wk.pc # "idle"
  BY WorkSteps, TypeParts DEF BaseInv, JobInv
<1>1. store'.policy = store.policy => AllFollow
  BY DEF AllFollow, Follows, Holds
<1>2. SameJob \/ wk' = Idle \/ wk.pc = "addFinalizer"
  BY <1>0, WorkJob DEF BaseInv
<1>3. CASE AddFinalizerStep
  <2>1. store.policy[wk.p].live /\ wk.mode = "apply"
    BY <1>0, <1>3 DEF AddFinalizerStep, CopiesInv, CopyTrue, BaseInv, JobInv, WorkerInv
  <2>2. Fails => wk' = Idle
    BY <1>3 DEF AddFinalizerStep, Fails, SpecStages, GivesUp
  <2> QED BY <1>1, <1>3, <2>1, <2>2 DEF AddFinalizerStep, FinalizerAdded
<1>4. CASE StatusStep
  <2>1. /\ NewStatus.live = wk.rlp.live /\ NewStatus.deleting = wk.rlp.deleting
        /\ NewStatus.target = wk.rlp.target /\ NewStatus.finalizer = wk.rlp.finalizer
    BY <1>0 DEF Policy, NewStatus
  <2>2. store.policy[wk.p] = wk.rlp /\ PolicyBecomes(wk.p, NewStatus) => AllFollow
    BY <1>0, <2>1 DEF PolicyBecomes, AllFollow, Follows, Holds
  <2> QED BY <1>1, <1>2, <1>4, <2>2 DEF StatusStep
<1>5. CASE FinRemoveStep
  <2>1. Ends \/ Fails => wk' = Idle
    BY <1>5 DEF FinRemoveStep, Fails, Ends, SpecStages, GivesUp
  <2> QED BY <1>1, <1>5, <2>1 DEF FinRemoveStep, PolicyRemoved
<1>6. CASE BackRefStep \/ FinBackRefStep
  BY <1>1, <1>2, <1>6 DEF BackRefStep, FinBackRefStep, OwnerWritten, RouteBecomes, GatewayBecomes
<1>7. CASE DiffStep \/ LimitsStep \/ FilterStep
  BY <1>1, <1>2, <1>7 DEF DiffStep, LimitsStep, FilterStep, LimitadorBecomes, FilterBecomes
<1>8. CASE PluginStep \/ RefsStep \/ LoopStep \/ FinDiffStep
  BY <1>1, <1>2, <1>8
     DEF PluginStep, RefsStep, LoopStep, FinDiffStep, PluginBecomes, GatewayBecomes
<1> QED BY <1>0, <1>3, <1>4, <1>5, <1>6, <1>7, <1>8 DEF WorkStep

LEMMA WorkCopiesInv ==
    ASSUME BaseInv, CopiesInv, MarkInv, Work
    PROVE  CopiesInv' /\ MarkInv'
<1>0. /\ wk.p \in Policies /\ cache' = cache /\ wk.rlp \in Policy /\ wk.rlp.live /\ wk.pc # "idle"
      /\ wk.mode \in {"apply", "finalize"}
  BY WorkSteps, TypeParts DEF BaseInv, JobInv, Worker
<1>1. CASE AllFollow /\ (SameJob \/ wk' = Idle)
  <2>1. \A p \in Policies : \A rlp : CopyTrue(store.policy[p], rlp) => CopyTrue(store'.policy[p], rlp)
    BY <1>1, FollowsCopies DEF AllFollow
  <2>2. wk'.pc # "idle" => SameJob
    BY <1>1, IdleType
  <2>3. CopiesInv'
    BY <1>0, <2>1, <2>2 DEF CopiesInv, SameJob
  <2>4. Follows(store.policy[wk.p], store'.policy[wk.p])
    BY <1>0, <1>1 DEF AllFollow
  <2>5. wk.mode = "apply" => store.policy[wk.p].live
    BY <1>0 DEF CopiesInv, CopyTrue, BaseInv, JobInv
  <2>6. wk.mode = "apply" => (cache.policy[wk.p].deleting => store'.policy[wk.p].deleting)
    BY <1>0, <2>4, <2>5 DEF MarkInv, Follows
  <2>7. wk.mode = "finalize" /\ Holds(store'.policy[wk.p]) =>
          (cache.policy[wk.p].live => cache.policy[wk.p].deleting)
    BY <1>0, <2>4, FollowsCopies DEF MarkInv
  <2>8. MarkInv'
    BY <1>0, <2>2, <2>6, <2>7 DEF MarkInv, SameJob
  <2> QED BY <2>3, <2>8
<1>2. CASE FinalizerAdded
  <2> DEFINE x == [wk.rlp EXCEPT !.finalizer = TRUE]
  <2>1. /\ x.live = wk.rlp.live /\ x.deleting = wk.rlp.deleting
        /\ x.target = wk.rlp.target /\ x.finalizer = TRUE
    BY <1>0 DEF Policy
  <2>2. /\ store.policy[wk.p] = wk.rlp /\ PolicyBecomes(wk.p, x) /\ wk.pc = "addFinalizer"
        /\ wk'.pc # "idle" => wk'.p = wk.p /\ wk'.rlp = x /\ wk'.mode = wk.mode
    BY <1>2, IdleType DEF FinalizerAdded, Armed
  <2> HIDE DEF x
  <2>3. wk.mode = "apply" /\ ~wk.rlp.deleting
    BY <1>0, <2>2 DEF BaseInv, WorkerInv, JobInv
  <2>4. ~cache.policy[wk.p].deleting
    BY <1>0, <2>2, <2>3 DEF MarkInv
  <2>5. CopyTrue(x, cache.policy[wk.p])
    <3>1. CopyTrue(wk.rlp, cache.policy[wk.p])
      BY <1>0, <2>2 DEF CopiesInv
    <3> QED BY <2>1, <2>4, <3>1 DEF CopyTrue
  <2>6. \A p \in Policies : CopyTrue(store'.policy[p], cache.policy[p])
    BY <2>2, <2>5 DEF PolicyBecomes, CopiesInv
  <2>7. wk'.pc # "idle" => CopyTrue(store'.policy[wk'.p], wk'.rlp)
    BY <2>2, CopyOfItself DEF PolicyBecomes
  <2>8. CopiesInv'
    BY <1>0, <2>6, <2>7 DEF CopiesInv
  <2>9. MarkInv'
    BY <1>0, <2>2, <2>3, <2>4 DEF MarkInv
  <2> QED BY <2>8, <2>9
<1>3. CASE PolicyRemoved
  <2>1. /\ store.policy[wk.p] = wk.rlp /\ PolicyBecomes(wk.p, NoSuchPolicy)
        /\ wk.pc = "finRemove" /\ wk'.pc = "idle"
    BY <1>3, IdleType DEF PolicyRemoved
  <2>2. Holds(store.policy[wk.p]) /\ wk.mode = "finalize"
    BY <1>0, <2>1 DEF Holds, BaseInv, WorkerInv, JobInv
  <2>3. cache.policy[wk.p].live => cache.policy[wk.p].deleting
    BY <1>0, <2>2 DEF MarkInv
  <2>4. CopyTrue(NoSuchPolicy, cache.policy[wk.p])
    BY <2>3 DEF CopyTrue, Holds, NoSuchPolicy
  <2>5. \A p \in Policies : CopyTrue(store'.policy[p], cache.policy[p])
    BY <2>1, <2>4 DEF PolicyBecomes, CopiesInv
  <2> QED BY <1>0, <2>1, <2>5 DEF CopiesInv, MarkInv
<1> QED BY <1>1, <1>2, <1>3, WorkPolicies

LEMMA NextCopiesInv ==
    ASSUME BaseInv, CopiesInv, MarkInv, [Next]_vars, Guarded
    PROVE  CopiesInv' /\ MarkInv'
<1>0. /\ TypeInv
      /\ wk.pc # "idle" => wk.p \in Policies /\ wk.rlp.live /\ wk.mode \in {"apply", "finalize"}
  BY TypeParts DEF BaseInv, JobInv, Worker
<1>1. ASSUME NEW p \in Policies, Start(p) PROVE CopiesInv' /\ MarkInv'
  <2>1. store' = store /\ cache' = cache
    BY <1>1, StartEffect
  <2>2. CASE wk' = Idle
    BY <2>1, <2>2, IdleType DEF CopiesInv, MarkInv
  <2>3. CASE Begun(p)
    <3>1. /\ wk'.p = p /\ wk'.rlp = cache.policy[p]
          /\ cache.policy[p].live
          /\ wk'.mode = "finalize" <=> cache.policy[p].deleting
          /\ wk'.mode \in {"apply", "finalize"}
      BY <2>3 DEF Begun, EntryStage
    <3> QED BY <2>1, <3>1 DEF CopiesInv, MarkInv
  <2> QED BY <1>1, <2>2, <2>3, StartEffect
<1>2. CASE Watch
  <2>1. /\ store' = store /\ wk' = wk
        /\ \A p \in Policies : cache'.policy[p] \in {cache.policy[p], store.policy[p]}
    BY <1>0, <1>2, WatchCopies
  <2>2. CopiesInv'
    <3>1. \A p \in Policies : CopyTrue(store.policy[p], cache'.policy[p])
      BY <2>1, CopyOfItself DEF CopiesInv
    <3> QED BY <2>1, <3>1 DEF CopiesInv
  <2>3. wk.pc # "idle" /\ wk.mode = "finalize" /\ Holds(store.policy[wk.p]) => store.policy[wk.p].deleting
    BY <1>0 DEF CopiesInv, CopyTrue, BaseInv, WorkerInv
  <2>4. MarkInv'
    BY <1>0, <2>1, <2>3 DEF MarkInv
  <2> QED BY <2>2, <2>4
<1>3. CASE Environment
  <2>1. wk' = wk /\ cache' = cache /\ AllFollow
    BY <1>0, <1>3, EnvironmentEffect, EnvironmentFollows
  <2>2. CopiesInv'
    <3>1. \A p \in Policies : \A rlp : CopyTrue(store.policy[p], rlp) => CopyTrue(store'.policy[p], rlp)
      BY <2>1, FollowsCopies DEF AllFollow
    <3> QED BY <1>0, <2>1, <3>1 DEF CopiesInv
  <2>3. wk.pc # "idle" /\ wk.mode = "apply" => store.policy[wk.p].live
    BY <1>0 DEF CopiesInv, CopyTrue, BaseInv, JobInv
  <2>4. wk.pc # "idle" => Follows(store.policy[wk.p], store'.policy[wk.p])
    BY <1>0, <2>1 DEF AllFollow
  <2>5. MarkInv'
    BY <2>1, <2>3, <2>4, FollowsCopies DEF MarkInv, Follows
  <2> QED BY <2>2, <2>5
<1>4. CASE Crash
  BY <1>4, IdleType, CopyOfItself DEF Crash, CopiesInv, MarkInv
<1>5. CASE UNCHANGED vars
  BY <1>5 DEF vars, CopiesInv, MarkInv
<1> QED BY <1>1, <1>2, <1>3, <1>4, <1>5, WorkCopiesInv DEF Next

\* What follows for the policy at work: it holds the finalizer while it is
\* applied, and its copies agree on the target.
LEMMA CopiesAgree ==
    ASSUME BaseInv, CopiesInv, MarkInv, wk.pc # "idle"
    PROVE  /\ wk.mode = "apply" /\ wk.pc # "addFinalizer" => Holds(store.policy[wk.p])
           /\ wk.mode = "apply" => store.policy[wk.p].target = wk.rlp.target
           /\ wk.mode = "apply" /\ wk.pc # "addFinalizer" /\ cache.policy[wk.p].live =>
                 cache.policy[wk.p].target = wk.rlp.target
           /\ Holds(store.policy[wk.p]) => store.policy[wk.p].target = wk.rlp.target
<1>0. wk.p \in Policies /\ wk.rlp.live /\ (wk.rlp.deleting \in BOOLEAN)
  BY TypeParts DEF BaseInv, JobInv, Policy
<1>1. CopyTrue(store.policy[wk.p], wk.rlp) /\ CopyTrue(store.policy[wk.p], cache.policy[wk.p])
  BY <1>0 DEF CopiesInv
<1> QED BY <1>0, <1>1 DEF CopyTrue, Holds, BaseInv, JobInv

\* The copies, in every reachable state.
THEOREM CopiesInvariant ==
    ASSUME Guarded
    PROVE  Spec => [](BaseInv /\ CopiesInv /\ MarkInv)
<1>1. Init => CopiesInv /\ MarkInv
  BY InitFacts, IdleType, CopyOfItself DEF CopiesInv, MarkInv
<1>2. BaseInv /\ CopiesInv /\ MarkInv /\ [Next]_vars => (CopiesInv /\ MarkInv)'
  BY NextCopiesInv
<1> QED BY <1>1, <1>2, BaseInvariant, PTL DEF Spec

-----------------------------------------------------------------------------
(* The annotation comes last.                                              *)

\* A policy with a share on some hostname is named in the configuration.
LEMMA NamedInConfig ==
    ASSUME NEW c, NEW gw, NEW R, NEW p \in R,
           \/ c.policy[p].target \in Gateways
           \/ c.policy[p].target \in Routes /\ c.route[c.policy[p].target].hosts # {}
    PROVE  p \in Named(GatewayConfig(c, gw, R))
<1> SUFFICES \E h : <<h, p, c.policy[p].spec>> \in GatewayConfig(c, gw, R)
  BY DEF Named
<1>1. CASE c.policy[p].target \in Gateways
  <2>1. PICK h : h \in OrWildcard(gw.hosts)
    BY DEF OrWildcard
  <2>2. p \in GatewayPolicies(c, R)
    BY <1>1 DEF GatewayPolicies
  <2>3. <<h, p, c.policy[p].spec>> \in Share(c, p, OrWildcard(gw.hosts))
    BY <2>1 DEF Share
  <2> QED BY <2>2, <2>3 DEF GatewayShare, GatewayConfig
<1>2. CASE c.policy[p].target \in Routes /\ c.route[c.policy[p].target].hosts # {}
  <2>1. PICK h : h \in c.route[c.policy[p].target].hosts
    BY <1>2
  <2>2. p \in RoutePolicies(c, R)
    BY <1>2 DEF RoutePolicies
  <2>3. <<h, p, c.policy[p].spec>> \in Share(c, p, c.route[c.policy[p].target].hosts)
    BY <2>1 DEF Share
  <2>4. <<h, p, c.policy[p].spec>> \in
          UNION {Share(c, x, c.route[c.policy[p].target].hosts) : x \in {p} \cup GatewayPolicies(c, R)}
    BY <2>3
  <2>5. <<h, p, c.policy[p].spec>> \in RouteShare(c, R)
    BY <2>2, <2>4, Zenon DEF RouteShare
  <2> QED BY <2>5 DEF GatewayConfig
<1> QED BY <1>1, <1>2

\* Routes that are there have one of the hostname lists users give to routes.
HostsInv ==
    \A r \in Routes : /\ store.route[r].live => store.route[r].hosts \in HostLists
                      /\ cache.route[r].live => cache.route[r].hosts \in HostLists

\* Past each stage, what it puts in place for the new gateways is there.
PlacedInv ==
    wk.mode = "apply" =>
        /\ wk.pc \in {"filter", "plugin", "refs"} =>
              \A g \in wk.new : wk.p \in Named(store.limitador.limits[g])
        /\ wk.pc \in {"plugin", "refs"} =>
              \A g \in wk.new : \/ wk.pc = "plugin" /\ g \in wk.todo
                                \/ wk.p \in Named(store.plugin[g].conf)

LEMMA WorkRoutes ==
    ASSUME BaseInv, Work
    PROVE  \A r \in Routes : /\ store'.route[r].live = store.route[r].live
                             /\ store'.route[r].hosts = store.route[r].hosts
                             /\ store'.route[r].parents = store.route[r].parents
<1>0. TypeInv /\ WorkStep
  BY WorkSteps DEF BaseInv
<1>1. ASSUME NEW t, NEW p, OwnerWritten(t, p)
      PROVE  \A r \in Routes : /\ store'.route[r].live = store.route[r].live
                               /\ store'.route[r].hosts = store.route[r].hosts
                               /\ store'.route[r].parents = store.route[r].parents
  <2>1. \A r \in Routes : store.route[r] \in Route
    BY <1>0, TypeParts, GetTypes
  <2>2. \A r \in Routes : LET x == [store.route[r] EXCEPT !.backref = p]
                          IN  /\ x.live = store.route[r].live /\ x.hosts = store.route[r].hosts
                              /\ x.parents = store.route[r].parents
    BY <2>1 DEF Route
  <2> QED BY <1>1, <2>2 DEF OwnerWritten, RouteBecomes, GatewayBecomes
<1>2. CASE BackRefStep \/ FinBackRefStep
  BY <1>1, <1>2 DEF BackRefStep, FinBackRefStep
<1>3. CASE store'.route = store.route
  BY <1>3
<1>4. CASE AddFinalizerStep \/ StatusStep \/ FinRemoveStep
  BY <1>3, <1>4 DEF AddFinalizerStep, StatusStep, FinRemoveStep, PolicyBecomes
<1>5. CASE DiffStep \/ LimitsStep \/ FilterStep
  BY <1>3, <1>5 DEF DiffStep, LimitsStep, FilterStep, LimitadorBecomes, FilterBecomes
<1>6. CASE PluginStep \/ RefsStep \/ LoopStep \/ FinDiffStep
  BY <1>3, <1>6 DEF PluginStep, RefsStep, LoopStep, FinDiffStep, PluginBecomes, GatewayBecomes
<1> QED BY <1>0, <1>2, <1>4, <1>5, <1>6 DEF WorkStep

LEMMA NextHostsInv ==
    ASSUME BaseInv, HostsInv, [Next]_vars
    PROVE  HostsInv'
<1>0. TypeInv
  BY DEF BaseInv
<1>1. CASE Work
  BY <1>0, <1>1, WorkRoutes, WorkSteps DEF HostsInv
<1>2. CASE Watch
  BY <1>0, <1>2, WatchCopies DEF HostsInv
<1>3. CASE Environment
  <2>1. cache' = cache
    BY <1>0, <1>3, EnvironmentEffect
  <2>2. store'.route = store.route => HostsInv'
    BY <2>1 DEF HostsInv
  <2>3. ASSUME NEW r \in Routes, RouteEdited(r) PROVE HostsInv'
    BY <2>1, <2>3 DEF RouteEdited, RouteBecomes, HostsInv
  <2>4. \A p \in Policies : PolicyEdited(p) => store'.route = store.route
    BY DEF PolicyEdited, PolicyBecomes
  <2>5. \A g \in Gateways : GatewayEdited(g) => store'.route = store.route
    BY DEF GatewayEdited, GatewayBecomes
  <2>6. LimitadorEdited => store'.route = store.route
    BY DEF LimitadorEdited, LimitadorBecomes
  <2> QED BY <1>0, <1>3, <2>2, <2>3, <2>4, <2>5, <2>6, EnvironmentEffect
<1>4. ASSUME NEW p \in Policies, Start(p) PROVE HostsInv'
  BY <1>4, StartEffect DEF HostsInv
<1>5. CASE Crash \/ UNCHANGED vars
  BY <1>5 DEF Crash, vars, HostsInv
<1> QED BY <1>1, <1>2, <1>3, <1>4, <1>5 DEF Next

\* The policy that is applied has a share in what is computed for a gateway.
LEMMA ShareComputed ==
    ASSUME BaseInv, CopiesInv, MarkInv, HostsInv, {} \notin HostLists,
           wk.mode = "apply", wk.pc \in MidStages,
           NEW R, wk.p \in R, ConfigOK(cache, R), NEW gw
    PROVE  wk.p \in Named(GatewayConfig(cache, gw, R))
<1> DEFINE t == cache.policy[wk.p].target
<1>1. cache.policy[wk.p].live
  BY DEF ConfigOK
<1>2. t = wk.rlp.target /\ wk.rlp.target \in Lockable
  BY <1>1, CopiesAgree DEF MidStages, BaseInv, JobInv
<1>3. CASE t \in Routes
  <2>1. FetchValidHTTPRoute(cache, t)
    BY <1>3 DEF ConfigOK, RoutePolicies
  <2>2. cache.route[t].hosts # {}
    BY <1>3, <2>1 DEF FetchValidHTTPRoute, HostsInv
  <2> QED BY <1>3, <2>2, NamedInConfig
<1>4. CASE t \in Gateways
  BY <1>4, NamedInConfig
<1> QED BY <1>2, <1>3, <1>4 DEF Lockable

LEMMA WorkPlacedInv ==
    ASSUME BaseInv, CopiesInv, MarkInv, HostsInv, PlacedInv, Work,
           Lagging \cap {"limitador", "plugin"} = {}, {} \notin HostLists
    PROVE  PlacedInv'
<1>0. /\ TypeInv /\ WorkStep /\ wk.pc # "idle" /\ wk.p \in Policies
      /\ cache.limitador = store.limitador /\ cache.plugin = store.plugin
      /\ wk.new \subseteq Gateways /\ wk.left \cap wk.new = {}
      /\ wk.mode \in {"apply", "finalize"}
  BY WorkSteps, SettledKinds, TypeParts DEF BaseInv, Worker, WorkerInv
<1>1. CASE wk'.pc \notin {"filter", "plugin", "refs"}
  BY <1>1 DEF PlacedInv
<1>2. CASE wk'.mode # "apply"
  BY <1>2 DEF PlacedInv
<1>3. Fails \/ GivesUp \/ Ends => wk'.pc \notin {"filter", "plugin", "refs"}
  BY IdleType DEF Fails, Reports, GivesUp, Ends
<1>4. \A g \in wk.new : wk.p \in RLPRefsAfter(g)
  BY <1>0 DEF RLPRefsAfter
<1>5. CASE LimitsStep /\ wk.mode = "apply"
  <2>1. wk.pc = "limits" /\ wk.pc \in MidStages
    BY <1>5 DEF LimitsStep, MidStages
  <2>2. SUFFICES ASSUME Enters(Following) PROVE PlacedInv'
    BY <1>1, <1>3, <1>5 DEF LimitsStep
  <2>3. wk'.pc = "filter" /\ wk'.new = wk.new /\ wk'.p = wk.p
    BY <1>5, <2>1, <2>2 DEF Enters, MovesTo, Kept, SameJob, SameDiff, Following
  <2>4. LimitsComputed /\ store'.limitador.limits = LimitsAfter
    <3>1. [cache.limitador EXCEPT !.limits = LimitsAfter].limits = LimitsAfter
      BY <1>0, TypeParts, GetTypes DEF Limitador
    <3>2. ~Fails
      BY <1>3, <2>3
    <3> QED BY <1>0, <1>5, <3>1, <3>2 DEF LimitsStep, LimitadorBecomes
  <2>5. ASSUME NEW g \in wk.new PROVE wk.p \in Named(store'.limitador.limits[g])
    <3>1. LimitsAfter[g] = GatewayConfig(cache, wk.gws[g], RLPRefsAfter(g))
      BY <1>0 DEF LimitsAfter
    <3>2. ConfigOK(cache, RLPRefsAfter(g))
      BY <2>4 DEF LimitsComputed
    <3>3. wk.p \in Named(GatewayConfig(cache, wk.gws[g], RLPRefsAfter(g)))
      BY <1>4, <1>5, <2>1, <3>2, ShareComputed
    <3> QED BY <2>4, <3>1, <3>3
  <2> QED BY <2>3, <2>5 DEF PlacedInv
<1>6. CASE FilterStep /\ wk.mode = "apply"
  <2>1. PICK g \in wk.todo : (Visits(g) \/ Fails) /\ (store' = store \/ FilterBecomes(g, RLPRefsAfter(g) # {}))
    BY <1>6 DEF FilterStep
  <2>2. store'.limitador = store.limitador /\ wk.pc = "filter"
    BY <1>6, <2>1 DEF FilterBecomes, FilterStep
  <2> QED BY <1>1, <1>3, <1>6, <2>1, <2>2 DEF Visits, MovesTo, Kept, SameJob, SameDiff, PlacedInv
<1>7. CASE PluginStep /\ wk.mode = "apply"
  <2>1. wk.pc = "plugin" /\ wk.pc \in MidStages
    BY <1>7 DEF PluginStep, MidStages
  <2>2. PICK g \in wk.todo :
          \/ Fails
          \/ /\ Visits(g) /\ ConfigOK(cache, RLPRefsAfter(g))
             /\ \/ store.plugin[g] = PluginAfter(g) /\ store' = store
                \/ PluginBecomes(g, PluginAfter(g))
    BY <1>0, <1>7 DEF PluginStep
  <2>3. SUFFICES ASSUME /\ Visits(g) /\ ConfigOK(cache, RLPRefsAfter(g))
                        /\ \/ store.plugin[g] = PluginAfter(g) /\ store' = store
                           \/ PluginBecomes(g, PluginAfter(g))
                 PROVE  PlacedInv'
    BY <1>1, <1>3, <2>2
  <2>4. /\ wk'.pc = "plugin" /\ wk'.new = wk.new /\ wk'.p = wk.p /\ wk.todo \ {g} \subseteq wk'.todo
    BY <2>1, <2>3, PassesTodo DEF Visits, MovesTo, Kept, SameJob, SameDiff
  <2>5. /\ store'.limitador = store.limitador /\ store'.plugin[g] = PluginAfter(g)
        /\ \A h \in Gateways \ {g} : store'.plugin[h] = store.plugin[h]
    BY <2>3 DEF PluginBecomes
  <2>6. g \in wk.new => wk.p \in Named(PluginAfter(g).conf)
    <3> SUFFICES ASSUME g \in wk.new PROVE wk.p \in Named(PluginAfter(g).conf)
      OBVIOUS
    <3>1. wk.p \in RLPRefsAfter(g)
      BY <1>4
    <3>2. wk.p \in Named(GatewayConfig(cache, wk.gws[g], RLPRefsAfter(g)))
      BY <1>7, <2>1, <2>3, <3>1, ShareComputed
    <3> QED BY <3>1, <3>2 DEF PluginAfter
  <2> QED BY <1>0, <1>7, <2>1, <2>4, <2>5, <2>6 DEF PlacedInv
<1>8. CASE RefsStep /\ wk.mode = "apply"
  <2>1. PICK g \in wk.todo :
          /\ Visits(g) \/ Annotates(g) \/ Fails
          /\ store' = store \/ GatewayBecomes(g, [wk.gws[g] EXCEPT !.refs = RLPRefsAfter(g)])
    BY <1>8 DEF RefsStep
  <2>2. store'.limitador = store.limitador /\ store'.plugin = store.plugin /\ wk.pc = "refs"
    BY <1>8, <2>1 DEF GatewayBecomes, RefsStep
  <2>3. CASE Visits(g) \/ Annotates(g)
    <3>1. wk'.pc = wk.pc /\ wk'.new = wk.new /\ wk'.p = wk.p
      BY <2>3 DEF Visits, Annotates, MovesTo, Kept, SameJob, SameDiff
    <3> QED BY <1>8, <2>2, <3>1 DEF PlacedInv
  <2> QED BY <1>1, <1>3, <2>1, <2>3
<1>9. CASE LoopStep /\ wk.mode = "apply"
  <2>1. /\ wk.pc \in {"filter", "plugin", "refs"} /\ wk.todo = {} /\ store' = store
        /\ wk'.new = wk.new /\ wk'.p = wk.p /\ wk'.pc = Following /\ wk'.todo = Enter(Following).todo
    BY <1>9 DEF LoopStep, Enters, MovesTo, Kept, SameJob, SameDiff
  <2>2. CASE wk.pc = "filter"
    <3>1. wk'.pc = "plugin" /\ Following = "plugin"
      BY <1>9, <2>1, <2>2 DEF Following
    <3>2. wk'.todo = wk.left \cup wk.same \cup wk.new
      BY <1>0, <2>1, <3>1, TypeParts DEF Enter, Worker
    <3> QED BY <1>9, <2>1, <2>2, <3>1, <3>2 DEF PlacedInv
  <2>3. CASE wk.pc = "plugin"
    <3>1. wk'.pc = "refs"
      BY <1>9, <2>1, <2>3 DEF Following
    <3> QED BY <1>9, <2>1, <2>3, <3>1 DEF PlacedInv
  <2>4. CASE wk.pc = "refs"
    BY <1>1, <1>9, <2>1, <2>4 DEF Following
  <2> QED BY <2>1, <2>2, <2>3, <2>4
<1>10. CASE wk.mode = "apply" /\ ~(LimitsStep \/ FilterStep \/ PluginStep \/ RefsStep \/ LoopStep)
  <2>1. AddFinalizerStep \/ BackRefStep \/ DiffStep \/ StatusStep
    BY <1>0, <1>10 DEF WorkStep, FinDiffStep, FinBackRefStep, FinRemoveStep, BaseInv, WorkerInv
  <2> QED BY <1>1, <1>3, <2>1
          DEF AddFinalizerStep, Armed, BackRefStep, MovesTo, DiffStep, Sorted, StatusStep
<1>11. CASE wk.mode = "finalize"
  <2>1. wk' = Idle \/ wk'.mode = wk.mode
    BY WorkJob DEF BaseInv, SameJob, Armed
  <2> QED BY <1>1, <1>2, <1>11, <2>1, IdleType
<1> QED BY <1>0, <1>5, <1>6, <1>7, <1>8, <1>9, <1>10, <1>11

LEMMA NextPlacedInv ==
    ASSUME BaseInv, CopiesInv, MarkInv, HostsInv, PlacedInv, [Next]_vars,
           Lagging \cap {"limitador", "plugin"} = {}, "limitador" \notin Edits, {} \notin HostLists
    PROVE  PlacedInv'
<1>0. TypeInv
  BY DEF BaseInv
<1>1. CASE Environment
  <2>1. wk' = wk
    BY <1>0, <1>1, EnvironmentEffect
  <2>2. store'.limitador = store.limitador /\ store'.plugin = store.plugin
    BY <1>0, <1>1, EnvironmentEffect
       DEF PolicyEdited, RouteEdited, GatewayEdited, LimitadorEdited,
           PolicyBecomes, RouteBecomes, GatewayBecomes
  <2> QED BY <2>1, <2>2 DEF PlacedInv
<1>2. CASE Watch
  BY <1>0, <1>2, WatchCopies DEF PlacedInv
<1>3. ASSUME NEW p \in Policies, Start(p) PROVE PlacedInv'
  BY <1>3, StartEffect, IdleType DEF PlacedInv, Begun
<1>4. CASE Crash \/ UNCHANGED vars
  BY <1>4, IdleType DEF Crash, vars, PlacedInv
<1> QED BY <1>1, <1>2, <1>3, <1>4, WorkPlacedInv DEF Next

LEMMA AnnotatesLast ==
    ASSUME BaseInv, PlacedInv, [Next]_vars
    PROVE  AnnotationLast
<1>0. TypeInv
  BY DEF BaseInv
<1>1. (\A g \in Gateways : store'.gateway[g].refs \subseteq store.gateway[g].refs) => AnnotationLast
  BY DEF AnnotationLast
<1>2. store'.gateway = store.gateway => AnnotationLast
  BY <1>1
<1>3. CASE RefsStep
  <2>1. PICK g \in wk.todo :
          \/ store' = store
          \/ /\ store.gateway[g] = wk.gws[g]
             /\ GatewayBecomes(g, [wk.gws[g] EXCEPT !.refs = RLPRefsAfter(g)])
    BY <1>3 DEF RefsStep
  <2>2. /\ g \in Gateways /\ wk.gws[g] \in Gateway /\ wk.pc = "refs" /\ g \in wk.left \cup wk.new
        /\ wk.mode \in {"apply", "finalize"}
    BY <1>0, <1>3, TypeParts DEF RefsStep, BaseInv, FilterInv, Worker
  <2>3. SUFFICES ASSUME store.gateway[g] = wk.gws[g],
                        GatewayBecomes(g, [wk.gws[g] EXCEPT !.refs = RLPRefsAfter(g)])
                 PROVE  AnnotationLast
    BY <1>2, <2>1
  <2>4. store'.gateway[g].refs = RLPRefsAfter(g)
    BY <2>2, <2>3 DEF GatewayBecomes, Gateway
  <2>5. CASE g \in wk.left
    <3>1. RLPRefsAfter(g) \subseteq store.gateway[g].refs
      BY <2>3, <2>5 DEF RLPRefsAfter
    <3> QED BY <1>1, <2>3, <2>4, <3>1 DEF GatewayBecomes
  <2>6. CASE g \in wk.new /\ g \notin wk.left
    <3>1. wk.mode = "apply"
      BY <2>2, <2>6 DEF BaseInv, WorkerInv
    <3>2. Enforced(wk.p, g)
      BY <2>2, <2>6, <3>1 DEF Enforced, PlacedInv, BaseInv, FilterInv
    <3>3. RLPRefsAfter(g) = store.gateway[g].refs \cup {wk.p}
      BY <2>3, <2>6 DEF RLPRefsAfter
    <3>4. \A h \in Gateways : \A p \in store'.gateway[h].refs \ store.gateway[h].refs : p = wk.p /\ h = g
      <4>1. \A h \in Gateways \ {g} : store'.gateway[h].refs = store.gateway[h].refs
        BY <2>3 DEF GatewayBecomes
      <4> QED BY <2>4, <3>3, <4>1
    <3> QED BY <3>2, <3>4 DEF AnnotationLast
  <2> QED BY <2>2, <2>5, <2>6
<1>4. CASE Work /\ ~RefsStep
  <2>1. WorkStep
    BY <1>0, <1>4, WorkSteps
  <2>2. CASE BackRefStep \/ FinBackRefStep
    <3>1. ASSUME NEW t, NEW p, OwnerWritten(t, p)
          PROVE  \A g \in Gateways : store'.gateway[g].refs = store.gateway[g].refs
      <4>1. \A g \in Gateways : store.gateway[g] \in Gateway
        BY <1>0, TypeParts, GetTypes
      <4>2. \A g \in Gateways : [store.gateway[g] EXCEPT !.backref = p].refs = store.gateway[g].refs
        BY <4>1 DEF Gateway
      <4> QED BY <3>1, <4>2 DEF OwnerWritten, RouteBecomes, GatewayBecomes
    <3> QED BY <1>1, <2>2, <3>1 DEF BackRefStep, FinBackRefStep
  <2>3. CASE AddFinalizerStep \/ StatusStep \/ FinRemoveStep
    BY <1>2, <2>3 DEF AddFinalizerStep, StatusStep, FinRemoveStep, PolicyBecomes
  <2>4. CASE DiffStep \/ LimitsStep \/ FilterStep
    BY <1>2, <2>4 DEF DiffStep, LimitsStep, FilterStep, LimitadorBecomes, FilterBecomes
  <2>5. CASE PluginStep \/ LoopStep \/ FinDiffStep
    BY <1>2, <2>5 DEF PluginStep, LoopStep, FinDiffStep, PluginBecomes
  <2> QED BY <1>4, <2>1, <2>2, <2>3, <2>4, <2>5 DEF WorkStep
<1>5. CASE Environment
  <2>1. ASSUME NEW g \in Gateways, GatewayEdited(g) PROVE AnnotationLast
    BY <1>1, <2>1 DEF GatewayEdited, GatewayBecomes
  <2>2. \/ \E p \in Policies : PolicyEdited(p)
        \/ \E r \in Routes : RouteEdited(r)
        \/ LimitadorEdited
        => store'.gateway = store.gateway
    BY DEF PolicyEdited, RouteEdited, LimitadorEdited, PolicyBecomes, RouteBecomes, LimitadorBecomes
  <2> QED BY <1>0, <1>2, <1>5, <2>1, <2>2, EnvironmentEffect
<1>6. ASSUME NEW p \in Policies, Start(p) PROVE AnnotationLast
  BY <1>2, <1>6, StartEffect
<1>7. CASE Watch
  BY <1>0, <1>2, <1>7, WatchCopies
<1>8. CASE Crash \/ UNCHANGED vars
  BY <1>2, <1>8 DEF Crash, vars
<1> QED BY <1>3, <1>4, <1>5, <1>6, <1>7, <1>8 DEF Next

\* However old the copies of policies, routes and gateways are, whichever calls
\* fail and whenever the process crashes: when Limitador and the WasmPlugins are
\* read as they are and only the controller writes them, policies are not
\* retargeted nor deleted before they have the finalizer, and routes list
\* hostnames, a policy enters a gateway's annotation only when the gateway's
\* limits, EnvoyFilter and WasmPlugin already speak of it.
THEOREM AnnotationComesLast ==
    ASSUME Lagging \cap {"limitador", "plugin"} = {},
           Edits \cap {"retarget", "deleteUnmarked", "limitador"} = {},
           {} \notin HostLists
    PROVE  Spec => AnnotationIsLast
<1>0. Guarded /\ "limitador" \notin Edits
  BY DEF Guarded
<1>1. Init => HostsInv /\ PlacedInv
  <2> SUFFICES ASSUME Init PROVE HostsInv /\ PlacedInv
    OBVIOUS
  <2>1. wk.pc = "idle"
    BY InitFacts, IdleType
  <2> QED BY <2>1, InitFacts DEF HostsInv, PlacedInv
<1>2. BaseInv /\ CopiesInv /\ MarkInv /\ HostsInv /\ PlacedInv /\ [Next]_vars => (HostsInv /\ PlacedInv)'
  BY <1>0, NextHostsInv, NextPlacedInv
<1>3. BaseInv /\ PlacedInv /\ [Next]_vars => [AnnotationLast]_vars
  BY AnnotatesLast
<1>4. Spec => [](BaseInv /\ CopiesInv /\ MarkInv)
  BY <1>0, CopiesInvariant
<1> QED BY <1>1, <1>2, <1>3, <1>4, PTL DEF Spec, AnnotationIsLast

-----------------------------------------------------------------------------
(* The finalizer covers every trace.                                       *)

\* The edits under which, besides, targets stay and routes keep their parents.
Rooted == Guarded /\ Edits \cap {"route", "gateway", "parents"} = {}

\* The stages between the gateway diff and the back reference or the status.
ConfigStages == {"limits", "filter", "plugin", "refs"}

\* The policies that something about gateway g speaks of.
Traces(g) ==
    store.gateway[g].refs \cup Named(store.plugin[g].conf) \cup Named(store.limitador.limits[g])

\* The finalization of p will be run, and visit g.
Covered(p, g) ==
    Holds(store.policy[p]) /\ g \in TargetedGatewayKeys(store, store.policy[p].target)

TargetsInv ==
    /\ \A u \in Lockable : TargetLive(store, u)
    /\ \A g \in Gateways : store.gateway[g].live
    /\ store.limitador.status = "absent" => store.limitador.limits = NoLimits

OwnedInv ==
    \A p \in Policies, u \in Lockable :
        BackRef(store, u) = p => Holds(store.policy[p]) /\ store.policy[p].target = u

CoveredInv == \A p \in Policies, g \in Gateways : p \in Traces(g) => Covered(p, g)

\* The first of the two copies of g has been written and the second is to come.
Superseded(g) ==
    /\ wk.pc = "refs" /\ wk.mode = "finalize"
    /\ g \in wk.left /\ g \in wk.todo \ wk.again
    /\ wk.p \in wk.gws[g].refs
    /\ store.gateway[g].refs = wk.gws[g].refs \ {wk.p}

\* The diff at work is the diff of the stored objects.
DiffInv ==
    wk.pc \in ConfigStages =>
        /\ \A g \in Gateways : wk.gws[g].refs = store.gateway[g].refs \/ Superseded(g)
        /\ wk.mode = "apply" => wk.same \cup wk.new \subseteq TargetedGatewayKeys(store, wk.rlp.target)
        /\ wk.mode = "finalize" => wk.left = TargetedGatewayKeys(store, wk.rlp.target)

\* What the stages of a finalization have taken away.
SweptInv ==
    wk.mode = "finalize" =>
        /\ wk.pc = "refs" => \A g \in wk.left \ wk.todo : wk.p \notin store.gateway[g].refs
        /\ wk.pc \in {"plugin", "filter", "limits", "finBackRef", "finRemove"} =>
              \A g \in Gateways : wk.p \notin store.gateway[g].refs
        /\ wk.pc = "plugin" => \A g \in wk.left \ wk.todo : wk.p \notin Named(store.plugin[g].conf)
        /\ wk.pc \in {"filter", "limits", "finBackRef", "finRemove"} =>
              \A g \in Gateways : wk.p \notin Named(store.plugin[g].conf)
        /\ wk.pc \in {"finBackRef", "finRemove"} =>
              \A g \in Gateways : wk.p \notin Named(store.limitador.limits[g])
        /\ wk.pc = "finRemove" => \A u \in Lockable : BackRef(store, u) # wk.p

TraceInv ==
    /\ BaseInv /\ CopiesInv /\ MarkInv
    /\ TargetsInv /\ OwnedInv /\ CoveredInv /\ DiffInv /\ SweptInv

\* The configuration of a gateway comes from the policies it is computed for.
LEMMA ConfigNames ==
    ASSUME NEW c, NEW gw, NEW R
    PROVE  Named(GatewayConfig(c, gw, R)) \subseteq R
<1>1. \A q, hs : \A e \in Share(c, q, hs) : e[2] = q
  BY DEF Share
<1>2. GatewayPolicies(c, R) \subseteq R /\ RoutePolicies(c, R) \subseteq R
  BY DEF GatewayPolicies, RoutePolicies
<1>3. ASSUME NEW e \in GatewayShare(c, gw, R) PROVE e[2] \in R
  <2>1. PICK q \in GatewayPolicies(c, R) : e \in Share(c, q, OrWildcard(gw.hosts))
    BY <1>3 DEF GatewayShare
  <2> QED BY <1>1, <1>2, <2>1
<1>4. ASSUME NEW e \in RouteShare(c, R) PROVE e[2] \in R
  <2>1. PICK q \in RoutePolicies(c, R) :
          e \in UNION {Share(c, x, c.route[c.policy[q].target].hosts) : x \in {q} \cup GatewayPolicies(c, R)}
    BY <1>4, Zenon DEF RouteShare
  <2>2. PICK x \in {q} \cup GatewayPolicies(c, R) : e \in Share(c, x, c.route[c.policy[q].target].hosts)
    BY <2>1
  <2> QED BY <1>1, <1>2, <2>2
<1> QED BY <1>3, <1>4 DEF GatewayConfig, Named

LEMMA NoNames == Named({}) = {}
BY DEF Named

\* Steps that keep what policies hold and which gateways targets lead to.
HoldersKept ==
    \A p \in Policies :
        Holds(store.policy[p]) =>
            Holds(store'.policy[p]) /\ store'.policy[p].target = store.policy[p].target

LinksKept ==
    /\ \A u \in Lockable : TargetLive(store', u) = TargetLive(store, u)
    /\ \A g \in Gateways : store'.gateway[g].live = store.gateway[g].live
    /\ \A t : TargetedGatewayKeys(store', t) = TargetedGatewayKeys(store, t)

LEMMA CoveredKept ==
    ASSUME LinksKept, NEW p, NEW g, Covered(p, g),
           Holds(store'.policy[p]), store'.policy[p].target = store.policy[p].target
    PROVE  Covered(p, g)'
BY DEF LinksKept, Covered

LEMMA WorkLinks ==
    ASSUME BaseInv, Work
    PROVE  LinksKept
<1>0. TypeInv /\ WorkStep
  BY WorkSteps DEF BaseInv
<1>1. \A t : TargetedGatewayKeys(store', t) = TargetedGatewayKeys(store, t)
  BY WorkRoutes DEF TargetedGatewayKeys
<1>2. \A g \in Gateways : store'.gateway[g].live = store.gateway[g].live
  <2>0. \A g \in Gateways : store.gateway[g] \in Gateway
    BY <1>0, TypeParts, GetTypes
  <2>1. ASSUME NEW t, NEW p, OwnerWritten(t, p)
        PROVE  \A g \in Gateways : store'.gateway[g].live = store.gateway[g].live
    <3>1. \A g \in Gateways : [store.gateway[g] EXCEPT !.backref = p].live = store.gateway[g].live
      BY <2>0 DEF Gateway
    <3> QED BY <2>1, <3>1 DEF OwnerWritten, RouteBecomes, GatewayBecomes
  <2>2. CASE BackRefStep \/ FinBackRefStep
    BY <2>1, <2>2 DEF BackRefStep, FinBackRefStep
  <2>3. CASE RefsStep
    <3>1. \A g \in Gateways : \A R : [store.gateway[g] EXCEPT !.refs = R].live = store.gateway[g].live
      BY <2>0 DEF Gateway
    <3>2. PICK g \in wk.todo :
            \/ store' = store
            \/ /\ store.gateway[g] = wk.gws[g]
               /\ GatewayBecomes(g, [wk.gws[g] EXCEPT !.refs = RLPRefsAfter(g)])
      BY <2>3 DEF RefsStep
    <3>3. g \in Gateways
      BY <1>0, TypeParts
    <3>4. CASE /\ store.gateway[g] = wk.gws[g]
               /\ GatewayBecomes(g, [wk.gws[g] EXCEPT !.refs = RLPRefsAfter(g)])
      <4>1. store'.gateway[g].live = store.gateway[g].live
        BY <3>1, <3>3, <3>4 DEF GatewayBecomes
      <4> QED BY <3>4, <4>1 DEF GatewayBecomes
    <3> QED BY <3>2, <3>4
  <2>4. CASE store'.gateway = store.gateway
    BY <2>4
  <2>5. CASE AddFinalizerStep \/ StatusStep \/ FinRemoveStep
    BY <2>4, <2>5 DEF AddFinalizerStep, StatusStep, FinRemoveStep, PolicyBecomes
  <2>6. CASE DiffStep \/ LimitsStep \/ FilterStep
    BY <2>4, <2>6 DEF DiffStep, LimitsStep, FilterStep, LimitadorBecomes, FilterBecomes
  <2>7. CASE PluginStep \/ LoopStep \/ FinDiffStep
    BY <2>4, <2>7 DEF PluginStep, LoopStep, FinDiffStep, PluginBecomes
  <2> QED BY <1>0, <2>2, <2>3, <2>5, <2>6, <2>7 DEF WorkStep
<1>3. \A u \in Lockable : TargetLive(store', u) = TargetLive(store, u)
  BY <1>2, WorkRoutes DEF TargetLive, Lockable
<1> QED BY <1>1, <1>2, <1>3 DEF LinksKept

\* Only what is applied is added to what is there.
LEMMA WorkTraces ==
    ASSUME BaseInv, DiffInv, Work, NEW p \in Policies, NEW g \in Gateways, p \in Traces(g)'
    PROVE  \/ p \in Traces(g)
           \/ /\ p = wk.p /\ wk.mode = "apply" /\ wk.pc \in ConfigStages
              /\ g \in wk.same \cup wk.new
<1> DEFINE Added == /\ p = wk.p /\ wk.mode = "apply" /\ wk.pc \in ConfigStages
                    /\ g \in wk.same \cup wk.new
           Good == p \in Traces(g) \/ Added
<1>0. TypeInv /\ WorkStep /\ wk.todo \subseteq Gateways /\ wk.mode \in {"apply", "finalize"}
  BY WorkSteps, TypeParts DEF BaseInv, Worker
<1>1. ASSUME store'.gateway[g].refs = store.gateway[g].refs,
             store'.plugin[g].conf = store.plugin[g].conf,
             store'.limitador.limits[g] = store.limitador.limits[g]
      PROVE  Good
  BY <1>1 DEF Traces
<1>2. ASSUME wk.pc \in ConfigStages, g \in wk.left \cup wk.same \cup wk.new, p \in RLPRefsAfter(g)
      PROVE  Good
  <2>1. wk.gws[g].refs = store.gateway[g].refs \/ Superseded(g)
    BY <1>2 DEF DiffInv
  <2>2. g \in wk.same \cup wk.new => wk.mode = "apply"
    BY <1>0 DEF BaseInv, WorkerInv
  <2> QED BY <1>2, <2>1, <2>2 DEF RLPRefsAfter, Traces, Superseded
<1>3. ASSUME wk.pc \in ConfigStages, g \in wk.left \cup wk.same \cup wk.new,
             p \in Named(GatewayConfig(cache, wk.gws[g], RLPRefsAfter(g)))
      PROVE  Good
  BY <1>2, <1>3, ConfigNames
<1>4. LimitsStep => Good
  <2> SUFFICES ASSUME LimitsStep PROVE Good
    OBVIOUS
  <2>1. store' = store \/ LimitadorBecomes([cache.limitador EXCEPT !.limits = LimitsAfter])
    BY DEF LimitsStep
  <2>2. CASE store' = store
    BY <1>1, <2>2
  <2>3. CASE LimitadorBecomes([cache.limitador EXCEPT !.limits = LimitsAfter])
    <3>1. [cache.limitador EXCEPT !.limits = LimitsAfter].limits = LimitsAfter
      BY <1>0, TypeParts, GetTypes DEF Limitador
    <3>2. /\ store'.gateway[g].refs = store.gateway[g].refs
          /\ store'.plugin[g].conf = store.plugin[g].conf
          /\ store'.limitador.limits[g] = LimitsAfter[g]
      BY <2>3, <3>1 DEF LimitadorBecomes
    <3>3. store.limitador = cache.limitador \/ store' = store
      BY DEF LimitsStep
    <3>4. CASE p \in Named(LimitsAfter[g])
      <4>1. CASE g \in wk.left
        BY <3>4, <4>1, NoNames DEF LimitsAfter
      <4>2. CASE g \in (wk.same \cup wk.new) \ wk.left
        <5>1. LimitsAfter[g] = GatewayConfig(cache, wk.gws[g], RLPRefsAfter(g))
          BY <4>2 DEF LimitsAfter
        <5> QED BY <1>3, <3>4, <4>2, <5>1 DEF LimitsStep, ConfigStages
      <4>3. CASE g \notin wk.left \cup wk.same \cup wk.new
        <5>1. LimitsAfter[g] = cache.limitador.limits[g]
          BY <4>3 DEF LimitsAfter
        <5> QED BY <1>1, <3>2, <3>3, <5>1
      <4> QED BY <4>1, <4>2, <4>3
    <3>5. CASE p \notin Named(LimitsAfter[g])
      BY <3>2, <3>5 DEF Traces
    <3> QED BY <3>4, <3>5
  <2> QED BY <2>1, <2>2, <2>3
<1>5. PluginStep => Good
  <2> SUFFICES ASSUME PluginStep PROVE Good
    OBVIOUS
  <2>1. PICK h \in wk.todo : store' = store \/ PluginBecomes(h, PluginAfter(h))
    BY DEF PluginStep
  <2>2. CASE store' = store \/ h # g
    <3>1. /\ store'.gateway[g].refs = store.gateway[g].refs
          /\ store'.plugin[g].conf = store.plugin[g].conf
          /\ store'.limitador.limits[g] = store.limitador.limits[g]
      BY <1>0, <2>1, <2>2 DEF PluginBecomes
    <3> QED BY <1>1, <3>1
  <2>3. CASE PluginBecomes(g, PluginAfter(g)) /\ h = g
    <3>1. /\ store'.gateway[g].refs = store.gateway[g].refs
          /\ store'.plugin[g].conf = PluginAfter(g).conf
          /\ store'.limitador.limits[g] = store.limitador.limits[g]
      BY <2>3 DEF PluginBecomes
    <3>2. wk.pc \in ConfigStages /\ g \in wk.left \cup wk.same \cup wk.new
      BY <2>3 DEF PluginStep, ConfigStages, BaseInv, WorkerInv
    <3>3. CASE p \in Named(PluginAfter(g).conf)
      <4>1. RLPRefsAfter(g) # {} /\ PluginAfter(g).conf = GatewayConfig(cache, wk.gws[g], RLPRefsAfter(g))
        BY <3>3, NoNames DEF PluginAfter, NoPlugin
      <4> QED BY <1>3, <3>2, <3>3, <4>1
    <3>4. CASE p \notin Named(PluginAfter(g).conf)
      BY <3>1, <3>4 DEF Traces
    <3> QED BY <3>3, <3>4
  <2> QED BY <2>1, <2>2, <2>3
<1>6. RefsStep => Good
  <2> SUFFICES ASSUME RefsStep PROVE Good
    OBVIOUS
  <2>1. PICK h \in wk.todo :
          store' = store \/ GatewayBecomes(h, [wk.gws[h] EXCEPT !.refs = RLPRefsAfter(h)])
    BY DEF RefsStep
  <2>2. CASE store' = store \/ h # g
    <3>1. /\ store'.gateway[g].refs = store.gateway[g].refs
          /\ store'.plugin[g].conf = store.plugin[g].conf
          /\ store'.limitador.limits[g] = store.limitador.limits[g]
      BY <1>0, <2>1, <2>2 DEF GatewayBecomes
    <3> QED BY <1>1, <3>1
  <2>3. CASE GatewayBecomes(g, [wk.gws[g] EXCEPT !.refs = RLPRefsAfter(g)]) /\ h = g
    <3>0. wk.gws[g] \in Gateway
      BY <1>0, TypeParts
    <3>1. /\ store'.gateway[g].refs = RLPRefsAfter(g)
          /\ store'.plugin[g].conf = store.plugin[g].conf
          /\ store'.limitador.limits[g] = store.limitador.limits[g]
      BY <2>3, <3>0 DEF GatewayBecomes, Gateway
    <3>2. wk.pc \in ConfigStages /\ g \in wk.left \cup wk.same \cup wk.new
      BY <2>3 DEF RefsStep, ConfigStages, BaseInv, WorkerInv
    <3> QED BY <1>2, <3>1, <3>2 DEF Traces
  <2> QED BY <2>1, <2>2, <2>3
<1>7. BackRefStep \/ FinBackRefStep => Good
  <2>1. ASSUME NEW t, NEW q, OwnerWritten(t, q) PROVE Good
    <3>1. \A h \in Gateways : [store.gateway[h] EXCEPT !.backref = q].refs = store.gateway[h].refs
      BY <1>0, TypeParts, GetTypes DEF Gateway
    <3>2. /\ store'.gateway[g].refs = store.gateway[g].refs
          /\ store'.plugin[g].conf = store.plugin[g].conf
          /\ store'.limitador.limits[g] = store.limitador.limits[g]
      BY <2>1, <3>1 DEF OwnerWritten, RouteBecomes, GatewayBecomes
    <3> QED BY <1>1, <3>2
  <2>2. store' = store => Good
    BY <1>1
  <2> HIDE DEF Good
  <2> QED BY <2>1, <2>2 DEF BackRefStep, FinBackRefStep
<1>8. /\ store'.gateway = store.gateway /\ store'.plugin = store.plugin
      /\ store'.limitador = store.limitador
      => Good
  BY <1>1
<1> HIDE DEF Good
<1>9. AddFinalizerStep \/ StatusStep \/ FinRemoveStep => Good
  BY <1>8 DEF AddFinalizerStep, StatusStep, FinRemoveStep, PolicyBecomes
<1>10. DiffStep \/ FilterStep \/ LoopStep \/ FinDiffStep => Good
  BY <1>8 DEF DiffStep, FilterStep, LoopStep, FinDiffStep, FilterBecomes
<1>11. Good
  BY <1>0, <1>4, <1>5, <1>6, <1>7, <1>9, <1>10 DEF WorkStep
<1> QED BY <1>11 DEF Good

\* What the environment leaves alone when targets stay where they are.
LEMMA EnvironmentKeeps ==
    ASSUME TypeInv, Environment, Rooted
    PROVE  /\ UNCHANGED wk
           /\ HoldersKept /\ LinksKept
           /\ \A u \in Lockable : BackRef(store', u) = BackRef(store, u)
           /\ \A g \in Gateways : store'.gateway[g].refs = store.gateway[g].refs
           /\ store'.plugin = store.plugin /\ store'.filter = store.filter
           /\ \/ store'.limitador.limits = NoLimits
              \/ store'.limitador = store.limitador
              \/ /\ store'.limitador.limits = store.limitador.limits
                 /\ store'.limitador.status # "absent"
<1>1. HoldersKept
  BY EnvironmentFollows, FollowsCopies DEF Rooted, AllFollow, HoldersKept
<1> DEFINE RoutesStay == \A r \in Routes : /\ store'.route[r].live = store.route[r].live
                                           /\ store'.route[r].backref = store.route[r].backref
                                           /\ store'.route[r].parents = store.route[r].parents
           GatewaysStay == \A g \in Gateways : /\ store'.gateway[g].live = store.gateway[g].live
                                               /\ store'.gateway[g].backref = store.gateway[g].backref
                                               /\ store'.gateway[g].refs = store.gateway[g].refs
           LimitsStay == \/ store'.limitador.limits = NoLimits
                         \/ store'.limitador = store.limitador
                         \/ /\ store'.limitador.limits = store.limitador.limits
                            /\ store'.limitador.status # "absent"
           OthersStay == store'.plugin = store.plugin /\ store'.filter = store.filter
           Good == RoutesStay /\ GatewaysStay /\ LimitsStay /\ OthersStay
<1>2. ASSUME NEW p \in Policies, PolicyEdited(p) PROVE Good
  BY <1>2 DEF PolicyEdited, PolicyBecomes
<1>3. ASSUME NEW r \in Routes, RouteEdited(r) PROVE Good
  BY <1>3 DEF RouteEdited, RouteBecomes, Rooted
<1>4. ASSUME NEW g \in Gateways, GatewayEdited(g) PROVE Good
  BY <1>4 DEF GatewayEdited, GatewayBecomes, Rooted
<1>5. ASSUME LimitadorEdited PROVE Good
  BY <1>5 DEF LimitadorEdited, LimitadorBecomes
<1> HIDE DEF Good
<1>6. Good /\ UNCHANGED wk
  BY <1>2, <1>3, <1>4, <1>5, EnvironmentEffect
<1>7. \A u \in Lockable : BackRef(store', u) = BackRef(store, u)
  BY <1>6 DEF Good, BackRef, Lockable
<1>8. LinksKept
  BY <1>6 DEF Good, LinksKept, TargetLive, Lockable, TargetedGatewayKeys
<1> QED BY <1>1, <1>6, <1>7, <1>8 DEF Good

\* What is there only gets less, and the policies that hold go on holding.
LEMMA CoverageKept ==
    ASSUME TargetsInv, OwnedInv, CoveredInv, HoldersKept, LinksKept,
           \A u \in Lockable, p \in Policies : BackRef(store', u) = p => BackRef(store, u) = p,
           \A g \in Gateways : Traces(g)' \subseteq Traces(g),
           store'.limitador.status = "absent" => store'.limitador.limits = NoLimits
    PROVE  TargetsInv' /\ OwnedInv' /\ CoveredInv'
<1>1. TargetsInv'
  BY DEF TargetsInv, LinksKept
<1>2. OwnedInv'
  BY DEF OwnedInv, HoldersKept
<1>3. CoveredInv'
  BY CoveredKept DEF CoveredInv, HoldersKept, Covered
<1> QED BY <1>1, <1>2, <1>3

LEMMA WorkHolders ==
    ASSUME BaseInv, CopiesInv, Work
    PROVE  HoldersKept \/ PolicyRemoved
<1>1. CASE AllFollow
  BY <1>1, FollowsCopies DEF AllFollow, HoldersKept
<1>2. CASE FinalizerAdded
  <2>1. wk.p \in Policies /\ wk.rlp \in Policy /\ wk.rlp.live
    BY WorkSteps, TypeParts DEF BaseInv, JobInv
  <2> DEFINE x == [wk.rlp EXCEPT !.finalizer = TRUE]
  <2>2. x.live /\ x.finalizer /\ x.target = wk.rlp.target
    BY <2>1 DEF Policy
  <2>3. store'.policy[wk.p] = x /\ store.policy[wk.p] = wk.rlp
    BY <1>2 DEF FinalizerAdded, PolicyBecomes
  <2>4. \A q \in Policies \ {wk.p} : store'.policy[q] = store.policy[q]
    BY <1>2 DEF FinalizerAdded, PolicyBecomes
  <2> HIDE DEF x
  <2> QED BY <2>2, <2>3, <2>4 DEF HoldersKept, Holds
<1> QED BY <1>1, <1>2, WorkPolicies

LEMMA WorkCoveredInv ==
    ASSUME TraceInv, Work
    PROVE  TargetsInv' /\ OwnedInv' /\ CoveredInv'
<1>0. /\ BaseInv /\ TypeInv /\ WorkStep /\ wk.pc # "idle" /\ wk.p \in Policies
      /\ wk.mode \in {"apply", "finalize"} /\ LinksKept
  BY WorkSteps, WorkLinks, TypeParts DEF BaseInv, Worker, TraceInv
<1>1. store'.limitador.status = "absent" => store'.limitador.limits = NoLimits
  <2>1. CASE store'.limitador = store.limitador
    BY <2>1 DEF TraceInv, TargetsInv
  <2>2. CASE LimitsStep
    <3>1. [cache.limitador EXCEPT !.limits = LimitsAfter].status = cache.limitador.status
      BY <1>0, TypeParts, GetTypes DEF Limitador
    <3> QED BY <2>1, <2>2, <3>1 DEF LimitsStep, LimitadorBecomes
  <2>3. CASE AddFinalizerStep \/ StatusStep \/ FinRemoveStep
    BY <2>1, <2>3 DEF AddFinalizerStep, StatusStep, FinRemoveStep, PolicyBecomes
  <2>4. CASE BackRefStep \/ FinBackRefStep
    BY <2>1, <2>4 DEF BackRefStep, FinBackRefStep, OwnerWritten, RouteBecomes, GatewayBecomes
  <2>5. CASE DiffStep \/ FilterStep \/ LoopStep
    BY <2>1, <2>5 DEF DiffStep, LoopStep, FilterStep, FilterBecomes
  <2>6. CASE PluginStep \/ RefsStep \/ FinDiffStep
    BY <2>1, <2>6 DEF PluginStep, RefsStep, FinDiffStep, PluginBecomes, GatewayBecomes
  <2> QED BY <1>0, <2>2, <2>3, <2>4, <2>5, <2>6 DEF WorkStep
<1>2. CASE PolicyRemoved
  <2>1. wk.pc = "finRemove" /\ wk.mode = "finalize"
    BY <1>2 DEF PolicyRemoved, BaseInv, WorkerInv, TraceInv
  <2>2. /\ \A u \in Lockable : BackRef(store', u) = BackRef(store, u)
        /\ \A g \in Gateways : Traces(g)' = Traces(g)
        /\ \A q \in Policies \ {wk.p} : store'.policy[q] = store.policy[q]
    BY <1>2 DEF PolicyRemoved, PolicyBecomes, BackRef, Traces
  <2>3. /\ \A u \in Lockable : BackRef(store, u) # wk.p
        /\ \A g \in Gateways : wk.p \notin Traces(g)
    BY <2>1 DEF TraceInv, SweptInv, Traces
  <2>4. OwnedInv'
    BY <2>2, <2>3 DEF TraceInv, OwnedInv
  <2>5. CoveredInv'
    BY <1>0, <2>2, <2>3, CoveredKept DEF TraceInv, CoveredInv, Covered
  <2> QED BY <1>0, <1>1, <2>4, <2>5 DEF TraceInv, TargetsInv, LinksKept
<1>3. CASE HoldersKept
  <2>1. TargetsInv'
    BY <1>0, <1>1 DEF TraceInv, TargetsInv, LinksKept
  <2>2. OwnedInv'
    <3>1. (\A u \in Lockable, p \in Policies : BackRef(store', u) = p => BackRef(store, u) = p) => OwnedInv'
      BY <1>3 DEF TraceInv, OwnedInv, HoldersKept
    <3>2. CASE OwnersKept
      BY <3>1, <3>2 DEF OwnersKept
    <3>3. ASSUME NEW t \in Lockable, Releases(t) PROVE OwnedInv'
      BY <3>1, <3>3, ClusterAssumption DEF Releases, OwnerBecomes
    <3>4. ASSUME NEW t \in Lockable, Claims(t) PROVE OwnedInv'
      <4>1. wk.mode = "apply" /\ t = wk.rlp.target
        BY <1>0, <3>4 DEF Claims, BaseInv, WorkerInv
      <4>2. wk.pc # "addFinalizer"
        <5> SUFFICES ASSUME wk.pc = "addFinalizer" PROVE FALSE
          OBVIOUS
        <5>1. AddFinalizerStep
          BY <1>0 DEF WorkStep, BackRefStep, DiffStep, LimitsStep, FilterStep, PluginStep, RefsStep,
                      LoopStep, StatusStep, FinDiffStep, FinBackRefStep, FinRemoveStep
        <5>2. store'.route = store.route /\ store'.gateway = store.gateway
          BY <5>1 DEF AddFinalizerStep, PolicyBecomes
        <5>3. BackRef(store', t) = BackRef(store, t)
          BY <5>2 DEF BackRef
        <5> QED BY <1>0, <3>4, <5>3, ClusterAssumption DEF Claims, OwnerBecomes
      <4>3. Holds(store.policy[wk.p]) /\ store.policy[wk.p].target = t
        BY <1>0, <4>1, <4>2, CopiesAgree DEF TraceInv
      <4>4. Holds(store'.policy[wk.p]) /\ store'.policy[wk.p].target = t
        BY <1>0, <1>3, <4>3 DEF HoldersKept
      <4> QED BY <1>3, <3>4, <4>4 DEF Claims, OwnerBecomes, TraceInv, OwnedInv, HoldersKept
    <3> QED BY <1>0, <3>2, <3>3, <3>4, WorkOwners
  <2>3. CoveredInv'
    <3> SUFFICES ASSUME NEW p \in Policies, NEW g \in Gateways, p \in Traces(g)' PROVE Covered(p, g)'
      BY DEF CoveredInv
    <3>1. CASE p \in Traces(g)
      <4>1. Covered(p, g)
        BY <3>1 DEF TraceInv, CoveredInv
      <4> QED BY <1>0, <1>3, <4>1, CoveredKept DEF HoldersKept, Covered
    <3>2. CASE /\ p = wk.p /\ wk.mode = "apply" /\ wk.pc \in ConfigStages
               /\ g \in wk.same \cup wk.new
      <4>1. Holds(store.policy[p]) /\ store.policy[p].target = wk.rlp.target
        BY <1>0, <3>2, CopiesAgree DEF TraceInv, ConfigStages
      <4>2. g \in TargetedGatewayKeys(store, wk.rlp.target)
        BY <3>2 DEF TraceInv, DiffInv
      <4>3. Covered(p, g)
        BY <4>1, <4>2 DEF Covered
      <4> QED BY <1>0, <1>3, <4>1, <4>3, CoveredKept DEF HoldersKept
    <3> QED BY <3>1, <3>2, WorkTraces DEF TraceInv
  <2> QED BY <2>1, <2>2, <2>3
<1> QED BY <1>0, <1>2, <1>3, WorkHolders DEF TraceInv

LEMMA WorkDiffInv ==
    ASSUME TraceInv, Work, Lagging \cap {"route", "gateway"} = {}
    PROVE  DiffInv'
<1>0. /\ BaseInv /\ TypeInv /\ WorkStep /\ wk.p \in Policies /\ wk.pc # "idle"
      /\ wk.mode \in {"apply", "finalize"} /\ LinksKept
      /\ cache.route = store.route /\ cache.gateway = store.gateway
      /\ wk.todo \subseteq Gateways
      /\ \A g \in Gateways : store.gateway[g].live
  BY WorkSteps, WorkLinks, SettledKinds, TypeParts DEF BaseInv, Worker, TraceInv, TargetsInv
<1>1. CASE wk'.pc \notin ConfigStages
  BY <1>1 DEF DiffInv
<1>2. Fails \/ GivesUp \/ Ends => wk'.pc \notin ConfigStages
  BY IdleType DEF Fails, Reports, GivesUp, Ends, ConfigStages
<1>3. ASSUME wk.pc \in ConfigStages, SameJob, SameDiff,
             \A g \in Gateways : wk'.gws[g].refs = store'.gateway[g].refs \/ Superseded(g)'
      PROVE  DiffInv'
  BY <1>0, <1>3 DEF TraceInv, DiffInv, SameJob, SameDiff, LinksKept
<1>4. ASSUME wk.pc \in ConfigStages, Kept, store'.gateway = store.gateway,
             wk.pc = "refs" => wk.todo = {}
      PROVE  DiffInv'
  <2>1. \A g \in Gateways : ~Superseded(g)
    BY <1>4 DEF Superseded
  <2> QED BY <1>3, <1>4, <2>1 DEF TraceInv, DiffInv, Kept
<1>5. CASE DiffStep
  <2>1. wk.mode = "apply" /\ store' = store
    BY <1>5 DEF DiffStep, BaseInv, WorkerInv, TraceInv
  <2>2. SUFFICES ASSUME Sorted(TargetedGatewayKeys(cache, wk.rlp.target)) PROVE DiffInv'
    BY <1>1, <1>2, <1>5 DEF DiffStep
  <2>3. TargetedGatewayKeys(cache, wk.rlp.target) = TargetedGatewayKeys(store, wk.rlp.target)
    BY <1>0 DEF TargetedGatewayKeys
  <2>4. wk'.same \cup wk'.new \subseteq TargetedGatewayKeys(store, wk.rlp.target)
    BY <2>2, <2>3 DEF Sorted, SameGateways, NewGateways
  <2> QED BY <1>0, <2>1, <2>2, <2>4 DEF Sorted, SameJob, DiffInv
<1>6. CASE FinDiffStep
  <2>1. wk.mode = "finalize" /\ store' = store
    BY <1>6 DEF FinDiffStep, BaseInv, WorkerInv, TraceInv
  <2>2. SUFFICES ASSUME SameJob, wk'.gws = cache.gateway, wk'.left = FinalGateways PROVE DiffInv'
    BY <1>1, <1>2, <1>6 DEF FinDiffStep
  <2>3. wk.rlp.target \in Routes => TargetLive(cache, wk.rlp.target)
    BY <1>0 DEF TraceInv, TargetsInv, TargetLive, Lockable
  <2>4. TargetedGatewayKeys(cache, wk.rlp.target) = TargetedGatewayKeys(store, wk.rlp.target)
    BY <1>0 DEF TargetedGatewayKeys
  <2>5. TargetedGatewayKeys(store, wk.rlp.target) \subseteq Gateways
    <3>1. \A r \in Routes : store.route[r] \in Route
      BY <1>0, TypeParts, GetTypes
    <3>2. \A r \in Routes : store.route[r].parents \subseteq Gateways
      BY <3>1 DEF Route
    <3> QED BY <3>2 DEF TargetedGatewayKeys
  <2>6. FinalGateways = TargetedGatewayKeys(store, wk.rlp.target)
    BY <1>0, <2>3, <2>4, <2>5 DEF FinalGateways
  <2> QED BY <1>0, <2>1, <2>2, <2>6 DEF SameJob, DiffInv
<1>7. CASE LimitsStep
  BY <1>1, <1>2, <1>4, <1>7 DEF LimitsStep, Enters, MovesTo, LimitadorBecomes, ConfigStages
<1>8. CASE FilterStep \/ PluginStep \/ LoopStep
  BY <1>1, <1>2, <1>4, <1>8
     DEF FilterStep, PluginStep, LoopStep, Enters, Visits, MovesTo, FilterBecomes, PluginBecomes, ConfigStages
<1>9. CASE RefsStep
  <2>0. wk.pc \in ConfigStages /\ \A g \in Gateways : wk.gws[g] \in Gateway
    BY <1>0, <1>9, TypeParts DEF RefsStep, ConfigStages
  <2>1. PICK g \in wk.todo :
          \/ Fails
          \/ RLPRefsAfter(g) = wk.gws[g].refs /\ store' = store /\ Visits(g)
          \/ /\ store.gateway[g] = wk.gws[g]
             /\ GatewayBecomes(g, [wk.gws[g] EXCEPT !.refs = RLPRefsAfter(g)]) /\ Annotates(g)
    BY <1>9 DEF RefsStep
  <2>2. g \in Gateways /\ wk.pc = "refs" /\ wk.todo \subseteq wk.left \cup wk.new
    BY <1>0, <1>9 DEF RefsStep, TraceInv, BaseInv, FilterInv
  <2>3. \A h \in Gateways : wk.gws[h].refs = store.gateway[h].refs \/ Superseded(h)
    BY <2>0 DEF TraceInv, DiffInv
  <2>4. ASSUME wk'.pc = "refs", SameJob, SameDiff, Passes(g),
               \A h \in Gateways \ {g} :
                  wk'.gws[h] = wk.gws[h] /\ store'.gateway[h] = store.gateway[h]
        PROVE  \A h \in Gateways \ {g} :
                  wk'.gws[h].refs = store'.gateway[h].refs \/ Superseded(h)'
    BY <2>3, <2>4 DEF Superseded, SameJob, SameDiff, Passes
  <2>5. CASE RLPRefsAfter(g) = wk.gws[g].refs /\ store' = store /\ Visits(g)
    <3>1. wk'.pc = "refs" /\ SameJob /\ SameDiff /\ Passes(g) /\ wk'.gws = wk.gws
      BY <2>2, <2>5 DEF Visits, MovesTo, Kept
    <3>2. ~Superseded(g)
      BY <2>5 DEF Superseded, RLPRefsAfter
    <3> QED BY <1>3, <2>0, <2>3, <2>4, <2>5, <3>1, <3>2
  <2>6. CASE /\ store.gateway[g] = wk.gws[g]
             /\ GatewayBecomes(g, [wk.gws[g] EXCEPT !.refs = RLPRefsAfter(g)]) /\ Annotates(g)
    <3>1. wk'.pc = "refs" /\ SameJob /\ SameDiff /\ Passes(g)
      BY <2>2, <2>6 DEF Annotates
    <3>2. \A h \in Gateways \ {g} : wk'.gws[h] = wk.gws[h] /\ store'.gateway[h] = store.gateway[h]
      BY <2>6 DEF Annotates, GatewayBecomes
    <3>3. store'.gateway[g].refs = RLPRefsAfter(g)
      BY <2>0, <2>2, <2>6 DEF GatewayBecomes, Gateway
    <3>4. wk'.gws[g].refs = store'.gateway[g].refs \/ Superseded(g)'
      <4>1. CASE g \in wk.again
        <5>1. wk.mode = "finalize" /\ g \in wk.left /\ g \in wk.todo
          BY <1>0, <4>1 DEF TraceInv, BaseInv, WorkerInv
        <5>2. wk'.gws[g] = wk.gws[g] /\ g \in wk'.todo \ wk'.again
          BY <2>6, <4>1, <5>1 DEF Annotates, Passes
        <5>3. RLPRefsAfter(g) = wk.gws[g].refs \ {wk.p}
          BY <5>1 DEF RLPRefsAfter
        <5> QED BY <3>1, <3>3, <5>1, <5>2, <5>3 DEF Superseded, SameJob, SameDiff
      <4>2. CASE g \notin wk.again
        <5>1. wk'.gws[g] = store'.gateway[g]
          BY <2>6, <4>2 DEF Annotates, GatewayBecomes
        <5> QED BY <5>1
      <4> QED BY <4>1, <4>2
    <3> QED BY <1>3, <2>0, <2>4, <3>1, <3>2, <3>4
  <2> QED BY <1>1, <1>2, <2>1, <2>5, <2>6
<1>10. CASE AddFinalizerStep \/ BackRefStep \/ StatusStep
  <2>1. Armed => wk'.pc \notin ConfigStages
    BY DEF Armed, ConfigStages
  <2>2. MovesTo("diff") => wk'.pc \notin ConfigStages
    BY DEF MovesTo, ConfigStages
  <2> QED BY <1>1, <1>2, <1>10, <2>1, <2>2 DEF AddFinalizerStep, BackRefStep, StatusStep
<1>11. CASE FinBackRefStep \/ FinRemoveStep
  <2>1. MovesTo("finRemove") => wk'.pc \notin ConfigStages
    BY DEF MovesTo, ConfigStages
  <2> QED BY <1>1, <1>2, <1>11, <2>1 DEF FinBackRefStep, FinRemoveStep
<1> QED BY <1>0, <1>5, <1>6, <1>7, <1>8, <1>9, <1>10, <1>11 DEF WorkStep

\* What a finalization has taken from the gateways of the target is nowhere.
LEMMA SweptEverywhere ==
    ASSUME OwnedInv, CoveredInv, BaseInv, CopiesInv, MarkInv, wk.pc # "idle",
           NEW X, \A g \in Gateways : X[g] \subseteq Traces(g),
           \A g \in TargetedGatewayKeys(store, wk.rlp.target) : wk.p \notin X[g]
    PROVE  \A g \in Gateways : wk.p \notin X[g]
<1> SUFFICES ASSUME NEW g \in Gateways, wk.p \in X[g] PROVE FALSE
  OBVIOUS
<1>1. wk.p \in Policies /\ wk.p \in Traces(g)
  BY TypeParts DEF BaseInv
<1>2. Covered(wk.p, g)
  BY <1>1 DEF CoveredInv
<1>3. store.policy[wk.p].target = wk.rlp.target
  BY <1>2, CopiesAgree DEF Covered
<1> QED BY <1>2, <1>3 DEF Covered

LEMMA WorkSweptInv ==
    ASSUME TraceInv, Work, Lagging \cap {"route", "gateway", "limitador", "plugin"} = {}
    PROVE  SweptInv'
<1>0. /\ BaseInv /\ TypeInv /\ WorkStep /\ wk.p \in Policies /\ wk.pc # "idle"
      /\ wk.mode \in {"apply", "finalize"}
      /\ cache.route = store.route /\ cache.gateway = store.gateway
      /\ cache.limitador = store.limitador /\ cache.plugin = store.plugin
      /\ wk.todo \subseteq Gateways /\ wk.left \subseteq Gateways
  BY WorkSteps, SettledKinds, TypeParts DEF BaseInv, Worker, TraceInv
<1>1. CASE wk'.mode # "finalize"
  BY <1>1 DEF SweptInv
<1>2. wk' = Idle => SweptInv'
  BY <1>1 DEF Idle
<1>3. CASE wk.mode = "apply"
  <2>1. wk' = Idle \/ wk'.mode = wk.mode
    BY <1>0, WorkJob DEF BaseInv, SameJob, Armed
  <2> QED BY <1>1, <1>2, <1>3, <2>1
<1>4. SUFFICES ASSUME wk.mode = "finalize" PROVE SweptInv'
  BY <1>0, <1>3
<1>5. Fails \/ GivesUp \/ Ends => SweptInv'
  BY <1>2, <1>4 DEF Fails, GivesUp, Ends
<1>6. wk.same = {} /\ wk.new = {} /\ wk.todo \subseteq wk.left
  BY <1>4 DEF TraceInv, BaseInv, WorkerInv
<1>7. \A g \in wk.left : wk.p \notin RLPRefsAfter(g)
  BY DEF RLPRefsAfter
<1>8. CASE FinDiffStep
  <2>1. SUFFICES ASSUME wk'.pc = "refs", wk'.left = wk'.todo PROVE SweptInv'
    BY <1>5, <1>8 DEF FinDiffStep
  <2> QED BY <2>1 DEF SweptInv
<1>9. CASE RefsStep
  <2>1. PICK g \in wk.todo :
          \/ Fails
          \/ RLPRefsAfter(g) = wk.gws[g].refs /\ store' = store /\ Visits(g)
          \/ GatewayBecomes(g, [wk.gws[g] EXCEPT !.refs = RLPRefsAfter(g)]) /\ Annotates(g)
    BY <1>9 DEF RefsStep
  <2>2. wk.pc = "refs" /\ g \in wk.left /\ g \in Gateways /\ wk.gws[g] \in Gateway
    BY <1>0, <1>6, <1>9, TypeParts DEF RefsStep
  <2>3. ASSUME wk'.pc = wk.pc, SameJob, SameDiff, Passes(g),
               wk.p \notin store'.gateway[g].refs,
               \A h \in Gateways \ {g} : store'.gateway[h] = store.gateway[h]
        PROVE  SweptInv'
    <3>1. \A h \in wk.left \ wk.todo : wk.p \notin store.gateway[h].refs
      BY <1>4, <2>2 DEF TraceInv, SweptInv
    <3>2. \A h \in wk'.left \ wk'.todo : wk'.p \notin store'.gateway[h].refs
      BY <1>0, <2>3, <3>1, PassesTodo DEF SameJob, SameDiff
    <3>3. wk'.pc = "refs"
      BY <2>2, <2>3
    <3> QED BY <3>2, <3>3 DEF SweptInv
  <2>4. CASE RLPRefsAfter(g) = wk.gws[g].refs /\ store' = store /\ Visits(g)
    <3>1. wk.p \notin store'.gateway[g].refs
      BY <1>7, <2>2, <2>4 DEF TraceInv, DiffInv, Superseded, ConfigStages
    <3> QED BY <2>3, <2>4, <3>1 DEF Visits, MovesTo, Kept
  <2>5. CASE GatewayBecomes(g, [wk.gws[g] EXCEPT !.refs = RLPRefsAfter(g)]) /\ Annotates(g)
    <3>1. store'.gateway[g].refs = RLPRefsAfter(g)
      BY <2>2, <2>5 DEF GatewayBecomes, Gateway
    <3>2. wk.p \notin store'.gateway[g].refs
      BY <1>7, <2>2, <3>1
    <3> QED BY <2>3, <2>5, <3>2 DEF Annotates, GatewayBecomes
  <2> QED BY <1>5, <2>1, <2>4, <2>5
<1>10. CASE PluginStep
  <2>1. PICK g \in wk.todo :
          \/ Fails
          \/ cache.plugin[g] = PluginAfter(g) /\ store' = store /\ Visits(g)
          \/ PluginBecomes(g, PluginAfter(g)) /\ Visits(g)
    BY <1>10 DEF PluginStep
  <2>2. wk.pc = "plugin" /\ g \in wk.left /\ g \in Gateways
    BY <1>0, <1>6, <1>10 DEF PluginStep
  <2>3. wk.p \notin Named(PluginAfter(g).conf)
    BY <1>7, <2>2, ConfigNames, NoNames DEF PluginAfter, NoPlugin
  <2>4. SUFFICES ASSUME Visits(g), store'.plugin[g] = PluginAfter(g), store'.gateway = store.gateway,
                        \A h \in Gateways \ {g} : store'.plugin[h] = store.plugin[h]
                 PROVE  SweptInv'
    BY <1>0, <1>5, <2>1 DEF PluginBecomes
  <2>5. /\ wk'.pc = "plugin" /\ wk'.p = wk.p /\ wk'.left = wk.left /\ wk.todo \ {g} \subseteq wk'.todo
    BY <2>2, <2>4, PassesTodo DEF Visits, MovesTo, Kept, SameJob, SameDiff
  <2>6. \A h \in wk.left \ wk.todo : wk.p \notin Named(store.plugin[h].conf)
    BY <1>4, <2>2 DEF TraceInv, SweptInv
  <2>7. \A h \in wk'.left \ wk'.todo : wk'.p \notin Named(store'.plugin[h].conf)
    BY <1>0, <2>3, <2>4, <2>5, <2>6
  <2>8. \A h \in Gateways : wk'.p \notin store'.gateway[h].refs
    BY <1>4, <2>2, <2>4, <2>5 DEF TraceInv, SweptInv
  <2> QED BY <2>5, <2>7, <2>8 DEF SweptInv
<1>11. CASE FilterStep
  <2>1. PICK g \in wk.todo : Fails \/ (Visits(g) /\ (store' = store \/ FilterBecomes(g, RLPRefsAfter(g) # {})))
    BY <1>11 DEF FilterStep
  <2>2. SUFFICES ASSUME Visits(g), store'.gateway = store.gateway, store'.plugin = store.plugin
                 PROVE  SweptInv'
    BY <1>5, <2>1 DEF FilterBecomes
  <2>3. wk'.pc = "filter" /\ wk.pc = "filter" /\ wk'.p = wk.p
    BY <1>11, <2>2 DEF FilterStep, Visits, MovesTo, Kept, SameJob
  <2> QED BY <1>4, <2>2, <2>3 DEF TraceInv, SweptInv
<1>12. CASE LoopStep
  <2>1. /\ wk.pc \in {"filter", "plugin", "refs"} /\ wk.todo = {} /\ store' = store
        /\ SameJob /\ SameDiff /\ wk'.pc = Following /\ wk'.todo = Enter(Following).todo
    BY <1>12 DEF LoopStep, Enters, MovesTo, Kept
  <2>2. wk.left = TargetedGatewayKeys(store, wk.rlp.target)
    BY <1>4, <2>1 DEF TraceInv, DiffInv, ConfigStages
  <2>3. CASE wk.pc = "refs"
    <3> DEFINE X == [g \in Gateways |-> store.gateway[g].refs]
    <3>1. wk'.pc = "plugin" /\ Following = "plugin"
      BY <1>4, <2>1, <2>3 DEF Following
    <3>2. wk'.todo = wk.left
      BY <1>0, <1>6, <2>1, <3>1, TypeParts DEF Enter, Worker
    <3>3. \A g \in wk.left : wk.p \notin store.gateway[g].refs
      BY <1>4, <2>1, <2>3 DEF TraceInv, SweptInv
    <3>4. \A g \in Gateways : X[g] \subseteq Traces(g)
      BY DEF Traces
    <3>5. \A g \in wk.left : wk.p \notin X[g]
      BY <1>0, <3>3
    <3> HIDE DEF X
    <3>6. \A g \in Gateways : wk.p \notin X[g]
      BY <1>0, <2>2, <3>4, <3>5, SweptEverywhere DEF TraceInv
    <3>7. \A g \in Gateways : wk'.p \notin store'.gateway[g].refs
      BY <2>1, <3>6 DEF X, SameJob
    <3> QED BY <2>1, <3>1, <3>2, <3>7 DEF SweptInv, SameDiff
  <2>4. CASE wk.pc = "plugin"
    <3> DEFINE X == [g \in Gateways |-> Named(store.plugin[g].conf)]
    <3>1. wk'.pc = "filter"
      BY <1>4, <2>1, <2>4 DEF Following
    <3>2. \A g \in wk.left : wk.p \notin Named(store.plugin[g].conf)
      BY <1>4, <2>1, <2>4 DEF TraceInv, SweptInv
    <3>3. \A g \in Gateways : X[g] \subseteq Traces(g)
      BY DEF Traces
    <3>4. \A g \in wk.left : wk.p \notin X[g]
      BY <1>0, <3>2
    <3> HIDE DEF X
    <3>5. \A g \in Gateways : wk.p \notin X[g]
      BY <1>0, <2>2, <3>3, <3>4, SweptEverywhere DEF TraceInv
    <3>6. \A g \in Gateways : wk'.p \notin Named(store'.plugin[g].conf)
      BY <2>1, <3>5 DEF X, SameJob
    <3>7. \A g \in Gateways : wk'.p \notin store'.gateway[g].refs
      BY <1>4, <2>1, <2>4 DEF TraceInv, SweptInv, SameJob
    <3> QED BY <3>1, <3>6, <3>7 DEF SweptInv
  <2>5. CASE wk.pc = "filter"
    <3>1. wk'.pc = "limits"
      BY <1>4, <2>1, <2>5 DEF Following
    <3> QED BY <1>4, <2>1, <2>5, <3>1 DEF TraceInv, SweptInv, SameJob
  <2> QED BY <2>1, <2>3, <2>4, <2>5
<1>13. CASE LimitsStep
  <2>1. wk.pc = "limits" /\ wk.left = TargetedGatewayKeys(store, wk.rlp.target)
    BY <1>4, <1>13 DEF LimitsStep, TraceInv, DiffInv, ConfigStages
  <2>2. /\ \A g \in Gateways : wk.p \notin store.gateway[g].refs
        /\ \A g \in Gateways : wk.p \notin Named(store.plugin[g].conf)
    BY <1>4, <2>1 DEF TraceInv, SweptInv
  <2>3. [cache.limitador EXCEPT !.limits = LimitsAfter].limits = LimitsAfter
    BY <1>0, TypeParts, GetTypes DEF Limitador
  <2>4. SUFFICES ASSUME Enters(Following), store'.gateway = store.gateway, store'.plugin = store.plugin,
                        \/ store'.limitador.limits = NoLimits
                        \/ store'.limitador.limits = LimitsAfter
                 PROVE  SweptInv'
    BY <1>0, <1>5, <1>13, <2>3 DEF LimitsStep, LimitadorBecomes, TraceInv, TargetsInv
  <2>5. wk'.pc = "finBackRef" /\ wk'.p = wk.p
    BY <1>4, <2>1, <2>4 DEF Enters, MovesTo, Kept, SameJob, Following
  <2> DEFINE X == [g \in Gateways |-> IF g \in wk.left THEN {} ELSE Named(store.limitador.limits[g])]
  <2>6. \A g \in Gateways : X[g] \subseteq Traces(g)
    BY DEF Traces
  <2>7. \A g \in wk.left : wk.p \notin X[g]
    BY <1>0
  <2>8. \A g \in Gateways : Named(store'.limitador.limits[g]) \subseteq X[g]
    <3>1. \A g \in Gateways : LimitsAfter[g] = IF g \in wk.left THEN {} ELSE store.limitador.limits[g]
      BY <1>0, <1>6 DEF LimitsAfter
    <3>2. \A g \in Gateways : NoLimits[g] = {}
      BY DEF NoLimits
    <3> QED BY <2>4, <3>1, <3>2, NoNames
  <2> HIDE DEF X
  <2>9. \A g \in Gateways : wk.p \notin X[g]
    BY <1>0, <2>1, <2>6, <2>7, SweptEverywhere DEF TraceInv
  <2>10. \A g \in Gateways : wk'.p \notin Named(store'.limitador.limits[g])
    BY <2>5, <2>8, <2>9
  <2> QED BY <2>2, <2>4, <2>5, <2>10 DEF SweptInv
<1>14. CASE FinBackRefStep
  <2>1. wk.pc = "finBackRef"
    BY <1>14 DEF FinBackRefStep
  <2>2. SUFFICES ASSUME MovesTo("finRemove") PROVE SweptInv'
    BY <1>5, <1>14 DEF FinBackRefStep
  <2>3. wk'.pc = "finRemove" /\ wk'.p = wk.p /\ wk'.pc # "idle"
    BY <2>2 DEF MovesTo, Kept, SameJob
  <2>4. \A u \in Lockable : BackRef(store', u) # wk.p
    <3>1. ASSUME NEW u \in Lockable, BackRef(store, u) = wk.p PROVE u = wk.rlp.target
      BY <1>0, <3>1, CopiesAgree DEF TraceInv, OwnedInv
    <3>2. ~Fails
      BY <1>4, <2>3, IdleType DEF Fails, GivesUp
    <3>3. CASE OwnerWritten(wk.rlp.target, NoPolicy)
      BY <1>0, <3>1, <3>3, ClusterAssumption DEF OwnerWritten, OwnerBecomes
    <3>4. CASE store' = store /\ BackRef(cache, wk.rlp.target) = NoPolicy
      <4>1. BackRef(cache, wk.rlp.target) = BackRef(store, wk.rlp.target)
        BY <1>0 DEF BackRef
      <4> QED BY <1>0, <3>1, <3>4, <4>1, ClusterAssumption
    <3>5. CASE store' = store /\ ~TargetLive(cache, wk.rlp.target)
      <4>1. TargetLive(cache, wk.rlp.target) = TargetLive(store, wk.rlp.target)
        BY <1>0 DEF TargetLive
      <4> QED BY <3>1, <3>5, <4>1 DEF TraceInv, TargetsInv
    <3> QED BY <1>14, <3>2, <3>3, <3>4, <3>5 DEF FinBackRefStep
  <2>5. \A g \in Gateways : wk.p \notin Traces(g)
    BY <1>4, <2>1 DEF TraceInv, SweptInv, Traces
  <2>6. \A g \in Gateways : wk.p \notin Traces(g)'
    BY <1>0, <1>4, <2>5, WorkTraces DEF TraceInv
  <2> QED BY <2>3, <2>4, <2>6 DEF SweptInv, Traces
<1>15. CASE FinRemoveStep
  BY <1>5, <1>15 DEF FinRemoveStep
<1>16. ~(AddFinalizerStep \/ BackRefStep \/ DiffStep \/ StatusStep)
  BY <1>4 DEF AddFinalizerStep, BackRefStep, DiffStep, StatusStep, TraceInv, BaseInv, WorkerInv
<1> QED BY <1>0, <1>8, <1>9, <1>10, <1>11, <1>12, <1>13, <1>14, <1>15, <1>16 DEF WorkStep

LEMMA NextTraceInv ==
    ASSUME TraceInv, [Next]_vars, Rooted, Lagging \cap {"route", "gateway", "limitador", "plugin"} = {}
    PROVE  (TargetsInv /\ OwnedInv /\ CoveredInv /\ DiffInv /\ SweptInv)'
<1>0. TypeInv
  BY DEF TraceInv, BaseInv
<1>1. CASE Environment
  <2>1. \A g \in Gateways : NoLimits[g] = {}
    BY DEF NoLimits
  <2>2. \A g \in Gateways : Named(store'.limitador.limits[g]) \subseteq Named(store.limitador.limits[g])
    BY <1>0, <1>1, <2>1, NoNames, EnvironmentKeeps
  <2>3. \A g \in Gateways : Traces(g)' \subseteq Traces(g)
    BY <1>0, <1>1, <2>2, EnvironmentKeeps DEF Traces
  <2>4. store'.limitador.status = "absent" => store'.limitador.limits = NoLimits
    BY <1>0, <1>1, EnvironmentKeeps DEF TraceInv, TargetsInv
  <2>5. TargetsInv' /\ OwnedInv' /\ CoveredInv'
    BY <1>0, <1>1, <2>3, <2>4, EnvironmentKeeps, CoverageKept DEF TraceInv
  <2>6. DiffInv'
    <3>1. wk' = wk /\ \A g \in Gateways : store'.gateway[g].refs = store.gateway[g].refs
      BY <1>0, <1>1, EnvironmentKeeps
    <3>2. \A g \in Gateways : Superseded(g) => Superseded(g)'
      BY <3>1 DEF Superseded
    <3> QED BY <1>0, <1>1, <3>1, <3>2, EnvironmentKeeps DEF TraceInv, DiffInv, LinksKept
  <2>7. SweptInv'
    <3>1. wk.left \subseteq Gateways
      BY <1>0, TypeParts DEF Worker
    <3> QED BY <1>0, <1>1, <2>2, <3>1, EnvironmentKeeps DEF TraceInv, SweptInv
  <2> QED BY <2>5, <2>6, <2>7
<1>2. CASE Work
  BY <1>2, WorkCoveredInv, WorkDiffInv, WorkSweptInv
<1>3. ASSUME store' = store PROVE TargetsInv' /\ OwnedInv' /\ CoveredInv'
  BY <1>3 DEF TraceInv, TargetsInv, OwnedInv, CoveredInv, Covered, Traces
<1>4. ASSUME store' = store, wk' = wk PROVE DiffInv' /\ SweptInv'
  BY <1>4 DEF TraceInv, DiffInv, SweptInv, Superseded
<1>5. ASSUME wk'.pc \in {"idle", "addFinalizer", "backRef", "finDiff"} PROVE DiffInv' /\ SweptInv'
  BY <1>5 DEF DiffInv, SweptInv, ConfigStages
<1>6. CASE Watch
  BY <1>0, <1>3, <1>4, <1>6, WatchCopies
<1>7. ASSUME NEW p \in Policies, Start(p)
      PROVE  (TargetsInv /\ OwnedInv /\ CoveredInv /\ DiffInv /\ SweptInv)'
  BY <1>3, <1>5, <1>7, StartEffect, IdleType DEF Begun
<1>8. CASE Crash
  BY <1>3, <1>5, <1>8, IdleType DEF Crash
<1>9. CASE UNCHANGED vars
  BY <1>3, <1>4, <1>9 DEF vars
<1> QED BY <1>1, <1>2, <1>6, <1>7, <1>8, <1>9 DEF Next

\* The traces and the diff at work, in every reachable state.
THEOREM TraceInvariant ==
    ASSUME Lagging \cap {"route", "gateway", "limitador", "plugin"} = {},
           Edits \cap {"retarget", "deleteUnmarked", "route", "gateway", "parents"} = {}
    PROVE  Spec => []TraceInv
<1>0. Rooted /\ Guarded
  BY DEF Rooted, Guarded
<1>1. Init => TargetsInv /\ OwnedInv /\ CoveredInv /\ DiffInv /\ SweptInv
  <2> SUFFICES ASSUME Init PROVE TargetsInv /\ OwnedInv /\ CoveredInv /\ DiffInv /\ SweptInv
    OBVIOUS
  <2>1. wk.pc = "idle"
    BY InitFacts, IdleType
  <2>2. \A u \in Lockable : TargetLive(store, u) /\ BackRef(store, u) = NoPolicy
    BY InitFacts, ClusterAssumption DEF Lockable, TargetLive, BackRef
  <2>3. \A g \in Gateways : Traces(g) = {}
    <3>1. \A g \in Gateways : NoLimits[g] = {}
      BY DEF NoLimits
    <3>2. NoPlugin.conf = {}
      BY DEF NoPlugin
    <3>3. \A g \in Gateways :
            /\ store.gateway[g].refs = {} /\ store.plugin[g].conf = {}
            /\ store.limitador.limits[g] = {}
      BY <3>1, <3>2, InitFacts
    <3> QED BY <3>3, NoNames DEF Traces
  <2>4. TargetsInv
    BY <2>2, InitFacts DEF TargetsInv
  <2> QED BY <2>1, <2>2, <2>3, <2>4, ClusterAssumption DEF OwnedInv, CoveredInv, DiffInv, SweptInv, ConfigStages
<1>2. TraceInv /\ [Next]_vars => (TargetsInv /\ OwnedInv /\ CoveredInv /\ DiffInv /\ SweptInv)'
  BY <1>0, NextTraceInv
<1>3. Spec => [](BaseInv /\ CopiesInv /\ MarkInv)
  BY <1>0, CopiesInvariant
<1> QED BY <1>1, <1>2, <1>3, PTL DEF Spec, TraceInv

\* Whichever calls fail and whenever the process crashes, however old the copies
\* of policies and EnvoyFilters are, and whatever happens to Limitador: while
\* anything in the cluster speaks of a policy, the policy is there and carries
\* the finalizer. The finalization visits the gateways of the target as it is
\* then; so targets are neither moved nor removed, policies not retargeted, and
\* none is deleted before it has the finalizer. The objects it decides on are
\* read as they are.
THEOREM FinalizerCovers ==
    ASSUME Lagging \cap {"route", "gateway", "limitador", "plugin"} = {},
           Edits \cap {"retarget", "deleteUnmarked", "route", "gateway", "parents"} = {}
    PROVE  Spec => []FinalizerCoversTraces
<1>1. TraceInv => FinalizerCoversTraces
  <2> SUFFICES ASSUME TraceInv, NEW p \in Policies, Mentioned(p) PROVE Holds(store.policy[p])
    BY DEF FinalizerCoversTraces, Holds
  <2>1. CASE \E u \in Lockable : BackRef(store, u) = p
    BY <2>1 DEF TraceInv, OwnedInv
  <2>2. CASE \E g \in Gateways : p \in Traces(g)
    BY <2>2 DEF TraceInv, CoveredInv, Covered
  <2>3. (\E u \in Lockable : BackRef(store, u) = p) \/ (\E g \in Gateways : p \in Traces(g))
    BY ClusterAssumption DEF Mentioned, Traces, BackRef, Lockable
  <2> QED BY <2>1, <2>2, <2>3
<1> QED BY <1>1, TraceInvariant, PTL
=============================================================================
