--------------------- MODULE RateLimitPolicyRestProofs ---------------------
(***************************************************************************)
(* Where the RateLimitPolicy controller comes to rest: the annotations of  *)
(* the gateways, the EnvoyFilters, the statuses, the limits in Limitador   *)
(* and the WasmPlugins are then what the policies ask for. The controller  *)
(* is level triggered: whatever makes one of them wrong for a policy       *)
(* leaves the policy in the queue, or a change that its informers have yet *)
(* to deliver and whose event enqueues it.                                 *)
(***************************************************************************)
EXTENDS RateLimitPolicyTraceProofs

\* The informers the events come from and the copies that are written back do
\* not lag.
Prompt == Lagging \cap {"policy", "route", "gateway", "limitador", "plugin"} = {}

CurrentCopies ==
    cache.policy = store.policy /\ cache.route = store.route /\ cache.gateway = store.gateway

LEMMA SettledCopies ==
    ASSUME TypeInv, Settled, Prompt
    PROVE  CurrentCopies
BY SettledKinds DEF Prompt, CurrentCopies

-----------------------------------------------------------------------------
(* No policy is forgotten.                                                 *)

\* The policy p needs nothing: its status is up to date, and the gateways its
\* target leads to list it.
Fine(p) ==
    LET rlp == store.policy[p]
    IN  rlp.live =>
            /\ ~rlp.deleting /\ rlp.observed /\ rlp.available = "True"
            /\ rlp.target \in Routes => rlp.gwLimits = GatewaysRateLimits(store, rlp.target)
            /\ \A g \in TargetedGatewayKeys(store, rlp.target) : p \in store.gateway[g].refs

\* The policy p is in the queue, or an event will put it there: that of its own
\* change, that of a gateway that lists it, or that of a policy whose target is
\* such a gateway.
Awaited(p) ==
    \/ p \in queue
    \/ cache.policy[p] # store.policy[p]
    \/ \E g \in Gateways :
          /\ p \in cache.gateway[g].refs
          /\ \/ cache.gateway[g] # store.gateway[g]
             \/ \E q \in Policies : cache.policy[q] # store.policy[q] /\ cache.policy[q].target = g

\* Every policy is fine, comes up again, or is at work; the one at work is
\* worked on as it is, or comes up again; and no policy is marked that has
\* nothing to be finalized for.
ReportInv ==
    /\ \A p \in Policies : Fine(p) \/ Awaited(p) \/ (wk.pc # "idle" /\ wk.p = p)
    /\ wk.pc # "idle" => store.policy[wk.p] = wk.rlp \/ Awaited(wk.p)
    /\ \A p \in Policies : store.policy[p].deleting => store.policy[p].finalizer

\* The policy that is applied leaves no gateway behind; the gateways of its
\* target list it already, or are still to be annotated, until all do.
ListingInv ==
    wk.mode = "apply" =>
        /\ wk.pc \in ConfigStages =>
              /\ wk.left = {}
              /\ wk.same \cup wk.new = TargetedGatewayKeys(store, wk.rlp.target)
              /\ \A g \in wk.same : wk.p \in store.gateway[g].refs
        /\ wk.pc = "refs" => \A g \in wk.new \ wk.todo : wk.p \in store.gateway[g].refs
        /\ wk.pc = "status" /\ ~wk.err =>
              \A g \in TargetedGatewayKeys(store, wk.rlp.target) : wk.p \in store.gateway[g].refs

LEMMA KeysAreGateways ==
    ASSUME TypeInv
    PROVE  \A t : TargetedGatewayKeys(store, t) \subseteq Gateways
<1>1. \A r \in Routes : store.route[r] \in Route
  BY TypeParts, GetTypes
<1>2. \A r \in Routes : store.route[r].parents \subseteq Gateways
  BY <1>1 DEF Route
<1> QED BY <1>2 DEF TargetedGatewayKeys

\* The gateway limits of a route depend on its gateways, and on the policies
\* that own these.
LEMMA RateLimitsSame ==
    ASSUME NEW c, NEW d, NEW t, TargetedGatewayKeys(d, t) = TargetedGatewayKeys(c, t),
           \A g \in TargetedGatewayKeys(c, t) :
               /\ d.gateway[g].live = c.gateway[g].live
               /\ d.gateway[g].backref = c.gateway[g].backref
               /\ c.gateway[g].backref \in Policies =>
                     /\ d.policy[c.gateway[g].backref].live = c.policy[c.gateway[g].backref].live
                     /\ d.policy[c.gateway[g].backref].spec = c.policy[c.gateway[g].backref].spec
    PROVE  GatewaysRateLimits(d, t) = GatewaysRateLimits(c, t)
<1> DEFINE Reporting(x) == {g \in TargetedGatewayKeys(x, t) :
                              /\ x.gateway[g].live
                              /\ x.gateway[g].backref \in Policies
                              /\ x.policy[x.gateway[g].backref].live}
           Limit(x, g) == <<g, x.policy[x.gateway[g].backref].spec>>
<1>1. Reporting(d) = Reporting(c)
  OBVIOUS
<1>2. \A g \in Reporting(c) : Limit(d, g) = Limit(c, g)
  OBVIOUS
<1>3. /\ GatewaysRateLimits(c, t) = {Limit(c, g) : g \in Reporting(c)}
      /\ GatewaysRateLimits(d, t) = {Limit(d, g) : g \in Reporting(d)}
  BY DEF GatewaysRateLimits
<1> HIDE DEF Reporting, Limit
<1> QED BY <1>1, <1>2, <1>3

\* Whatever a step writes while the copies are current, the policies it
\* matters to are told.
LEMMA ChangesAwaited ==
    ASSUME TypeInv, OwnedInv, CurrentCopies, LinksKept, cache' = cache, queue \subseteq queue',
           NEW p \in Policies
    PROVE  /\ Awaited(p) => p \in queue
           /\ p \in queue' => Awaited(p)'
           /\ Awaited(p) => Awaited(p)'
           /\ store'.policy[p] = store.policy[p] \/ Awaited(p)'
           /\ Fine(p) => Fine(p)' \/ Awaited(p)'
<1>1. Awaited(p) => p \in queue
  BY DEF Awaited, CurrentCopies
<1>2. p \in queue' => Awaited(p)'
  BY DEF Awaited
<1>3. store'.policy[p] = store.policy[p] \/ Awaited(p)'
  BY DEF Awaited, CurrentCopies
<1>4. ASSUME Fine(p), ~Awaited(p)' PROVE Fine(p)'
  <2> DEFINE t == store.policy[p].target
             keys == TargetedGatewayKeys(store, t)
  <2>1. SUFFICES ASSUME store.policy[p].live PROVE Fine(p)'
    BY <1>3, <1>4 DEF Fine
  <2>2. keys \subseteq Gateways /\ keys = TargetedGatewayKeys(store', t)
    BY KeysAreGateways DEF LinksKept
  <2>3. \A g \in keys : p \in store.gateway[g].refs
    BY <1>4, <2>1 DEF Fine
  <2>4. \A g \in keys : store'.gateway[g] = store.gateway[g]
    BY <1>4, <2>2, <2>3 DEF Awaited, CurrentCopies
  <2>5. \A g \in keys : \A q \in Policies :
          store.gateway[g].backref = q => store'.policy[q] = store.policy[q]
    <3> SUFFICES ASSUME NEW g \in keys, NEW q \in Policies, store.gateway[g].backref = q
                 PROVE  store'.policy[q] = store.policy[q]
      OBVIOUS
    <3>1. g \in Lockable /\ BackRef(store, g) = q
      BY <2>2, ClusterAssumption DEF Lockable, BackRef
    <3>2. store.policy[q].target = g
      BY <3>1 DEF OwnedInv
    <3> QED BY <1>4, <2>2, <2>3, <3>2 DEF Awaited, CurrentCopies
  <2>6. GatewaysRateLimits(store', t) = GatewaysRateLimits(store, t)
    BY <2>2, <2>4, <2>5, RateLimitsSame
  <2> QED BY <1>3, <1>4, <2>1, <2>2, <2>3, <2>4, <2>6 DEF Fine
<1> QED BY <1>1, <1>2, <1>3, <1>4

LEMMA InitReportInv == Init => ReportInv /\ ListingInv
<1> SUFFICES ASSUME Init PROVE ReportInv /\ ListingInv
  OBVIOUS
<1>1. wk.pc = "idle"
  BY InitFacts, IdleType
<1>2. \A p \in Policies : Fine(p) \/ Awaited(p)
  BY InitFacts DEF Fine, Awaited
<1> QED BY <1>1, <1>2, InitFacts DEF ReportInv, ListingInv, ConfigStages

LEMMA StartReportInv ==
    ASSUME TypeInv, ReportInv, Prompt, NEW p \in Policies, Start(p)
    PROVE  ReportInv'
<1>1. /\ store' = store /\ cache' = cache /\ wk.pc = "idle" /\ Settled
      /\ queue' = queue \ {p}
  BY StartEffect
<1>2. CurrentCopies
  BY <1>1, SettledCopies
<1>3. \A q \in Policies : Awaited(q) => q \in queue
  BY <1>2 DEF Awaited, CurrentCopies
<1>4. \A q \in Policies : Fine(q) => Fine(q)'
  BY <1>1 DEF Fine
<1>5. \A q \in Policies \ {p} : Fine(q)' \/ Awaited(q)'
  BY <1>1, <1>3, <1>4 DEF ReportInv, Awaited
<1>6. \A q \in Policies : store'.policy[q].deleting => store'.policy[q].finalizer
  BY <1>1 DEF ReportInv
<1>7. CASE wk' = Idle /\ EntryStage(cache.policy[p]) = "idle"
  <2>1. ~store.policy[p].live
    BY <1>2, <1>7 DEF ReportInv, CurrentCopies, EntryStage
  <2>2. Fine(p)'
    BY <1>1, <2>1 DEF Fine
  <2>3. wk'.pc = "idle"
    BY <1>7, IdleType
  <2> QED BY <1>5, <1>6, <2>2, <2>3 DEF ReportInv
<1>8. CASE Begun(p)
  <2>1. wk'.p = p /\ wk'.pc # "idle" /\ store'.policy[wk'.p] = wk'.rlp
    BY <1>1, <1>2, <1>8 DEF Begun, CurrentCopies
  <2> QED BY <1>5, <1>6, <2>1 DEF ReportInv
<1> QED BY <1>7, <1>8, StartEffect

\* Deliveries lose nothing: what an event was awaited for is in the queue once
\* it is delivered.
LEMMA WatchAwaited ==
    ASSUME TypeInv, Watch, NEW p \in Policies, Awaited(p)
    PROVE  Awaited(p)'
<1>0. store \in Cluster /\ cache \in Cluster
  BY TypeParts
<1>1. store' = store /\ queue \subseteq queue'
  BY DEF Watch, Deliver, DeliverPolicy, DeliverRoute, DeliverGateway, DeliverLimitador,
         DeliverPlugin, DeliverFilter
\* What a delivery leaves alone, and whom it enqueues.
<1> DEFINE Told(q) == \/ cache'.policy[q] = cache.policy[q]
                      \/ /\ q \in queue'
                         /\ cache.policy[q].target \in Gateways =>
                               cache.gateway[cache.policy[q].target].refs \subseteq queue'
           Heard(g) == cache'.gateway[g] = cache.gateway[g] \/ cache.gateway[g].refs \subseteq queue'
           Good == (\A q \in Policies : Told(q)) /\ (\A g \in Gateways : Heard(g))
<1>2. ASSUME cache'.policy = cache.policy, cache'.gateway = cache.gateway PROVE Good
  BY <1>2
<1>3. ASSUME NEW q \in Policies, DeliverPolicy(q) PROVE Good
  <2>1. /\ cache'.gateway = cache.gateway
        /\ \A o \in Policies \ {q} : cache'.policy[o] = cache.policy[o]
    BY <1>0, <1>3 DEF DeliverPolicy, Cluster
  <2>2. /\ q \in queue'
        /\ cache.policy[q].target \in Gateways =>
              cache.gateway[cache.policy[q].target].refs \subseteq queue'
    BY <1>3 DEF DeliverPolicy, MapRouteRateLimitPolicy
  <2> QED BY <2>1, <2>2
<1>4. ASSUME NEW g \in Gateways, DeliverGateway(g) PROVE Good
  <2>1. /\ cache'.policy = cache.policy
        /\ \A h \in Gateways \ {g} : cache'.gateway[h] = cache.gateway[h]
    BY <1>0, <1>4 DEF DeliverGateway, Cluster
  <2>2. cache.gateway[g].refs \subseteq queue'
    BY <1>4 DEF DeliverGateway, MapGatewayToRateLimitPolicy
  <2> QED BY <2>1, <2>2
<1>5. ASSUME NEW r \in Routes, DeliverRoute(r) PROVE Good
  <2>1. cache'.policy = cache.policy /\ cache'.gateway = cache.gateway
    BY <1>0, <1>5 DEF DeliverRoute, Cluster
  <2> QED BY <1>2, <2>1
<1>6. ASSUME NEW g \in Gateways, DeliverPlugin(g) \/ DeliverFilter(g) PROVE Good
  <2>1. cache'.policy = cache.policy /\ cache'.gateway = cache.gateway
    BY <1>0, <1>6 DEF DeliverPlugin, DeliverFilter, Cluster
  <2> QED BY <1>2, <2>1
<1>7. DeliverLimitador => Good
  <2>1. DeliverLimitador => cache'.policy = cache.policy /\ cache'.gateway = cache.gateway
    BY <1>0 DEF DeliverLimitador, Cluster
  <2> QED BY <1>2, <2>1
<1> HIDE DEF Good
<1>8. Good
  BY <1>3, <1>4, <1>5, <1>6, <1>7 DEF Watch, Deliver
<1>9. CASE p \in queue
  BY <1>1, <1>9 DEF Awaited
<1>10. CASE cache.policy[p] # store.policy[p]
  BY <1>1, <1>8, <1>10 DEF Awaited, Good
<1>11. ASSUME NEW g \in Gateways, p \in cache.gateway[g].refs, p \notin queue',
              \/ cache.gateway[g] # store.gateway[g]
              \/ \E q \in Policies : cache.policy[q] # store.policy[q] /\ cache.policy[q].target = g
       PROVE  Awaited(p)'
  <2>1. cache'.gateway[g] = cache.gateway[g]
    BY <1>8, <1>11 DEF Good
  <2>2. \A q \in Policies : cache.policy[q].target = g => cache'.policy[q] = cache.policy[q]
    BY <1>8, <1>11 DEF Good
  <2> QED BY <1>1, <1>11, <2>1, <2>2 DEF Awaited
<1>12. p \in queue' => Awaited(p)'
  BY DEF Awaited
<1> QED BY <1>9, <1>10, <1>11, <1>12 DEF Awaited

LEMMA WatchReportInv ==
    ASSUME TypeInv, ReportInv, Watch
    PROVE  ReportInv'
<1>1. store' = store /\ wk' = wk
  BY WatchCopies
<1>2. wk.pc # "idle" => wk.p \in Policies
  BY TypeParts
<1>3. \A p \in Policies : Awaited(p) => Awaited(p)'
  BY WatchAwaited
<1>4. \A p \in Policies : Fine(p) => Fine(p)'
  BY <1>1 DEF Fine
<1> QED BY <1>1, <1>2, <1>3, <1>4 DEF ReportInv

LEMMA EnvironmentReportInv ==
    ASSUME TypeInv, OwnedInv, ReportInv, Environment, Rooted, Prompt
    PROVE  ReportInv'
<1>1. wk' = wk /\ cache' = cache /\ queue' = queue /\ CurrentCopies /\ LinksKept
  BY EnvironmentEffect, EnvironmentKeeps, SettledCopies
<1>2. wk.pc # "idle" => wk.p \in Policies
  BY TypeParts
<1>3. \A p \in Policies : store'.policy[p].deleting => store'.policy[p].finalizer
  <2>1. ASSUME NEW p \in Policies, PolicyEdited(p)
        PROVE  \A q \in Policies : store'.policy[q].deleting => store'.policy[q].finalizer
    <3>1. PICK x \in Policy : PolicyBecomes(p, x) /\ (x.deleting => x.finalizer)
      BY <2>1 DEF PolicyEdited, Rooted, Guarded, ReportInv
    <3> QED BY <3>1 DEF PolicyBecomes, ReportInv
  <2>2. \A r \in Routes : RouteEdited(r) => store'.policy = store.policy
    BY DEF RouteEdited, RouteBecomes
  <2>3. \A g \in Gateways : GatewayEdited(g) => store'.policy = store.policy
    BY DEF GatewayEdited, GatewayBecomes
  <2>4. LimitadorEdited => store'.policy = store.policy
    BY DEF LimitadorEdited, LimitadorBecomes
  <2> QED BY <2>1, <2>2, <2>3, <2>4, EnvironmentEffect DEF ReportInv
<1>4. \A p \in Policies : /\ Awaited(p) => Awaited(p)'
                          /\ store'.policy[p] = store.policy[p] \/ Awaited(p)'
                          /\ Fine(p) => Fine(p)' \/ Awaited(p)'
  BY <1>1, ChangesAwaited
<1> QED BY <1>1, <1>2, <1>3, <1>4 DEF ReportInv

\* Reporting success when all gateways of the target list the policy leaves it
\* fine, unless it has changed meanwhile and comes up again.
LEMMA StatusEnds ==
    ASSUME TraceInv, ReportInv, ListingInv, Work, CurrentCopies, NEW p \in Policies, p = wk.p,
           wk.pc = "status", ~wk.err, store.policy[p] = wk.rlp,
           \/ store' = store /\ NewStatus = wk.rlp
           \/ PolicyBecomes(p, NewStatus)
    PROVE  Fine(p)'
<1> DEFINE t == wk.rlp.target
           keys == TargetedGatewayKeys(store, t)
<1>0. TypeInv /\ BaseInv /\ wk.rlp \in Policy /\ wk.mode = "apply" /\ LinksKept /\ keys \subseteq Gateways
  BY TypeParts, WorkLinks, KeysAreGateways DEF TraceInv, BaseInv, WorkerInv
<1>1. wk.rlp.live /\ ~wk.rlp.deleting
  BY <1>0 DEF BaseInv, JobInv
<1>2. /\ NewStatus.live = wk.rlp.live /\ NewStatus.deleting = wk.rlp.deleting
      /\ NewStatus.target = t /\ NewStatus.spec = wk.rlp.spec
      /\ NewStatus.observed = TRUE /\ NewStatus.available = "True"
      /\ NewStatus.gwLimits = IF t \in Routes /\ cache.route[t].live
                              THEN GatewaysRateLimits(cache, t) ELSE {}
  BY <1>0 DEF Policy, NewStatus
<1>3. /\ store'.policy[p] = NewStatus /\ store'.gateway = store.gateway
      /\ \A q \in Policies : /\ store'.policy[q].live = store.policy[q].live
                             /\ store'.policy[q].spec = store.policy[q].spec
  BY <1>2 DEF PolicyBecomes
<1>4. TargetedGatewayKeys(store', t) = keys
  BY <1>0 DEF LinksKept
<1>5. GatewaysRateLimits(store', t) = GatewaysRateLimits(store, t)
  BY <1>3, <1>4, RateLimitsSame
<1>6. TargetedGatewayKeys(cache, t) = keys
  BY DEF CurrentCopies, TargetedGatewayKeys
<1>7. GatewaysRateLimits(cache, t) = GatewaysRateLimits(store, t)
  BY <1>6, RateLimitsSame DEF CurrentCopies
<1>8. t \in Routes => cache.route[t].live
  BY ClusterAssumption DEF TraceInv, TargetsInv, TargetLive, Lockable, CurrentCopies
<1>9. \A g \in keys : p \in store'.gateway[g].refs
  BY <1>0, <1>3 DEF ListingInv
<1> HIDE DEF t, keys
<1>10. store'.policy[p].target = t
  BY <1>2, <1>3
<1> QED BY <1>1, <1>2, <1>3, <1>4, <1>5, <1>7, <1>8, <1>9, <1>10 DEF Fine

\* How the worker leaves the policy it works on: with the same copy, or with the
\* copy it has just written, or giving it back, or done with it.
LEMMA WorkEnds ==
    ASSUME TraceInv, ReportInv, ListingInv, Work, CurrentCopies, NEW p \in Policies, p = wk.p
    PROVE  \/ wk'.pc # "idle" /\ SameJob /\ queue' = queue
           \/ Armed /\ (store'.policy[p] = wk'.rlp \/ p \in queue)
           \/ GivesUp
           \/ Ends /\ (Fine(p)' \/ p \in queue)
<1> DEFINE Goes == wk'.pc # "idle" /\ SameJob /\ queue' = queue
           Good == \/ Goes \/ GivesUp
                   \/ Armed /\ (store'.policy[p] = wk'.rlp \/ p \in queue)
                   \/ Ends /\ (Fine(p)' \/ p \in queue)
<1>0. TypeInv /\ BaseInv /\ WorkStep /\ wk.pc # "idle" /\ wk.rlp.live
  BY WorkSteps DEF TraceInv, BaseInv, JobInv
<1>1. store.policy[p] = wk.rlp \/ p \in queue
  BY <1>0 DEF ReportInv, Awaited, CurrentCopies
<1>2. /\ Fails => Goes \/ GivesUp
      /\ \A pc : MovesTo(pc) /\ pc # "idle" => Goes
      /\ \A pc : Enters(pc) /\ pc # "idle" => Goes
      /\ \A g : Visits(g) \/ Annotates(g) => Goes
  BY <1>0 DEF Fails, Reports, MovesTo, Enters, Visits, Annotates, Kept
<1>3. Following # "idle"
  BY DEF Following
<1> HIDE DEF Goes
<1>4. CASE AddFinalizerStep
  <2>1. ~store.policy[wk.p].live => p \in queue
    BY <1>0, <1>1
  <2>2. Armed /\ PolicyBecomes(wk.p, [wk.rlp EXCEPT !.finalizer = TRUE]) => store'.policy[p] = wk'.rlp
    BY DEF Armed, PolicyBecomes
  <2>3. Good
    BY <1>2, <1>4, <2>1, <2>2 DEF AddFinalizerStep
  <2> QED BY <2>3 DEF Goes
<1>5. CASE StatusStep
  <2>1. CASE GivesUp
    BY <2>1
  <2>2. CASE /\ ~wk.err /\ Ends
             /\ \/ store' = store /\ NewStatus = wk.rlp
                \/ PolicyBecomes(wk.p, NewStatus)
    <3>1. wk.pc = "status"
      BY <1>5 DEF StatusStep
    <3>2. store.policy[p] = wk.rlp => Fine(p)'
      BY <2>2, <3>1, StatusEnds
    <3> QED BY <1>1, <2>2, <3>2
  <2> QED BY <1>5, <2>1, <2>2 DEF StatusStep
<1>6. CASE FinRemoveStep
  <2>1. ~store.policy[wk.p].live /\ store' = store => Fine(p)'
    BY DEF Fine
  <2>2. PolicyBecomes(wk.p, NoSuchPolicy) => Fine(p)'
    BY DEF PolicyBecomes, Fine, NoSuchPolicy
  <2>3. Good
    BY <1>2, <1>6, <2>1, <2>2 DEF FinRemoveStep
  <2> QED BY <2>3 DEF Goes
<1>7. CASE BackRefStep \/ DiffStep \/ LimitsStep
  <2>1. Sorted(TargetedGatewayKeys(cache, wk.rlp.target)) => Goes
    BY DEF Sorted, Goes
  <2>2. Goes \/ GivesUp
    BY <1>2, <1>3, <1>7, <2>1 DEF BackRefStep, DiffStep, LimitsStep
  <2> QED BY <2>2 DEF Goes
<1>8. CASE FilterStep \/ PluginStep
  <2>1. Goes \/ GivesUp
    BY <1>2, <1>8 DEF FilterStep, PluginStep
  <2> QED BY <2>1 DEF Goes
<1>9. CASE RefsStep \/ LoopStep
  <2>1. Goes \/ GivesUp
    BY <1>2, <1>3, <1>9 DEF RefsStep, LoopStep
  <2> QED BY <2>1 DEF Goes
<1>10. CASE FinDiffStep \/ FinBackRefStep
  <2>1. wk'.pc = "refs" /\ SameJob /\ queue' = queue => Goes
    BY DEF Goes
  <2>2. Goes \/ GivesUp
    BY <1>2, <1>10, <2>1 DEF FinDiffStep, FinBackRefStep
  <2> QED BY <2>2 DEF Goes
<1> QED BY <1>0, <1>4, <1>5, <1>6, <1>7, <1>8, <1>9, <1>10 DEF WorkStep

\* Marks come from users alone, and the controller takes a finalizer only with
\* the object.
LEMMA WorkMarks ==
    ASSUME TraceInv, ReportInv, Work
    PROVE  \A p \in Policies : store'.policy[p].deleting => store'.policy[p].finalizer
<1> DEFINE Good == \A p \in Policies : store'.policy[p].deleting => store'.policy[p].finalizer
<1>0. TypeInv /\ wk.p \in Policies /\ WorkStep /\ wk.rlp \in Policy
  BY WorkSteps, TypeParts DEF TraceInv, BaseInv
<1>1. store'.policy = store.policy => Good
  BY DEF ReportInv
<1>2. ASSUME NEW x, PolicyBecomes(wk.p, x), x.deleting => x.finalizer PROVE Good
  BY <1>2 DEF PolicyBecomes, ReportInv
<1> HIDE DEF Good
<1>3. AddFinalizerStep => Good
  <2>1. [wk.rlp EXCEPT !.finalizer = TRUE].finalizer
    BY <1>0 DEF Policy
  <2> QED BY <1>1, <1>2, <2>1 DEF AddFinalizerStep
<1>4. StatusStep => Good
  <2>1. NewStatus.deleting = wk.rlp.deleting /\ NewStatus.finalizer = wk.rlp.finalizer
    BY <1>0 DEF Policy, NewStatus
  <2>2. store.policy[wk.p] = wk.rlp => (wk.rlp.deleting => wk.rlp.finalizer)
    BY <1>0 DEF ReportInv
  <2> QED BY <1>1, <1>2, <2>1, <2>2 DEF StatusStep
<1>5. FinRemoveStep => Good
  <2>1. ~NoSuchPolicy.deleting
    BY DEF NoSuchPolicy
  <2> QED BY <1>1, <1>2, <2>1 DEF FinRemoveStep
<1>6. BackRefStep \/ FinBackRefStep => Good
  BY <1>1 DEF BackRefStep, FinBackRefStep, OwnerWritten, RouteBecomes, GatewayBecomes
<1>7. DiffStep \/ LimitsStep \/ FilterStep => Good
  BY <1>1 DEF DiffStep, LimitsStep, FilterStep, LimitadorBecomes, FilterBecomes
<1>8. PluginStep \/ RefsStep \/ LoopStep \/ FinDiffStep => Good
  BY <1>1 DEF PluginStep, RefsStep, LoopStep, FinDiffStep, PluginBecomes, GatewayBecomes
<1>9. Good
  BY <1>0, <1>3, <1>4, <1>5, <1>6, <1>7, <1>8 DEF WorkStep
<1> QED BY <1>9 DEF Good

LEMMA WorkReportInv ==
    ASSUME TraceInv, ReportInv, ListingInv, Work, Prompt
    PROVE  ReportInv'
<1>0. /\ TypeInv /\ wk.p \in Policies /\ cache' = cache /\ CurrentCopies /\ wk.pc # "idle"
      /\ LinksKept /\ OwnedInv
  BY WorkSteps, WorkLinks, SettledCopies DEF TraceInv, BaseInv
<1>p. PICK p \in Policies : p = wk.p
  BY <1>0
<1>1. /\ queue \subseteq queue'
      /\ \/ wk'.pc # "idle" /\ SameJob
         \/ wk'.pc # "idle" /\ wk'.p = wk.p /\ (store'.policy[p] = wk'.rlp \/ p \in queue)
         \/ wk'.pc = "idle" /\ (Fine(p)' \/ p \in queue')
  BY <1>0, <1>p, WorkEnds, IdleType DEF Armed, GivesUp, Ends
<1>2. \A q \in Policies :
        /\ q \in queue' => Awaited(q)'
        /\ Awaited(q) => Awaited(q)'
        /\ store'.policy[q] = store.policy[q] \/ Awaited(q)'
        /\ Fine(q) => Fine(q)' \/ Awaited(q)'
  BY <1>0, <1>1, ChangesAwaited
<1>3. \A q \in Policies : Fine(q)' \/ Awaited(q)' \/ (wk'.pc # "idle" /\ wk'.p = q)
  BY <1>p, <1>1, <1>2 DEF ReportInv, SameJob
<1>4. wk'.pc # "idle" => wk'.p = p /\ (store'.policy[p] = wk'.rlp \/ Awaited(p)')
  BY <1>0, <1>p, <1>1, <1>2 DEF ReportInv, SameJob
<1> QED BY <1>p, <1>3, <1>4, WorkMarks DEF ReportInv, Awaited

-----------------------------------------------------------------------------
(* The gateways of a policy that is applied.                               *)

LEMMA WorkListingInv ==
    ASSUME TraceInv, ListingInv, Work, Prompt
    PROVE  ListingInv'
<1>0. /\ TypeInv /\ BaseInv /\ WorkStep /\ wk.pc # "idle" /\ wk.p \in Policies /\ LinksKept
      /\ CurrentCopies /\ wk.mode \in {"apply", "finalize"} /\ wk.todo \subseteq Gateways
      /\ wk.same \subseteq Gateways /\ wk.new \subseteq Gateways
  BY WorkSteps, WorkLinks, SettledCopies, TypeParts DEF TraceInv, BaseInv, Worker
<1>1. wk'.pc \notin ConfigStages /\ (wk'.pc = "status" => wk'.err) => ListingInv'
  BY DEF ListingInv, ConfigStages
<1>2. Fails \/ GivesUp \/ Ends => ListingInv'
  <2>1. wk' = Idle \/ Reports => wk'.pc \notin ConfigStages /\ (wk'.pc = "status" => wk'.err)
    BY IdleType DEF Reports, ConfigStages
  <2> QED BY <1>1, <2>1 DEF Fails, GivesUp, Ends
<1>3. CASE wk.mode = "finalize"
  <2>1. wk' = Idle \/ wk'.mode = wk.mode
    BY <1>0, WorkJob DEF BaseInv, SameJob, Armed
  <2>2. wk'.mode = "finalize" => ListingInv'
    BY DEF ListingInv
  <2> QED BY <1>2, <1>3, <2>1, <2>2, IdleType, <1>1 DEF ConfigStages
<1>4. SUFFICES ASSUME wk.mode = "apply" PROVE ListingInv'
  BY <1>0, <1>3
\* What the stages behind the diff keep.
<1> DEFINE Listed == \A g \in Gateways : wk.p \in store.gateway[g].refs => wk.p \in store'.gateway[g].refs
           Placed == /\ wk'.left = {}
                     /\ wk'.same \cup wk'.new = TargetedGatewayKeys(store', wk'.rlp.target)
                     /\ \A g \in wk'.same : wk'.p \in store'.gateway[g].refs
<1>5. ASSUME wk.pc \in ConfigStages, SameJob, SameDiff, Listed PROVE Placed
  <2>1. /\ wk.left = {} /\ wk.same \cup wk.new = TargetedGatewayKeys(store, wk.rlp.target)
        /\ \A g \in wk.same : wk.p \in store.gateway[g].refs
    BY <1>4, <1>5 DEF ListingInv
  <2> QED BY <1>0, <1>5, <2>1 DEF SameJob, SameDiff, LinksKept
<1>6. Placed /\ wk'.pc \notin {"refs", "status"} => ListingInv'
  BY DEF ListingInv
<1>7. store'.gateway = store.gateway => Listed
  OBVIOUS
<1> HIDE DEF Listed, Placed
<1>8. CASE DiffStep
  <2> DEFINE keys == TargetedGatewayKeys(cache, wk.rlp.target)
  <2>1. SUFFICES ASSUME Sorted(keys) PROVE ListingInv'
    BY <1>2, <1>8 DEF DiffStep
  <2>2. store' = store /\ wk'.pc = "limits" /\ SameJob
    BY <1>8, <2>1 DEF DiffStep, Sorted
  <2>3. keys = TargetedGatewayKeys(store, wk.rlp.target) /\ keys \subseteq Gateways
    BY <1>0, KeysAreGateways DEF CurrentCopies, TargetedGatewayKeys
  <2>4. store.policy[wk.p].target = wk.rlp.target
    BY <1>0, <1>4, CopiesAgree DEF TraceInv
  <2>5. \A g \in Gateways : wk.p \in store.gateway[g].refs => g \in keys
    BY <1>0, <2>3, <2>4 DEF TraceInv, CoveredInv, Covered, Traces
  <2>6. \A g \in Gateways : cache.gateway[g] = store.gateway[g] /\ store.gateway[g].live
    BY <1>0 DEF CurrentCopies, TraceInv, TargetsInv
  <2> HIDE DEF keys
  <2>7. wk'.left = {}
    BY <2>1, <2>5, <2>6 DEF Sorted, LeftGateways
  <2>8. wk'.same \cup wk'.new = keys
    BY <2>1, <2>3, <2>6 DEF Sorted, SameGateways, NewGateways
  <2>9. \A g \in wk'.same : wk.p \in store.gateway[g].refs
    BY <2>1, <2>3, <2>6 DEF Sorted, SameGateways
  <2>10. Placed
    BY <2>2, <2>3, <2>7, <2>8, <2>9 DEF Placed, SameJob
  <2> QED BY <1>6, <2>2, <2>10
<1>9. CASE LimitsStep
  <2>1. SUFFICES ASSUME Enters(Following), store'.gateway = store.gateway PROVE ListingInv'
    BY <1>2, <1>4, <1>9 DEF LimitsStep, LimitadorBecomes
  <2>2. wk'.pc = "filter" /\ SameJob /\ SameDiff
    BY <1>4, <1>9, <2>1 DEF LimitsStep, Enters, MovesTo, Kept, Following
  <2>3. Placed
    BY <1>5, <1>7, <1>9, <2>1, <2>2 DEF LimitsStep, ConfigStages
  <2> QED BY <1>6, <2>2, <2>3
<1>10. CASE FilterStep \/ PluginStep
  <2>1. Fails \/ (MovesTo(wk.pc) /\ store'.gateway = store.gateway)
    BY <1>10 DEF FilterStep, PluginStep, Visits, FilterBecomes, PluginBecomes
  <2>2. wk.pc \in {"filter", "plugin"}
    BY <1>10 DEF FilterStep, PluginStep
  <2>3. SUFFICES ASSUME MovesTo(wk.pc), store'.gateway = store.gateway PROVE ListingInv'
    BY <1>2, <2>1
  <2>4. Placed
    BY <1>5, <1>7, <2>2, <2>3 DEF MovesTo, Kept, ConfigStages
  <2> QED BY <1>6, <2>2, <2>3, <2>4 DEF MovesTo
<1>11. CASE LoopStep
  <2>1. /\ wk.pc \in {"filter", "plugin", "refs"} /\ wk.todo = {} /\ store' = store
        /\ SameJob /\ SameDiff /\ wk'.pc = Following /\ wk'.todo = Enter(Following).todo
        /\ wk'.err = wk.err
    BY <1>11 DEF LoopStep, Enters, MovesTo, Kept
  <2>2. Placed
    BY <1>5, <1>7, <2>1 DEF ConfigStages
  <2>3. CASE wk.pc = "filter"
    <3>1. wk'.pc = "plugin"
      BY <1>4, <2>1, <2>3 DEF Following
    <3> QED BY <1>6, <2>2, <3>1
  <2>4. CASE wk.pc = "plugin"
    <3>1. wk'.pc = "refs" /\ Following = "refs"
      BY <1>4, <2>1, <2>4 DEF Following
    <3>2. wk'.todo = wk.left \cup wk.new
      BY <1>0, <2>1, <3>1, TypeParts DEF Enter, Worker
    <3>3. wk'.new \ wk'.todo = {}
      BY <2>1, <3>2 DEF SameDiff
    <3> QED BY <2>2, <3>1, <3>3 DEF ListingInv, Placed
  <2>5. CASE wk.pc = "refs"
    <3>1. wk'.pc = "status"
      BY <1>4, <2>1, <2>5 DEF Following
    <3>2. /\ wk.same \cup wk.new = TargetedGatewayKeys(store, wk.rlp.target)
          /\ \A g \in wk.same : wk.p \in store.gateway[g].refs
          /\ \A g \in wk.new : wk.p \in store.gateway[g].refs
      BY <1>4, <2>1, <2>5 DEF ListingInv, ConfigStages
    <3>3. \A g \in TargetedGatewayKeys(store', wk'.rlp.target) : wk'.p \in store'.gateway[g].refs
      BY <2>1, <3>2 DEF SameJob
    <3> QED BY <3>1, <3>3 DEF ListingInv, ConfigStages
  <2> QED BY <2>1, <2>3, <2>4, <2>5
<1>12. CASE RefsStep
  <2>1. PICK g \in wk.todo :
          \/ Fails
          \/ RLPRefsAfter(g) = wk.gws[g].refs /\ store' = store /\ Visits(g)
          \/ /\ GatewayBecomes(g, [wk.gws[g] EXCEPT !.refs = RLPRefsAfter(g)])
             /\ Annotates(g)
    BY <1>12 DEF RefsStep
  <2>2. wk.pc = "refs" /\ g \in Gateways /\ wk.gws[g] \in Gateway
    BY <1>0, <1>12, TypeParts DEF RefsStep
  <2>3. wk.left = {} /\ \A h \in wk.new \ wk.todo : wk.p \in store.gateway[h].refs
    BY <1>4, <2>2 DEF ListingInv, ConfigStages
  <2>4. wk.p \in RLPRefsAfter(g)
    BY <2>3 DEF RLPRefsAfter
  <2>0. Passes(g) => wk'.todo = wk.todo \ {g} /\ g \notin wk.again
    BY <1>0, <1>4, AppliesOnce DEF BaseInv
  <2>5. ASSUME wk'.pc = wk.pc, SameJob, SameDiff, wk'.todo = wk.todo \ {g},
               wk.p \in store'.gateway[g].refs,
               \A h \in Gateways \ {g} : store'.gateway[h] = store.gateway[h]
        PROVE  ListingInv'
    <3>1. Listed
      BY <2>5 DEF Listed
    <3>2. Placed
      BY <1>5, <2>2, <2>5, <3>1 DEF ConfigStages
    <3>3. \A h \in wk'.new \ wk'.todo : wk'.p \in store'.gateway[h].refs
      BY <1>0, <2>3, <2>5, <3>1 DEF SameJob, SameDiff, Listed
    <3> QED BY <2>2, <2>5, <3>2, <3>3 DEF ListingInv, Placed
  <2>6. CASE RLPRefsAfter(g) = wk.gws[g].refs /\ store' = store /\ Visits(g)
    <3>1. wk.p \in store'.gateway[g].refs
      BY <1>4, <2>2, <2>4, <2>6 DEF TraceInv, DiffInv, Superseded, ConfigStages
    <3> QED BY <2>0, <2>5, <2>6, <3>1 DEF Visits, MovesTo, Kept
  <2>7. CASE GatewayBecomes(g, [wk.gws[g] EXCEPT !.refs = RLPRefsAfter(g)]) /\ Annotates(g)
    <3>1. store'.gateway[g].refs = RLPRefsAfter(g)
      BY <2>2, <2>7 DEF GatewayBecomes, Gateway
    <3> QED BY <2>0, <2>4, <2>5, <2>7, <3>1 DEF Annotates, GatewayBecomes
  <2> QED BY <1>2, <2>1, <2>6, <2>7
<1>13. CASE AddFinalizerStep \/ BackRefStep \/ StatusStep
  <2>1. Armed \/ MovesTo("diff") => ListingInv'
    BY <1>1 DEF Armed, MovesTo, ConfigStages
  <2> QED BY <1>2, <1>13, <2>1 DEF AddFinalizerStep, BackRefStep, StatusStep
<1>14. ~(FinDiffStep \/ FinBackRefStep \/ FinRemoveStep)
  BY <1>0, <1>4 DEF FinDiffStep, FinBackRefStep, FinRemoveStep, BaseInv, WorkerInv
<1> QED BY <1>0, <1>8, <1>9, <1>10, <1>11, <1>12, <1>13, <1>14 DEF WorkStep

LEMMA NextRestInv ==
    ASSUME TraceInv, ReportInv, ListingInv, [Next]_vars, Rooted, Prompt
    PROVE  ReportInv' /\ ListingInv'
<1>0. TypeInv /\ OwnedInv
  BY DEF TraceInv, BaseInv
<1>1. ASSUME NEW p \in Policies, Start(p) PROVE ReportInv' /\ ListingInv'
  <2>1. wk'.pc \notin ConfigStages \cup {"status"}
    BY <1>1, StartEffect, IdleType DEF Begun, ConfigStages
  <2>2. ListingInv'
    BY <2>1 DEF ListingInv, ConfigStages
  <2> QED BY <1>0, <1>1, <2>2, StartReportInv
<1>2. CASE Work
  BY <1>2, WorkReportInv, WorkListingInv
<1>3. CASE Watch
  <2>1. store' = store /\ wk' = wk
    BY <1>0, <1>3, WatchCopies
  <2>2. ListingInv'
    BY <2>1 DEF ListingInv
  <2> QED BY <1>0, <1>3, <2>2, WatchReportInv
<1>4. CASE Environment
  <2>1. /\ wk' = wk /\ LinksKept
        /\ \A g \in Gateways : store'.gateway[g].refs = store.gateway[g].refs
    BY <1>0, <1>4, EnvironmentKeeps
  <2>2. /\ wk.same \subseteq Gateways /\ wk.new \subseteq Gateways
        /\ TargetedGatewayKeys(store, wk.rlp.target) \subseteq Gateways
    BY <1>0, TypeParts, KeysAreGateways DEF Worker
  <2>3. ListingInv'
    BY <2>1, <2>2 DEF ListingInv, LinksKept
  <2> QED BY <1>0, <1>4, <2>3, EnvironmentReportInv
<1>5. CASE Crash
  <2>1. store' = store /\ wk'.pc = "idle"
    BY <1>5, IdleType DEF Crash
  <2>2. \A p \in Policies : store.policy[p].live => p \in queue'
    BY <1>5 DEF Crash
  <2>3. \A p \in Policies : Fine(p)' \/ Awaited(p)'
    BY <2>1, <2>2 DEF Fine, Awaited
  <2> QED BY <2>1, <2>3 DEF ReportInv, ListingInv, ConfigStages
<1>6. CASE UNCHANGED vars
  BY <1>6 DEF ReportInv, ListingInv, Fine, Awaited, vars
<1> QED BY <1>1, <1>2, <1>3, <1>4, <1>5, <1>6 DEF Next

-----------------------------------------------------------------------------
(* EnvoyFilters.                                                           *)

\* Some policy other than those of S will be finalized and visit g.
CoveredBesides(g, S) == \E q \in Policies \ S : Covered(q, g)

\* A gateway that is listed by policies has its filter; one that has a filter is
\* a gateway of a policy, which is another than the one that is being finalized
\* once that one has been through with it.
FilteredInv ==
    /\ \A g \in Gateways : store.gateway[g].refs # {} => store.filter[g]
    /\ \A g \in Gateways : store.filter[g] => CoveredBesides(g, {})
    /\ wk.mode = "finalize" /\ wk.pc = "filter" =>
          \A g \in Gateways \ wk.todo : store.filter[g] => CoveredBesides(g, {wk.p})
    /\ wk.mode = "finalize" /\ wk.pc \in {"limits", "finBackRef", "finRemove"} =>
          \A g \in Gateways : store.filter[g] => CoveredBesides(g, {wk.p})

LEMMA CoveredBesidesKept ==
    ASSUME LinksKept, NEW g, NEW S,
           \A p \in Policies \ S : Holds(store.policy[p]) =>
               Holds(store'.policy[p]) /\ store'.policy[p].target = store.policy[p].target,
           CoveredBesides(g, S)
    PROVE  CoveredBesides(g, S)'
<1>1. PICK q \in Policies \ S : Covered(q, g)
  BY DEF CoveredBesides
<1>2. Covered(q, g)'
  BY <1>1, CoveredKept DEF Covered
<1> QED BY <1>1, <1>2 DEF CoveredBesides

\* Only the annotation stage changes annotations, only the filter stage filters.
LEMMA WorkListed ==
    ASSUME TypeInv, WorkStep
    PROVE  /\ ~RefsStep => \A g \in Gateways : store'.gateway[g].refs = store.gateway[g].refs
           /\ ~FilterStep => store'.filter = store.filter
<1> DEFINE Refs == \A g \in Gateways : store'.gateway[g].refs = store.gateway[g].refs
<1>1. store'.gateway = store.gateway => Refs
  OBVIOUS
<1>2. ASSUME NEW t, NEW p, OwnerWritten(t, p) PROVE Refs
  <2>1. \A g \in Gateways : store.gateway[g] \in Gateway
    BY TypeParts, GetTypes
  <2>2. \A g \in Gateways : [store.gateway[g] EXCEPT !.backref = p].refs = store.gateway[g].refs
    BY <2>1 DEF Gateway
  <2> QED BY <1>2, <2>2 DEF OwnerWritten, RouteBecomes, GatewayBecomes
<1> HIDE DEF Refs
<1>3. BackRefStep \/ FinBackRefStep => Refs /\ store'.filter = store.filter
  BY <1>1, <1>2 DEF BackRefStep, FinBackRefStep, OwnerWritten, RouteBecomes, GatewayBecomes
<1>4. AddFinalizerStep \/ StatusStep \/ FinRemoveStep => Refs /\ store'.filter = store.filter
  BY <1>1 DEF AddFinalizerStep, StatusStep, FinRemoveStep, PolicyBecomes
<1>5. DiffStep \/ LimitsStep \/ PluginStep => Refs /\ store'.filter = store.filter
  BY <1>1 DEF DiffStep, LimitsStep, PluginStep, LimitadorBecomes, PluginBecomes
<1>6. LoopStep \/ FinDiffStep => Refs /\ store'.filter = store.filter
  BY <1>1 DEF LoopStep, FinDiffStep
<1>7. (FilterStep => Refs) /\ (RefsStep => store'.filter = store.filter)
  BY <1>1 DEF FilterStep, RefsStep, FilterBecomes, GatewayBecomes
<1>8. (~RefsStep => Refs) /\ (~FilterStep => store'.filter = store.filter)
  BY <1>3, <1>4, <1>5, <1>6, <1>7 DEF WorkStep
<1> QED BY <1>8 DEF Refs

\* The filter of a gateway that the filter stage visits is there afterwards
\* exactly when it should be.
LEMMA FilterVisited ==
    ASSUME TraceInv, ListingInv, FilteredInv, wk.pc = "filter", NEW g \in wk.todo,
           NEW p \in Policies, p = wk.p
    PROVE  /\ store.gateway[g].refs # {} => RLPRefsAfter(g) # {}
           /\ RLPRefsAfter(g) # {} => CoveredBesides(g, {})
           /\ wk.mode = "finalize" /\ RLPRefsAfter(g) # {} => CoveredBesides(g, {p})
<1>0. /\ TypeInv /\ BaseInv /\ wk.todo \subseteq Gateways /\ wk.mode \in {"apply", "finalize"}
      /\ store.gateway[g].refs \subseteq Policies
  BY TypeParts, GetTypes DEF TraceInv, BaseInv, Worker, Gateway
<1>1. g \in wk.left \cup wk.new /\ wk.gws[g].refs = store.gateway[g].refs
  BY <1>0 DEF BaseInv, FilterInv, TraceInv, DiffInv, Superseded, ConfigStages
<1>2. CASE wk.mode = "apply"
  <2>1. wk.left = {} /\ g \in TargetedGatewayKeys(store, wk.rlp.target)
    BY <1>1, <1>2 DEF ListingInv, ConfigStages
  <2>2. Holds(store.policy[p]) /\ store.policy[p].target = wk.rlp.target
    BY <1>2, CopiesAgree DEF TraceInv
  <2>3. CoveredBesides(g, {})
    BY <2>1, <2>2 DEF CoveredBesides, Covered
  <2>4. p \in RLPRefsAfter(g)
    BY <2>1 DEF RLPRefsAfter
  <2> QED BY <1>2, <2>3, <2>4
<1>3. CASE wk.mode = "finalize"
  <2>1. g \in wk.left
    BY <1>1, <1>3 DEF TraceInv, BaseInv, WorkerInv
  <2>2. p \notin store.gateway[g].refs
    BY <1>0, <1>3 DEF TraceInv, SweptInv
  <2>3. RLPRefsAfter(g) = store.gateway[g].refs
    BY <1>1, <2>1, <2>2 DEF RLPRefsAfter
  <2>4. ASSUME NEW q \in store.gateway[g].refs PROVE q \in Policies \ {p} /\ Covered(q, g)
    BY <1>0, <2>2, <2>4 DEF TraceInv, CoveredInv, Traces
  <2> QED BY <2>3, <2>4 DEF CoveredBesides
<1> QED BY <1>0, <1>2, <1>3

LEMMA WorkFilteredInv ==
    ASSUME TraceInv, ListingInv, FilteredInv, Work, Prompt, "filter" \notin Lagging
    PROVE  FilteredInv'
<1>0. /\ TypeInv /\ BaseInv /\ WorkStep /\ wk.pc # "idle" /\ wk.p \in Policies /\ LinksKept
      /\ wk.mode \in {"apply", "finalize"} /\ wk.todo \subseteq Gateways
      /\ cache.filter = store.filter
  BY WorkSteps, WorkLinks, SettledKinds, TypeParts DEF TraceInv, BaseInv, Worker
<1>p. PICK p \in Policies : p = wk.p
  BY <1>0
<1>1. \A g : CoveredBesides(g, {p}) => CoveredBesides(g, {p})'
  <2>1. \A q \in Policies \ {p} : Holds(store.policy[q]) =>
            Holds(store'.policy[q]) /\ store'.policy[q].target = store.policy[q].target
    BY <1>p, WorkHolders DEF TraceInv, HoldersKept, PolicyRemoved, PolicyBecomes
  <2> QED BY <1>0, <2>1, CoveredBesidesKept
<1>2. \A g : CoveredBesides(g, {}) /\ ~PolicyRemoved => CoveredBesides(g, {})'
  BY <1>0, WorkHolders, CoveredBesidesKept DEF TraceInv, HoldersKept
<1>3. \A g : CoveredBesides(g, {p})' => CoveredBesides(g, {})'
  BY DEF CoveredBesides
\* The four parts, of the next state.
<1> DEFINE Filters == \A g \in Gateways : store'.gateway[g].refs # {} => store'.filter[g]
           Users == \A g \in Gateways : store'.filter[g] => CoveredBesides(g, {})'
           Visiting == \A g \in Gateways \ wk'.todo : store'.filter[g] => CoveredBesides(g, {p})'
           Freed == \A g \in Gateways : store'.filter[g] => CoveredBesides(g, {p})'
<1>4. ASSUME Filters, Users, wk'.p = wk.p,
             wk'.mode = "finalize" /\ wk'.pc = "filter" => Visiting,
             wk'.mode = "finalize" /\ wk'.pc \in {"limits", "finBackRef", "finRemove"} => Freed
      PROVE  FilteredInv'
  BY <1>p, <1>4 DEF FilteredInv, CoveredBesides
<1>5. ASSUME Filters, Users, wk'.pc \notin {"filter", "limits", "finBackRef", "finRemove"}
      PROVE  FilteredInv'
  BY <1>5 DEF FilteredInv, CoveredBesides
<1>6. ~FilterStep => Users
  <2> SUFFICES ASSUME ~FilterStep, NEW g \in Gateways, store.filter[g] PROVE CoveredBesides(g, {})'
    BY <1>0, WorkListed
  <2>1. CASE PolicyRemoved
    <3>1. wk.pc = "finRemove" /\ wk.mode = "finalize"
      BY <1>0, <2>1 DEF PolicyRemoved, BaseInv, WorkerInv
    <3> QED BY <1>p, <1>1, <1>3, <3>1 DEF FilteredInv
  <2> QED BY <1>2, <2>1 DEF FilteredInv
<1>7. ~FilterStep /\ ~RefsStep => Filters
  BY <1>0, WorkListed DEF FilteredInv
<1>8. CASE wk'.pc \notin {"filter", "limits", "finBackRef", "finRemove"} /\ ~FilterStep /\ ~RefsStep
  BY <1>5, <1>6, <1>7, <1>8
<1>9. Fails \/ GivesUp \/ Ends => wk'.pc \in {"idle", "status"}
  BY IdleType DEF Fails, Reports, GivesUp, Ends
<1>10. CASE FilterStep
  <2>1. PICK g \in wk.todo :
          \/ store' = store /\ Fails
          \/ RLPRefsAfter(g) = {} /\ ~cache.filter[g] /\ store' = store /\ Visits(g)
          \/ FilterBecomes(g, RLPRefsAfter(g) # {}) /\ (Visits(g) \/ Fails)
    BY <1>10 DEF FilterStep
  <2>2. wk.pc = "filter" /\ g \in Gateways /\ ~PolicyRemoved
    BY <1>0, <1>10 DEF FilterStep, PolicyRemoved
  <2>3. Filters
    BY <1>p, <2>1, <2>2, FilterVisited DEF FilteredInv, FilterBecomes
  <2>4. Users
    BY <1>p, <1>2, <2>1, <2>2, FilterVisited DEF FilteredInv, FilterBecomes
  <2>5. CASE Fails
    BY <1>5, <1>9, <2>3, <2>4, <2>5
  <2>6. CASE Visits(g)
    <3>1. wk'.p = wk.p /\ wk'.mode = wk.mode /\ wk'.pc = "filter" /\ wk.todo \ {g} \subseteq wk'.todo
      BY <2>2, <2>6, PassesTodo DEF Visits, MovesTo, Kept, SameJob
    <3>2. wk.mode = "finalize" => Visiting
      <4> SUFFICES ASSUME wk.mode = "finalize", NEW h \in Gateways \ wk'.todo, store'.filter[h]
                   PROVE  CoveredBesides(h, {p})'
        OBVIOUS
      <4>1. CASE h = g
        <5>1. RLPRefsAfter(g) # {}
          BY <1>0, <1>9, <2>1, <3>1, <4>1 DEF FilterBecomes
        <5> QED BY <1>p, <1>1, <2>2, <4>1, <5>1, FilterVisited
      <4>2. CASE h # g
        <5>1. store.filter[h] /\ h \notin wk.todo
          BY <2>1, <3>1, <4>2 DEF FilterBecomes
        <5> QED BY <1>p, <1>1, <2>2, <5>1 DEF FilteredInv
      <4> QED BY <4>1, <4>2
    <3> QED BY <1>4, <2>3, <2>4, <3>1, <3>2
  <2> QED BY <2>1, <2>5, <2>6
<1>11. CASE RefsStep
  <2>1. PICK g \in wk.todo :
          \/ store' = store
          \/ GatewayBecomes(g, [wk.gws[g] EXCEPT !.refs = RLPRefsAfter(g)])
    BY <1>11 DEF RefsStep
  <2>2. wk.pc = "refs" /\ g \in Gateways /\ wk.gws[g] \in Gateway /\ ~FilterStep
    BY <1>0, <1>11, TypeParts DEF RefsStep, FilterStep
  <2>3. /\ g \in wk.left \cup wk.new
        /\ wk.gws[g].refs = store.gateway[g].refs \/ Superseded(g)
    BY <1>0, <2>2 DEF BaseInv, FilterInv, TraceInv, DiffInv, ConfigStages
  <2>4. RLPRefsAfter(g) # {} => store.filter[g]
    <3>1. CASE g \in wk.new
      BY <1>0, <2>2, <3>1 DEF BaseInv, FilterInv
    <3>2. CASE g \in wk.left
      <4>1. RLPRefsAfter(g) \subseteq store.gateway[g].refs
        BY <2>3, <3>2 DEF RLPRefsAfter, Superseded
      <4> QED BY <2>2, <4>1 DEF FilteredInv
    <3> QED BY <2>3, <3>1, <3>2
  <2>5. GatewayBecomes(g, [wk.gws[g] EXCEPT !.refs = RLPRefsAfter(g)])
          => store'.gateway[g].refs = RLPRefsAfter(g)
    BY <2>2 DEF GatewayBecomes, Gateway
  <2>6. Filters
    BY <2>1, <2>2, <2>4, <2>5 DEF FilteredInv, GatewayBecomes
  <2>7. wk'.pc \in {"idle", "status", "refs"}
    BY <1>9, <1>11, <2>2 DEF RefsStep, Visits, Annotates, MovesTo
  <2> QED BY <1>5, <1>6, <2>2, <2>6, <2>7
<1>12. CASE LoopStep
  <2>0. /\ wk.pc \in {"filter", "plugin", "refs"} /\ wk.todo = {} /\ store' = store
        /\ SameJob /\ SameDiff /\ wk'.pc = Following /\ wk'.todo = Enter(Following).todo
        /\ ~FilterStep /\ ~RefsStep
    BY <1>12 DEF LoopStep, Enters, MovesTo, Kept, FilterStep, RefsStep
  <2>1. wk'.mode = "finalize" /\ wk'.pc = "filter" => Visiting
    <3> SUFFICES ASSUME wk.mode = "finalize", Following = "filter",
                        NEW g \in Gateways \ wk'.todo, store.filter[g]
                 PROVE  CoveredBesides(g, {p})'
      BY <2>0 DEF SameJob
    <3>1. wk'.todo = wk.left \cup wk.new
      BY <1>0, <2>0, TypeParts DEF Enter, Worker
    <3>2. g \notin TargetedGatewayKeys(store, wk.rlp.target)
      BY <2>0, <3>1 DEF TraceInv, DiffInv, ConfigStages
    <3>3. ~Covered(p, g)
      BY <1>0, <1>p, <3>2, CopiesAgree DEF TraceInv, Covered
    <3>4. CoveredBesides(g, {p})
      BY <3>3 DEF FilteredInv, CoveredBesides
    <3> QED BY <1>1, <3>4
  <2>2. wk'.mode = "finalize" /\ wk'.pc \in {"limits", "finBackRef", "finRemove"} => Freed
    <3> SUFFICES ASSUME wk.mode = "finalize", Following \in {"limits", "finBackRef", "finRemove"}
                 PROVE  Freed
      BY <2>0 DEF SameJob
    <3>1. wk.pc = "filter"
      BY <2>0 DEF Following
    <3> QED BY <1>p, <1>1, <2>0, <3>1 DEF FilteredInv
  <2>3. wk'.p = wk.p
    BY <2>0 DEF SameJob
  <2> HIDE DEF Filters, Users, Visiting, Freed
  <2> QED BY <1>4, <1>6, <1>7, <2>0, <2>1, <2>2, <2>3
<1>13. CASE LimitsStep \/ FinBackRefStep
  <2>0. wk.pc \in {"limits", "finBackRef"} /\ ~FilterStep /\ ~RefsStep
    BY <1>13 DEF LimitsStep, FinBackRefStep, FilterStep, RefsStep
  <2>1. CASE Fails
    BY <1>8, <1>9, <2>0, <2>1
  <2>2. CASE Enters(Following) \/ MovesTo("finRemove")
    <3>1. SameJob /\ (wk'.pc = Following \/ wk'.pc = "finRemove")
      BY <2>2 DEF Enters, MovesTo, Kept
    <3>2. wk.mode = "finalize" => Freed
      BY <1>0, <1>p, <1>1, <2>0, WorkListed DEF FilteredInv
    <3>3. wk'.mode = "finalize" => wk.mode = "finalize" /\ wk'.pc # "filter"
      BY <2>0, <3>1 DEF SameJob, Following
    <3>4. wk'.p = wk.p
      BY <3>1 DEF SameJob
    <3> HIDE DEF Filters, Users, Visiting, Freed
    <3> QED BY <1>4, <1>6, <1>7, <2>0, <3>2, <3>3, <3>4
  <2> QED BY <1>13, <2>1, <2>2 DEF LimitsStep, FinBackRefStep
<1>14. CASE AddFinalizerStep \/ BackRefStep \/ DiffStep
  <2>1. ~FilterStep /\ ~RefsStep
    BY <1>14 DEF AddFinalizerStep, BackRefStep, DiffStep, FilterStep, RefsStep
  <2>2. CASE wk'.pc \notin {"filter", "limits", "finBackRef", "finRemove"}
    BY <1>8, <2>1, <2>2
  <2>3. CASE wk'.mode = "apply" /\ wk'.p = wk.p
    <3> HIDE DEF Filters, Users, Visiting, Freed
    <3> QED BY <1>4, <1>6, <1>7, <2>1, <2>3
  <2>4. DiffStep => wk.mode = "apply"
    BY <1>0 DEF DiffStep, BaseInv, WorkerInv
  <2> QED BY <1>9, <1>14, <2>2, <2>3, <2>4
          DEF AddFinalizerStep, BackRefStep, DiffStep, Armed, MovesTo, Sorted, SameJob
<1>15. CASE StatusStep \/ FinRemoveStep \/ FinDiffStep
  <2>1. ~FilterStep /\ ~RefsStep
    BY <1>15 DEF StatusStep, FinRemoveStep, FinDiffStep, FilterStep, RefsStep
  <2> QED BY <1>8, <1>9, <1>15, <2>1 DEF StatusStep, FinRemoveStep, FinDiffStep
<1>16. CASE PluginStep
  <2>1. ~FilterStep /\ ~RefsStep /\ wk.pc = "plugin"
    BY <1>16 DEF PluginStep, FilterStep, RefsStep
  <2> QED BY <1>8, <1>9, <1>16, <2>1 DEF PluginStep, Visits, MovesTo
<1> QED BY <1>0, <1>10, <1>11, <1>12, <1>13, <1>14, <1>15, <1>16 DEF WorkStep

LEMMA NextFilteredInv ==
    ASSUME TraceInv, ListingInv, FilteredInv, [Next]_vars, Rooted, Prompt, "filter" \notin Lagging
    PROVE  FilteredInv'
<1>0. TypeInv
  BY DEF TraceInv, BaseInv
<1>1. CASE Environment
  <2>1. /\ wk' = wk /\ HoldersKept /\ LinksKept /\ store'.filter = store.filter
        /\ \A g \in Gateways : store'.gateway[g].refs = store.gateway[g].refs
    BY <1>0, <1>1, EnvironmentKeeps
  <2>2. \A g, S : CoveredBesides(g, S) => CoveredBesides(g, S)'
    BY <2>1, CoveredBesidesKept DEF HoldersKept
  <2>3. \A g : CoveredBesides(g, {wk.p}) => CoveredBesides(g, {wk.p})'
    BY <2>1, <2>2 DEF CoveredBesides
  <2> QED BY <2>1, <2>2, <2>3 DEF FilteredInv
<1>2. ASSUME store' = store, wk' = wk PROVE FilteredInv'
  BY <1>2 DEF FilteredInv, CoveredBesides, Covered
<1>3. ASSUME store' = store, wk'.pc \in {"idle", "addFinalizer", "backRef", "finDiff"}
      PROVE  FilteredInv'
  BY <1>3 DEF FilteredInv, CoveredBesides, Covered
<1>4. ASSUME NEW p \in Policies, Start(p) PROVE FilteredInv'
  BY <1>3, <1>4, StartEffect, IdleType DEF Begun
<1>5. CASE Watch
  BY <1>0, <1>2, <1>5, WatchCopies
<1>6. CASE Crash
  BY <1>3, <1>6, IdleType DEF Crash
<1>7. CASE UNCHANGED vars
  BY <1>2, <1>7 DEF vars
<1> QED BY <1>1, <1>4, <1>5, <1>6, <1>7, WorkFilteredInv DEF Next

-----------------------------------------------------------------------------
(* Rest.                                                                   *)

\* The edits that leave routes, gateways and what they lead to in place.
InPlace == Edits \cap {"retarget", "deleteUnmarked", "route", "gateway", "parents"} = {}

\* What no policy is forgotten rests on, in every reachable state.
THEOREM RestInvariant ==
    ASSUME Prompt, InPlace
    PROVE  Spec => [](TraceInv /\ ReportInv /\ ListingInv)
<1>0. Rooted
  BY DEF InPlace, Rooted, Guarded
<1>1. TraceInv /\ ReportInv /\ ListingInv /\ [Next]_vars => ReportInv' /\ ListingInv'
  BY <1>0, NextRestInv
<1>2. Spec => []TraceInv
  BY TraceInvariant DEF Prompt, InPlace
<1> QED BY <1>1, <1>2, InitReportInv, PTL DEF Spec

LEMMA RestIsFine ==
    ASSUME ReportInv, Quiescent, NEW p \in Policies
    PROVE  Fine(p)
<1>1. ~Awaited(p)
  BY DEF Awaited, Quiescent
<1> QED BY <1>1 DEF ReportInv, Quiescent

\* When the objects the controller decides on are read as they are and routes
\* and gateways stay in place, whatever else users edit and delete, whichever
\* calls fail and whenever the process stops: once the queue is empty and every
\* event delivered, every gateway lists exactly the policies whose target leads
\* to it. The controller cannot come to rest with a policy that no gateway of
\* its target knows of, or with a reference to a policy that is gone.
THEOREM ReferencesAtRest ==
    ASSUME Prompt, InPlace
    PROVE  Spec => []ReferencesConverge
<1>1. TraceInv /\ ReportInv => ReferencesConverge
  <2> SUFFICES ASSUME TraceInv, ReportInv, Quiescent, NEW p \in Policies, NEW g \in Gateways
               PROVE  p \in store.gateway[g].refs <=>
                          /\ store.policy[p].live
                          /\ g \in TargetedGatewayKeys(store, store.policy[p].target)
    BY DEF ReferencesConverge
  <2>1. p \in store.gateway[g].refs => Covered(p, g)
    BY DEF TraceInv, CoveredInv, Traces
  <2>2. Fine(p)
    BY RestIsFine
  <2> QED BY <2>1, <2>2 DEF Covered, Holds, Fine
<1> QED BY <1>1, RestInvariant, PTL

\* Under the same conditions every policy reports success on its current
\* generation at rest, and a route policy reports the limits of the gateway
\* policies that own its gateways then: the events of a gateway and of its
\* owner reach every policy that reports them.
THEOREM StatusAtRest ==
    ASSUME Prompt, InPlace
    PROVE  Spec => []StatusConverges
<1>1. ReportInv => StatusConverges
  <2> SUFFICES ASSUME ReportInv, Quiescent, NEW p \in Policies, store.policy[p].live
               PROVE  /\ store.policy[p].observed
                      /\ store.policy[p].available = "True"
                      /\ store.policy[p].target \in Routes =>
                            store.policy[p].gwLimits = GatewaysRateLimits(store, store.policy[p].target)
    BY DEF StatusConverges
  <2>1. Fine(p)
    BY RestIsFine
  <2> QED BY <2>1 DEF Fine
<1> QED BY <1>1, RestInvariant, PTL

\* When EnvoyFilters are read as they are too, a gateway has its EnvoyFilter at
\* rest exactly when policies configure it: none is missing for a gateway that
\* is listed, and the last policy's finalization leaves none behind.
THEOREM FiltersAtRest ==
    ASSUME Prompt, InPlace, "filter" \notin Lagging
    PROVE  Spec => []FilterConverges
<1>0. Rooted
  BY DEF InPlace, Rooted, Guarded
<1>1. Init => FilteredInv
  <2> SUFFICES ASSUME Init PROVE FilteredInv
    OBVIOUS
  <2>1. wk.pc = "idle"
    BY InitFacts, IdleType
  <2> QED BY <2>1, InitFacts DEF FilteredInv
<1>2. TraceInv /\ ListingInv /\ FilteredInv /\ [Next]_vars => FilteredInv'
  BY <1>0, NextFilteredInv
<1>3. TraceInv /\ ReportInv /\ FilteredInv => FilterConverges
  <2> SUFFICES ASSUME TraceInv, ReportInv, FilteredInv, Quiescent, NEW g \in Gateways
               PROVE  store.filter[g] <=> store.gateway[g].refs # {}
    BY DEF FilterConverges
  <2>0. store.filter[g] \in BOOLEAN
    BY TypeParts, GetTypes DEF TraceInv, BaseInv
  <2>1. store.gateway[g].refs # {} => store.filter[g]
    BY DEF FilteredInv
  <2>2. ASSUME store.filter[g] PROVE store.gateway[g].refs # {}
    <3>1. PICK q \in Policies : Covered(q, g)
      BY <2>2 DEF FilteredInv, CoveredBesides
    <3>2. Fine(q)
      BY RestIsFine
    <3>3. q \in store.gateway[g].refs
      BY <3>1, <3>2 DEF Covered, Holds, Fine
    <3> QED BY <3>3
  <2> QED BY <2>0, <2>1, <2>2
<1> QED BY <1>1, <1>2, <1>3, RestInvariant, PTL DEF Spec

-----------------------------------------------------------------------------
(* Limits and WasmPlugins.                                                 *)

\* What the policies that g lists ask for, as they and their routes now are.
Asked(g) == GatewayConfig(store, store.gateway[g], store.gateway[g].refs)

AskedPlugin(g) == [live |-> store.gateway[g].refs # {}, conf |-> Asked(g)]

Right(g) == store.limitador.limits[g] = Asked(g) /\ store.plugin[g] = AskedPlugin(g)

\* Besides what it is awaited for, the policy p comes up again when its route has
\* changed, or a gateway that lists it now.
Informed(p) ==
    \/ Awaited(p)
    \/ \E r \in Routes : cache.route[r] # store.route[r] /\ cache.route[r].backref = p
    \/ \E g \in Gateways : cache.gateway[g] # store.gateway[g] /\ p \in store.gateway[g].refs

\* The policy whose object may go before it comes up again.
Leaving(p) == wk.mode = "finalize" /\ wk.p = p

\* A policy that configures g comes up again.
Due(g) ==
    \E q \in Policies :
        /\ store.policy[q].live /\ g \in TargetedGatewayKeys(store, store.policy[q].target)
        /\ Informed(q) /\ ~Leaving(q)

\* The worker is busy with a policy whose target leads to g.
Attended(g) == wk.pc # "idle" /\ g \in TargetedGatewayKeys(store, wk.rlp.target)

\* How far a policy that is applied has got with g. A gateway that does not list
\* it yet will, and that event brings it up again.
Applying(g) ==
    \/ wk.pc \in {"addFinalizer", "backRef", "diff"}
    \/ wk.pc = "status" /\ (wk.err \/ Right(g))
    \/ wk.pc \in ConfigStages /\ wk.p \notin store.gateway[g].refs
    \/ /\ wk.pc \in ConfigStages
       /\ wk.gws[g].hosts = store.gateway[g].hosts
       /\ wk.pc # "limits" => store.limitador.limits[g] = Asked(g)
       /\ wk.pc = "refs" \/ (wk.pc = "plugin" /\ g \notin wk.todo) => store.plugin[g] = AskedPlugin(g)

\* How far a policy that is finalized has got with g. Taking it off the list
\* brings the others on the list up again; with none left nothing is to stay.
Finalizing(g) ==
    \/ /\ wk.pc = "finDiff" \/ (wk.pc = "refs" /\ g \in wk.todo)
       /\ wk.p \in store.gateway[g].refs
    \/ /\ \/ wk.pc = "refs" /\ g \notin wk.todo
          \/ wk.pc \in {"plugin", "filter", "limits", "finBackRef", "finRemove"}
       /\ store.gateway[g].refs = {}
       /\ wk.pc = "plugin" /\ g \notin wk.todo => store.plugin[g] = NoPlugin
       /\ wk.pc \in {"filter", "limits", "finBackRef", "finRemove"} => store.plugin[g] = NoPlugin
       /\ wk.pc \in {"finBackRef", "finRemove"} => store.limitador.limits[g] = {}

\* The configuration of every gateway is what its policies ask for, or one of
\* them comes up again, or is at work on it.
ConfigInv ==
    \A g \in Gateways :
        \/ Due(g)
        \/ Attended(g) /\ wk.mode = "apply" /\ Applying(g)
        \/ Attended(g) /\ wk.mode = "finalize" /\ Finalizing(g)
        \/ ~Attended(g) /\ Right(g)

\* The route of a policy that is listed names it: its events reach the policy.
RouteInv ==
    \A g \in Gateways : \A q \in store.gateway[g].refs :
        store.policy[q].target \in Routes => store.route[store.policy[q].target].backref = q

\* The configuration depends on the spec and the target of its policies, on the
\* hostnames of their routes, and, if there are any, on those of the gateway.
LEMMA ConfigSame ==
    ASSUME NEW c, NEW d, NEW gw, NEW hw, NEW R,
           \A q \in R : /\ d.policy[q].target = c.policy[q].target
                        /\ d.policy[q].spec = c.policy[q].spec
                        /\ c.policy[q].target \in Routes =>
                              d.route[c.policy[q].target].hosts = c.route[c.policy[q].target].hosts,
           R # {} => hw.hosts = gw.hosts
    PROVE  GatewayConfig(d, hw, R) = GatewayConfig(c, gw, R)
<1>1. GatewayPolicies(d, R) = GatewayPolicies(c, R) /\ GatewayPolicies(c, R) \subseteq R
  BY DEF GatewayPolicies
<1>2. RoutePolicies(d, R) = RoutePolicies(c, R) /\ RoutePolicies(c, R) \subseteq R
  BY DEF RoutePolicies
<1>3. \A q \in R : \A hs : Share(d, q, hs) = Share(c, q, hs)
  BY DEF Share
<1>4. GatewayShare(d, hw, R) = GatewayShare(c, gw, R)
  <2>1. \A q \in GatewayPolicies(c, R) : Share(d, q, OrWildcard(hw.hosts)) = Share(c, q, OrWildcard(gw.hosts))
    BY <1>1, <1>3
  <2> QED BY <1>1, <2>1, Zenon DEF GatewayShare
<1>5. RouteShare(d, R) = RouteShare(c, R)
  <2> DEFINE Of(x, q) == UNION {Share(x, y, x.route[x.policy[q].target].hosts)
                                  : y \in {q} \cup GatewayPolicies(x, R)}
  <2>1. ASSUME NEW q \in RoutePolicies(c, R) PROVE Of(d, q) = Of(c, q)
    <3>1. d.route[d.policy[q].target].hosts = c.route[c.policy[q].target].hosts
      BY <1>2 DEF RoutePolicies
    <3>2. \A y \in {q} \cup GatewayPolicies(c, R) :
            Share(d, y, d.route[d.policy[q].target].hosts) = Share(c, y, c.route[c.policy[q].target].hosts)
      BY <1>1, <1>2, <1>3, <3>1
    <3> QED BY <1>1, <3>2, Zenon
  <2>2. RouteShare(d, R) = UNION {Of(d, q) : q \in RoutePolicies(d, R)}
    BY DEF RouteShare
  <2>3. RouteShare(c, R) = UNION {Of(c, q) : q \in RoutePolicies(c, R)}
    BY DEF RouteShare
  <2> HIDE DEF Of
  <2> QED BY <1>2, <2>1, <2>2, <2>3, Zenon
<1> QED BY <1>4, <1>5 DEF GatewayConfig

LEMMA NothingAsked ==
    ASSUME NEW c, NEW gw
    PROVE  GatewayConfig(c, gw, {}) = {}
<1>1. GatewayShare(c, gw, {}) = {}
  BY DEF GatewayShare, GatewayPolicies
<1>2. RoutePolicies(c, {}) = {}
  BY DEF RoutePolicies
<1>3. RouteShare(c, {}) = {}
  BY <1>2, Zenon DEF RouteShare
<1> QED BY <1>1, <1>3 DEF GatewayConfig

\* While the worker stays within what it may write, the gateways whose list stays
\* ask for the same.
LEMMA WorkAsked ==
    ASSUME TraceInv, Work, NEW g \in Gateways
    PROVE  /\ store'.gateway[g].hosts = store.gateway[g].hosts
           /\ store'.gateway[g].refs = store.gateway[g].refs =>
                 Asked(g)' = Asked(g) /\ AskedPlugin(g)' = AskedPlugin(g)
<1>0. LosesNothing /\ CoveredInv' /\ wk.p \in Policies
  BY WorkLosesNothing, WorkCoveredInv, WorkSteps DEF TraceInv, BaseInv
<1>1. \A h \in Gateways : store'.gateway[h].hosts = store.gateway[h].hosts
  BY <1>0 DEF LosesNothing, UsersGateway
<1>2. \A r \in Routes : store'.route[r].hosts = store.route[r].hosts
  BY <1>0 DEF LosesNothing, UsersRoute
<1>3. ASSUME store'.gateway[g].refs = store.gateway[g].refs PROVE Asked(g)' = Asked(g)
  <2>1. ASSUME NEW q \in store.gateway[g].refs
        PROVE  store'.policy[q].target = store.policy[q].target /\ store'.policy[q].spec = store.policy[q].spec
    <3>1. q \in Policies
      BY TypeParts, GetTypes DEF TraceInv, BaseInv, Gateway
    <3>2. store'.policy[q].live
      BY <1>0, <1>3, <3>1 DEF CoveredInv, Traces, Covered, Holds
    <3>3. UsersPolicy(store'.policy[q]) = UsersPolicy(store.policy[q])
      BY <1>0, <3>1, <3>2 DEF LosesNothing
    <3> QED BY <3>3 DEF UsersPolicy
  <2> QED BY <1>1, <1>2, <1>3, <2>1, ConfigSame DEF Asked
<1> QED BY <1>1, <1>3 DEF AskedPlugin

\* What users change about a gateway's configuration brings up a policy of it,
\* or concerns the one that is leaving.
LEMMA EnvironmentAsked ==
    ASSUME TraceInv, RouteInv, Environment, Rooted, Prompt, NEW g \in Gateways
    PROVE  \/ Due(g)'
           \/ /\ Asked(g)' = Asked(g)
              /\ store.gateway[g].refs # {} => store'.gateway[g].hosts = store.gateway[g].hosts
           \/ wk.mode = "finalize" /\ wk.p \in store.gateway[g].refs
<1>0. /\ TypeInv /\ UNCHANGED <<wk, cache, queue>> /\ CurrentCopies /\ LinksKept /\ HoldersKept
      /\ \A h \in Gateways : store'.gateway[h].refs = store.gateway[h].refs
  BY EnvironmentEffect, EnvironmentKeeps, SettledCopies DEF TraceInv, BaseInv
<1> DEFINE refs == store.gateway[g].refs
<1>1. refs \subseteq Policies
  BY <1>0, TypeParts, GetTypes DEF Gateway
<1>2. SUFFICES ASSUME ~(wk.mode = "finalize" /\ wk.p \in refs), ~Due(g)'
               PROVE  /\ Asked(g)' = Asked(g)
                      /\ refs # {} => store'.gateway[g].hosts = store.gateway[g].hosts
  OBVIOUS
<1>3. \A q \in refs : ~Informed(q)'
  <2> SUFFICES ASSUME NEW q \in refs, Informed(q)' PROVE FALSE
    OBVIOUS
  <2>1. Covered(q, g)
    BY <1>1 DEF TraceInv, CoveredInv, Traces
  <2>2. store'.policy[q].live /\ store'.policy[q].target = store.policy[q].target
    BY <1>0, <1>1, <2>1 DEF HoldersKept, Holds, Covered
  <2>3. g \in TargetedGatewayKeys(store', store'.policy[q].target)
    BY <1>0, <2>1, <2>2 DEF LinksKept, Covered
  <2>4. ~Leaving(q)'
    BY <1>0, <1>2 DEF Leaving
  <2> QED BY <1>1, <1>2, <2>2, <2>3, <2>4 DEF Due
<1>4. ASSUME NEW q \in refs
      PROVE  /\ store'.policy[q] = store.policy[q]
             /\ store'.gateway[g] = store.gateway[g]
             /\ store.policy[q].target \in Routes =>
                   store'.route[store.policy[q].target] = store.route[store.policy[q].target]
  <2>1. ~Informed(q)' /\ ~Awaited(q)'
    BY <1>3 DEF Informed
  <2>2. store'.policy[q] = store.policy[q] /\ store'.gateway[g] = store.gateway[g]
    BY <1>0, <1>1, <2>1 DEF Awaited, CurrentCopies
  <2>3. store.policy[q].target \in Routes => store.route[store.policy[q].target].backref = q
    BY DEF RouteInv
  <2> QED BY <1>0, <2>1, <2>2, <2>3 DEF Informed, CurrentCopies
<1>5. Asked(g)' = Asked(g)
  BY <1>0, <1>4, ConfigSame DEF Asked
<1> QED BY <1>4, <1>5

\* A policy that is informed stays so until the worker takes it up.
LEMMA WatchInformed ==
    ASSUME TypeInv, Watch, NEW p \in Policies, Informed(p)
    PROVE  Informed(p)'
<1>0. store \in Cluster /\ cache \in Cluster
  BY TypeParts
<1>1. store' = store
  BY WatchCopies
<1>2. ASSUME NEW r \in Routes, cache.route[r] # store.route[r], cache.route[r].backref = p
      PROVE  Informed(p)'
  <2>1. CASE cache'.route[r] = cache.route[r]
    BY <1>1, <1>2, <2>1 DEF Informed
  <2>2. CASE DeliverRoute(r)
    <3>1. p \in MapHTTPRouteToRateLimitPolicy(cache.route[r])
      BY <1>2, ClusterAssumption DEF MapHTTPRouteToRateLimitPolicy
    <3> QED BY <2>2, <3>1 DEF DeliverRoute, Informed, Awaited
  <2>3. cache'.route[r] = cache.route[r] \/ DeliverRoute(r)
    <3>1. \A s \in Routes : DeliverRoute(s) => cache'.route[r] = cache.route[r] \/ DeliverRoute(r)
      BY <1>0 DEF DeliverRoute, Cluster
    <3>2. \A q \in Policies : DeliverPolicy(q) => cache'.route[r] = cache.route[r]
      BY <1>0 DEF DeliverPolicy, Cluster
    <3>3. \A h \in Gateways : DeliverGateway(h) \/ DeliverPlugin(h) \/ DeliverFilter(h)
                                 => cache'.route[r] = cache.route[r]
      BY <1>0 DEF DeliverGateway, DeliverPlugin, DeliverFilter, Cluster
    <3>4. DeliverLimitador => cache'.route[r] = cache.route[r]
      BY <1>0 DEF DeliverLimitador, Cluster
    <3> QED BY <3>1, <3>2, <3>3, <3>4 DEF Watch, Deliver
  <2> QED BY <2>1, <2>2, <2>3
<1>3. ASSUME NEW g \in Gateways, cache.gateway[g] # store.gateway[g], p \in store.gateway[g].refs
      PROVE  Informed(p)'
  <2>1. CASE cache'.gateway[g] = cache.gateway[g]
    BY <1>1, <1>3, <2>1 DEF Informed
  <2>2. CASE DeliverGateway(g)
    BY <1>3, <2>2 DEF DeliverGateway, MapGatewayToRateLimitPolicy, Informed, Awaited
  <2>3. cache'.gateway[g] = cache.gateway[g] \/ DeliverGateway(g)
    <3>1. \A r \in Routes : DeliverRoute(r) => cache'.gateway[g] = cache.gateway[g]
      BY <1>0 DEF DeliverRoute, Cluster
    <3>2. \A q \in Policies : DeliverPolicy(q) => cache'.gateway[g] = cache.gateway[g]
      BY <1>0 DEF DeliverPolicy, Cluster
    <3>3. \A h \in Gateways :
            /\ DeliverGateway(h) => cache'.gateway[g] = cache.gateway[g] \/ DeliverGateway(g)
            /\ DeliverPlugin(h) \/ DeliverFilter(h) => cache'.gateway[g] = cache.gateway[g]
      BY <1>0 DEF DeliverGateway, DeliverPlugin, DeliverFilter, Cluster
    <3>4. DeliverLimitador => cache'.gateway[g] = cache.gateway[g]
      BY <1>0 DEF DeliverLimitador, Cluster
    <3> QED BY <3>1, <3>2, <3>3, <3>4 DEF Watch, Deliver
  <2> QED BY <2>1, <2>2, <2>3
<1>4. Awaited(p) => Informed(p)'
  BY WatchAwaited DEF Informed
<1> QED BY <1>2, <1>3, <1>4 DEF Informed

\* A change of a route or gateway leaves those in the queue there.
LEMMA InformedQueued ==
    ASSUME CurrentCopies, NEW p \in Policies
    PROVE  Informed(p) => p \in queue
BY DEF Informed, Awaited, CurrentCopies

LEMMA QueuedInformed ==
    ASSUME NEW p \in Policies, p \in queue'
    PROVE  Informed(p)'
BY DEF Informed, Awaited

LEMMA DueKept ==
    ASSUME LinksKept, NEW g \in Gateways, Due(g),
           \A q \in Policies :
               store.policy[q].live /\ Informed(q) /\ ~Leaving(q) =>
                   /\ store'.policy[q].live /\ store'.policy[q].target = store.policy[q].target
                   /\ Informed(q)' /\ ~Leaving(q)'
    PROVE  Due(g)'
BY DEF Due, LinksKept

LEMMA EnvironmentConfigInv ==
    ASSUME TraceInv, RouteInv, ConfigInv, Environment, Rooted, Prompt, "limitador" \notin Edits
    PROVE  ConfigInv'
<1>0. /\ TypeInv /\ BaseInv /\ UNCHANGED <<wk, cache, queue>> /\ CurrentCopies /\ LinksKept
      /\ AllFollow /\ store'.plugin = store.plugin
      /\ \A h \in Gateways : store'.gateway[h].refs = store.gateway[h].refs
  BY EnvironmentEffect, EnvironmentKeeps, EnvironmentFollows, SettledCopies
     DEF TraceInv, BaseInv, Rooted
<1>1. store'.limitador = store.limitador
  BY <1>0, EnvironmentEffect
     DEF PolicyEdited, RouteEdited, GatewayEdited, LimitadorEdited,
         PolicyBecomes, RouteBecomes, GatewayBecomes
<1> SUFFICES ASSUME NEW g \in Gateways, ~Due(g)'
             PROVE  \/ Attended(g)' /\ wk'.mode = "apply" /\ Applying(g)'
                    \/ Attended(g)' /\ wk'.mode = "finalize" /\ Finalizing(g)'
                    \/ ~Attended(g)' /\ Right(g)'
  BY DEF ConfigInv
<1>2. ~Due(g)
  <2>1. \A q \in Policies : Informed(q) => Informed(q)'
    BY <1>0, InformedQueued, QueuedInformed
  <2>2. \A q \in Policies : ~Leaving(q) => ~Leaving(q)'
    BY <1>0 DEF Leaving
  <2>3. \A q \in Policies : store.policy[q].live =>
          store'.policy[q].live /\ store'.policy[q].target = store.policy[q].target
    BY <1>0 DEF AllFollow, Follows
  <2> QED BY <1>0, <2>1, <2>2, <2>3, DueKept
<1>3. Attended(g)' <=> Attended(g)
  BY <1>0 DEF Attended, LinksKept
<1>4. CASE /\ Asked(g)' = Asked(g)
           /\ store.gateway[g].refs # {} => store'.gateway[g].hosts = store.gateway[g].hosts
  <2>1. AskedPlugin(g)' = AskedPlugin(g)
    BY <1>0, <1>4 DEF AskedPlugin
  <2>2. Right(g) => Right(g)'
    BY <1>0, <1>1, <1>4, <2>1 DEF Right
  <2>3. Applying(g) => Applying(g)'
    BY <1>0, <1>1, <1>4, <2>1, <2>2 DEF Applying
  <2>4. Finalizing(g) => Finalizing(g)'
    BY <1>0, <1>1 DEF Finalizing
  <2> QED BY <1>0, <1>2, <1>3, <2>2, <2>3, <2>4 DEF ConfigInv
<1>5. CASE wk.mode = "finalize" /\ wk.p \in store.gateway[g].refs
  <2>1. wk.pc # "idle"
    BY <1>0, <1>5 DEF BaseInv, LockInv, Idle
  <2>2. wk.p \in Policies
    BY <1>0, <2>1, TypeParts
  <2>3. Covered(wk.p, g)
    BY <1>5, <2>2 DEF TraceInv, CoveredInv, Traces
  <2>4. Attended(g)
    BY <2>1, <2>3, CopiesAgree DEF TraceInv, Covered, Attended
  <2>5. Finalizing(g)
    BY <1>2, <1>5, <2>4 DEF ConfigInv
  <2>6. Finalizing(g)'
    BY <1>0, <1>1, <2>5 DEF Finalizing
  <2> QED BY <1>0, <1>3, <1>5, <2>4, <2>6
<1> QED BY <1>4, <1>5, EnvironmentAsked

LEMMA WatchConfigInv ==
    ASSUME TypeInv, ConfigInv, Watch
    PROVE  ConfigInv'
<1>1. store' = store /\ wk' = wk
  BY WatchCopies
<1>2. \A g \in Gateways : Due(g) => Due(g)'
  BY <1>1, WatchInformed DEF Due, Leaving
<1> QED BY <1>1, <1>2
        DEF ConfigInv, Attended, Applying, Finalizing, Right, Asked, AskedPlugin

\* The worker takes up a policy: the gateways that were due for it are attended
\* to. One that is finalized must still be listed by them.
LEMMA StartConfigInv ==
    ASSUME TraceInv, ReportInv, ConfigInv, Prompt, NEW p \in Policies, Start(p),
           Holds(store.policy[p]) /\ store.policy[p].deleting =>
               \A g \in TargetedGatewayKeys(store, store.policy[p].target) : p \in store.gateway[g].refs
    PROVE  ConfigInv'
<1>0. /\ TypeInv /\ BaseInv /\ store' = store /\ cache' = cache /\ wk.pc = "idle"
      /\ queue' = queue \ {p} /\ CurrentCopies /\ wk = Idle
  BY StartEffect, SettledCopies DEF TraceInv, BaseInv, LockInv
<1>1. \A g : Right(g) => Right(g)'
  BY <1>0 DEF Right, Asked, AskedPlugin
<1>2. \A q \in Policies \ {p} : Informed(q) => Informed(q)'
  BY <1>0, InformedQueued, QueuedInformed
<1> SUFFICES ASSUME NEW g \in Gateways
             PROVE  \/ Due(g)'
                    \/ Attended(g)' /\ wk'.mode = "apply" /\ Applying(g)'
                    \/ Attended(g)' /\ wk'.mode = "finalize" /\ Finalizing(g)'
                    \/ ~Attended(g)' /\ Right(g)'
  BY DEF ConfigInv
<1>3. Due(g) \/ Right(g)
  BY <1>0 DEF ConfigInv, Attended
<1>4. CASE wk' = Idle /\ EntryStage(cache.policy[p]) = "idle"
  <2>1. ~store.policy[p].live
    BY <1>0, <1>4 DEF ReportInv, CurrentCopies, EntryStage
  <2>2. ~Attended(g)'
    BY <1>4, IdleType DEF Attended
  <2>3. \A q \in Policies : ~Leaving(q)'
    BY <1>4 DEF Leaving, Idle
  <2>4. Due(g) => Due(g)'
    BY <1>0, <1>2, <2>1, <2>3 DEF Due
  <2> QED BY <1>1, <1>3, <2>2, <2>4
<1>5. CASE Begun(p)
  <2>1. /\ wk'.p = p /\ wk'.rlp = store.policy[p] /\ wk'.pc \in {"addFinalizer", "backRef", "finDiff"}
        /\ wk'.mode = IF wk'.pc = "finDiff" THEN "finalize" ELSE "apply"
        /\ wk'.pc = "finDiff" => Holds(store.policy[p]) /\ store.policy[p].deleting
    BY <1>0, <1>5 DEF Begun, CurrentCopies, EntryStage, Holds
  <2>2. Attended(g)' <=> g \in TargetedGatewayKeys(store, store.policy[p].target)
    BY <1>0, <2>1 DEF Attended
  <2>3. CASE Attended(g)' /\ wk'.pc = "finDiff"
    <3>1. Finalizing(g)'
      BY <1>0, <2>1, <2>2, <2>3 DEF Finalizing
    <3> QED BY <2>1, <2>3, <3>1
  <2>4. CASE Attended(g)' /\ wk'.pc # "finDiff"
    <3>1. Applying(g)'
      BY <2>1, <2>4 DEF Applying
    <3> QED BY <2>1, <2>4, <3>1
  <2>5. CASE ~Attended(g)'
    <3>1. ASSUME Due(g) PROVE Due(g)'
      <4>1. PICK q \in Policies :
              /\ store.policy[q].live /\ g \in TargetedGatewayKeys(store, store.policy[q].target)
              /\ Informed(q)
        BY <3>1 DEF Due
      <4>2. q # p
        BY <2>2, <2>5, <4>1
      <4>3. Informed(q)' /\ ~Leaving(q)'
        BY <1>2, <2>1, <4>1, <4>2 DEF Leaving
      <4> QED BY <1>0, <4>1, <4>3 DEF Due
    <3> QED BY <1>1, <1>3, <2>5, <3>1
  <2> QED BY <2>3, <2>4, <2>5
<1> QED BY <1>4, <1>5, StartEffect

LEMMA CrashConfigInv ==
    ASSUME TraceInv, ConfigInv, Crash, wk.mode = "apply"
    PROVE  ConfigInv'
<1>0. /\ BaseInv /\ store' = store /\ wk' = Idle /\ wk.pc # "idle" /\ wk.p \in Policies
      /\ \A q \in Policies : store.policy[q].live => q \in queue'
  BY TypeParts DEF Crash, TraceInv, BaseInv
<1> SUFFICES ASSUME NEW g \in Gateways PROVE Due(g)' \/ (~Attended(g)' /\ Right(g)')
  BY DEF ConfigInv
<1>1. \A q \in Policies : store.policy[q].live => Informed(q)' /\ ~Leaving(q)'
  BY <1>0, QueuedInformed DEF Leaving, Idle
<1>2. Due(g) => Due(g)'
  BY <1>0, <1>1 DEF Due
<1>3. ASSUME Attended(g) PROVE Due(g)'
  <2>1. wk.rlp.live /\ ~wk.rlp.deleting /\ CopyTrue(store.policy[wk.p], wk.rlp)
    BY <1>0 DEF BaseInv, JobInv, TraceInv, CopiesInv
  <2>2. store.policy[wk.p].live /\ store.policy[wk.p].target = wk.rlp.target
    BY <2>1 DEF CopyTrue
  <2> QED BY <1>0, <1>1, <1>3, <2>2 DEF Due, Attended
<1>4. Right(g) => Right(g)'
  BY <1>0 DEF Right, Asked, AskedPlugin
<1>5. ~Attended(g)'
  BY <1>0, IdleType DEF Attended
<1> QED BY <1>2, <1>3, <1>4, <1>5 DEF ConfigInv

\* What a step of the worker writes about gateways: it keeps to the diff, and
\* each stage to its own objects.
LEMMA WorkWrites ==
    ASSUME TraceInv, ListingInv, Work, Prompt
    PROVE  LET keys == TargetedGatewayKeys(store, wk.rlp.target)
           IN  /\ \A g \in Gateways \ keys :
                     /\ store'.limitador.limits[g] = store.limitador.limits[g]
                     /\ store'.plugin[g] = store.plugin[g]
                     /\ store'.gateway[g].refs = store.gateway[g].refs
               /\ wk.pc # "limits" => store'.limitador = store.limitador
               /\ wk.pc # "plugin" => store'.plugin = store.plugin
               /\ wk.pc # "refs" => \A g \in Gateways : store'.gateway[g].refs = store.gateway[g].refs
<1> DEFINE keys == TargetedGatewayKeys(store, wk.rlp.target)
           Limits == \A g \in Gateways \ keys : store'.limitador.limits[g] = store.limitador.limits[g]
           Plugins == \A g \in Gateways \ keys : store'.plugin[g] = store.plugin[g]
           Lists == \A g \in Gateways \ keys : store'.gateway[g].refs = store.gateway[g].refs
           Stages3 == /\ wk.pc # "limits" => store'.limitador = store.limitador
                      /\ wk.pc # "plugin" => store'.plugin = store.plugin
<1>0. /\ TypeInv /\ BaseInv /\ WorkStep /\ wk.pc # "idle" /\ wk.mode \in {"apply", "finalize"}
      /\ cache.limitador = store.limitador /\ wk.todo \subseteq Gateways
      /\ wk.todo \subseteq wk.left \cup wk.same \cup wk.new
  BY WorkSteps, SettledKinds, TypeParts DEF TraceInv, BaseInv, Worker, WorkerInv, Prompt
<1>1. wk.pc \in ConfigStages => wk.left \cup wk.same \cup wk.new \subseteq keys
  BY <1>0 DEF TraceInv, DiffInv, ListingInv, BaseInv, WorkerInv
<1>2. wk.pc # "refs" => \A g \in Gateways : store'.gateway[g].refs = store.gateway[g].refs
  BY <1>0, WorkListed DEF RefsStep
<1>3. Stages3
  <2>1. CASE AddFinalizerStep \/ StatusStep \/ FinRemoveStep
    BY <2>1 DEF AddFinalizerStep, StatusStep, FinRemoveStep, PolicyBecomes
  <2>2. CASE BackRefStep \/ FinBackRefStep
    BY <2>2 DEF BackRefStep, FinBackRefStep, OwnerWritten, RouteBecomes, GatewayBecomes
  <2>3. CASE DiffStep \/ LimitsStep \/ FilterStep
    BY <2>3 DEF DiffStep, LimitsStep, FilterStep, LimitadorBecomes, FilterBecomes
  <2>4. CASE PluginStep \/ RefsStep
    BY <2>4 DEF PluginStep, RefsStep, PluginBecomes, GatewayBecomes
  <2>5. CASE LoopStep \/ FinDiffStep
    BY <2>5 DEF LoopStep, FinDiffStep
  <2> QED BY <1>0, <2>1, <2>2, <2>3, <2>4, <2>5 DEF WorkStep
<1>4. Limits
  <2>1. CASE wk.pc = "limits"
    <3>1. LimitsStep
      BY <1>0, <2>1 DEF WorkStep, AddFinalizerStep, StatusStep, FinRemoveStep, BackRefStep,
         FinBackRefStep, DiffStep, FilterStep, PluginStep, RefsStep, LoopStep, FinDiffStep
    <3>2. \A g \in Gateways \ keys : LimitsAfter[g] = store.limitador.limits[g]
      BY <1>0, <1>1, <2>1 DEF LimitsAfter, ConfigStages
    <3>3. [cache.limitador EXCEPT !.limits = LimitsAfter].limits = LimitsAfter
      BY <1>0, TypeParts, GetTypes DEF Limitador
    <3> QED BY <3>1, <3>2, <3>3 DEF LimitsStep, LimitadorBecomes
  <2> QED BY <1>3, <2>1
<1>5. Plugins
  <2>1. CASE wk.pc = "plugin"
    <3>1. PluginStep \/ LoopStep
      BY <1>0, <2>1 DEF WorkStep, AddFinalizerStep, StatusStep, FinRemoveStep, BackRefStep,
         FinBackRefStep, DiffStep, FilterStep, LimitsStep, RefsStep, FinDiffStep
    <3>2. wk.todo \subseteq keys
      BY <1>0, <1>1, <2>1 DEF ConfigStages
    <3> HIDE DEF keys
    <3>3. PluginStep => \E g \in keys : store' = store \/ PluginBecomes(g, PluginAfter(g))
      BY <3>2 DEF PluginStep
    <3> QED BY <3>1, <3>3 DEF LoopStep, PluginBecomes
  <2> QED BY <1>3, <2>1
<1>6. Lists
  <2>1. CASE wk.pc = "refs"
    <3>1. RefsStep \/ LoopStep
      BY <1>0, <2>1 DEF WorkStep, AddFinalizerStep, StatusStep, FinRemoveStep, BackRefStep,
         FinBackRefStep, DiffStep, FilterStep, LimitsStep, PluginStep, FinDiffStep
    <3>2. wk.todo \subseteq keys
      BY <1>0, <1>1, <2>1 DEF ConfigStages
    <3> HIDE DEF keys
    <3>3. RefsStep => \E g \in keys : \/ store' = store
                                      \/ GatewayBecomes(g, [wk.gws[g] EXCEPT !.refs = RLPRefsAfter(g)])
      BY <3>2 DEF RefsStep
    <3> QED BY <3>1, <3>3 DEF LoopStep, GatewayBecomes
  <2> QED BY <1>2, <2>1
<1> QED BY <1>2, <1>3, <1>4, <1>5, <1>6

\* A policy that configures g is brought up by what the worker does to the list
\* of g, whether it enters the list or leaves it.
LEMMA ListChanged ==
    ASSUME TraceInv, Work, CurrentCopies, NEW g \in Gateways, NEW q \in Policies,
           store'.gateway[g].refs # store.gateway[g].refs,
           q \in store'.gateway[g].refs, ~Leaving(q), ~Leaving(q)'
    PROVE  Due(g)'
<1>0. TypeInv /\ cache' = cache /\ LinksKept /\ CoveredInv'
  BY WorkSteps, WorkLinks, WorkCoveredInv DEF TraceInv, BaseInv
<1>1. Informed(q)'
  BY <1>0 DEF Informed, CurrentCopies
<1>2. Covered(q, g)'
  BY <1>0 DEF CoveredInv, Traces
<1> QED BY <1>1, <1>2 DEF Due, Covered, Holds

\* What is computed for a gateway that lists the policy at work is what the
\* gateway asks for.
LEMMA AskedComputed ==
    ASSUME TraceInv, ListingInv, CurrentCopies, wk.pc \in ConfigStages, wk.mode = "apply",
           NEW g \in Gateways, wk.p \in store.gateway[g].refs,
           wk.gws[g].hosts = store.gateway[g].hosts
    PROVE  /\ GatewayConfig(cache, wk.gws[g], RLPRefsAfter(g)) = Asked(g)
           /\ PluginAfter(g) = AskedPlugin(g)
<1>1. wk.left = {} /\ wk.gws[g].refs = store.gateway[g].refs
  BY DEF ListingInv, TraceInv, DiffInv, Superseded
<1>2. RLPRefsAfter(g) = store.gateway[g].refs
  BY <1>1 DEF RLPRefsAfter
<1>3. GatewayConfig(cache, wk.gws[g], RLPRefsAfter(g)) = Asked(g)
  BY <1>2, ConfigSame DEF Asked, CurrentCopies
<1> QED BY <1>2, <1>3 DEF PluginAfter, AskedPlugin

\* A policy that is applied goes on with the gateway, or comes up again, or has
\* configured it.
LEMMA ApplyConfig ==
    ASSUME TraceInv, ReportInv, ListingInv, Work, Prompt, NEW g \in Gateways,
           Attended(g), wk.mode = "apply", Applying(g)
    PROVE  \/ Due(g)'
           \/ Attended(g)' /\ wk'.mode = "apply" /\ Applying(g)'
           \/ ~Attended(g)' /\ Right(g)'
<1> DEFINE keys == TargetedGatewayKeys(store, wk.rlp.target)
           Good == \/ Due(g)'
                   \/ Attended(g)' /\ wk'.mode = "apply" /\ Applying(g)'
                   \/ ~Attended(g)' /\ Right(g)'
<1>0. /\ TypeInv /\ BaseInv /\ WorkStep /\ wk.pc # "idle" /\ wk.p \in Policies /\ LinksKept
      /\ CurrentCopies /\ cache.limitador = store.limitador /\ cache.plugin = store.plugin
      /\ g \in keys /\ wk.todo \subseteq Gateways
  BY WorkSteps, WorkLinks, SettledCopies, SettledKinds, TypeParts
     DEF TraceInv, BaseInv, Attended, Prompt, Worker
<1>p. PICK p \in Policies : p = wk.p
  BY <1>0
<1>1. SameJob /\ wk'.pc # "idle" => Attended(g)' /\ wk'.mode = "apply"
  BY <1>0 DEF SameJob, Attended, LinksKept
<1>2. \A q : wk'.mode = "apply" => ~Leaving(q) /\ ~Leaving(q)'
  BY DEF Leaving
<1>3. /\ store'.gateway[g].hosts = store.gateway[g].hosts
      /\ store'.gateway[g].refs = store.gateway[g].refs =>
            Asked(g)' = Asked(g) /\ AskedPlugin(g)' = AskedPlugin(g)
  BY WorkAsked
<1>4. /\ wk.pc # "limits" => store'.limitador = store.limitador
      /\ wk.pc # "plugin" => store'.plugin = store.plugin
      /\ wk.pc # "refs" => store'.gateway[g].refs = store.gateway[g].refs
  BY WorkWrites
<1> HIDE DEF keys
<1>5. GivesUp => Good
  <2> SUFFICES ASSUME GivesUp PROVE Due(g)'
    OBVIOUS
  <2>1. wk.rlp.live /\ ~wk.rlp.deleting /\ CopyTrue(store.policy[p], wk.rlp)
    BY <1>0, <1>p DEF BaseInv, JobInv, TraceInv, CopiesInv
  <2>2. store.policy[p].live /\ store.policy[p].target = wk.rlp.target
    BY <2>1 DEF CopyTrue
  <2>3. store'.policy[p].live /\ store'.policy[p].target = wk.rlp.target
    <3>1. ~PolicyRemoved
      BY <1>0 DEF PolicyRemoved, BaseInv, WorkerInv
    <3>2. AllFollow \/ FinalizerAdded
      BY <3>1, WorkPolicies DEF TraceInv
    <3>3. [wk.rlp EXCEPT !.finalizer = TRUE].live /\ [wk.rlp EXCEPT !.finalizer = TRUE].target = wk.rlp.target
      BY <1>0, <2>1, TypeParts DEF Policy
    <3> QED BY <1>p, <2>2, <3>2, <3>3 DEF AllFollow, Follows, FinalizerAdded, PolicyBecomes
  <2>4. g \in TargetedGatewayKeys(store', store'.policy[p].target)
    BY <1>0, <2>3 DEF LinksKept, keys
  <2>5. Informed(p)'
    BY <1>p, QueuedInformed DEF GivesUp
  <2> QED BY <1>2, <2>3, <2>4, <2>5 DEF Due, GivesUp, Idle
<1>6. Fails => Good
  <2>1. CASE Reports
    <3>1. SameJob /\ wk'.pc = "status" /\ wk'.err
      BY <2>1 DEF Reports, Kept
    <3>2. Applying(g)'
      BY <3>1 DEF Applying
    <3> QED BY <1>1, <3>1, <3>2
  <2> HIDE DEF Good
  <2> QED BY <1>5, <2>1 DEF Fails
<1>7. CASE AddFinalizerStep \/ BackRefStep
  <2>1. ASSUME Armed \/ MovesTo("diff") PROVE Good
    <3>1. /\ wk'.pc \in {"backRef", "diff"} /\ wk'.mode = "apply"
          /\ wk'.rlp.target = wk.rlp.target
      BY <1>0, <2>1, TypeParts DEF Armed, MovesTo, Kept, SameJob, Policy
    <3>2. Attended(g)' /\ Applying(g)'
      BY <1>0, <3>1 DEF Attended, Applying, LinksKept, keys
    <3> QED BY <3>1, <3>2
  <2> HIDE DEF Good
  <2>2. Good
    BY <1>6, <1>7, <2>1 DEF AddFinalizerStep, BackRefStep
  <2> QED BY <2>2 DEF Good
<1>8. CASE DiffStep
  <2>1. ASSUME Sorted(TargetedGatewayKeys(cache, wk.rlp.target)) PROVE Good
    <3>1. SameJob /\ wk'.pc = "limits" /\ wk'.gws = store.gateway
      BY <1>0, <2>1 DEF Sorted, CurrentCopies
    <3>2. Applying(g)'
      BY <1>3, <3>1 DEF Applying, ConfigStages
    <3> QED BY <1>1, <3>1, <3>2
  <2> QED BY <1>6, <1>8, <2>1 DEF DiffStep
\* The stages behind the diff. A gateway that does not list the policy goes on
\* like that, or lists it now.
<1> DEFINE lists == p \in store.gateway[g].refs
<1>9. CASE wk'.pc \in ConfigStages /\ SameJob /\ ~lists
  <2>1. wk'.p = p
    BY <1>p, <1>9 DEF SameJob
  <2>2. CASE p \in store'.gateway[g].refs
    <3>1. Due(g)'
      BY <1>0, <1>1, <1>2, <1>9, <2>2, ListChanged DEF ConfigStages
    <3> QED BY <3>1
  <2>3. CASE p \notin store'.gateway[g].refs
    <3>1. Applying(g)'
      BY <1>9, <2>1, <2>3 DEF Applying
    <3> QED BY <1>1, <1>9, <3>1 DEF ConfigStages
  <2> QED BY <2>2, <2>3
<1>10. wk.pc \in ConfigStages /\ lists =>
         /\ wk.gws[g].hosts = store.gateway[g].hosts
         /\ wk.pc # "limits" => store.limitador.limits[g] = Asked(g)
         /\ wk.pc = "refs" \/ (wk.pc = "plugin" /\ g \notin wk.todo) => store.plugin[g] = AskedPlugin(g)
  BY <1>p DEF Applying, ConfigStages
<1>11. wk.pc \in ConfigStages /\ lists =>
         /\ GatewayConfig(cache, wk.gws[g], RLPRefsAfter(g)) = Asked(g)
         /\ PluginAfter(g) = AskedPlugin(g)
  BY <1>0, <1>p, <1>10, AskedComputed
\* What a step has to keep that goes on with a gateway that lists the policy.
<1>12. ASSUME wk.pc \in ConfigStages, lists, SameJob, wk'.pc \in ConfigStages,
              wk'.gws[g].hosts = wk.gws[g].hosts,
              store'.gateway[g].refs = store.gateway[g].refs,
              wk'.pc # "limits" => store'.limitador.limits[g] = Asked(g),
              wk'.pc = "refs" \/ (wk'.pc = "plugin" /\ g \notin wk'.todo) => store'.plugin[g] = AskedPlugin(g)
       PROVE  Good
  <2>1. Applying(g)'
    BY <1>3, <1>10, <1>12 DEF Applying
  <2> QED BY <1>1, <1>12, <2>1 DEF ConfigStages
<1>13. CASE LimitsStep
  <2>1. SUFFICES ASSUME Enters(Following) PROVE Good
    BY <1>6, <1>13 DEF LimitsStep
  <2>2. wk.pc = "limits" /\ wk'.pc = "filter" /\ SameJob /\ wk'.gws = wk.gws
    BY <1>13, <2>1 DEF LimitsStep, Enters, MovesTo, Kept, Following
  <2>3. ~Fails
    BY <2>2 DEF Fails, Reports, GivesUp, SpecStages
  <2>4. store'.limitador.limits = LimitsAfter
    <3>1. [cache.limitador EXCEPT !.limits = LimitsAfter].limits = LimitsAfter
      BY <1>0, TypeParts, GetTypes DEF Limitador
    <3> QED BY <1>0, <1>13, <2>3, <3>1 DEF LimitsStep, LimitadorBecomes
  <2>5. g \in wk.same \cup wk.new /\ wk.left = {}
    BY <1>0, <2>2 DEF ListingInv, ConfigStages, keys
  <2>6. LimitsAfter[g] = GatewayConfig(cache, wk.gws[g], RLPRefsAfter(g))
    BY <2>5 DEF LimitsAfter
  <2> HIDE DEF Good
  <2> QED BY <1>4, <1>9, <1>11, <1>12, <2>2, <2>4, <2>6 DEF ConfigStages, Good
<1>14. CASE FilterStep
  <2>1. wk.pc = "filter" /\ (Fails \/ MovesTo("filter"))
    BY <1>14 DEF FilterStep, Visits
  <2>2. CASE MovesTo("filter")
    <3>1. wk'.pc = "filter" /\ SameJob /\ wk'.gws = wk.gws
      BY <2>2 DEF MovesTo, Kept
    <3> HIDE DEF Good
    <3> QED BY <1>4, <1>9, <1>10, <1>12, <2>1, <3>1 DEF ConfigStages, Good
  <2> QED BY <1>6, <2>1, <2>2
<1>15. CASE PluginStep
  <2>1. PICK h \in wk.todo :
          \/ Fails
          \/ /\ Visits(h)
             /\ \/ store.plugin[h] = PluginAfter(h) /\ store' = store
                \/ PluginBecomes(h, PluginAfter(h))
    BY <1>0, <1>15 DEF PluginStep
  <2>2. SUFFICES ASSUME /\ Visits(h)
                        /\ \/ store.plugin[h] = PluginAfter(h) /\ store' = store
                           \/ PluginBecomes(h, PluginAfter(h))
                 PROVE  Good
    BY <1>6, <2>1
  <2>3. wk.pc = "plugin" /\ wk'.pc = "plugin" /\ SameJob /\ wk'.gws = wk.gws /\ wk'.todo = wk.todo \ {h}
    BY <1>0, <1>15, <2>2, AppliesOnce DEF PluginStep, Visits, MovesTo, Kept, BaseInv
  <2>4. store'.plugin[g] = IF g = h THEN PluginAfter(g) ELSE store.plugin[g]
    BY <2>2 DEF PluginBecomes
  <2> HIDE DEF Good
  <2> QED BY <1>4, <1>9, <1>10, <1>11, <1>12, <2>3, <2>4 DEF ConfigStages, Good
<1>16. CASE RefsStep
  <2>1. PICK h \in wk.todo :
          \/ Fails
          \/ Visits(h) /\ store' = store
          \/ /\ GatewayBecomes(h, [wk.gws[h] EXCEPT !.refs = RLPRefsAfter(h)])
             /\ Annotates(h)
    BY <1>16 DEF RefsStep
  <2>2. SUFFICES ASSUME \/ Visits(h) /\ store' = store
                        \/ /\ GatewayBecomes(h, [wk.gws[h] EXCEPT !.refs = RLPRefsAfter(h)])
                           /\ Annotates(h)
                 PROVE  Good
    BY <1>6, <2>1
  <2>3. h \in Gateways /\ wk.gws[h] \in Gateway /\ wk.pc = "refs" /\ wk.left = {}
    BY <1>0, <1>16, TypeParts DEF RefsStep, ListingInv, ConfigStages
  <2>4. wk'.pc = "refs" /\ SameJob
    BY <2>2, <2>3 DEF Visits, Annotates, MovesTo, Kept
  <2>5. wk'.gws[g].hosts = wk.gws[g].hosts
    <3>1. [wk.gws[h] EXCEPT !.refs = RLPRefsAfter(h)].hosts = wk.gws[h].hosts
      BY <2>3 DEF Gateway
    <3> QED BY <2>2, <3>1 DEF Visits, Annotates, MovesTo, Kept
  <2>6. CASE store'.gateway[g].refs = store.gateway[g].refs
    <3> HIDE DEF Good
    <3> QED BY <1>4, <1>9, <1>10, <1>12, <2>3, <2>4, <2>5, <2>6 DEF ConfigStages, Good
  <2>7. CASE store'.gateway[g].refs # store.gateway[g].refs
    <3>1. p \in store'.gateway[g].refs
      <4>1. h = g
        BY <2>2, <2>7 DEF GatewayBecomes
      <4>2. store'.gateway[g] = [wk.gws[g] EXCEPT !.refs = RLPRefsAfter(g)]
        BY <2>2, <2>7, <4>1 DEF GatewayBecomes
      <4>3. store'.gateway[g].refs = RLPRefsAfter(g)
        BY <2>3, <4>1, <4>2 DEF Gateway
      <4>4. p \in RLPRefsAfter(g)
        BY <1>p, <2>3 DEF RLPRefsAfter
      <4> QED BY <4>3, <4>4
    <3>2. Due(g)'
      BY <1>0, <1>1, <1>2, <2>4, <2>7, <3>1, ListChanged
    <3> QED BY <3>2
  <2> QED BY <2>6, <2>7
<1>17. CASE LoopStep
  <2>1. /\ wk.pc \in {"filter", "plugin", "refs"} /\ wk.todo = {} /\ store' = store
        /\ SameJob /\ wk'.gws = wk.gws /\ wk'.pc = Following /\ wk'.todo = Enter(Following).todo
        /\ wk'.err = wk.err
    BY <1>17 DEF LoopStep, Enters, MovesTo, Kept
  <2>2. CASE wk.pc = "filter"
    <3>1. wk'.pc = "plugin" /\ Following = "plugin"
      BY <2>1, <2>2 DEF Following
    <3>2. g \in wk'.todo
      <4>1. wk'.todo = wk.left \cup wk.same \cup wk.new
        BY <1>0, <2>1, <3>1, TypeParts DEF Enter, Worker
      <4> QED BY <1>0, <2>2, <4>1 DEF ListingInv, ConfigStages, keys
    <3> HIDE DEF Good
    <3> QED BY <1>9, <1>10, <1>12, <2>1, <2>2, <3>1, <3>2 DEF ConfigStages, Good
  <2>3. CASE wk.pc = "plugin"
    <3>1. wk'.pc = "refs"
      BY <2>1, <2>3 DEF Following
    <3> HIDE DEF Good
    <3> QED BY <1>9, <1>10, <1>12, <2>1, <2>3, <3>1 DEF ConfigStages, Good
  <2>4. CASE wk.pc = "refs"
    <3>1. wk'.pc = "status"
      BY <2>1, <2>4 DEF Following
    <3>2. lists
      BY <1>0, <1>p, <2>1, <2>4 DEF ListingInv, ConfigStages, keys
    <3>3. Right(g)
      BY <1>10, <2>4, <3>2 DEF Right, ConfigStages
    <3>4. Right(g)'
      BY <2>1, <3>3 DEF Right, Asked, AskedPlugin
    <3>5. Applying(g)'
      BY <3>1, <3>4 DEF Applying
    <3> QED BY <1>1, <2>1, <3>1, <3>5
  <2> QED BY <2>1, <2>2, <2>3, <2>4
<1>18. CASE StatusStep
  <2>1. ASSUME ~wk.err, Ends PROVE Good
    <3>1. wk.pc = "status" /\ wk'.pc = "idle"
      BY <1>18, <2>1, IdleType DEF StatusStep, Ends
    <3>2. Right(g)
      BY <2>1, <3>1 DEF Applying, ConfigStages
    <3>3. Right(g)'
      BY <1>3, <1>4, <3>1, <3>2 DEF Right
    <3> QED BY <3>1, <3>3 DEF Attended
  <2> HIDE DEF Good
  <2>2. Good
    BY <1>5, <1>18, <2>1 DEF StatusStep
  <2> QED BY <2>2 DEF Good
<1>19. ~(FinDiffStep \/ FinBackRefStep \/ FinRemoveStep)
  BY <1>0 DEF FinDiffStep, FinBackRefStep, FinRemoveStep, BaseInv, WorkerInv
<1> HIDE DEF Good
<1>20. Good
  BY <1>0, <1>7, <1>8, <1>13, <1>14, <1>15, <1>16, <1>17, <1>18, <1>19 DEF WorkStep, Good
<1> QED BY <1>20 DEF Good

\* A finalization meets every gateway once, and is not given up before the
\* configuration is written.
Smooth ==
    wk.mode = "finalize" =>
        wk.twice = {} /\ (GivesUp => wk.pc \in {"finBackRef", "finRemove"})

LEMMA MeetsOnce ==
    ASSUME WorkerInv, wk.twice = {}
    PROVE  /\ wk.again = {}
           /\ \A g : Passes(g) => wk'.todo = wk.todo \ {g}
BY DEF WorkerInv, Passes

\* A finalization goes on with the gateway, or the policies it leaves on the list
\* come up again, or it has taken away everything.
LEMMA FinalConfig ==
    ASSUME TraceInv, ListingInv, Work, Prompt, NEW g \in Gateways,
           Attended(g), wk.mode = "finalize", Finalizing(g), Smooth
    PROVE  \/ Due(g)'
           \/ Attended(g)' /\ wk'.mode = "finalize" /\ Finalizing(g)'
           \/ ~Attended(g)' /\ Right(g)'
<1> DEFINE Good == \/ Due(g)'
                   \/ Attended(g)' /\ wk'.mode = "finalize" /\ Finalizing(g)'
                   \/ ~Attended(g)' /\ Right(g)'
           Swept == {"filter", "limits", "finBackRef", "finRemove"}
<1>0. /\ TypeInv /\ BaseInv /\ WorkStep /\ wk.pc # "idle" /\ wk.p \in Policies /\ LinksKept
      /\ CurrentCopies /\ cache.limitador = store.limitador /\ cache.plugin = store.plugin
      /\ g \in TargetedGatewayKeys(store, wk.rlp.target)
      /\ wk.todo \subseteq Gateways /\ wk.same = {} /\ wk.new = {}
      /\ wk.again = {} /\ \A h : Passes(h) => wk'.todo = wk.todo \ {h}
  <2>1. TypeInv /\ BaseInv /\ WorkerInv /\ wk.twice = {}
    BY DEF TraceInv, BaseInv, Smooth
  <2> QED BY <2>1, MeetsOnce, WorkSteps, WorkLinks, SettledCopies, SettledKinds, TypeParts
          DEF Attended, Prompt, Worker, WorkerInv
<1>p. PICK p \in Policies : p = wk.p
  BY <1>0
<1>1. SameJob /\ wk'.pc # "idle" => Attended(g)' /\ wk'.mode = "finalize" /\ wk'.p = p
  BY <1>0, <1>p DEF SameJob, Attended, LinksKept
<1>2. wk.pc \notin {"finBackRef", "finRemove"} => ~Fails
  BY DEF Fails, Smooth
<1>3. /\ wk.pc # "limits" => store'.limitador = store.limitador
      /\ wk.pc # "plugin" => store'.plugin = store.plugin
      /\ wk.pc # "refs" => store'.gateway[g].refs = store.gateway[g].refs
  BY WorkWrites
<1>4. wk.pc \in ConfigStages =>
        /\ wk.left = TargetedGatewayKeys(store, wk.rlp.target)
        /\ wk.pc # "refs" \/ p \in store.gateway[g].refs => wk.gws[g].refs = store.gateway[g].refs
  BY <1>p DEF TraceInv, DiffInv, Superseded
<1>5. RLPRefsAfter(g) = IF g \in wk.left THEN wk.gws[g].refs \ {p} ELSE wk.gws[g].refs \cup {p}
  BY <1>p DEF RLPRefsAfter
<1>6. CASE FinDiffStep
  <2>1. /\ wk'.pc = "refs" /\ SameJob /\ wk'.todo = FinalGateways /\ store' = store /\ wk.pc = "finDiff"
    BY <1>2, <1>6 DEF FinDiffStep
  <2>2. cache.gateway[g].live /\ (wk.rlp.target \in Routes => TargetLive(cache, wk.rlp.target))
    <3>1. wk.rlp.target \in Routes => TargetLive(store, wk.rlp.target)
      BY DEF TraceInv, TargetsInv, Lockable
    <3> QED BY <1>0, <3>1 DEF TraceInv, TargetsInv, CurrentCopies, TargetLive
  <2>3. g \in TargetedGatewayKeys(cache, wk.rlp.target)
    BY <1>0 DEF CurrentCopies, TargetedGatewayKeys
  <2>4. g \in wk'.todo
    BY <2>1, <2>2, <2>3 DEF FinalGateways
  <2>5. Finalizing(g)'
    BY <2>1, <2>4 DEF Finalizing, SameJob
  <2> QED BY <1>1, <2>1, <2>5
<1>7. CASE RefsStep
  <2>1. PICK h \in wk.todo :
          \/ Visits(h) /\ store' = store /\ RLPRefsAfter(h) = wk.gws[h].refs
          \/ /\ GatewayBecomes(h, [wk.gws[h] EXCEPT !.refs = RLPRefsAfter(h)])
             /\ Annotates(h)
    BY <1>2, <1>7 DEF RefsStep
  <2>2. h \in Gateways /\ wk.gws[h] \in Gateway /\ wk.pc = "refs"
    BY <1>0, <1>7, TypeParts DEF RefsStep
  <2>3. wk'.pc = "refs" /\ SameJob /\ wk'.todo = wk.todo \ {h}
    BY <1>0, <2>1, <2>2 DEF Visits, Annotates, MovesTo, Kept
  <2>4. CASE h # g
    <3>1. store'.gateway[g].refs = store.gateway[g].refs
      BY <2>1, <2>4 DEF GatewayBecomes
    <3>2. Finalizing(g)'
      BY <2>2, <2>3, <2>4, <3>1 DEF Finalizing, SameJob
    <3> QED BY <1>1, <2>3, <3>2
  <2>5. CASE h = g
    <3>1. p \in store.gateway[g].refs
      BY <1>p, <2>2, <2>5 DEF Finalizing
    <3>2. RLPRefsAfter(g) = store.gateway[g].refs \ {p} /\ wk.gws[g].refs = store.gateway[g].refs
      BY <1>0, <1>4, <1>5, <2>2, <3>1 DEF ConfigStages
    <3>3. store'.gateway[g] = [wk.gws[g] EXCEPT !.refs = RLPRefsAfter(g)]
      BY <2>1, <2>5, <3>1, <3>2 DEF GatewayBecomes
    <3>4. store'.gateway[g].refs = store.gateway[g].refs \ {p}
      BY <2>2, <2>5, <3>2, <3>3 DEF Gateway
    <3>5. CASE store'.gateway[g].refs = {}
      <4>1. Finalizing(g)'
        BY <2>3, <2>5, <3>5 DEF Finalizing
      <4> QED BY <1>1, <2>3, <4>1
    <3>6. ASSUME NEW q \in store'.gateway[g].refs PROVE Good
      <4>1. q \in Policies /\ q # p
        BY <1>0, <3>4, <3>6, TypeParts, GetTypes DEF Gateway
      <4>2. ~Leaving(q) /\ ~Leaving(q)'
        BY <1>p, <1>1, <2>3, <4>1 DEF Leaving
      <4>3. Due(g)'
        BY <1>0, <3>1, <3>4, <3>6, <4>1, <4>2, ListChanged
      <4> QED BY <4>3
    <3> QED BY <3>5, <3>6
  <2> QED BY <2>4, <2>5
\* From here on nothing is left on the list.
<1>8. wk.pc \in {"plugin", "filter", "limits", "finBackRef", "finRemove"} =>
        store.gateway[g].refs = {} /\ store'.gateway[g].refs = {}
  BY <1>3 DEF Finalizing
<1>9. wk.pc \in Swept => store.plugin[g] = NoPlugin /\ store'.plugin[g] = NoPlugin
  BY <1>3 DEF Finalizing
<1>10. CASE PluginStep
  <2>1. PICK h \in wk.todo :
          /\ Visits(h)
          /\ \/ store.plugin[h] = PluginAfter(h) /\ store' = store
             \/ PluginBecomes(h, PluginAfter(h))
    BY <1>0, <1>2, <1>10 DEF PluginStep
  <2>2. wk.pc = "plugin" /\ wk'.pc = "plugin" /\ SameJob /\ wk'.todo = wk.todo \ {h}
    BY <1>0, <1>10, <2>1 DEF PluginStep, Visits, MovesTo, Kept
  <2>3. PluginAfter(g) = NoPlugin
    BY <1>0, <1>4, <1>5, <1>8, <2>2 DEF PluginAfter, ConfigStages
  <2>4. g \notin wk'.todo => store'.plugin[g] = NoPlugin
    BY <2>1, <2>2, <2>3 DEF PluginBecomes, Finalizing
  <2>5. Finalizing(g)'
    BY <1>8, <2>2, <2>4 DEF Finalizing
  <2> QED BY <1>1, <2>2, <2>5
<1>11. CASE FilterStep
  <2>1. wk.pc = "filter" /\ wk'.pc = "filter" /\ SameJob
    BY <1>2, <1>11 DEF FilterStep, Visits, MovesTo, Kept
  <2>2. Finalizing(g)'
    BY <1>8, <1>9, <2>1 DEF Finalizing
  <2> QED BY <1>1, <2>1, <2>2
<1>12. CASE LoopStep
  <2>1. /\ wk.pc \in {"filter", "plugin", "refs"} /\ wk.todo = {} /\ store' = store
        /\ SameJob /\ wk'.pc = Following /\ wk'.todo = Enter(Following).todo
    BY <1>12 DEF LoopStep, Enters, MovesTo, Kept
  <2>2. store.gateway[g].refs = {} /\ (wk.pc # "refs" => store.plugin[g] = NoPlugin)
    BY <2>1 DEF Finalizing
  <2>3. CASE wk.pc = "refs"
    <3>1. wk'.pc = "plugin" /\ Following = "plugin"
      BY <2>1, <2>3 DEF Following
    <3>2. wk'.todo = wk.left \cup wk.same \cup wk.new
      BY <1>0, <2>1, <3>1, TypeParts DEF Enter, Worker
    <3>3. g \in wk'.todo
      BY <1>0, <1>4, <2>3, <3>2 DEF ConfigStages
    <3>4. Finalizing(g)'
      BY <2>1, <2>2, <3>1, <3>3 DEF Finalizing
    <3> QED BY <1>1, <2>1, <3>1, <3>4
  <2>4. CASE wk.pc \in {"plugin", "filter"}
    <3>1. wk'.pc \in {"filter", "limits"}
      BY <2>1, <2>4 DEF Following
    <3>2. Finalizing(g)'
      BY <2>1, <2>2, <2>4, <3>1 DEF Finalizing
    <3> QED BY <1>1, <2>1, <3>1, <3>2
  <2> QED BY <2>1, <2>3, <2>4
<1>13. CASE LimitsStep
  <2>1. wk.pc = "limits" /\ Enters(Following)
    BY <1>2, <1>13 DEF LimitsStep
  <2>2. wk'.pc = "finBackRef" /\ SameJob
    BY <2>1 DEF Enters, MovesTo, Kept, Following
  <2>3. store'.limitador.limits[g] = {}
    <3>1. LimitsAfter[g] = {}
      BY <1>0, <1>4, <2>1 DEF LimitsAfter, ConfigStages
    <3>2. [cache.limitador EXCEPT !.limits = LimitsAfter].limits = LimitsAfter
      BY <1>0, TypeParts, GetTypes DEF Limitador
    <3>3. store.limitador.status = "absent" => store.limitador.limits[g] = {}
      BY DEF TraceInv, TargetsInv, NoLimits
    <3> QED BY <1>0, <1>2, <1>13, <3>1, <3>2, <3>3 DEF LimitsStep, LimitadorBecomes
  <2>4. Finalizing(g)'
    BY <1>8, <1>9, <2>1, <2>2, <2>3 DEF Finalizing
  <2> QED BY <1>1, <2>2, <2>4
<1>14. wk.pc \in {"finBackRef", "finRemove"} => store'.limitador.limits[g] = {}
  BY <1>3 DEF Finalizing
<1>15. CASE FinBackRefStep \/ FinRemoveStep
  <2>1. wk.pc \in {"finBackRef", "finRemove"} /\ (wk'.pc = "idle" \/ MovesTo("finRemove"))
    BY <1>0, <1>15, IdleType DEF FinBackRefStep, FinRemoveStep, Ends, Fails, GivesUp
  <2>2. CASE wk'.pc = "idle"
    <3>1. store'.limitador.limits[g] = {} /\ store'.plugin[g] = NoPlugin /\ store'.gateway[g].refs = {}
      BY <1>8, <1>9, <1>14, <2>1
    <3>2. Asked(g)' = {}
      BY <3>1, NothingAsked DEF Asked
    <3>3. Right(g)'
      BY <3>1, <3>2 DEF Right, AskedPlugin, NoPlugin
    <3> QED BY <2>2, <3>3 DEF Attended
  <2>3. CASE MovesTo("finRemove")
    <3>1. wk'.pc = "finRemove" /\ SameJob
      BY <2>3 DEF MovesTo, Kept
    <3>2. Finalizing(g)'
      BY <1>8, <1>9, <1>14, <2>1, <3>1 DEF Finalizing
    <3> QED BY <1>1, <3>1, <3>2
  <2> QED BY <2>1, <2>2, <2>3
<1>16. ~(AddFinalizerStep \/ BackRefStep \/ DiffStep \/ StatusStep)
  BY <1>0 DEF AddFinalizerStep, BackRefStep, DiffStep, StatusStep, BaseInv, WorkerInv
<1> HIDE DEF Good
<1>17. Good
  BY <1>0, <1>6, <1>7, <1>10, <1>11, <1>12, <1>13, <1>15, <1>16 DEF WorkStep, Good
<1> QED BY <1>17 DEF Good

LEMMA WorkConfigInv ==
    ASSUME TraceInv, ReportInv, ListingInv, ConfigInv, Work, Prompt, Smooth
    PROVE  ConfigInv'
<1> SUFFICES ASSUME NEW g \in Gateways
             PROVE  \/ Due(g)'
                    \/ Attended(g)' /\ wk'.mode = "apply" /\ Applying(g)'
                    \/ Attended(g)' /\ wk'.mode = "finalize" /\ Finalizing(g)'
                    \/ ~Attended(g)' /\ Right(g)'
  BY DEF ConfigInv
<1>0. /\ TypeInv /\ BaseInv /\ LinksKept /\ CurrentCopies /\ wk.pc # "idle" /\ wk.p \in Policies
      /\ wk.mode \in {"apply", "finalize"} /\ wk.rlp \in Policy
  BY WorkSteps, WorkLinks, SettledCopies, TypeParts DEF TraceInv, BaseInv, Worker
<1>1. wk'.pc # "idle" =>
        wk'.rlp.target = wk.rlp.target /\ wk'.mode = wk.mode /\ wk'.p = wk.p
  BY <1>0, WorkJob, IdleType DEF BaseInv, SameJob, Armed, Policy
<1>2. wk'.pc = "idle" => wk' = Idle
  BY <1>0, WorkJob DEF BaseInv, Armed
<1>3. CASE Due(g)
  <2>1. queue \subseteq queue'
    BY <1>0, WorkEnds DEF Armed, GivesUp, Ends
  <2>2. ASSUME NEW q \in Policies, store.policy[q].live, ~Leaving(q)
        PROVE  store'.policy[q].live /\ store'.policy[q].target = store.policy[q].target
    <3>1. CASE FinalizerAdded
      <4>1. wk.rlp.live => /\ [wk.rlp EXCEPT !.finalizer = TRUE].live
                           /\ [wk.rlp EXCEPT !.finalizer = TRUE].target = wk.rlp.target
        BY <1>0 DEF Policy
      <4> QED BY <2>2, <3>1, <4>1 DEF FinalizerAdded, PolicyBecomes
    <3>2. CASE PolicyRemoved
      <4>1. wk.mode = "finalize"
        BY <1>0, <3>2 DEF PolicyRemoved, BaseInv, WorkerInv
      <4>2. q # wk.p
        BY <2>2, <4>1 DEF Leaving
      <4> QED BY <2>2, <3>2, <4>2 DEF PolicyRemoved, PolicyBecomes
    <3>3. CASE AllFollow
      BY <2>2, <3>3 DEF AllFollow, Follows
    <3> QED BY <3>1, <3>2, <3>3, WorkPolicies DEF TraceInv
  <2>3. \A q \in Policies : ~Leaving(q) => ~Leaving(q)'
    BY <1>1, <1>2 DEF Leaving, Idle
  <2>4. \A q \in Policies : Informed(q) => Informed(q)'
    BY <1>0, <2>1, InformedQueued, QueuedInformed
  <2>5. Due(g)'
    BY <1>0, <1>3, <2>2, <2>3, <2>4, DueKept
  <2> QED BY <2>5
<1>4. CASE ~Due(g) /\ Attended(g)
  <2>1. CASE wk.mode = "apply"
    <3>1. Applying(g)
      BY <1>4, <2>1 DEF ConfigInv
    <3> QED BY <1>4, <2>1, <3>1, ApplyConfig
  <2>2. CASE wk.mode = "finalize"
    <3>1. Finalizing(g)
      BY <1>4, <2>2 DEF ConfigInv
    <3> QED BY <1>4, <2>2, <3>1, FinalConfig
  <2> QED BY <1>0, <2>1, <2>2
<1>5. CASE ~Due(g) /\ ~Attended(g)
  <2>1. Right(g) /\ g \notin TargetedGatewayKeys(store, wk.rlp.target)
    BY <1>0, <1>5 DEF ConfigInv, Attended
  <2>2. ~Attended(g)'
    BY <1>0, <1>1, <2>1 DEF Attended, LinksKept
  <2>3. Right(g)'
    BY <2>1, WorkWrites, WorkAsked DEF Right
  <2> QED BY <2>2, <2>3
<1> QED BY <1>3, <1>4, <1>5

LEMMA NextConfigInv ==
    ASSUME TraceInv, ReportInv, ListingInv, RouteInv, ConfigInv, [Next]_vars, Rooted, Prompt,
           "limitador" \notin Edits,
           Work => Smooth, Crash => wk.mode = "apply",
           wk.pc = "idle" =>
               \A p \in Policies : Holds(store.policy[p]) /\ store.policy[p].deleting =>
                   \A g \in TargetedGatewayKeys(store, store.policy[p].target) : p \in store.gateway[g].refs
    PROVE  ConfigInv'
<1>0. TypeInv
  BY DEF TraceInv, BaseInv
<1>1. ASSUME NEW p \in Policies, Start(p) PROVE ConfigInv'
  <2>1. wk.pc = "idle"
    BY <1>1, StartEffect
  <2> QED BY <1>1, <2>1, StartConfigInv
<1>2. CASE Work
  BY <1>2, WorkConfigInv
<1>3. CASE Watch
  BY <1>0, <1>3, WatchConfigInv
<1>4. CASE Environment
  BY <1>4, EnvironmentConfigInv
<1>5. CASE Crash
  BY <1>5, CrashConfigInv
<1>6. CASE UNCHANGED vars
  BY <1>6 DEF ConfigInv, Due, Attended, Applying, Finalizing, Right, Asked, AskedPlugin,
              Informed, Awaited, Leaving, vars
<1> QED BY <1>1, <1>2, <1>3, <1>4, <1>5, <1>6 DEF Next

LEMMA InitConfigInv ==
    ASSUME Init
    PROVE  ConfigInv
<1> SUFFICES ASSUME NEW g \in Gateways PROVE ~Attended(g) /\ Right(g)
  BY DEF ConfigInv
<1>1. ~Attended(g)
  BY InitFacts, IdleType DEF Attended
<1>2. store.gateway[g].refs = {} /\ store.limitador.limits[g] = {} /\ store.plugin[g] = NoPlugin
  BY InitFacts DEF NoLimits
<1>3. Asked(g) = {}
  BY <1>2, NothingAsked DEF Asked
<1> QED BY <1>1, <1>2, <1>3 DEF Right, AskedPlugin, NoPlugin

LEMMA RestIsRight ==
    ASSUME ConfigInv
    PROVE  ConfigConverges
<1> SUFFICES ASSUME Quiescent, NEW g \in Gateways PROVE Right(g)
  BY DEF ConfigConverges, Right, Asked, AskedPlugin
<1>1. \A q \in Policies : ~Informed(q)
  BY DEF Informed, Awaited, Quiescent
<1> QED BY <1>1 DEF ConfigInv, Due, Attended, Quiescent

\* What users may do to policies, routes and gateways that takes nothing away.
Lasting == Edits \cap {"delete", "limitador"} = {}

\* When policies, routes and gateways stay, whatever else users edit and whichever
\* calls fail and whenever the process stops: once the queue is empty and every
\* event delivered, Limitador and the WasmPlugin of every gateway hold exactly
\* what the policies it lists ask for, as these, their routes and the gateway now
\* are. The stages of one reconciliation are separate writes that overlap with
\* edits of other policies of the gateway, of its routes and of itself: whichever
\* of them a configuration is computed without brings up a policy that computes
\* it again.
THEOREM ConfigAtRest ==
    ASSUME Prompt, InPlace, Lasting
    PROVE  Spec => []ConfigConverges
<1>0. Rooted /\ Growing /\ "limitador" \notin Edits
  BY DEF InPlace, Lasting, Rooted, Guarded, Growing
<1>1. Init => OwnersInv /\ ListedInv
  <2> SUFFICES ASSUME Init PROVE OwnersInv /\ ListedInv
    OBVIOUS
  <2>1. wk.pc = "idle"
    BY InitFacts, IdleType
  <2> QED BY <2>1, InitFacts DEF OwnersInv, ListedInv, MidStages
<1>2. BaseInv /\ OwnersInv /\ ListedInv /\ [Next]_vars => (OwnersInv /\ ListedInv)'
  BY <1>0, NextOwnersInv, NextListedInv
<1>3. TraceInv /\ ReportInv /\ ListingInv /\ OwnersInv /\ ListedInv /\ ConfigInv /\ [Next]_vars => ConfigInv'
  <2> SUFFICES ASSUME TraceInv, ReportInv, ListingInv, OwnersInv, ListedInv, ConfigInv, [Next]_vars
               PROVE  ConfigInv'
    OBVIOUS
  <2>1. RouteInv
    <3>1. TypeInv
      BY DEF TraceInv, BaseInv
    <3>2. \A g \in Gateways : store.gateway[g].refs \subseteq Policies
      BY <3>1, TypeParts, GetTypes DEF Gateway
    <3> QED BY <3>2 DEF ListedInv, RouteInv, BackRef
  <2>2. wk.pc # "idle" => wk.mode = "apply"
    BY TypeParts DEF TraceInv, BaseInv, WorkerInv, JobInv, OwnersInv, Worker
  <2>3. (Work => Smooth) /\ (Crash => wk.mode = "apply")
    <3>1. (Work => wk.pc # "idle") /\ (Crash => wk.pc # "idle")
      BY WorkSteps DEF Crash, TraceInv, BaseInv
    <3> QED BY <2>2, <3>1 DEF Smooth
  <2>4. \A p \in Policies : ~store.policy[p].deleting
    BY DEF OwnersInv
  <2> QED BY <1>0, <2>1, <2>3, <2>4, NextConfigInv
<1> QED BY <1>1, <1>2, <1>3, InitConfigInv, RestIsRight, BaseInvariant, RestInvariant, PTL DEF Spec

-----------------------------------------------------------------------------
(* Limits and WasmPlugins when policies are deleted.                       *)

\* No call fails, the process does not stop, and no two writes of one object meet,
\* other than those of a status and of a deletion mark.
Undisturbed ==
    /\ MaxFaults = 0
    /\ Edits \subseteq {"create", "delete", "routeHosts"}
    /\ "filter" \notin Lagging

\* No route names two sections of one gateway: the gateways a finalization
\* visits are all different.
ListedOnce == \A r \in Routes : \A i, j \in Sections[r] : i = j

\* No policy is refused: no two have a target in common, each is in the namespace
\* of its target, and names hosts of it.
Separate ==
    /\ \A p, q \in Policies : p # q => TargetsOf[p] \cap TargetsOf[q] = {}
    /\ \A p \in Policies : \A t \in TargetsOf[p] \cap Lockable : <<p, t>> \in SameNamespace
    /\ Specs \X SUBSET Hostnames \subseteq Fits

\* Every reconciliation finds what it needs.
ReadyInv ==
    /\ faults = 0
    /\ store.limitador.status = "ready"
    /\ \A r \in Routes : store.route[r].live /\ store.route[r].rejecting = {}
    /\ \A g \in Gateways : store.gateway[g].live /\ store.gateway[g].ready

Wanted(p, rlp) == rlp.target \in TargetsOf[p] /\ rlp.spec \in Specs

WantedInv ==
    /\ \A p \in Policies : store.policy[p].live => Wanted(p, store.policy[p])
    /\ wk.pc # "idle" => Wanted(wk.p, wk.rlp)

\* What the worker holds is what is stored, where it matters.
HeldInv ==
    /\ wk.pc = "addFinalizer" \/ wk.mode = "finalize" => store.policy[wk.p] = wk.rlp
    /\ wk.pc = "addFinalizer" => ~wk.rlp.finalizer
    /\ wk.pc \in ConfigStages => \A g \in Gateways : wk.gws[g] = store.gateway[g]
    /\ wk.err => wk.rlp.target \notin Lockable
    /\ wk.mode = "apply" /\ wk.pc \in MidStages => BackRef(store, wk.rlp.target) = wk.p

Listed(p) ==
    \A g \in TargetedGatewayKeys(store, store.policy[p].target) : p \in store.gateway[g].refs

\* The gateways of a policy with the finalizer list it, but for the one at work.
HoldersListed ==
    \A p \in Policies :
        Holds(store.policy[p]) => Listed(p) \/ (wk.pc # "idle" /\ wk.p = p)

CalmInv ==
    /\ ReadyInv /\ WantedInv /\ HeldInv /\ HoldersListed /\ RouteInv
    /\ wk.twice = {}

PolicyCreated(p) ==
    \E x \in Policy :
        /\ PolicyBecomes(p, x) /\ ~store.policy[p].live
        /\ ~x.finalizer /\ ~x.deleting /\ Wanted(p, x)

PolicyMarked(p) ==
    \E x \in Policy :
        /\ PolicyBecomes(p, x) /\ store.policy[p].live
        /\ store.policy[p].finalizer /\ ~store.policy[p].deleting
        /\ x.finalizer /\ x.live /\ x.target = store.policy[p].target /\ x.spec = store.policy[p].spec

RouteRehosted(r) ==
    \E x \in Route :
        /\ RouteBecomes(r, x)
        /\ x.live = store.route[r].live /\ x.rejecting = store.route[r].rejecting
        /\ x.parents = store.route[r].parents /\ x.backref = store.route[r].backref

LEMMA CalmEdits ==
    ASSUME TypeInv, Environment, Undisturbed
    PROVE  /\ UNCHANGED <<wk, cache, faults>>
           /\ \/ \E p \in Policies : PolicyCreated(p) \/ PolicyMarked(p)
              \/ \E r \in Routes : RouteRehosted(r)
<1>0. /\ store \in Cluster /\ UNCHANGED <<wk, cache, faults>>
      /\ \A p \in Policies : store.policy[p] \in Policy
      /\ \A r \in Routes : store.route[r] \in Route
  BY TypeParts, GetTypes, EnvironmentEffect DEF Environment
<1>1. ASSUME NEW p \in Policies, NEW t \in TargetsOf[p], NEW s \in Specs, CreatePolicy(p, t, s)
      PROVE  PolicyCreated(p)
  <2>1. NewPolicy(t, s) \in Policy
    <3>1. t \in Targets
      BY ClusterAssumption
    <3> QED BY <3>1 DEF NewPolicy, NoSuchPolicy, Policy
  <2>2. /\ ~NewPolicy(t, s).finalizer /\ ~NewPolicy(t, s).deleting /\ Wanted(p, NewPolicy(t, s))
    BY DEF NewPolicy, NoSuchPolicy, Wanted
  <2>3. PolicyBecomes(p, NewPolicy(t, s)) /\ ~store.policy[p].live
    BY <1>1, PutBecomes DEF CreatePolicy, Edit
  <2> QED BY <2>1, <2>2, <2>3 DEF PolicyCreated
<1>2. ASSUME NEW p \in Policies, DeletePolicy(p) PROVE PolicyMarked(p)
  <2> DEFINE x == [store.policy[p] EXCEPT !.deleting = TRUE, !.observed = FALSE]
  <2>1. store' = [store EXCEPT !.policy[p] = x]
    BY <1>0, <1>2 DEF DeletePolicy, Edit, Cluster
  <2>2. x \in Policy /\ x.live = store.policy[p].live /\ x.finalizer = store.policy[p].finalizer
        /\ x.target = store.policy[p].target /\ x.spec = store.policy[p].spec
    BY <1>0 DEF Policy
  <2> HIDE DEF x
  <2>3. PolicyBecomes(p, x)
    BY <2>1, PutBecomes
  <2> QED BY <1>2, <2>2, <2>3 DEF PolicyMarked, DeletePolicy
<1>3. ASSUME NEW r \in Routes, NEW hs \in HostLists, EditRouteHosts(r, hs) PROVE RouteRehosted(r)
  <2> DEFINE x == [store.route[r] EXCEPT !.hosts = hs]
  <2>1. store' = [store EXCEPT !.route[r] = x]
    BY <1>0, <1>3 DEF EditRouteHosts, Edit, Cluster
  <2>2. x \in Route /\ x.live = store.route[r].live /\ x.rejecting = store.route[r].rejecting
        /\ x.parents = store.route[r].parents /\ x.backref = store.route[r].backref
    BY <1>0, ClusterAssumption DEF Route
  <2> HIDE DEF x
  <2>3. RouteBecomes(r, x)
    BY <2>1, PutBecomes
  <2> QED BY <2>2, <2>3 DEF RouteRehosted
<1>4. Edits \cap {"spec", "retarget", "deleteUnmarked", "route", "parents", "rejecting",
                  "gateway", "gatewayHosts", "ready", "limitador"} = {}
  BY DEF Undisturbed
<1>5. ASSUME EditPolicies PROVE \E p \in Policies : PolicyCreated(p) \/ PolicyMarked(p)
  <2>1. PICK p \in Policies : \/ \E t \in TargetsOf[p], s \in Specs : CreatePolicy(p, t, s)
                              \/ \E s \in Specs : EditSpec(p, s)
                              \/ \E t \in TargetsOf[p] : Retarget(p, t)
                              \/ DeletePolicy(p) \/ DeleteUnmarkedPolicy(p)
    BY <1>5 DEF EditPolicies
  <2>2. /\ ~\E s \in Specs : EditSpec(p, s)
        /\ ~\E t \in TargetsOf[p] : Retarget(p, t)
        /\ ~DeleteUnmarkedPolicy(p)
    BY <1>4 DEF EditSpec, Retarget, DeleteUnmarkedPolicy, Edit
  <2> QED BY <1>1, <1>2, <2>1, <2>2
<1>6. ASSUME EditRoutes PROVE \E r \in Routes : RouteRehosted(r)
  <2>1. PICK r \in Routes : \/ \E ps \in ParentsOf[r], hs \in HostLists : CreateRoute(r, ps, hs)
                            \/ DeleteRoute(r)
                            \/ \E ps \in ParentsOf[r] : EditParents(r, ps)
                            \/ \E hs \in HostLists : EditRouteHosts(r, hs)
                            \/ \E gs \in SUBSET Gateways : SetRejecting(r, gs)
    BY <1>6 DEF EditRoutes
  <2>2. /\ ~\E ps \in ParentsOf[r], hs \in HostLists : CreateRoute(r, ps, hs)
        /\ ~DeleteRoute(r)
        /\ ~\E ps \in ParentsOf[r] : EditParents(r, ps)
        /\ ~\E gs \in SUBSET Gateways : SetRejecting(r, gs)
    BY <1>4 DEF CreateRoute, DeleteRoute, EditParents, SetRejecting, Edit
  <2> QED BY <1>3, <2>1, <2>2
<1>7. ~EditGateways /\ ~EditLimitador
  BY <1>4 DEF EditGateways, CreateGateway, DeleteGateway, EditGatewayHosts, SetReady,
              EditLimitador, SetLimitador, Edit
<1> QED BY <1>0, <1>5, <1>6, <1>7 DEF Environment

LEMMA EnvironmentCalmInv ==
    ASSUME TraceInv, CalmInv, Environment, Undisturbed, Rooted
    PROVE  CalmInv'
<1>0. /\ TypeInv /\ BaseInv /\ UNCHANGED <<wk, cache, faults>>
      /\ HoldersKept /\ LinksKept
      /\ \A u \in Lockable : BackRef(store', u) = BackRef(store, u)
      /\ \A g \in Gateways : store'.gateway[g].refs = store.gateway[g].refs
      /\ wk.pc # "idle" => wk.p \in Policies /\ wk.rlp.live
      /\ ReadyInv /\ WantedInv /\ HeldInv /\ HoldersListed /\ RouteInv /\ wk.twice = {}
  BY EnvironmentKeeps, CalmEdits, TypeParts DEF TraceInv, BaseInv, JobInv, CalmInv
<1>1. store'.gateway = store.gateway /\ store'.limitador = store.limitador
  BY <1>0, CalmEdits DEF PolicyCreated, PolicyMarked, RouteRehosted, PolicyBecomes, RouteBecomes
<1>2. ASSUME NEW p \in Policies
      PROVE  \/ store'.policy[p] = store.policy[p]
             \/ /\ ~store.policy[p].live /\ ~store'.policy[p].finalizer
                /\ ~store'.policy[p].deleting /\ Wanted(p, store'.policy[p])
             \/ /\ store.policy[p].live /\ store.policy[p].finalizer /\ ~store.policy[p].deleting
                /\ store'.policy[p].target = store.policy[p].target
                /\ store'.policy[p].spec = store.policy[p].spec
  BY <1>0, CalmEdits DEF PolicyCreated, PolicyMarked, RouteRehosted, PolicyBecomes, RouteBecomes
<1>3. \A r \in Routes : /\ store'.route[r].live = store.route[r].live
                        /\ store'.route[r].rejecting = store.route[r].rejecting
                        /\ store'.route[r].backref = store.route[r].backref
  BY <1>0, CalmEdits DEF PolicyCreated, PolicyMarked, RouteRehosted, PolicyBecomes, RouteBecomes
<1>4. ReadyInv'
  BY <1>0, <1>1, <1>3 DEF ReadyInv
<1>5. WantedInv'
  BY <1>0, <1>2 DEF WantedInv, Wanted
<1>6. HeldInv'
  <2>1. wk.pc = "addFinalizer" \/ wk.mode = "finalize" => store'.policy[wk.p] = wk.rlp
    <3> SUFFICES ASSUME wk.pc = "addFinalizer" \/ wk.mode = "finalize"
                 PROVE  store'.policy[wk.p] = wk.rlp
      OBVIOUS
    <3>1. wk.pc # "idle" /\ store.policy[wk.p] = wk.rlp
      BY <1>0 DEF HeldInv, BaseInv, LockInv, Idle
    <3>2. wk.p \in Policies /\ wk.rlp.live
      BY <1>0, <3>1
    <3>3. ~wk.rlp.finalizer \/ wk.rlp.deleting
      <4>1. CASE wk.mode = "finalize"
        BY <1>0, <4>1 DEF BaseInv, WorkerInv
      <4>2. CASE wk.pc = "addFinalizer"
        BY <1>0, <4>2 DEF HeldInv
      <4> QED BY <4>1, <4>2
    <3> QED BY <1>2, <3>1, <3>2, <3>3
  <2>2. wk.mode = "apply" /\ wk.pc \in MidStages => BackRef(store', wk.rlp.target) = wk.p
    BY <1>0 DEF HeldInv, BaseInv, JobInv, MidStages
  <2> QED BY <1>0, <1>1, <2>1, <2>2 DEF HeldInv
<1>7. HoldersListed'
  <2> SUFFICES ASSUME NEW p \in Policies, Holds(store'.policy[p])
               PROVE  Listed(p)' \/ (wk.pc # "idle" /\ wk.p = p)
    BY <1>0 DEF HoldersListed
  <2>1. Holds(store.policy[p])
    BY <1>2 DEF Holds
  <2>2. store'.policy[p].target = store.policy[p].target
    BY <1>0, <2>1 DEF HoldersKept
  <2>3. TargetedGatewayKeys(store, store.policy[p].target) \subseteq Gateways
    BY <1>0, KeysAreGateways
  <2>4. Listed(p) => Listed(p)'
    BY <1>0, <1>1, <2>2 DEF Listed, LinksKept
  <2> QED BY <1>0, <2>1, <2>4 DEF HoldersListed
<1>8. RouteInv'
  <2> SUFFICES ASSUME NEW g \in Gateways, NEW q \in store.gateway[g].refs,
                      store'.policy[q].target \in Routes
               PROVE  store'.route[store'.policy[q].target].backref = q
    BY <1>0 DEF RouteInv
  <2>1. q \in Policies
    BY <1>0, TypeParts, GetTypes DEF Gateway
  <2>2. Holds(store.policy[q])
    BY <2>1 DEF TraceInv, CoveredInv, Traces, Covered
  <2>3. store'.policy[q].target = store.policy[q].target
    BY <1>0, <2>1, <2>2 DEF HoldersKept
  <2> QED BY <1>0, <1>3, <2>3 DEF RouteInv
<1> QED BY <1>0, <1>4, <1>5, <1>6, <1>7, <1>8 DEF CalmInv

LEMMA CalmCopies ==
    ASSUME TypeInv, Settled, Prompt, Undisturbed
    PROVE  /\ CurrentCopies
           /\ cache.limitador = store.limitador /\ cache.plugin = store.plugin
           /\ cache.filter = store.filter
BY SettledKinds DEF Prompt, CurrentCopies, Undisturbed

\* Every policy that configures a gateway of the diff can be computed with: one
\* that is gone or invalid is not listed, and only one can target the gateway.
LEMMA ConfigPossible ==
    ASSUME TraceInv, ListingInv, CalmInv, Separate, CurrentCopies, wk.pc \in ConfigStages,
           NEW g \in wk.left \cup wk.same \cup wk.new
    PROVE  ConfigOK(cache, RLPRefsAfter(g))
<1>0. /\ TypeInv /\ BaseInv /\ wk.pc # "idle" /\ wk.p \in Policies /\ g \in Gateways
      /\ wk.mode \in {"apply", "finalize"} /\ wk.gws[g].refs = store.gateway[g].refs
      /\ store.gateway[g].refs \subseteq Policies
      /\ ReadyInv /\ WantedInv
  BY TypeParts, GetTypes DEF TraceInv, BaseInv, ConfigStages, Worker, HeldInv, Gateway, CalmInv
<1>1. ASSUME NEW q \in RLPRefsAfter(g) PROVE q \in Policies /\ Covered(q, g)
  <2>1. CASE q \in store.gateway[g].refs
    BY <1>0, <2>1 DEF TraceInv, CoveredInv, Traces
  <2>2. CASE q = wk.p /\ g \notin wk.left
    <3>1. wk.mode = "apply"
      BY <1>0, <2>2 DEF BaseInv, WorkerInv
    <3>2. g \in TargetedGatewayKeys(store, wk.rlp.target)
      BY <2>2, <3>1 DEF ListingInv
    <3>3. Holds(store.policy[wk.p]) /\ store.policy[wk.p].target = wk.rlp.target
      BY <1>0, <3>1, CopiesAgree DEF TraceInv, ConfigStages
    <3> QED BY <1>0, <2>2, <3>2, <3>3 DEF Covered
  <2> QED BY <1>0, <1>1, <2>1, <2>2 DEF RLPRefsAfter
<1>2. \A q \in RLPRefsAfter(g) :
        /\ cache.policy[q] = store.policy[q] /\ store.policy[q].live
        /\ store.policy[q].target \in TargetsOf[q]
        /\ g \in TargetedGatewayKeys(store, store.policy[q].target)
  BY <1>0, <1>1 DEF Covered, Holds, WantedInv, Wanted, CurrentCopies
<1> DEFINE R == RLPRefsAfter(g)
<1> HIDE DEF R
<1>3. \A q1, q2 \in GatewayPolicies(cache, R) : q1 = q2
  <2> SUFFICES ASSUME NEW q1 \in GatewayPolicies(cache, R), NEW q2 \in GatewayPolicies(cache, R)
               PROVE  q1 = q2
    OBVIOUS
  <2>1. \A q \in {q1, q2} : q \in R /\ cache.policy[q].target \in Gateways
    BY DEF GatewayPolicies
  <2>2. \A q \in {q1, q2} : g \in TargetsOf[q]
    BY <1>2, <2>1, ClusterAssumption DEF R, TargetedGatewayKeys
  <2> QED BY <1>1, <2>1, <2>2 DEF Separate, R
<1>4. \A q \in RoutePolicies(cache, R) : FetchValidHTTPRoute(cache, cache.policy[q].target)
  BY <1>0 DEF RoutePolicies, FetchValidHTTPRoute, CurrentCopies, ReadyInv
<1>5. \A q \in R : cache.policy[q].live
  BY <1>2 DEF R
<1> QED BY <1>3, <1>4, <1>5 DEF ConfigOK, R

\* No stage between the back reference and the status, or of a finalization up to
\* the back reference, comes to an error.
Goes == wk'.pc # "idle" /\ wk'.err = wk.err

LEMMA CalmGoes ==
    ASSUME TraceInv, ListingInv, CalmInv, Prompt, Undisturbed, Separate, Work,
           \/ wk.pc \in MidStages \cup {"addFinalizer", "finDiff"}
           \/ wk.pc \in {"backRef", "finBackRef"} /\ wk.rlp.target \in Lockable
    PROVE  Goes
<1>0. /\ TypeInv /\ BaseInv /\ ReadyInv /\ WantedInv /\ HeldInv /\ wk.pc # "idle" /\ wk.p \in Policies
      /\ wk \in Worker /\ wk.rlp \in Policy /\ Settled
      /\ CurrentCopies /\ cache.limitador = store.limitador /\ cache.plugin = store.plugin
      /\ cache.filter = store.filter
  <2>1. Settled
    BY DEF Work, Apply, Configure, Finalize, AddFinalizer, ReconcileDirectBackReference,
           ComputeGatewayDiffs, ReconcileStatus, ReconcileLimits, ReconcileFilter, ReconcilePlugin,
           ReconcileGatewayRLPReferences, NextStage, ComputeFinalizeGatewayDiff,
           DeleteNetworkResourceBackReference, RemoveFinalizer, At
  <2> QED BY <2>1, WorkSteps, CalmCopies, TypeParts DEF TraceInv, BaseInv, CalmInv
<1>1. /\ \A pc : Goto([wk EXCEPT !.pc = pc]) /\ pc # "idle" => Goes
      /\ \A g \in Gateways : Goto(Visited(g)) => Goes
      /\ Goto(Enter(Following)) => Goes
  <2>1. Following # "idle"
    BY DEF Following
  <2> QED BY <1>0, <2>1, FailMoves DEF Goes, MovesTo, Enters, Visits
<1>2. \A r \in Routes : FetchValidHTTPRoute(cache, r)
  BY <1>0 DEF ReadyInv, CurrentCopies, FetchValidHTTPRoute
<1>3. wk.pc \in ConfigStages =>
        \A g \in wk.left \cup wk.same \cup wk.new : ConfigOK(cache, RLPRefsAfter(g))
  BY <1>0, ConfigPossible
<1>4. wk.todo \subseteq wk.left \cup wk.same \cup wk.new
  BY <1>0 DEF BaseInv, WorkerInv
<1>5. CASE ReconcileDirectBackReference
  <2> DEFINE t == wk.rlp.target
  <2>1. wk.pc = "backRef" /\ t \in Lockable /\ t \in TargetsOf[wk.p] /\ wk.rlp.spec \in Specs
    BY <1>0, <1>5 DEF ReconcileDirectBackReference, At, MidStages, WantedInv, Wanted
  <2>2. Validate(wk.p, t) /\ FetchValidTargetRef(cache, t)
    BY <1>0, <1>2, <2>1
       DEF Validate, FetchValidTargetRef, FetchValidGateway, Lockable, Separate, ReadyInv, CurrentCopies
  <2>3. <<wk.rlp.spec, TargetHostnames(cache, t)>> \in Fits
    <3>1. TargetHostnames(cache, t) \in SUBSET Hostnames
      BY <1>0, <2>1, TypeParts, GetTypes, ClusterAssumption
         DEF TargetHostnames, OrWildcard, Route, Gateway, Lockable
    <3> QED BY <2>1, <3>1 DEF Separate
  <2>4. BackRef(cache, t) \in {wk.p, NoPolicy}
    <3>1. BackRef(cache, t) = BackRef(store, t)
      BY <1>0 DEF BackRef, CurrentCopies
    <3>2. BackRef(store, t) \in Policies \cup {NoPolicy}
      BY <1>0, <2>1, TypeParts, GetTypes DEF BackRef, Route, Gateway, Lockable
    <3>3. ASSUME NEW q \in Policies, BackRef(store, t) = q PROVE q = wk.p
      <4>1. Holds(store.policy[q]) /\ store.policy[q].target = t
        BY <2>1, <3>3 DEF TraceInv, OwnedInv
      <4>2. t \in TargetsOf[q]
        BY <1>0, <4>1 DEF WantedInv, Wanted, Holds
      <4> QED BY <1>0, <2>1, <4>2 DEF Separate
    <3> QED BY <3>1, <3>2, <3>3
  <2>5. \/ Advance([wk EXCEPT !.pc = "diff"])
        \/ /\ t \in Routes
           /\ Call(UpdateAccepted(store.route[t], cache.route[t]),
                   WithRouteBackRef(t, wk.p), Goto([wk EXCEPT !.pc = "diff"]))
        \/ /\ t \in Gateways
           /\ Call(UpdateAccepted(store.gateway[t], cache.gateway[t]),
                   WithGatewayBackRef(t, wk.p), Goto([wk EXCEPT !.pc = "diff"]))
    BY <1>5, <2>2, <2>3, <2>4 DEF ReconcileDirectBackReference
  <2>6. UpdateAccepted(store.route[t], cache.route[t]) /\ UpdateAccepted(store.gateway[t], cache.gateway[t])
    BY <1>0 DEF UpdateAccepted, CurrentCopies
  <2>7. Goto([wk EXCEPT !.pc = "diff"])
    BY <1>0, <2>5, <2>6 DEF Advance, Call, ReadyInv
  <2> QED BY <1>1, <2>7
<1>6. CASE ComputeGatewayDiffs
  <2>1. TargetedGatewayKeysOK(cache, wk.rlp.target)
    BY <1>2 DEF TargetedGatewayKeysOK
  <2> QED BY <1>0, <1>6, <2>1 DEF ComputeGatewayDiffs, Advance, Goto, Goes, Worker
<1>7. CASE ReconcileLimits
  <2>1. /\ cache.limitador.status # "absent" /\ store.limitador.status # "absent"
        /\ UpdateAccepted(store.limitador, cache.limitador)
    BY <1>0 DEF ReadyInv, UpdateAccepted
  <2>2. \A g \in wk.same \cup wk.new : ConfigOK(cache, RLPRefsAfter(g))
    BY <1>3, <1>7 DEF ReconcileLimits, At, ConfigStages
  <2>3. \/ Advance(Enter(Following))
        \/ Call(UpdateAccepted(store.limitador, cache.limitador),
                [store EXCEPT !.limitador = [cache.limitador EXCEPT !.limits = LimitsAfter]],
                Goto(Enter(Following)))
    BY <1>7, <2>1, <2>2 DEF ReconcileLimits
  <2>4. Goto(Enter(Following))
    BY <1>0, <2>1, <2>3 DEF Advance, Call, ReadyInv
  <2> QED BY <1>1, <2>4
<1>8. ASSUME NEW g \in Gateways, ReconcileFilter(g) PROVE Goes
  <2> DEFINE desired == RLPRefsAfter(g) # {}
             after == [store EXCEPT !.filter[g] = desired]
             accepted == ResourceAccepted(cache.filter[g], store.filter[g], desired, FALSE)
  <2>1. Advance(Visited(g)) \/ Call(accepted, after, Goto(Visited(g)))
    BY <1>0, <1>8 DEF ReconcileFilter, ReadyInv
  <2>2. accepted
    BY <1>0 DEF ResourceAccepted, UpdateAccepted
  <2> HIDE DEF after, accepted
  <2>3. Goto(Visited(g))
    BY <1>0, <2>1, <2>2 DEF Advance, Call, ReadyInv
  <2> QED BY <1>1, <2>3
<1>9. ASSUME NEW g \in Gateways, ReconcilePlugin(g) PROVE Goes
  <2> DEFINE desired == IF RLPRefsAfter(g) = {} THEN NoPlugin
                        ELSE [live |-> TRUE, conf |-> GatewayConfig(cache, wk.gws[g], RLPRefsAfter(g))]
  <2>1. ConfigOK(cache, RLPRefsAfter(g))
    BY <1>3, <1>4, <1>9 DEF ReconcilePlugin, At, Visit, ConfigStages
  <2>2. \/ Advance(Visited(g))
        \/ Call(ResourceAccepted(cache.plugin[g], store.plugin[g], desired, NoPlugin),
                [store EXCEPT !.plugin[g] = desired], Goto(Visited(g)))
    BY <1>9, <2>1 DEF ReconcilePlugin
  <2>3. ResourceAccepted(cache.plugin[g], store.plugin[g], desired, NoPlugin)
    BY <1>0 DEF ResourceAccepted, UpdateAccepted
  <2>4. Goto(Visited(g))
    BY <1>0, <2>2, <2>3 DEF Advance, Call, ReadyInv
  <2> QED BY <1>1, <2>4
<1>10. ASSUME NEW g \in Gateways, ReconcileGatewayRLPReferences(g) PROVE Goes
  <2> DEFINE refs == RLPRefsAfter(g)
             noted == [Visited(g) EXCEPT !.gws[g].refs = refs]
             next == IF g \in wk.again THEN Visited(g) ELSE noted
  <2>1. wk.pc = "refs"
    BY <1>10 DEF ReconcileGatewayRLPReferences, At
  <2>2. UpdateAccepted(store.gateway[g], wk.gws[g])
    BY <1>0, <2>1 DEF HeldInv, ConfigStages, UpdateAccepted
  <2>3. \/ Advance(Visited(g))
        \/ Call(UpdateAccepted(store.gateway[g], wk.gws[g]),
                [store EXCEPT !.gateway[g] = [wk.gws[g] EXCEPT !.refs = refs]], Goto(next))
    BY <1>10 DEF ReconcileGatewayRLPReferences
  <2>4. next.pc = wk.pc /\ next.err = wk.err
    BY <1>0, VisitedFields
  <2> HIDE DEF noted, next
  <2>5. Goto(Visited(g)) \/ Goto(next)
    BY <1>0, <2>2, <2>3 DEF Advance, Call, ReadyInv
  <2>6. Goto(next) => Goes
    BY <1>0, <2>4 DEF Goto, Goes
  <2> QED BY <1>1, <2>5, <2>6
<1>11. CASE NextStage
  BY <1>1, <1>11 DEF NextStage, Advance
<1>12. CASE ComputeFinalizeGatewayDiff
  <2>1. TargetedGatewayKeysOK(cache, wk.rlp.target)
    BY <1>2 DEF TargetedGatewayKeysOK
  <2> QED BY <1>0, <1>12, <2>1 DEF ComputeFinalizeGatewayDiff, Advance, Goto, Goes, Worker
<1>13. CASE AddFinalizer
  <2> DEFINE next == [wk EXCEPT !.pc = "backRef", !.rlp.finalizer = TRUE]
             accepted == UpdateAccepted(store.policy[wk.p], wk.rlp)
  <2>1. wk.pc = "addFinalizer"
    BY <1>13 DEF AddFinalizer, At
  <2>2. accepted
    BY <1>0, <2>1 DEF HeldInv, UpdateAccepted
  <2>3. Advance(next) \/ Call(accepted, [store EXCEPT !.policy[wk.p] = next.rlp], Goto(next))
    BY <1>13 DEF AddFinalizer
  <2>4. next.pc = "backRef" /\ next.err = wk.err
    BY <1>0 DEF Worker
  <2> HIDE DEF next, accepted
  <2>5. Goto(next)
    BY <1>0, <2>2, <2>3 DEF Advance, Call, ReadyInv
  <2> QED BY <2>4, <2>5 DEF Goto, Goes
<1>14. CASE DeleteNetworkResourceBackReference
  <2> DEFINE t == wk.rlp.target
             next == [wk EXCEPT !.pc = "finRemove"]
             routeOk == UpdateAccepted(store.route[t], cache.route[t])
             gatewayOk == UpdateAccepted(store.gateway[t], cache.gateway[t])
  <2>1. t \in Lockable
    BY <1>14 DEF DeleteNetworkResourceBackReference, At, MidStages
  <2>2. FetchValidTargetRef(cache, t)
    BY <1>0, <1>2, <2>1
       DEF FetchValidTargetRef, FetchValidGateway, Lockable, ReadyInv, CurrentCopies
  <2>3. \/ Advance(next)
        \/ Call(routeOk, WithRouteBackRef(t, NoPolicy), Goto(next))
        \/ Call(gatewayOk, WithGatewayBackRef(t, NoPolicy), Goto(next))
    BY <1>14, <2>2 DEF DeleteNetworkResourceBackReference
  <2>4. routeOk /\ gatewayOk
    BY <1>0 DEF UpdateAccepted, CurrentCopies
  <2> HIDE DEF next, routeOk, gatewayOk
  <2>5. Goto(next)
    BY <1>0, <2>3, <2>4 DEF Advance, Call, ReadyInv
  <2> QED BY <1>1, <2>5 DEF next
<1>15. ~(ReconcileStatus \/ RemoveFinalizer)
  BY DEF ReconcileStatus, RemoveFinalizer, At, MidStages
<1> QED BY <1>5, <1>6, <1>7, <1>8, <1>9, <1>10, <1>11, <1>12, <1>13, <1>14, <1>15
        DEF Work, Apply, Configure, Finalize

\* Nothing fails, and a policy that is finalized goes.
LEMMA CalmFaults ==
    ASSUME ReadyInv, Work
    PROVE  faults' = 0
<1>0. faults = 0
  BY DEF ReadyInv
<1>1. Apply => faults' = 0
  BY <1>0 DEF Apply, AddFinalizer, ReconcileDirectBackReference, ComputeGatewayDiffs, ReconcileStatus,
              Call, Abort, Advance
<1>2. Configure => faults' = 0
  <2>1. ReconcileLimits \/ NextStage => faults' = 0
    BY <1>0 DEF ReconcileLimits, NextStage, Call, Abort, Advance
  <2>2. ASSUME NEW g \in Gateways
        PROVE  ReconcileFilter(g) \/ ReconcilePlugin(g) \/ ReconcileGatewayRLPReferences(g) => faults' = 0
    <3>1. ASSUME ReconcileFilter(g) PROVE faults' = 0
      <4> DEFINE desired == RLPRefsAfter(g) # {}
                 after == [store EXCEPT !.filter[g] = desired]
                 accepted == ResourceAccepted(cache.filter[g], store.filter[g], desired, FALSE)
      <4>1. Abort \/ Advance(Visited(g)) \/ Call(accepted, after, Goto(Visited(g)))
        BY <3>1 DEF ReconcileFilter
      <4> HIDE DEF after, accepted
      <4> QED BY <1>0, <4>1 DEF Call, Abort, Advance
    <3>2. ReconcilePlugin(g) => faults' = 0
      BY <1>0 DEF ReconcilePlugin, Call, Abort, Advance
    <3>3. ReconcileGatewayRLPReferences(g) => faults' = 0
      BY <1>0 DEF ReconcileGatewayRLPReferences, Call, Abort, Advance
    <3> QED BY <3>1, <3>2, <3>3
  <2> QED BY <2>1, <2>2 DEF Configure
<1>3. Finalize => faults' = 0
  BY <1>0 DEF Finalize, ComputeFinalizeGatewayDiff, DeleteNetworkResourceBackReference, RemoveFinalizer,
              Call, Abort, Advance
<1> QED BY <1>1, <1>2, <1>3 DEF Work

LEMMA CalmRemoval ==
    ASSUME TraceInv, CalmInv, Work, wk.pc = "finRemove"
    PROVE  ~store'.policy[wk.p].live
<1>0. /\ TypeInv /\ BaseInv /\ wk.p \in Policies /\ wk.mode = "finalize" /\ store \in Cluster
      /\ store.policy[wk.p] = wk.rlp /\ ReadyInv
  BY TypeParts DEF TraceInv, BaseInv, WorkerInv, CalmInv, HeldInv
<1>1. RemoveFinalizer
  BY DEF Work, Apply, Configure, Finalize, AddFinalizer, ReconcileDirectBackReference,
         ComputeGatewayDiffs, ReconcileStatus, ReconcileLimits, ReconcileFilter, ReconcilePlugin,
         ReconcileGatewayRLPReferences, NextStage, ComputeFinalizeGatewayDiff,
         DeleteNetworkResourceBackReference, At
<1>2. UpdateAccepted(store.policy[wk.p], wk.rlp)
  BY <1>0 DEF UpdateAccepted
<1>3. \/ ~store.policy[wk.p].live /\ store' = store
      \/ store' = [store EXCEPT !.policy[wk.p] = NoSuchPolicy]
  BY <1>0, <1>1, <1>2 DEF RemoveFinalizer, Advance, Call, ReadyInv
<1> QED BY <1>0, <1>3, PutBecomes DEF PolicyBecomes, NoSuchPolicy

\* The policies and routes a step of the worker writes.
LEMMA WorkPlaces ==
    ASSUME BaseInv, Work
    PROVE  /\ \A q \in Policies \ {wk.p} : store'.policy[q] = store.policy[q]
           /\ wk.pc \notin {"addFinalizer", "status", "finRemove"} => store'.policy = store.policy
           /\ wk.pc \notin {"backRef", "finBackRef"} => store'.route = store.route
<1>0. TypeInv /\ WorkStep
  BY WorkSteps DEF BaseInv
<1>1. AddFinalizerStep \/ StatusStep \/ FinRemoveStep =>
        /\ wk.pc \in {"addFinalizer", "status", "finRemove"} /\ store'.route = store.route
        /\ \A q \in Policies \ {wk.p} : store'.policy[q] = store.policy[q]
  BY DEF AddFinalizerStep, StatusStep, FinRemoveStep, PolicyBecomes
<1>2. BackRefStep \/ FinBackRefStep => wk.pc \in {"backRef", "finBackRef"} /\ store'.policy = store.policy
  BY DEF BackRefStep, FinBackRefStep, OwnerWritten, RouteBecomes, GatewayBecomes
<1>3. DiffStep \/ LimitsStep \/ FilterStep \/ FinDiffStep \/ LoopStep =>
        store'.route = store.route /\ store'.policy = store.policy
  BY DEF DiffStep, LimitsStep, FilterStep, FinDiffStep, LoopStep, LimitadorBecomes, FilterBecomes
<1>4. PluginStep \/ RefsStep => store'.route = store.route /\ store'.policy = store.policy
  BY DEF PluginStep, RefsStep, PluginBecomes, GatewayBecomes
<1> QED BY <1>0, <1>1, <1>2, <1>3, <1>4 DEF WorkStep

\* The copies of the gateways stay what is stored.
LEMMA CalmGateways ==
    ASSUME TraceInv, CalmInv, Work, CurrentCopies, wk'.pc \in ConfigStages, NEW g \in Gateways
    PROVE  wk'.gws[g] = store'.gateway[g]
<1>0. TypeInv /\ BaseInv /\ WorkStep /\ wk.pc # "idle" /\ HeldInv /\ wk.again = {}
  BY WorkSteps, MeetsOnce DEF TraceInv, BaseInv, CalmInv
<1>1. ~Fails
  BY IdleType DEF Fails, Reports, GivesUp, ConfigStages
<1>2. ~(AddFinalizerStep \/ BackRefStep \/ StatusStep \/ FinBackRefStep \/ FinRemoveStep)
  <2>1. \A pc \in {"diff", "finRemove"} : ~MovesTo(pc)
    BY DEF MovesTo, ConfigStages
  <2>2. ~Armed /\ ~Ends /\ ~GivesUp
    BY IdleType DEF Armed, Ends, GivesUp, ConfigStages
  <2> QED BY <1>1, <2>1, <2>2
          DEF AddFinalizerStep, BackRefStep, StatusStep, FinBackRefStep, FinRemoveStep
<1>3. CASE DiffStep \/ FinDiffStep
  BY <1>1, <1>3 DEF DiffStep, FinDiffStep, Sorted, CurrentCopies
<1>4. CASE LimitsStep \/ FilterStep \/ PluginStep \/ LoopStep
  <2>1. wk.pc \in ConfigStages
    BY <1>4 DEF LimitsStep, FilterStep, PluginStep, LoopStep, ConfigStages
  <2>2. wk'.gws = wk.gws
    BY <1>1, <1>4 DEF LimitsStep, FilterStep, PluginStep, LoopStep, Enters, Visits, MovesTo, Kept
  <2>3. store'.gateway = store.gateway
    BY <1>4 DEF LimitsStep, FilterStep, PluginStep, LoopStep, LimitadorBecomes, FilterBecomes, PluginBecomes
  <2> QED BY <1>0, <2>1, <2>2, <2>3 DEF HeldInv
<1>5. CASE RefsStep
  <2>1. wk.pc \in ConfigStages
    BY <1>5 DEF RefsStep, ConfigStages
  <2>2. \A h \in Gateways : wk.gws[h] = store.gateway[h]
    BY <1>0, <2>1 DEF HeldInv
  <2>3. PICK h \in wk.todo :
          \/ store' = store /\ Visits(h)
          \/ GatewayBecomes(h, [wk.gws[h] EXCEPT !.refs = RLPRefsAfter(h)]) /\ Annotates(h)
    BY <1>1, <1>5 DEF RefsStep
  <2> QED BY <1>0, <2>2, <2>3 DEF Visits, MovesTo, Kept, GatewayBecomes, Annotates
<1> QED BY <1>0, <1>2, <1>3, <1>4, <1>5 DEF WorkStep

\* No finalization has a gateway twice.
LEMMA WorkMeetsOnce ==
    ASSUME TypeInv, Work, ListedOnce, wk.twice = {}
    PROVE  wk'.twice = {}
<1>0. wk \in Worker /\ Idle.twice = {}
  BY TypeParts DEF Idle
<1>1. GaveUp => wk'.twice = {}
  BY <1>0 DEF GaveUp, Worker
<1>2. \A pc : Enter(pc).twice = {}
  BY <1>0 DEF Enter, Worker
<1>3. ASSUME NEW g \in Gateways,
             \/ wk' = Visited(g)
             \/ wk' = [Visited(g) EXCEPT !.gws[g].refs = RLPRefsAfter(g)]
      PROVE  wk'.twice = {}
  BY <1>3, VisitedFields
<1>4. CASE ComputeFinalizeGatewayDiff
  <2> DEFINE t == wk.rlp.target
             keys == IF t \in Routes /\ ~TargetLive(cache, t) THEN {}
                     ELSE TargetedGatewayKeys(cache, t)
             left == {g \in keys : cache.gateway[g].live}
             twice == left \cap RepeatedGatewayKeys(cache, t)
             next == [wk EXCEPT !.pc = "refs", !.gws = cache.gateway,
                                !.left = left, !.twice = twice, !.todo = left, !.again = twice]
  <2>1. wk' = next \/ GaveUp
    BY <1>4, AbortEffect DEF ComputeFinalizeGatewayDiff, Advance, Goto
  <2>2. RepeatedGatewayKeys(cache, t) = {}
    BY DEF ListedOnce, RepeatedGatewayKeys
  <2>3. twice = {}
    BY <2>2
  <2> HIDE DEF left, twice
  <2> QED BY <1>0, <1>1, <2>1, <2>3 DEF Worker
<1>5. ASSUME NEW g \in Gateways,
             ReconcileFilter(g) \/ ReconcilePlugin(g) \/ ReconcileGatewayRLPReferences(g)
      PROVE  wk'.twice = {}
  <2>1. ReconcileFilter(g) => wk' = Visited(g) \/ GaveUp
    BY CallEffect, AbortEffect DEF ReconcileFilter, Advance, Goto
  <2>2. ReconcilePlugin(g) => wk' = Visited(g) \/ GaveUp
    BY CallEffect, AbortEffect DEF ReconcilePlugin, Advance, Goto
  <2> QED BY <1>1, <1>3, <1>5, <2>1, <2>2, RefsEffect
<1>6. CASE ReconcileLimits \/ NextStage
  <2>1. wk' = Enter(Following) \/ GaveUp
    BY <1>6, CallEffect, AbortEffect DEF ReconcileLimits, NextStage, Advance, Goto
  <2> QED BY <1>1, <1>2, <2>1
<1>7. CASE AddFinalizer \/ ReconcileDirectBackReference \/ DeleteNetworkResourceBackReference
  <2>1. AddFinalizer =>
          wk' = [wk EXCEPT !.pc = "backRef", !.rlp.finalizer = TRUE] \/ GaveUp
    BY CallEffect DEF AddFinalizer, Advance, Goto
  <2>2. ReconcileDirectBackReference => wk' = [wk EXCEPT !.pc = "diff"] \/ GaveUp
    BY CallEffect, AbortEffect DEF ReconcileDirectBackReference, Advance, Goto
  <2>3. DeleteNetworkResourceBackReference => wk' = [wk EXCEPT !.pc = "finRemove"] \/ GaveUp
    BY CallEffect, AbortEffect DEF DeleteNetworkResourceBackReference, Advance, Goto
  <2> QED BY <1>0, <1>1, <1>7, <2>1, <2>2, <2>3 DEF Worker
<1>8. CASE ComputeGatewayDiffs
  <2> DEFINE keys == TargetedGatewayKeys(cache, wk.rlp.target)
  <2>1. \/ wk' = [wk EXCEPT !.pc = "limits", !.gws = cache.gateway,
                            !.left = LeftGateways(cache, wk.p, keys),
                            !.same = SameGateways(cache, wk.p, keys),
                            !.new = NewGateways(cache, wk.p, keys)]
        \/ GaveUp
    BY <1>8, AbortEffect DEF ComputeGatewayDiffs, Advance, Goto
  <2> QED BY <1>0, <1>1, <2>1 DEF Worker
<1>9. CASE ReconcileStatus \/ RemoveFinalizer
  <2>1. wk' = Idle \/ GaveUp
    BY <1>9, CallEffect, FailEffect, AbortEffect
       DEF ReconcileStatus, RemoveFinalizer, Call, Advance, Requeue, Goto
  <2> QED BY <1>0, <1>1, <2>1
<1> QED BY <1>4, <1>5, <1>6, <1>7, <1>8, <1>9 DEF Work, Apply, Configure, Finalize

LEMMA WorkCalmInv ==
    ASSUME TraceInv, ListingInv, CalmInv, Prompt, Undisturbed, Separate, ListedOnce, Work
    PROVE  CalmInv'
<1>0. /\ TypeInv /\ BaseInv /\ WorkStep /\ wk.pc # "idle" /\ wk.p \in Policies /\ wk.rlp \in Policy
      /\ wk.mode \in {"apply", "finalize"} /\ Settled /\ LinksKept /\ LosesNothing /\ CoveredInv'
      /\ ReadyInv /\ WantedInv /\ HeldInv /\ HoldersListed /\ RouteInv /\ wk.twice = {}
  BY WorkSteps, WorkLinks, WorkLosesNothing, WorkCoveredInv, TypeParts
     DEF TraceInv, BaseInv, CalmInv, Worker
<1>c. CurrentCopies
  BY <1>0, SettledCopies
<1>p. PICK p \in Policies : p = wk.p
  BY <1>0
<1>1. \/ wk' = Idle
      \/ /\ wk'.pc # "idle" /\ wk'.pc # "addFinalizer" /\ wk'.p = p /\ wk'.mode = wk.mode
         /\ wk'.rlp.target = wk.rlp.target /\ wk'.rlp.spec = wk.rlp.spec
         /\ wk'.rlp = wk.rlp \/ wk.pc = "addFinalizer"
  BY <1>0, <1>p, WorkJob DEF BaseInv, SameJob, Armed, Policy
<1>2. ASSUME NEW q \in Policies, store'.policy[q].live
      PROVE  /\ store.policy[q].live /\ store'.policy[q].target = store.policy[q].target
             /\ store'.policy[q].spec = store.policy[q].spec
  <2>1. UsersPolicy(store'.policy[q]) = UsersPolicy(store.policy[q])
    BY <1>0, <1>2 DEF LosesNothing
  <2> QED BY <1>2, <2>1 DEF UsersPolicy
<1>3. /\ wk.pc \in MidStages \cup {"addFinalizer", "finDiff"} => Goes
      /\ wk.pc \in {"backRef", "finBackRef"} /\ wk.rlp.target \in Lockable => Goes
  BY CalmGoes
<1>4. store.policy[p].target = wk.rlp.target
  BY <1>0, <1>p, CopiesAgree DEF HeldInv, TraceInv
<1>5. ReadyInv'
  <2>1. faults' = 0
    BY <1>0, CalmFaults
  <2>2. store'.limitador.status = "ready"
    BY <1>0 DEF LosesNothing, ReadyInv
  <2>3. \A r \in Routes : store'.route[r].live /\ store'.route[r].rejecting = {}
    BY <1>0 DEF LosesNothing, ReadyInv, UsersRoute
  <2>4. \A g \in Gateways : store'.gateway[g].live /\ store'.gateway[g].ready
    BY <1>0 DEF LosesNothing, ReadyInv, UsersGateway
  <2> QED BY <2>1, <2>2, <2>3, <2>4 DEF ReadyInv
<1>6. WantedInv'
  <2>1. \A q \in Policies : store'.policy[q].live => Wanted(q, store'.policy[q])
    BY <1>0, <1>2 DEF WantedInv, Wanted
  <2>2. wk'.pc # "idle" => Wanted(wk'.p, wk'.rlp)
    BY <1>0, <1>p, <1>1, IdleType DEF WantedInv, Wanted
  <2> QED BY <2>1, <2>2 DEF WantedInv
<1>7. HeldInv'
  <2>1. wk'.pc # "addFinalizer" /\ (wk'.mode = "finalize" => store'.policy[wk'.p] = wk'.rlp)
    <3>1. CASE wk' = Idle
      BY <3>1, IdleType DEF Idle
    <3>2. CASE wk' # Idle /\ wk.mode = "finalize"
      <4>1. wk.pc \notin {"addFinalizer", "status"}
        BY <1>0, <3>2 DEF BaseInv, WorkerInv
      <4>2. wk.pc # "finRemove"
        BY <1>0, <3>2
           DEF WorkStep, AddFinalizerStep, BackRefStep, DiffStep, LimitsStep, FilterStep, PluginStep,
               RefsStep, LoopStep, StatusStep, FinDiffStep, FinBackRefStep, FinRemoveStep, Ends, Fails, GivesUp
      <4>3. store'.policy = store.policy
        BY <1>0, <4>1, <4>2, WorkPlaces
      <4> QED BY <1>0, <1>p, <1>1, <3>2, <4>1, <4>3 DEF HeldInv
    <3> QED BY <1>0, <1>1, <3>1, <3>2
  <2>2. wk'.pc \in ConfigStages => \A g \in Gateways : wk'.gws[g] = store'.gateway[g]
    BY <1>c, CalmGateways
  <2>3. wk'.err => wk'.rlp.target \notin Lockable
    <3> SUFFICES ASSUME wk'.err, wk.rlp.target \in Lockable PROVE FALSE
      BY <1>1 DEF Idle
    <3>1. ~wk.err /\ wk' # Idle
      BY <1>0 DEF HeldInv, Idle
    <3>2. wk.pc \in {"status", "finRemove"}
      BY <1>0, <1>3, <3>1, TypeParts DEF Goes, MidStages, Worker, Stages, SpecStages
    <3> QED BY <1>0, <3>1, <3>2
            DEF WorkStep, AddFinalizerStep, BackRefStep, DiffStep, LimitsStep, FilterStep, PluginStep,
                RefsStep, LoopStep, StatusStep, FinDiffStep, FinBackRefStep, FinRemoveStep,
                Ends, Fails, GivesUp, SpecStages
  <2>4. ASSUME wk'.mode = "apply", wk'.pc \in MidStages PROVE BackRef(store', wk'.rlp.target) = wk'.p
    <3>0. /\ wk'.p = p /\ wk'.rlp.target = wk.rlp.target /\ wk.mode = "apply" /\ ~wk.rlp.deleting
      BY <1>0, <1>1, <2>4, IdleType DEF MidStages, BaseInv, JobInv
    <3>1. CASE wk.pc \in MidStages
      <4>1. wk.rlp.target \in Lockable /\ BackRef(store, wk.rlp.target) = p
        BY <1>0, <1>p, <3>0, <3>1 DEF BaseInv, JobInv, HeldInv
      <4>2. OwnersKept \/ \E t \in Lockable : OwnerBecomes(t, p) /\ t = wk.rlp.target
        BY <1>0, <1>p, <3>0, WorkOwners DEF Claims, Releases
      <4> QED BY <3>0, <4>1, <4>2 DEF OwnersKept, OwnerBecomes
    <3>2. CASE BackRefStep
      <4>1. ~Fails
        BY <2>4, IdleType DEF Fails, Reports, GivesUp, MidStages
      <4>2. \/ BackRef(cache, wk.rlp.target) = p /\ store' = store
            \/ OwnerWritten(wk.rlp.target, p)
        BY <1>p, <3>2, <4>1 DEF BackRefStep
      <4>3. BackRef(cache, wk.rlp.target) = BackRef(store, wk.rlp.target)
        BY <1>c DEF BackRef, CurrentCopies
      <4> QED BY <3>0, <4>2, <4>3 DEF OwnerWritten, OwnerBecomes
    <3>3. wk.pc \in MidStages \/ BackRefStep
      <4>1. ~Armed /\ ~Ends /\ ~GivesUp
        BY <2>4, IdleType DEF Armed, Ends, GivesUp, MidStages
      <4>2. wk.pc \notin {"addFinalizer", "status", "finDiff", "finBackRef", "finRemove"}
        <5>1. ~AddFinalizerStep /\ ~StatusStep
          BY <4>1 DEF AddFinalizerStep, StatusStep, Fails, SpecStages
        <5>2. ~FinDiffStep /\ ~FinBackRefStep /\ ~FinRemoveStep
          BY <1>0, <3>0 DEF FinDiffStep, FinBackRefStep, FinRemoveStep, BaseInv, WorkerInv
        <5> QED BY <1>0, <5>1, <5>2
                DEF WorkStep, BackRefStep, DiffStep, LimitsStep, FilterStep, PluginStep, RefsStep, LoopStep
      <4> QED BY <1>0, <4>2
              DEF WorkStep, AddFinalizerStep, DiffStep, LimitsStep, FilterStep, PluginStep,
                  RefsStep, LoopStep, StatusStep, FinDiffStep, FinBackRefStep, FinRemoveStep, MidStages
    <3> QED BY <3>1, <3>2, <3>3
  <2> QED BY <2>1, <2>2, <2>3, <2>4 DEF HeldInv
<1>8. HoldersListed'
  <2> SUFFICES ASSUME NEW q \in Policies, Holds(store'.policy[q])
               PROVE  Listed(q)' \/ (wk'.pc # "idle" /\ wk'.p = q)
    BY DEF HoldersListed
  <2>1. /\ store'.policy[q].target = store.policy[q].target /\ store.policy[q].live
        /\ TargetedGatewayKeys(store', store'.policy[q].target) =
              TargetedGatewayKeys(store, store.policy[q].target)
        /\ TargetedGatewayKeys(store, store.policy[q].target) \subseteq Gateways
    BY <1>0, <1>2, KeysAreGateways DEF Holds, LinksKept
  <2>2. CASE q # p
    <3>1. Listed(q)
      BY <1>0, <1>p, <2>2, WorkPlaces DEF HoldersListed
    <3>2. \A g \in Gateways : q \in store.gateway[g].refs => q \in store'.gateway[g].refs
      BY <1>0, <1>p, <2>2 DEF LosesNothing
    <3> QED BY <2>1, <3>1, <3>2 DEF Listed
  <2>3. CASE q = p /\ wk' = Idle
    <3>1. CASE wk.rlp.target \notin Lockable
      <4>1. TargetedGatewayKeys(store, store.policy[q].target) = {}
        BY <1>4, <2>3, <3>1 DEF TargetedGatewayKeys, Lockable
      <4> QED BY <2>1, <4>1 DEF Listed
    <3>2. CASE wk.rlp.target \in Lockable
      <4>1. ~Goes
        BY <2>3, IdleType DEF Goes
      <4>2. wk.pc \in {"status", "finRemove"}
        BY <1>0, <1>3, <3>2, <4>1, TypeParts DEF MidStages, Worker, Stages, SpecStages
      <4>3. wk.pc # "finRemove"
        BY <1>p, <2>3, CalmRemoval DEF Holds
      <4>4. ~wk.err /\ wk.mode = "apply"
        BY <1>0, <3>2, <4>2, <4>3 DEF HeldInv, BaseInv, WorkerInv
      <4>5. \A g \in TargetedGatewayKeys(store, wk.rlp.target) : p \in store.gateway[g].refs
        BY <1>p, <4>2, <4>3, <4>4 DEF ListingInv
      <4>6. \A g \in Gateways : store'.gateway[g].refs = store.gateway[g].refs
        BY <1>0, <4>2, WorkListed DEF RefsStep
      <4> QED BY <1>4, <2>1, <2>3, <4>5, <4>6 DEF Listed
    <3> QED BY <3>1, <3>2
  <2> QED BY <1>1, <2>2, <2>3
<1>9. RouteInv'
  <2> SUFFICES ASSUME NEW g \in Gateways, NEW q \in store'.gateway[g].refs,
                      store'.policy[q].target \in Routes
               PROVE  store'.route[store'.policy[q].target].backref = q
    BY DEF RouteInv
  <2>0. q \in Policies
    <3>1. TypeInv'
      BY <1>0, NextTypeInv DEF Next
    <3>2. store'.gateway[g] \in Gateway
      BY <3>1 DEF TypeInv, TypeOK, ClusterTypeOK, Cluster
    <3> QED BY <3>2 DEF Gateway
  <2>1. store'.policy[q].live /\ store.policy[q].live /\ store'.policy[q].target = store.policy[q].target
    BY <1>0, <1>2, <2>0 DEF CoveredInv, Traces, Covered, Holds
  <2> DEFINE u == store.policy[q].target
  <2>2. u \in Routes /\ u \in Lockable /\ u \in TargetsOf[q]
    BY <1>0, <2>0, <2>1 DEF Lockable, WantedInv, Wanted
  <2>3. CASE q \in store.gateway[g].refs
    <3>1. store.route[u].backref = q /\ q # NoPolicy
      BY <1>0, <2>0, <2>2, <2>3, ClusterAssumption DEF RouteInv
    <3>2. CASE wk.pc \notin {"backRef", "finBackRef"}
      BY <1>0, <2>1, <3>1, <3>2, WorkPlaces
    <3>3. ASSUME NEW t, NEW x, OwnerWritten(t, x), t # u PROVE store'.route[u] = store.route[u]
      BY <2>2, <3>3 DEF OwnerWritten, RouteBecomes, GatewayBecomes
    <3>4. CASE wk.pc = "backRef"
      <4>1. \/ store' = store
            \/ OwnerWritten(wk.rlp.target, p) /\ BackRef(store, wk.rlp.target) = NoPolicy
        BY <1>0, <1>p, <3>4
           DEF WorkStep, AddFinalizerStep, BackRefStep, DiffStep, LimitsStep, FilterStep, PluginStep,
               RefsStep, LoopStep, StatusStep, FinDiffStep, FinBackRefStep, FinRemoveStep, OwnerWritten
      <4>2. BackRef(store, u) = q
        BY <2>2, <3>1 DEF BackRef
      <4> QED BY <2>1, <3>1, <3>3, <4>1, <4>2
    <3>5. CASE wk.pc = "finBackRef"
      <4>1. store' = store \/ OwnerWritten(wk.rlp.target, NoPolicy)
        BY <1>0, <3>5
           DEF WorkStep, AddFinalizerStep, BackRefStep, DiffStep, LimitsStep, FilterStep, PluginStep,
               RefsStep, LoopStep, StatusStep, FinDiffStep, FinBackRefStep, FinRemoveStep
      <4>2. q # p
        BY <1>0, <1>p, <2>3, <3>5 DEF TraceInv, SweptInv, BaseInv, WorkerInv
      <4>3. u # wk.rlp.target
        BY <1>0, <1>p, <2>0, <2>2, <4>2 DEF WantedInv, Wanted, Separate
      <4> QED BY <2>1, <3>1, <3>3, <4>1, <4>3
    <3> QED BY <3>2, <3>4, <3>5
  <2>4. CASE q \notin store.gateway[g].refs
    <3>1. q = p /\ RefsStep
      BY <1>0, <1>p, <2>0, <2>4, WorkListed DEF LosesNothing
    <3>2. wk.pc = "refs"
      BY <3>1 DEF RefsStep
    <3>3. wk.mode = "apply"
      <4> SUFFICES ASSUME wk.mode = "finalize" PROVE FALSE
        BY <1>0
      <4>1. wk.same = {} /\ wk.new = {} /\ wk.todo \subseteq wk.left
        BY <1>0 DEF BaseInv, WorkerInv
      <4>2. PICK h \in wk.todo : \/ store' = store
                                 \/ GatewayBecomes(h, [wk.gws[h] EXCEPT !.refs = RLPRefsAfter(h)])
        BY <3>1 DEF RefsStep
      <4>3. h = g /\ store'.gateway[g] = [wk.gws[g] EXCEPT !.refs = RLPRefsAfter(g)]
        BY <2>4, <4>2 DEF GatewayBecomes
      <4>4. store'.gateway[g].refs = RLPRefsAfter(g)
        BY <1>0, <4>3, TypeParts DEF Gateway
      <4> QED BY <1>p, <3>1, <4>1, <4>2, <4>3, <4>4 DEF RLPRefsAfter
    <3>4. BackRef(store, wk.rlp.target) = p
      BY <1>0, <1>p, <3>2, <3>3 DEF HeldInv, MidStages
    <3>5. store'.route = store.route
      BY <1>0, <3>2, WorkPlaces
    <3> QED BY <1>4, <2>1, <2>2, <3>1, <3>4, <3>5 DEF BackRef
  <2> QED BY <2>3, <2>4
<1>10. wk'.twice = {}
  BY <1>0, WorkMeetsOnce
<1> QED BY <1>5, <1>6, <1>7, <1>8, <1>9, <1>10 DEF CalmInv

LEMMA StartCalmInv ==
    ASSUME TraceInv, CalmInv, Prompt, NEW p \in Policies, Start(p)
    PROVE  CalmInv'
<1>0. /\ TypeInv /\ store' = store /\ wk.pc = "idle" /\ CurrentCopies /\ faults' = faults
      /\ wk' = Idle \/ Begun(p)
      /\ ReadyInv /\ WantedInv /\ HoldersListed /\ RouteInv
  BY StartEffect, SettledCopies DEF TraceInv, BaseInv, CalmInv, Start
<1>t. wk'.twice = {}
  BY DEF Start, Idle
<1>1. ReadyInv' /\ RouteInv'
  BY <1>0 DEF ReadyInv, RouteInv
<1>2. HoldersListed'
  BY <1>0 DEF HoldersListed, Listed
<1>3. CASE wk' = Idle
  <2>1. wk'.pc = "idle" /\ wk'.mode = "apply" /\ ~wk'.err
    BY <1>3 DEF Idle
  <2>2. WantedInv' /\ HeldInv'
    BY <1>0, <2>1 DEF WantedInv, Wanted, HeldInv, ConfigStages, MidStages
  <2> QED BY <1>t, <1>1, <1>2, <2>2 DEF CalmInv
<1>4. CASE Begun(p)
  <2>1. /\ wk'.p = p /\ wk'.rlp = store.policy[p] /\ ~wk'.err
        /\ wk'.pc \in {"addFinalizer", "backRef", "finDiff"}
        /\ store.policy[p].live /\ (wk'.pc = "addFinalizer" => ~store.policy[p].finalizer)
    BY <1>0, <1>4 DEF Begun, CurrentCopies, EntryStage
  <2>2. WantedInv'
    BY <1>0, <2>1 DEF WantedInv, Wanted
  <2>3. HeldInv'
    BY <1>0, <2>1 DEF HeldInv, ConfigStages, MidStages
  <2> QED BY <1>t, <1>1, <1>2, <2>2, <2>3 DEF CalmInv
<1> QED BY <1>0, <1>3, <1>4

LEMMA NextCalmInv ==
    ASSUME TraceInv, ListingInv, CalmInv, [Next]_vars, Prompt, Undisturbed, Separate, ListedOnce,
           Rooted
    PROVE  CalmInv'
<1>1. ~Crash
  BY DEF Crash, CalmInv, ReadyInv
<1>2. CASE Watch \/ UNCHANGED vars
  <2>1. UNCHANGED <<store, wk, faults>>
    BY <1>2, WatchCopies DEF Watch, vars, TraceInv, BaseInv
  <2> QED BY <2>1 DEF CalmInv, ReadyInv, WantedInv, Wanted, HeldInv, HoldersListed, Listed, RouteInv
<1> QED BY <1>1, <1>2, WorkCalmInv, StartCalmInv, EnvironmentCalmInv DEF Next

LEMMA InitCalmInv ==
    ASSUME Init, Undisturbed
    PROVE  CalmInv
<1>0. wk.pc = "idle" /\ wk.mode = "apply" /\ ~wk.err /\ wk.twice = {} /\ faults = 0
  BY DEF Init, Idle, Undisturbed
<1>1. PICK S \in SUBSET Policies, ts \in [Policies -> Targets], ss \in [Policies -> Specs],
           ps \in [Routes -> SUBSET Gateways], hs \in [Routes \cup Gateways -> HostLists] :
        /\ \A p \in Policies : ts[p] \in TargetsOf[p]
        /\ \A r \in Routes : ps[r] \in ParentsOf[r]
        /\ store =
              [policy |-> [p \in Policies |->
                             IF p \in S THEN NewPolicy(ts[p], ss[p]) ELSE NoSuchPolicy],
               route |-> [r \in Routes |->
                             [NoSuchRoute EXCEPT !.live = TRUE, !.parents = ps[r], !.hosts = hs[r]]],
               gateway |-> [g \in Gateways |->
                             [NoSuchGateway EXCEPT !.live = TRUE, !.ready = TRUE, !.hosts = hs[g]]],
               limitador |-> [status |-> "ready", limits |-> NoLimits],
               plugin |-> [g \in Gateways |-> NoPlugin],
               filter |-> [g \in Gateways |-> FALSE]]
        /\ queue = S
  BY DEF Init, ClusterInit
<1>2. ReadyInv
  <2>1. store.limitador.status = "ready"
    BY <1>1
  <2>2. ASSUME NEW r \in Routes PROVE store.route[r].live /\ store.route[r].rejecting = {}
    <3>1. store.route[r] = [NoSuchRoute EXCEPT !.live = TRUE, !.parents = ps[r], !.hosts = hs[r]]
      BY <1>1
    <3> QED BY <3>1 DEF NoSuchRoute
  <2>3. ASSUME NEW g \in Gateways PROVE store.gateway[g].live /\ store.gateway[g].ready
    <3>1. store.gateway[g] = [NoSuchGateway EXCEPT !.live = TRUE, !.ready = TRUE, !.hosts = hs[g]]
      BY <1>1
    <3> QED BY <3>1 DEF NoSuchGateway
  <2> QED BY <1>0, <2>1, <2>2, <2>3 DEF ReadyInv
<1>3. ASSUME NEW p \in Policies, store.policy[p].live PROVE Wanted(p, store.policy[p])
  <2>1. store.policy[p] = IF p \in S THEN NewPolicy(ts[p], ss[p]) ELSE NoSuchPolicy
    BY <1>1
  <2>2. store.policy[p] = NewPolicy(ts[p], ss[p])
    BY <1>3, <2>1 DEF NoSuchPolicy
  <2>3. NewPolicy(ts[p], ss[p]).target = ts[p] /\ NewPolicy(ts[p], ss[p]).spec = ss[p]
    BY DEF NewPolicy, NoSuchPolicy
  <2> QED BY <1>1, <2>2, <2>3 DEF Wanted
<1>4. WantedInv /\ HeldInv
  BY <1>0, <1>3 DEF WantedInv, HeldInv, ConfigStages, MidStages
<1>5. HoldersListed /\ RouteInv
  BY InitFacts DEF HoldersListed, Holds, RouteInv
<1> QED BY <1>0, <1>2, <1>4, <1>5 DEF CalmInv

\* When policies are created and deleted, and hostnames of routes edited, while no
\* call fails, the process goes on, no policy is refused and no route names two
\* sections of one gateway: once the queue is empty and every event delivered,
\* Limitador and the WasmPlugin of every gateway hold exactly what the policies it
\* lists ask for. The finalization of one policy takes the limits of every policy
\* of its gateways out of Limitador, and leaves it to the event of the annotation
\* it rewrote to bring the others up: a finalization that is run twice finds no
\* annotation to rewrite the second time. It is run twice when a call fails, and,
\* without any failure, when a route names two sections of a gateway and the
\* second copy of that gateway conflicts with the first; hence the hypotheses.
THEOREM ConfigAfterDeletions ==
    ASSUME Prompt, Undisturbed, Separate, ListedOnce
    PROVE  Spec => []ConfigConverges
<1>0. InPlace /\ Rooted /\ "limitador" \notin Edits
  BY DEF Undisturbed, InPlace, Rooted, Guarded
<1>1. Init => CalmInv
  BY InitCalmInv
<1>2. TraceInv /\ ListingInv /\ CalmInv /\ [Next]_vars => CalmInv'
  BY <1>0, NextCalmInv
<1>3. TraceInv /\ ReportInv /\ ListingInv /\ CalmInv /\ ConfigInv /\ [Next]_vars => ConfigInv'
  <2> SUFFICES ASSUME TraceInv, ReportInv, ListingInv, CalmInv, ConfigInv, [Next]_vars
               PROVE  ConfigInv'
    OBVIOUS
  <2>1. ~Crash /\ RouteInv
    BY DEF Crash, CalmInv, ReadyInv
  <2>2. ASSUME Work PROVE Smooth
    <3> SUFFICES ASSUME wk.mode = "finalize", GivesUp PROVE wk.pc \in {"finBackRef", "finRemove"}
      BY DEF Smooth, CalmInv
    <3>1. wk.pc \in {"finDiff", "refs", "plugin", "filter", "limits", "finBackRef", "finRemove"}
      <4>1. TypeInv /\ WorkerInv /\ wk.pc # "idle" /\ wk.pc \in Stages
        BY <2>2, WorkSteps, TypeParts DEF TraceInv, BaseInv, Worker
      <4> QED BY <4>1 DEF WorkerInv, Stages, SpecStages
    <3>2. ~Goes
      BY IdleType DEF Goes, GivesUp
    <3>3. wk.pc \notin MidStages \cup {"finDiff"}
      BY <2>2, <3>2, CalmGoes
    <3> QED BY <3>1, <3>3 DEF MidStages
  <2>3. wk.pc = "idle" =>
          \A p \in Policies : Holds(store.policy[p]) /\ store.policy[p].deleting =>
              \A g \in TargetedGatewayKeys(store, store.policy[p].target) : p \in store.gateway[g].refs
    BY DEF CalmInv, HoldersListed, Listed
  <2> QED BY <1>0, <2>1, <2>2, <2>3, NextConfigInv
<1>4. Spec => [](TraceInv /\ ReportInv /\ ListingInv)
  BY <1>0, RestInvariant
<1> QED BY <1>1, <1>2, <1>3, <1>4, InitConfigInv, RestIsRight, PTL DEF Spec
=============================================================================
