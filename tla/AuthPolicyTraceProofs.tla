------------------------ MODULE AuthPolicyTraceProofs ------------------------
(***************************************************************************)
(* What the AuthPolicy controller leaves behind, and what it reports, when *)
(* it reads routes and gateways as they are: the finalizer covers every    *)
(* trace of a policy, at rest every policy's status is up to date, the     *)
(* AuthConfig comes and goes inside the AuthorizationPolicies, and at rest *)
(* every target is protected as its policy asks.                           *)
(***************************************************************************)
EXTENDS AuthPolicyOwnershipProofs

-----------------------------------------------------------------------------
(* Kinds that do not lag.                                                  *)

\* The copies a step reads of routes and gateways are the stored ones.
LEMMA SettledTargets ==
    ASSUME TypeInv, Settled, Lagging \cap {"route", "gateway"} = {}
    PROVE  /\ cache.route = store.route /\ cache.gateway = store.gateway
           /\ \A u \in Lockable : /\ TargetLive(cache, u) = TargetLive(store, u)
                                  /\ BackRef(cache, u) = BackRef(store, u)
<1>1. {"route", "gateway"} \subseteq DOMAIN store
  BY TypeParts DEF AuthCluster
<1>2. cache.route = store.route /\ cache.gateway = store.gateway
  BY <1>1 DEF Settled
<1> QED BY <1>2 DEF TargetLive, BackRef

LEMMA SettledPolicies ==
    ASSUME TypeInv, Settled, "policy" \notin Lagging
    PROVE  cache.policy = store.policy
<1>1. "policy" \in DOMAIN store
  BY TypeParts DEF AuthCluster
<1> QED BY <1>1 DEF Settled

\* A delivered policy is the stored one, and the others stay.
LEMMA WatchPolicies ==
    ASSUME TypeInv, Watch
    PROVE  \A p \in Policies : cache'.policy[p] \in {cache.policy[p], store.policy[p]}
<1>0. store \in AuthCluster /\ cache \in AuthCluster
  BY TypeParts
<1>1. \A p \in Policies : DeliverPolicy(p) =>
        /\ cache'.policy[p] = store.policy[p]
        /\ \A q \in Policies \ {p} : cache'.policy[q] = cache.policy[q]
  BY <1>0, GetTypes, PutPolicy DEF DeliverPolicy
<1>2. \A r \in Routes : DeliverRoute(r) => cache'.policy = cache.policy
  BY <1>0, GetTypes, PutRoute DEF DeliverRoute
<1>3. \A g \in Gateways : DeliverGateway(g) => cache'.policy = cache.policy
  BY <1>0, GetTypes, PutGateway DEF DeliverGateway
<1>4. \A n \in IAPNames : DeliverIAP(n) => cache'.policy = cache.policy
  BY <1>0, GetTypes, PutIAP DEF DeliverIAP
<1>5. \A n \in ConfigNames : DeliverConfig(n) => cache'.policy = cache.policy
  BY <1>0, GetTypes, PutConfig DEF DeliverConfig
<1> QED BY <1>1, <1>2, <1>3, <1>4, <1>5 DEF Watch

-----------------------------------------------------------------------------
(* Stored policies and copies of them.                                     *)

Holds(pol) == pol.live /\ pol.finalizer

\* What an old copy says of the stored policy: one that is not marked is of a
\* policy that is still there and keeps its finalizer; one that is marked is of
\* a marked policy, unless that is gone, whether or not it was created again.
CopyTrue(pol, ap) ==
    /\ ap.live /\ ~ap.deleting =>
          pol.live /\ pol.target = ap.target /\ (ap.finalizer => pol.finalizer)
    /\ ap.live /\ ap.deleting /\ Holds(pol) => pol.deleting /\ pol.target = ap.target

\* How others than the worker change a policy that is not retargeted, and not
\* deleted before it has the finalizer.
Follows(old, new) ==
    /\ old.live => /\ new.live /\ new.target = old.target
                   /\ new.finalizer = old.finalizer
                   /\ old.deleting => new.deleting
    /\ ~old.live => ~Holds(new)

LEMMA FollowsCopies ==
    ASSUME NEW old, NEW new, Follows(old, new)
    PROVE  /\ Holds(new) => Holds(old)
           /\ Holds(old) => Holds(new) /\ new.target = old.target
           /\ \A ap : CopyTrue(old, ap) => CopyTrue(new, ap)
BY DEF Follows, Holds, CopyTrue

LEMMA EnvironmentFollows ==
    ASSUME TypeInv, Environment, Edits \cap {"retarget", "deleteUnmarked"} = {}
    PROVE  /\ \A p \in Policies : Follows(store.policy[p], store'.policy[p])
           /\ \A n \in ConfigNames : store'.config[n].live = store.config[n].live
<1>0. store \in AuthCluster
  BY TypeParts
<1>1. store'.policy = store.policy => \A p \in Policies : Follows(store.policy[p], store'.policy[p])
  BY DEF Follows, Holds
<1>2. ASSUME NEW p \in Policies, PolicyEdited(p)
      PROVE  /\ \A q \in Policies : Follows(store.policy[q], store'.policy[q])
             /\ store'.config = store.config
  <2>1. PICK x \in AuthPolicy :
          /\ store' = [store EXCEPT !.policy[p] = x]
          /\ Follows(store.policy[p], x)
    BY <1>2 DEF PolicyEdited, Follows, Holds
  <2>2. /\ store'.policy[p] = x /\ store'.config = store.config
        /\ \A q \in Policies \ {p} : store'.policy[q] = store.policy[q]
    BY <1>0, <2>1, PutPolicy
  <2> QED BY <2>1, <2>2 DEF Follows, Holds
<1>3. ASSUME NEW r \in Routes, RouteEdited(r)
      PROVE  store'.policy = store.policy /\ store'.config = store.config
  BY <1>0, <1>3, PutRoute DEF RouteEdited
<1>4. ASSUME NEW g \in Gateways, GatewayEdited(g)
      PROVE  store'.policy = store.policy /\ store'.config = store.config
  BY <1>0, <1>4, PutGateway DEF GatewayEdited
<1>5. ASSUME NEW n \in ConfigNames, ConfigEdited(n)
      PROVE  /\ store'.policy = store.policy
             /\ \A m \in ConfigNames : store'.config[m].live = store.config[m].live
  BY <1>0, <1>5, PutConfig DEF ConfigEdited
<1> QED BY <1>1, <1>2, <1>3, <1>4, <1>5, EnvironmentEffect

-----------------------------------------------------------------------------
(* The finalizer covers every trace.                                       *)

\* Traces of a policy are on its target and in its AuthConfig, and the stored
\* policy holds the finalizer.
TraceInv ==
    /\ \A u \in Lockable, p \in Policies :
          BackRef(store, u) = p => Holds(store.policy[p]) /\ store.policy[p].target = u
    /\ \A p \in Policies : Config(store, p).live => Holds(store.policy[p])

\* The cached copies, and the worker's.
CopiesInv ==
    /\ \A p \in Policies : CopyTrue(store.policy[p], cache.policy[p])
    /\ wk.pc # "idle" => CopyTrue(store.policy[wk.p], wk.ap)

\* While a policy is applied, a mark in the cache is in the store; while it is
\* finalized the cache shows no unmarked copy of it.
MarkInv ==
    /\ wk.pc \in ApplyStages =>
          (cache.policy[wk.p].deleting => store.policy[wk.p].deleting)
    /\ wk.pc \in FinStages /\ Holds(store.policy[wk.p]) =>
          (cache.policy[wk.p].live => cache.policy[wk.p].deleting)

\* What finalization has removed stays removed.
RemovedInv ==
    /\ wk.pc \in {"finBackRef", "finRemove"} => ~Config(store, wk.p).live
    /\ wk.pc = "finRemove" => \A u \in Lockable : BackRef(store, u) # wk.p

FinalizerInv == TraceInv /\ CopiesInv /\ MarkInv /\ RemovedInv

LEMMA CopyOfItself == \A pol : CopyTrue(pol, pol)
BY DEF CopyTrue, Holds

\* The worker's stages are of one kind or the other.
LEMMA StageKinds ==
    /\ ApplyStages \cap FinStages = {}
    /\ "idle" \notin ApplyStages \cup FinStages
    /\ Stages \ {"idle"} = ApplyStages \cup FinStages
BY DEF Stages, ApplyStages, SpecStages, FinStages

LEMMA InitFinalizerInv == Init => FinalizerInv
<1> SUFFICES ASSUME Init PROVE FinalizerInv
  OBVIOUS
<1>1. cache = store /\ wk.pc = "idle"
  BY IdleStage DEF Init
<1>2. \A p \in Policies : authConfigName[p] \in ConfigNames
  BY DEF ConfigNames
<1>3. TraceInv
  BY <1>2, InitFacts, ClusterAssumption DEF TraceInv, Config
<1>4. CopiesInv
  BY <1>1, CopyOfItself DEF CopiesInv
<1> QED BY <1>1, <1>3, <1>4, StageKinds DEF FinalizerInv, MarkInv, RemovedInv

LEMMA StartFinalizerInv ==
    ASSUME TypeInv, CopyInv, FinalizerInv, NEW p \in Policies, Start(p)
    PROVE  FinalizerInv'
<1>1. store' = store /\ cache' = cache
  BY StartTyped
<1>2. TraceInv'
  BY <1>1 DEF FinalizerInv, TraceInv, Lockable, Config
<1>3. CASE wk' = Idle
  <2>1. wk'.pc = "idle"
    BY <1>3, IdleStage
  <2> QED BY <1>1, <1>2, <2>1, StageKinds
          DEF FinalizerInv, CopiesInv, MarkInv, RemovedInv
<1>4. CASE wk' # Idle
  <2>1. /\ wk'.p = p /\ wk'.ap = cache.policy[p]
        /\ wk'.pc = EntryStage(cache.policy[p])
    BY <1>4, StartEffect DEF Idle
  <2>2. CopyInv'
    BY StartCopyInv
  <2>3. wk'.pc \notin {"finBackRef", "finRemove"}
    BY <2>1 DEF EntryStage
  <2>4. CopiesInv'
    BY <1>1, <2>1 DEF FinalizerInv, CopiesInv
  <2>5. MarkInv'
    BY <1>1, <2>1, <2>2 DEF CopyInv, MarkInv
  <2>6. RemovedInv'
    BY <2>3 DEF RemovedInv
  <2> QED BY <1>2, <2>4, <2>5, <2>6 DEF FinalizerInv
<1> QED BY <1>3, <1>4

LEMMA WatchFinalizerInv ==
    ASSUME TypeInv, CopyInv, FinalizerInv, Watch
    PROVE  FinalizerInv'
<1>0. wk.pc # "idle" => wk.p \in Policies /\ wk.ap.live
  BY TypeParts DEF CopyInv
<1>1. store' = store /\ wk' = wk
  BY DEF Watch
<1>2. \A p \in Policies : cache'.policy[p] \in {cache.policy[p], store.policy[p]}
  BY WatchPolicies
<1>3. TraceInv' /\ RemovedInv'
  BY <1>1 DEF FinalizerInv, TraceInv, RemovedInv, Lockable, Config
<1>4. CopiesInv'
  <2>1. \A p \in Policies : CopyTrue(store.policy[p], cache'.policy[p])
    BY <1>2, CopyOfItself DEF FinalizerInv, CopiesInv
  <2> QED BY <1>1, <2>1 DEF FinalizerInv, CopiesInv
<1>5. MarkInv'
  <2>1. wk.pc \in ApplyStages \cup FinStages => wk.p \in Policies /\ wk.ap.live
    BY <1>0, StageKinds
  <2>2. wk.pc \in ApplyStages =>
          (cache'.policy[wk.p].deleting => store.policy[wk.p].deleting)
    BY <1>2, <2>1 DEF FinalizerInv, MarkInv
  <2>3. wk.pc \in FinStages /\ Holds(store.policy[wk.p]) => store.policy[wk.p].deleting
    BY <2>1, StageKinds DEF FinalizerInv, CopiesInv, CopyInv, CopyTrue
  <2>4. wk.pc \in FinStages /\ Holds(store.policy[wk.p]) =>
          (cache'.policy[wk.p].live => cache'.policy[wk.p].deleting)
    BY <1>2, <2>1, <2>3 DEF FinalizerInv, MarkInv
  <2> QED BY <1>1, <2>2, <2>4 DEF MarkInv
<1> QED BY <1>3, <1>4, <1>5 DEF FinalizerInv

LEMMA EnvironmentFinalizerInv ==
    ASSUME TypeInv, CopyInv, FinalizerInv, Environment,
           Edits \cap {"retarget", "deleteUnmarked"} = {}
    PROVE  FinalizerInv'
<1>0. wk.pc # "idle" => wk.p \in Policies /\ wk.ap.live
  BY TypeParts DEF CopyInv
<1>1. wk' = wk /\ cache' = cache
  BY EnvironmentEffect
<1>2. \A u \in Lockable : BackRef(store', u) \in {BackRef(store, u), NoPolicy}
  BY EnvironmentKinds DEF OwnersKept, Toggles
<1>3. /\ \A p \in Policies : Follows(store.policy[p], store'.policy[p])
      /\ \A p \in Policies : Config(store', p).live = Config(store, p).live
  BY EnvironmentFollows DEF Config, ConfigNames
<1>4. TraceInv'
  <2>1. ASSUME NEW u \in Lockable, NEW p \in Policies, BackRef(store', u) = p
        PROVE  Holds(store'.policy[p]) /\ store'.policy[p].target = u
    <3>1. BackRef(store, u) = p
      BY <1>2, <2>1, ClusterAssumption
    <3>2. Holds(store.policy[p]) /\ store.policy[p].target = u
      BY <3>1 DEF FinalizerInv, TraceInv
    <3> QED BY <1>3, <3>2, FollowsCopies
  <2>2. \A p \in Policies : Config(store', p).live => Holds(store'.policy[p])
    BY <1>3, FollowsCopies DEF FinalizerInv, TraceInv
  <2> QED BY <2>1, <2>2 DEF TraceInv, Config, Lockable
<1>5. CopiesInv'
  <2>1. \A p \in Policies : \A ap : CopyTrue(store.policy[p], ap) => CopyTrue(store'.policy[p], ap)
    BY <1>3, FollowsCopies
  <2> QED BY <1>0, <1>1, <2>1 DEF FinalizerInv, CopiesInv
<1>6. MarkInv'
  <2>1. CASE wk.pc \in ApplyStages
    <3>1. wk.p \in Policies /\ store.policy[wk.p].live
      BY <1>0, <2>1, StageKinds DEF FinalizerInv, CopiesInv, CopyTrue, CopyInv
    <3> QED BY <1>1, <1>3, <2>1, <3>1, StageKinds DEF FinalizerInv, MarkInv, Follows
  <2>2. CASE wk.pc \in FinStages
    <3>1. wk.p \in Policies
      BY <1>0, <2>2, StageKinds
    <3> QED BY <1>1, <1>3, <2>2, <3>1, FollowsCopies, StageKinds DEF FinalizerInv, MarkInv
  <2> QED BY <1>1, <2>1, <2>2 DEF MarkInv
<1>7. RemovedInv'
  <2>1. wk.pc \in {"finBackRef", "finRemove"} => wk.p \in Policies
    BY <1>0
  <2> QED BY <1>1, <1>2, <1>3, <2>1, ClusterAssumption
          DEF FinalizerInv, RemovedInv, Lockable, Config
<1> QED BY <1>4, <1>5, <1>6, <1>7 DEF FinalizerInv

\* The stored policies in a step of the worker: all stay what they were to
\* others, or the worker's gets the finalizer, or goes.
FinalizerAdded ==
    /\ wk.pc = "addFinalizer" /\ store.policy[wk.p] = wk.ap
    /\ PolicyBecomes(wk.p, [wk.ap EXCEPT !.finalizer = TRUE])
    /\ Armed \/ GivesUp

PolicyRemoved ==
    /\ wk.pc = "finRemove" /\ store.policy[wk.p] = wk.ap
    /\ PolicyBecomes(wk.p, NoSuchAuthPolicy)
    /\ wk' = Idle

AllFollow == \A p \in Policies : Follows(store.policy[p], store'.policy[p])

LEMMA WorkPolicies ==
    ASSUME TypeInv, CopyInv, FinalizerInv, Work
    PROVE  \/ FinalizerAdded
           \/ PolicyRemoved
           \/ AllFollow /\ (Kept \/ wk' = Idle)
<1>0. wk.p \in Policies /\ WorkStep /\ wk.ap \in AuthPolicy
  BY WorkSteps, TypeParts
<1>1. store'.policy = store.policy => AllFollow
  BY DEF AllFollow, Follows, Holds
<1>2. /\ \A pc : MovesTo(pc) => Kept
      /\ Reports => Kept
      /\ GivesUp \/ Ends => wk' = Idle
  BY DEF MovesTo, Reports, GivesUp, Ends
<1>3. CASE AddFinalizerStep
  <2>1. store.policy[wk.p].live
    BY <1>3 DEF AddFinalizerStep, FinalizerInv, CopiesInv, CopyTrue, CopyInv, ApplyStages
  <2> QED BY <1>1, <1>2, <1>3, <2>1 DEF AddFinalizerStep, FinalizerAdded
<1>4. CASE StatusStep
  <2>1. /\ NewStatus.live = wk.ap.live /\ NewStatus.deleting = wk.ap.deleting
        /\ NewStatus.target = wk.ap.target /\ NewStatus.finalizer = wk.ap.finalizer
    BY <1>0 DEF AuthPolicy, NewStatus
  <2>2. store.policy[wk.p] = wk.ap /\ PolicyBecomes(wk.p, NewStatus) => AllFollow
    BY <1>0, <2>1 DEF PolicyBecomes, AllFollow, Follows, Holds
  <2> QED BY <1>1, <1>2, <1>4, <2>2 DEF StatusStep
<1>5. CASE FinRemoveStep
  BY <1>1, <1>2, <1>5 DEF FinRemoveStep, PolicyRemoved
<1>6. CASE BackRefStep \/ FinBackRefStep
  BY <1>1, <1>2, <1>6 DEF BackRefStep, FinBackRefStep, OwnerBecomes
<1>7. CASE RulesStep \/ IAPStep \/ FinRulesStep
  BY <1>1, <1>2, <1>7 DEF RulesStep, IAPStep, FinRulesStep, RuleBecomes
<1>8. CASE SchemeStep \/ FinSchemeStep
  BY <1>1, <1>2, <1>8 DEF SchemeStep, FinSchemeStep, ConfigBecomes
<1> QED BY <1>0, <1>3, <1>4, <1>5, <1>6, <1>7, <1>8 DEF WorkStep

LEMMA WorkCopiesInv ==
    ASSUME TypeInv, CopyInv, FinalizerInv, Work
    PROVE  CopiesInv'
<1>0. /\ wk.p \in Policies /\ cache' = cache /\ wk.ap \in AuthPolicy /\ wk.ap.live /\ wk.pc # "idle"
  BY WorkSteps, TypeParts, IdleStage
     DEF CopyInv, WorkStep, AddFinalizerStep, BackRefStep, RulesStep, IAPStep, SchemeStep, StatusStep,
         FinRulesStep, FinSchemeStep, FinBackRefStep, FinRemoveStep
<1>1. CASE AllFollow /\ (Kept \/ wk' = Idle)
  <2>1. \A p \in Policies : \A ap : CopyTrue(store.policy[p], ap) => CopyTrue(store'.policy[p], ap)
    BY <1>1, FollowsCopies DEF AllFollow
  <2>2. wk'.pc # "idle" => Kept
    BY <1>1, IdleStage
  <2> QED BY <1>0, <2>1, <2>2 DEF FinalizerInv, CopiesInv, Kept
<1>2. CASE FinalizerAdded
  <2> DEFINE x == [wk.ap EXCEPT !.finalizer = TRUE]
  <2>1. /\ x.live = wk.ap.live /\ x.deleting = wk.ap.deleting
        /\ x.target = wk.ap.target /\ x.finalizer = TRUE
    BY <1>0 DEF AuthPolicy
  <2>2. /\ store.policy[wk.p] = wk.ap /\ PolicyBecomes(wk.p, x) /\ wk.pc = "addFinalizer"
        /\ wk'.pc # "idle" => wk'.p = wk.p /\ wk'.ap = x
    BY <1>2, IdleStage DEF FinalizerAdded, Armed, GivesUp
  <2> HIDE DEF x
  <2>3. ~wk.ap.deleting /\ (cache.policy[wk.p].deleting => wk.ap.deleting)
    BY <2>2 DEF CopyInv, FinalizerInv, MarkInv, ApplyStages
  <2>4. CopyTrue(x, cache.policy[wk.p])
    <3>1. CopyTrue(wk.ap, cache.policy[wk.p])
      BY <1>0, <2>2 DEF FinalizerInv, CopiesInv
    <3> QED BY <2>1, <2>3, <3>1 DEF CopyTrue
  <2>5. \A p \in Policies : CopyTrue(store'.policy[p], cache.policy[p])
    BY <2>2, <2>4 DEF PolicyBecomes, FinalizerInv, CopiesInv
  <2>6. wk'.pc # "idle" => CopyTrue(store'.policy[wk'.p], wk'.ap)
    BY <2>2, CopyOfItself DEF PolicyBecomes
  <2> QED BY <1>0, <2>5, <2>6 DEF CopiesInv
<1>3. CASE PolicyRemoved
  <2>1. /\ store.policy[wk.p] = wk.ap /\ PolicyBecomes(wk.p, NoSuchAuthPolicy)
        /\ wk.pc \in FinStages /\ wk'.pc = "idle"
    BY <1>3, IdleStage DEF PolicyRemoved, FinStages
  <2>2. Holds(store.policy[wk.p])
    BY <1>0, <2>1 DEF Holds, CopyInv
  <2>3. cache.policy[wk.p].live => cache.policy[wk.p].deleting
    BY <2>1, <2>2 DEF FinalizerInv, MarkInv
  <2>4. CopyTrue(NoSuchAuthPolicy, cache.policy[wk.p])
    BY <2>3 DEF CopyTrue, Holds, NoSuchAuthPolicy
  <2>5. \A p \in Policies : CopyTrue(store'.policy[p], cache.policy[p])
    BY <2>1, <2>4 DEF PolicyBecomes, FinalizerInv, CopiesInv
  <2> QED BY <1>0, <2>1, <2>5 DEF CopiesInv
<1> QED BY <1>1, <1>2, <1>3, WorkPolicies

\* A step of the worker does not change what it is doing for the policy.
LEMMA SameMode ==
    ASSUME TypeInv, CopyInv, Work, wk'.pc # "idle"
    PROVE  /\ wk'.p = wk.p
           /\ wk'.pc \in ApplyStages <=> wk.pc \in ApplyStages
           /\ wk'.pc \in FinStages <=> wk.pc \in FinStages
<1>1. wk' # Idle
  BY IdleStage
<1>2. WorkStep
  BY WorkSteps
<1> USE DEF ApplyStages, SpecStages, FinStages, MovesTo, Kept, Reports, GivesUp, Ends, Armed
<1>3. CASE AddFinalizerStep
  BY <1>1, <1>3 DEF AddFinalizerStep
<1>4. CASE BackRefStep
  BY <1>1, <1>4 DEF BackRefStep
<1>5. CASE RulesStep
  BY <1>1, <1>5 DEF RulesStep
<1>6. CASE IAPStep
  BY <1>1, <1>6 DEF IAPStep
<1>7. CASE SchemeStep
  BY <1>1, <1>7 DEF SchemeStep
<1>8. CASE StatusStep
  BY <1>1, <1>8 DEF StatusStep
<1>9. CASE FinRulesStep
  BY <1>1, <1>9 DEF FinRulesStep
<1>10. CASE FinSchemeStep
  BY <1>1, <1>10 DEF FinSchemeStep
<1>11. CASE FinBackRefStep
  BY <1>1, <1>11 DEF FinBackRefStep
<1>12. CASE FinRemoveStep
  BY <1>1, <1>12 DEF FinRemoveStep
<1> QED BY <1>2, <1>3, <1>4, <1>5, <1>6, <1>7, <1>8, <1>9, <1>10, <1>11, <1>12 DEF WorkStep

LEMMA WorkMarkInv ==
    ASSUME TypeInv, CopyInv, FinalizerInv, Work
    PROVE  MarkInv'
<1>0. wk.p \in Policies /\ cache' = cache /\ wk.ap \in AuthPolicy
  BY WorkSteps, TypeParts
<1>1. CASE wk'.pc = "idle"
  BY <1>1, StageKinds DEF MarkInv
<1>2. CASE wk'.pc # "idle" /\ AllFollow
  <2>1. /\ wk'.p = wk.p
        /\ wk'.pc \in ApplyStages <=> wk.pc \in ApplyStages
        /\ wk'.pc \in FinStages <=> wk.pc \in FinStages
    BY <1>2, SameMode
  <2>2. Follows(store.policy[wk.p], store'.policy[wk.p])
    BY <1>0, <1>2 DEF AllFollow
  <2>3. wk.pc \in ApplyStages => store.policy[wk.p].live
    BY StageKinds DEF FinalizerInv, CopiesInv, CopyTrue, CopyInv
  <2>4. wk.pc \in ApplyStages =>
          (cache.policy[wk.p].deleting => store'.policy[wk.p].deleting)
    BY <2>2, <2>3 DEF FinalizerInv, MarkInv, Follows
  <2>5. wk.pc \in FinStages /\ Holds(store'.policy[wk.p]) =>
          (cache.policy[wk.p].live => cache.policy[wk.p].deleting)
    BY <2>2, FollowsCopies DEF FinalizerInv, MarkInv
  <2> QED BY <1>0, <2>1, <2>4, <2>5 DEF MarkInv
<1>3. CASE wk'.pc # "idle" /\ FinalizerAdded
  <2>1. wk.pc \in ApplyStages /\ wk'.p = wk.p /\ wk'.pc \in ApplyStages /\ wk'.pc \notin FinStages
    BY <1>3, SameMode, StageKinds DEF FinalizerAdded, ApplyStages
  <2>2. ~cache.policy[wk.p].deleting
    BY <1>3, <2>1 DEF FinalizerAdded, FinalizerInv, MarkInv, CopyInv
  <2> QED BY <1>0, <2>1, <2>2 DEF MarkInv
<1>4. PolicyRemoved => wk'.pc = "idle"
  BY IdleStage DEF PolicyRemoved
<1> QED BY <1>1, <1>2, <1>3, <1>4, WorkPolicies

\* Only an unowned target and one of the worker's policy change hands.
LEMMA WorkTraceInv ==
    ASSUME TypeInv, CopyInv, FinalizerInv, Work,
           \A p, q \in Policies : authConfigName[p] = authConfigName[q] => p = q
    PROVE  TraceInv'
<1>0. /\ wk.p \in Policies /\ WorkStep /\ wk.ap \in AuthPolicy
      /\ \A p \in Policies : authConfigName[p] \in ConfigNames
  BY WorkSteps, TypeParts DEF ConfigNames
<1> DEFINE Owners1 == \A u \in Lockable, p \in Policies :
                         BackRef(store', u) = p =>
                            Holds(store'.policy[p]) /\ store'.policy[p].target = u
           Configs1 == \A p \in Policies : Config(store', p).live => Holds(store'.policy[p])
<1>a. Owners1 /\ Configs1 => TraceInv'
  BY DEF TraceInv, Config, Lockable
<1>1. ASSUME AllFollow, store'.route = store.route, store'.gateway = store.gateway PROVE Owners1
  BY <1>1, FollowsCopies DEF AllFollow, FinalizerInv, TraceInv, BackRef
<1>2. ASSUME AllFollow, store'.config = store.config PROVE Configs1
  BY <1>2, FollowsCopies DEF AllFollow, FinalizerInv, TraceInv, Config
<1>3. store'.policy = store.policy => AllFollow
  BY DEF AllFollow, Follows, Holds
<1>4. store' = store => TraceInv'
  BY <1>a, <1>1, <1>2, <1>3
<1>5. CASE FinalizerAdded
  <2> DEFINE x == [wk.ap EXCEPT !.finalizer = TRUE]
  <2>1. /\ x.live = wk.ap.live /\ x.target = wk.ap.target /\ x.finalizer = TRUE
    BY <1>0 DEF AuthPolicy
  <2>2. store.policy[wk.p] = wk.ap /\ PolicyBecomes(wk.p, x)
    BY <1>5 DEF FinalizerAdded
  <2> HIDE DEF x
  <2>3. \A p \in Policies : Holds(store.policy[p]) =>
          Holds(store'.policy[p]) /\ store'.policy[p].target = store.policy[p].target
    BY <2>1, <2>2 DEF PolicyBecomes, Holds
  <2>4. Owners1 /\ Configs1
    BY <2>2, <2>3 DEF PolicyBecomes, FinalizerInv, TraceInv, BackRef, Config
  <2> QED BY <1>a, <2>4
<1>6. CASE PolicyRemoved
  <2>1. /\ PolicyBecomes(wk.p, NoSuchAuthPolicy)
        /\ ~Config(store, wk.p).live /\ \A u \in Lockable : BackRef(store, u) # wk.p
    BY <1>6 DEF PolicyRemoved, FinalizerInv, RemovedInv
  <2>2. Owners1 /\ Configs1
    BY <2>1 DEF PolicyBecomes, FinalizerInv, TraceInv, BackRef, Config
  <2> QED BY <1>a, <2>2
<1>7. CASE AllFollow
  <2>1. CASE AddFinalizerStep \/ StatusStep \/ FinRemoveStep \/ RulesStep \/ IAPStep \/ FinRulesStep
    <3>1. /\ store'.route = store.route /\ store'.gateway = store.gateway
          /\ store'.config = store.config
      BY <2>1 DEF AddFinalizerStep, StatusStep, FinRemoveStep, RulesStep, IAPStep, FinRulesStep,
         PolicyBecomes, RuleBecomes
    <3> QED BY <1>a, <1>1, <1>2, <1>7, <3>1
  <2>2. CASE BackRefStep \/ FinBackRefStep
    <3>1. CASE store' = store
      BY <1>4, <3>1
    <3>2. CASE BackRefStep /\ OwnerBecomes(wk.ap.target, wk.p)
      <4>1. /\ wk.pc = "backRef" /\ wk.ap.live /\ ~wk.ap.deleting /\ wk.ap.finalizer
            /\ CopyTrue(store.policy[wk.p], wk.ap)
        BY <3>2 DEF BackRefStep, CopyInv, ApplyStages, SpecStages, FinalizerInv, CopiesInv
      <4>2. Holds(store.policy[wk.p]) /\ store.policy[wk.p].target = wk.ap.target
        BY <4>1 DEF CopyTrue, Holds
      <4>3. store'.policy = store.policy /\ store'.config = store.config
        BY <3>2 DEF OwnerBecomes
      <4>4. Owners1
        BY <3>2, <4>2, <4>3 DEF OwnerBecomes, FinalizerInv, TraceInv
      <4> QED BY <1>a, <1>2, <1>7, <4>3, <4>4
    <3>3. CASE OwnerBecomes(wk.ap.target, NoPolicy)
      <4>1. store'.policy = store.policy /\ store'.config = store.config
        BY <3>3 DEF OwnerBecomes
      <4>2. Owners1
        BY <3>3, <4>1, ClusterAssumption DEF OwnerBecomes, FinalizerInv, TraceInv
      <4> QED BY <1>a, <1>2, <1>7, <4>1, <4>2
    <3> QED BY <2>2, <3>1, <3>2, <3>3 DEF BackRefStep, FinBackRefStep
  <2>3. CASE SchemeStep
    <3>1. CASE store' = store
      BY <1>4, <3>1
    <3>2. ASSUME NEW x, ConfigBecomes(authConfigName[wk.p], x) PROVE TraceInv'
      <4>1. /\ wk.pc = "scheme" /\ wk.ap.live /\ ~wk.ap.deleting /\ wk.ap.finalizer
            /\ CopyTrue(store.policy[wk.p], wk.ap)
        BY <2>3 DEF SchemeStep, CopyInv, ApplyStages, SpecStages, FinalizerInv, CopiesInv
      <4>2. Holds(store.policy[wk.p])
        BY <4>1 DEF CopyTrue, Holds
      <4>3. /\ store'.policy = store.policy /\ store'.route = store.route
            /\ store'.gateway = store.gateway
            /\ \A p \in Policies \ {wk.p} : Config(store', p) = Config(store, p)
        BY <1>0, <3>2 DEF ConfigBecomes, Config
      <4>4. Configs1
        BY <4>2, <4>3 DEF FinalizerInv, TraceInv
      <4> QED BY <1>a, <1>1, <1>7, <4>3, <4>4
    <3> QED BY <2>3, <3>1, <3>2 DEF SchemeStep
  <2>4. CASE FinSchemeStep
    <3>1. CASE store' = store
      BY <1>4, <3>1
    <3>2. CASE ConfigBecomes(authConfigName[wk.p], NoSuchConfig)
      <4>1. /\ store'.policy = store.policy /\ store'.route = store.route
            /\ store'.gateway = store.gateway
            /\ \A p \in Policies \ {wk.p} : Config(store', p) = Config(store, p)
            /\ ~Config(store', wk.p).live
        BY <1>0, <3>2 DEF ConfigBecomes, Config, NoSuchConfig
      <4>2. Configs1
        BY <4>1 DEF FinalizerInv, TraceInv
      <4> QED BY <1>a, <1>1, <1>7, <4>1, <4>2
    <3> QED BY <2>4, <3>1, <3>2 DEF FinSchemeStep
  <2> QED BY <1>0, <2>1, <2>2, <2>3, <2>4 DEF WorkStep
<1> QED BY <1>5, <1>6, <1>7, WorkPolicies

LEMMA WorkRemovedInv ==
    ASSUME TypeInv, CopyInv, AbsentUnowned, FinalizerInv, Work,
           Lagging \cap {"route", "gateway"} = {}
    PROVE  RemovedInv'
<1>0. wk.p \in Policies /\ WorkStep /\ authConfigName[wk.p] \in ConfigNames
  BY WorkSteps DEF ConfigNames
<1>1. \A u \in Lockable : /\ TargetLive(cache, u) = TargetLive(store, u)
                          /\ BackRef(cache, u) = BackRef(store, u)
  BY WorkSteps, SettledTargets
<1>2. CASE FinSchemeStep /\ wk'.pc # "idle"
  <2>1. wk'.pc = "finBackRef" /\ wk'.p = wk.p /\ ConfigBecomes(authConfigName[wk.p], NoSuchConfig)
    BY <1>2, IdleStage DEF FinSchemeStep, MovesTo, Kept, GivesUp
  <2>2. ~Config(store', wk.p).live
    BY <2>1 DEF ConfigBecomes, Config, NoSuchConfig
  <2> QED BY <2>1, <2>2 DEF RemovedInv, Config
<1>3. CASE FinBackRefStep /\ wk'.pc # "idle"
  <2>1. wk.pc = "finBackRef" /\ wk'.pc = "finRemove" /\ wk'.p = wk.p
    BY <1>3, IdleStage DEF FinBackRefStep, MovesTo, Kept, GivesUp
  <2>2. store'.config = store.config
    BY <1>3 DEF FinBackRefStep, OwnerBecomes
  <2>3. ~Config(store', wk.p).live
    BY <2>1, <2>2 DEF FinalizerInv, RemovedInv, Config
  <2>4. ASSUME NEW u \in Lockable, BackRef(store, u) = wk.p PROVE u = wk.ap.target
    <3>1. Holds(store.policy[wk.p]) /\ store.policy[wk.p].target = u
      BY <1>0, <2>4 DEF FinalizerInv, TraceInv
    <3>2. wk.ap.live /\ wk.ap.deleting /\ CopyTrue(store.policy[wk.p], wk.ap)
      BY <2>1 DEF CopyInv, FinStages, FinalizerInv, CopiesInv
    <3> QED BY <3>1, <3>2 DEF CopyTrue
  <2>5. \A u \in Lockable : BackRef(store', u) # wk.p
    <3>1. CASE /\ store' = store
               /\ wk.ap.target \in Lockable => BackRef(store, wk.ap.target) = NoPolicy
      BY <1>0, <2>4, <3>1, ClusterAssumption
    <3>2. CASE OwnerBecomes(wk.ap.target, NoPolicy)
      BY <1>0, <2>4, <3>2, ClusterAssumption DEF OwnerBecomes
    <3>3. ~TargetLive(cache, wk.ap.target) /\ wk.ap.target \in Lockable
            => BackRef(store, wk.ap.target) = NoPolicy
      BY <1>1 DEF AbsentUnowned
    <3>4. wk' # Idle
      BY <1>3, IdleStage
    <3> QED BY <1>1, <1>3, <3>1, <3>2, <3>3, <3>4 DEF FinBackRefStep, GivesUp
  <2> QED BY <2>1, <2>3, <2>5 DEF RemovedInv, Config, Lockable
<1>4. CASE wk'.pc \notin {"finBackRef", "finRemove"}
  BY <1>4 DEF RemovedInv
<1>5. ASSUME ~FinSchemeStep, ~FinBackRefStep PROVE wk'.pc \notin {"finBackRef", "finRemove"}
  BY <1>0, <1>5, IdleStage
     DEF WorkStep, AddFinalizerStep, BackRefStep, RulesStep, IAPStep, SchemeStep, StatusStep,
         FinRulesStep, FinRemoveStep, MovesTo, Reports, Armed, GivesUp, Ends
<1> QED BY <1>2, <1>3, <1>4, <1>5

LEMMA NextFinalizerInv ==
    ASSUME Lagging \cap {"route", "gateway"} = {},
           Edits \cap {"retarget", "deleteUnmarked"} = {},
           \A p, q \in Policies : authConfigName[p] = authConfigName[q] => p = q
    PROVE  TypeInv /\ CopyInv /\ AbsentUnowned /\ FinalizerInv /\ [Next]_vars => FinalizerInv'
<1> SUFFICES ASSUME TypeInv, CopyInv, AbsentUnowned, FinalizerInv, [Next]_vars
             PROVE  FinalizerInv'
  OBVIOUS
<1>1. CASE Work
  BY <1>1, WorkTraceInv, WorkCopiesInv, WorkMarkInv, WorkRemovedInv DEF FinalizerInv
<1>2. CASE Crash \/ Panic
  <2>1. store' = store /\ cache' = store /\ wk'.pc = "idle"
    BY <1>2, RestartEffect, IdleStage DEF Restart
  <2>2. TraceInv'
    BY <2>1 DEF FinalizerInv, TraceInv, Lockable, Config
  <2>3. CopiesInv'
    BY <2>1, CopyOfItself DEF CopiesInv
  <2> QED BY <2>1, <2>2, <2>3, StageKinds DEF FinalizerInv, MarkInv, RemovedInv
<1>3. CASE UNCHANGED vars
  BY <1>3 DEF FinalizerInv, TraceInv, CopiesInv, MarkInv, RemovedInv, Lockable, Config, vars
<1> QED BY <1>1, <1>2, <1>3, StartFinalizerInv, WatchFinalizerInv, EnvironmentFinalizerInv DEF Next

\* When routes and gateways are read as they are (policies, AuthorizationPolicies
\* and AuthConfigs may be old), policies keep their target, none goes before it
\* has the finalizer, and no two have one AuthConfig name: as long as an
\* annotation names a policy or its AuthConfig is there, the policy's object is
\* there and holds the finalizer, whatever fails and whenever the process stops.
THEOREM FinalizerCovers ==
    ASSUME Lagging \cap {"route", "gateway"} = {},
           Edits \cap {"retarget", "deleteUnmarked"} = {},
           \A p, q \in Policies : authConfigName[p] = authConfigName[q] => p = q
    PROVE  Spec => []FinalizerCoversTraces
<1>1. Init => TypeInv /\ CopyInv /\ AbsentUnowned /\ FinalizerInv
  BY InitTypeInv, InitCopyInv, InitOwnership, InitFinalizerInv
<1>2. TypeInv /\ CopyInv /\ AbsentUnowned /\ FinalizerInv /\ [Next]_vars
        => (TypeInv /\ CopyInv /\ AbsentUnowned /\ FinalizerInv)'
  BY NextTypeInv, NextCopyInv, NextAbsentUnowned, NextFinalizerInv
<1>3. FinalizerInv => FinalizerCoversTraces
  BY DEF FinalizerInv, TraceInv, FinalizerCoversTraces, Traces, Lockable, Holds
<1> QED BY <1>1, <1>2, <1>3, PTL DEF Spec

-----------------------------------------------------------------------------
(* At rest every policy's status is up to date. The controller is level    *)
(* triggered: whatever makes the report of a policy untrue leaves a change *)
(* that its informers have yet to deliver, and that delivery enqueues it.  *)

\* The report of p is up to date.
Fine(p) ==
    store.policy[p].live =>
        /\ store.policy[p].observed
        /\ store.policy[p].available \in {"Protected", "AuthSchemeNotReady"}
        /\ ~store.policy[p].deleting
        /\ store.policy[p].target \in Lockable
        /\ BackRef(store, store.policy[p].target) = p

\* The policy is in the queue, or an event will put it there: that of its own
\* change, or that of a target which has lost its annotation.
Awaited(p) ==
    \/ p \in queue
    \/ cache.policy[p] # store.policy[p]
    \/ \E u \in Lockable : BackRef(cache, u) = p /\ BackRef(store, u) # p

\* The stages behind the check of the annotation.
OwnedStage == wk.pc \in {"rules", "iap", "scheme"} \/ (wk.pc = "status" /\ ~wk.err)

\* No policy is forgotten; the one at work is worked on as it is, or comes up
\* again, and holds the target while it is applied, or comes up again; and no
\* policy is marked that has nothing to be finalized for.
ReportInv ==
    /\ \A p \in Policies : Fine(p) \/ Awaited(p) \/ (wk.pc # "idle" /\ wk.p = p)
    /\ wk.pc # "idle" => store.policy[wk.p] = wk.ap \/ Awaited(wk.p)
    /\ OwnedStage => /\ wk.ap.target \in Lockable
                     /\ BackRef(store, wk.ap.target) = wk.p \/ Awaited(wk.p)
    /\ \A p \in Policies : store.policy[p].deleting => store.policy[p].finalizer

CurrentCopies ==
    /\ cache.policy = store.policy
    /\ \A u \in Lockable : BackRef(cache, u) = BackRef(store, u)

LEMMA SettledCopies ==
    ASSUME TypeInv, Settled, Lagging \cap {"policy", "route", "gateway"} = {}
    PROVE  CurrentCopies
BY SettledTargets, SettledPolicies DEF CurrentCopies

\* Whatever a step writes while the copies are current, the policies it
\* matters to are told.
LEMMA ChangesAwaited ==
    ASSUME CurrentCopies, cache' = cache, queue \subseteq queue', NEW p \in Policies
    PROVE  /\ Awaited(p) => p \in queue
           /\ p \in queue' => Awaited(p)'
           /\ \/ Awaited(p)'
              \/ /\ store'.policy[p] = store.policy[p]
                 /\ \A u \in Lockable : BackRef(store, u) = p => BackRef(store', u) = p
           /\ Fine(p) \/ Awaited(p) => Fine(p)' \/ Awaited(p)'
<1>1. Awaited(p) => p \in queue
  BY DEF Awaited, CurrentCopies
<1>2. p \in queue' => Awaited(p)'
  BY DEF Awaited
<1>3. \/ Awaited(p)'
      \/ /\ store'.policy[p] = store.policy[p]
         /\ \A u \in Lockable : BackRef(store, u) = p => BackRef(store', u) = p
  BY DEF Awaited, CurrentCopies, Lockable
<1>4. Fine(p) => Fine(p)' \/ Awaited(p)'
  BY <1>3 DEF Fine, Lockable
<1> QED BY <1>1, <1>2, <1>3, <1>4

LEMMA InitReportInv == Init => ReportInv
<1> SUFFICES ASSUME Init PROVE ReportInv
  OBVIOUS
<1>1. wk.pc = "idle" /\ wk.err = FALSE
  BY IdleStage DEF Init
<1>2. \A p \in Policies : ~store.policy[p].deleting /\ (store.policy[p].live => p \in queue)
  BY InitFacts
<1>3. \A p \in Policies : Fine(p) \/ Awaited(p)
  BY <1>2 DEF Fine, Awaited
<1> QED BY <1>1, <1>2, <1>3 DEF ReportInv, OwnedStage

LEMMA StartReportInv ==
    ASSUME TypeInv, CopyInv, ReportInv, NEW p \in Policies, Start(p),
           Lagging \cap {"policy", "route", "gateway"} = {}
    PROVE  ReportInv'
<1>1. /\ store' = store /\ cache' = cache /\ wk.pc = "idle" /\ Settled
      /\ queue' = queue \ {p}
  BY StartEffect DEF Stepped, At
<1>2. CurrentCopies
  BY <1>1, SettledCopies
<1>3. \A q \in Policies : Awaited(q) => q \in queue
  BY <1>2 DEF Awaited, CurrentCopies
<1>4. \A q \in Policies \ {p} : Fine(q)' \/ Awaited(q)'
  BY <1>1, <1>3 DEF ReportInv, Fine, Awaited, Lockable
<1>5. \A q \in Policies : store'.policy[q].deleting => store'.policy[q].finalizer
  BY <1>1 DEF ReportInv
<1>6. CASE EntryStage(cache.policy[p]) = "idle" /\ wk' = Idle
  <2>1. ~store.policy[p].live
    BY <1>2, <1>6 DEF ReportInv, CurrentCopies, EntryStage
  <2>2. Fine(p)'
    BY <1>1, <2>1 DEF Fine
  <2>3. wk'.pc = "idle"
    BY <1>6, IdleStage
  <2> QED BY <1>4, <1>5, <2>2, <2>3 DEF ReportInv, OwnedStage
<1>7. CASE /\ EntryStage(cache.policy[p]) # "idle"
           /\ wk' = [Idle EXCEPT !.pc = EntryStage(cache.policy[p]), !.p = p,
                                 !.ap = cache.policy[p]]
  <2>1. wk'.pc = EntryStage(cache.policy[p]) /\ wk'.p = p /\ wk'.ap = cache.policy[p]
    BY <1>7 DEF Idle
  <2>2. store'.policy[wk'.p] = wk'.ap
    BY <1>1, <1>2, <2>1 DEF CurrentCopies
  <2>3. ~OwnedStage'
    BY <2>1 DEF OwnedStage, EntryStage
  <2> QED BY <1>4, <1>5, <1>7, <2>1, <2>2, <2>3 DEF ReportInv
<1> QED BY <1>6, <1>7, StartEffect

\* Deliveries lose nothing: what an event was awaited for is in the queue once
\* it is delivered.
LEMMA WatchAwaited ==
    ASSUME TypeInv, Watch, NEW p \in Policies, Awaited(p)
    PROVE  Awaited(p)'
<1>0. store \in AuthCluster /\ cache \in AuthCluster /\ Routes \cap Gateways = {}
  BY TypeParts, ClusterAssumption
<1>1. store' = store /\ queue \subseteq queue'
  BY DEF Watch, DeliverPolicy, DeliverRoute, DeliverGateway, DeliverIAP, DeliverConfig
<1>2. CASE p \in queue
  BY <1>1, <1>2 DEF Awaited
<1>3. CASE cache.policy[p] # store.policy[p]
  <2>1. \A q \in Policies : DeliverPolicy(q) =>
          \/ q = p /\ p \in queue'
          \/ cache'.policy[p] = cache.policy[p]
    BY <1>0, GetTypes, PutPolicy DEF DeliverPolicy
  <2>2. \A r \in Routes : DeliverRoute(r) => cache'.policy = cache.policy
    BY <1>0, GetTypes, PutRoute DEF DeliverRoute
  <2>3. \A g \in Gateways : DeliverGateway(g) => cache'.policy = cache.policy
    BY <1>0, GetTypes, PutGateway DEF DeliverGateway
  <2>4. \A n \in IAPNames : DeliverIAP(n) => cache'.policy = cache.policy
    BY <1>0, GetTypes, PutIAP DEF DeliverIAP
  <2>5. \A n \in ConfigNames : DeliverConfig(n) => cache'.policy = cache.policy
    BY <1>0, GetTypes, PutConfig DEF DeliverConfig
  <2>6. p \in queue' \/ cache'.policy[p] = cache.policy[p]
    BY <2>1, <2>2, <2>3, <2>4, <2>5 DEF Watch
  <2> QED BY <1>1, <1>3, <2>6 DEF Awaited
<1>4. ASSUME NEW u \in Lockable, BackRef(cache, u) = p, BackRef(store, u) # p
      PROVE  Awaited(p)'
  <2>1. \A r \in Routes : DeliverRoute(r) =>
          \/ r = u /\ p \in queue'
          \/ BackRef(cache', u) = BackRef(cache, u)
    <3> SUFFICES ASSUME NEW r \in Routes, DeliverRoute(r)
                 PROVE  \/ r = u /\ p \in queue'
                        \/ BackRef(cache', u) = BackRef(cache, u)
      OBVIOUS
    <3>1. /\ cache'.gateway = cache.gateway
          /\ \A q \in Routes \ {r} : cache'.route[q] = cache.route[q]
      BY <1>0, GetTypes, PutRoute DEF DeliverRoute
    <3>2. r = u => p \in queue'
      BY <1>4, ClusterAssumption DEF DeliverRoute, MapToAuthPolicy, BackRef
    <3> QED BY <1>0, <3>1, <3>2 DEF BackRef, Lockable
  <2>2. \A g \in Gateways : DeliverGateway(g) =>
          \/ g = u /\ p \in queue'
          \/ BackRef(cache', u) = BackRef(cache, u)
    <3> SUFFICES ASSUME NEW g \in Gateways, DeliverGateway(g)
                 PROVE  \/ g = u /\ p \in queue'
                        \/ BackRef(cache', u) = BackRef(cache, u)
      OBVIOUS
    <3>1. /\ cache'.route = cache.route
          /\ \A q \in Gateways \ {g} : cache'.gateway[q] = cache.gateway[q]
      BY <1>0, GetTypes, PutGateway DEF DeliverGateway
    <3>2. g = u => p \in queue'
      BY <1>0, <1>4, ClusterAssumption DEF DeliverGateway, MapToAuthPolicy, BackRef
    <3> QED BY <1>0, <3>1, <3>2 DEF BackRef, Lockable
  <2>3. \A q \in Policies : DeliverPolicy(q) => BackRef(cache', u) = BackRef(cache, u)
    BY <1>0, GetTypes, PutPolicy DEF DeliverPolicy, BackRef
  <2>4. \A n \in IAPNames : DeliverIAP(n) => BackRef(cache', u) = BackRef(cache, u)
    BY <1>0, GetTypes, PutIAP DEF DeliverIAP, BackRef
  <2>5. \A n \in ConfigNames : DeliverConfig(n) => BackRef(cache', u) = BackRef(cache, u)
    BY <1>0, GetTypes, PutConfig DEF DeliverConfig, BackRef
  <2>6. p \in queue' \/ BackRef(cache', u) = BackRef(cache, u)
    BY <2>1, <2>2, <2>3, <2>4, <2>5 DEF Watch
  <2> QED BY <1>1, <1>4, <2>6 DEF Awaited, Lockable
<1> QED BY <1>2, <1>3, <1>4 DEF Awaited

LEMMA WatchReportInv ==
    ASSUME TypeInv, ReportInv, Watch
    PROVE  ReportInv'
<1>1. store' = store /\ wk' = wk
  BY DEF Watch
<1>2. wk.pc # "idle" => wk.p \in Policies
  BY TypeParts
<1>3. OwnedStage => wk.pc # "idle"
  BY DEF OwnedStage
<1>4. \A p \in Policies : Awaited(p) => Awaited(p)'
  BY WatchAwaited
<1>5. \A p \in Policies : Fine(p) => Fine(p)'
  BY <1>1 DEF Fine, Lockable
<1>6. OwnedStage' <=> OwnedStage
  BY <1>1 DEF OwnedStage
<1> QED BY <1>1, <1>2, <1>3, <1>4, <1>5, <1>6 DEF ReportInv, Lockable

LEMMA EnvironmentReportInv ==
    ASSUME TypeInv, CopyInv, ReportInv, Environment,
           Lagging \cap {"policy", "route", "gateway"} = {}
    PROVE  ReportInv'
<1>0. store \in AuthCluster
  BY TypeParts
<1>1. wk' = wk /\ cache' = cache /\ queue' = queue /\ CurrentCopies
  BY EnvironmentEffect, SettledCopies
<1>2. wk.pc # "idle" => wk.p \in Policies
  BY TypeParts
<1>3. \A p \in Policies : store'.policy[p].deleting => store'.policy[p].finalizer
  <2>1. ASSUME NEW p \in Policies, PolicyEdited(p)
        PROVE  \A q \in Policies : store'.policy[q].deleting => store'.policy[q].finalizer
    <3>0. /\ NoSuchAuthPolicy.deleting = FALSE
          /\ store.policy[p].deleting => store.policy[p].finalizer
      BY DEF ReportInv, NoSuchAuthPolicy
    <3>1. PICK x \in AuthPolicy :
            /\ store' = [store EXCEPT !.policy[p] = x]
            /\ x.deleting => x.finalizer
      BY <2>1, <3>0 DEF PolicyEdited
    <3>2. store'.policy[p] = x /\ \A q \in Policies \ {p} : store'.policy[q] = store.policy[q]
      BY <1>0, <3>1, PutPolicy
    <3> QED BY <3>1, <3>2 DEF ReportInv
  <2>2. ASSUME NEW r \in Routes, RouteEdited(r) PROVE store'.policy = store.policy
    BY <1>0, <2>2, PutRoute DEF RouteEdited
  <2>3. ASSUME NEW g \in Gateways, GatewayEdited(g) PROVE store'.policy = store.policy
    BY <1>0, <2>3, PutGateway DEF GatewayEdited
  <2>4. ASSUME NEW n \in ConfigNames, ConfigEdited(n) PROVE store'.policy = store.policy
    BY <1>0, <2>4, PutConfig DEF ConfigEdited
  <2> QED BY <2>1, <2>2, <2>3, <2>4, EnvironmentEffect DEF ReportInv
<1>4. \A p \in Policies : Fine(p) \/ Awaited(p) => Fine(p)' \/ Awaited(p)'
  BY <1>1, ChangesAwaited
<1>5. \A p \in Policies :
        /\ Awaited(p) => Awaited(p)'
        /\ \/ Awaited(p)'
           \/ /\ store'.policy[p] = store.policy[p]
              /\ \A u \in Lockable : BackRef(store, u) = p => BackRef(store', u) = p
  BY <1>1, ChangesAwaited
<1>6. (OwnedStage' <=> OwnedStage) /\ (OwnedStage => wk.pc # "idle")
  BY <1>1 DEF OwnedStage
<1> QED BY <1>1, <1>2, <1>3, <1>4, <1>5, <1>6 DEF ReportInv, Lockable

\* How the worker leaves the policy it works on: with the same copy, or with the
\* copy it has just written, or giving it back, or done with it.
LEMMA WorkEnds ==
    ASSUME TypeInv, CopyInv, ReportInv, Work, CurrentCopies,
           NEW p \in Policies, p = wk.p
    PROVE  \/ wk'.pc # "idle" /\ Kept /\ queue' = queue
           \/ Armed /\ (store'.policy[wk.p] = wk'.ap \/ wk.p \in queue)
           \/ GivesUp
           \/ Ends /\ (Fine(p)' \/ wk.p \in queue)
<1>0. wk.p \in Policies /\ WorkStep /\ wk.ap \in AuthPolicy
  BY WorkSteps, TypeParts
<1>1. /\ \A pc : MovesTo(pc) /\ pc # "idle" => wk'.pc # "idle" /\ Kept /\ queue' = queue
      /\ Reports => wk'.pc # "idle" /\ Kept /\ queue' = queue
  BY DEF MovesTo, Reports
<1>2. Awaited(p) => wk.p \in queue
  BY <1>0 DEF Awaited, CurrentCopies
<1>3. wk.pc # "idle" => wk.ap.live /\ (store.policy[wk.p] = wk.ap \/ wk.p \in queue)
  BY <1>2 DEF CopyInv, ReportInv
<1>4. CASE AddFinalizerStep
  <2>1. wk.pc # "idle"
    BY <1>4 DEF AddFinalizerStep
  <2>2. ~store.policy[wk.p].live => wk.p \in queue
    BY <1>3, <2>1
  <2>3. Armed /\ PolicyBecomes(wk.p, [wk.ap EXCEPT !.finalizer = TRUE]) => store'.policy[wk.p] = wk'.ap
    BY DEF Armed, PolicyBecomes
  <2> QED BY <1>4, <2>2, <2>3 DEF AddFinalizerStep
<1>5. CASE StatusStep
  <2>1. CASE GivesUp
    BY <2>1
  <2>2. CASE /\ ~wk.err /\ Ends
             /\ \/ store' = store /\ NewStatus = wk.ap
                \/ store.policy[wk.p] = wk.ap /\ PolicyBecomes(wk.p, NewStatus)
    <3>1. wk.pc = "status" /\ OwnedStage
      BY <1>5, <2>2 DEF StatusStep, OwnedStage
    <3>2. /\ wk.ap.target \in Lockable
          /\ BackRef(store, wk.ap.target) = wk.p \/ wk.p \in queue
      BY <1>2, <3>1 DEF ReportInv
    <3>3. wk.ap.live /\ ~wk.ap.deleting
      BY <3>1 DEF CopyInv, ApplyStages
    <3>4. /\ NewStatus.live = wk.ap.live /\ NewStatus.deleting = wk.ap.deleting
          /\ NewStatus.target = wk.ap.target /\ NewStatus.observed = TRUE
          /\ NewStatus.available \in {"Protected", "AuthSchemeNotReady"}
      BY <1>0, <2>2 DEF AuthPolicy, NewStatus, availableCondition
    <3>5. store'.policy[wk.p] = NewStatus \/ wk.p \in queue
      BY <1>3, <2>2, <3>1 DEF PolicyBecomes
    <3>6. store'.route = store.route /\ store'.gateway = store.gateway
      BY <2>2 DEF PolicyBecomes
    <3>7. BackRef(store', wk.ap.target) = BackRef(store, wk.ap.target)
      BY <3>6 DEF BackRef
    <3>8. CASE wk.p \in queue
      BY <2>2, <3>8
    <3>9. CASE store'.policy[wk.p] = NewStatus /\ BackRef(store', wk.ap.target) = wk.p
      <4>1. Fine(p)'
        BY <3>2, <3>3, <3>4, <3>9 DEF Fine, Lockable
      <4> QED BY <2>2, <4>1
    <3> QED BY <3>2, <3>5, <3>7, <3>8, <3>9
  <2> QED BY <1>5, <2>1, <2>2 DEF StatusStep
<1>6. CASE FinRemoveStep
  <2>1. ~store.policy[wk.p].live /\ store' = store => Fine(p)'
    BY DEF Fine
  <2>2. PolicyBecomes(wk.p, NoSuchAuthPolicy) => Fine(p)'
    BY DEF PolicyBecomes, Fine, NoSuchAuthPolicy
  <2> QED BY <1>6, <2>1, <2>2 DEF FinRemoveStep
<1>7. CASE BackRefStep \/ FinBackRefStep
  BY <1>1, <1>7 DEF BackRefStep, FinBackRefStep
<1>8. CASE RulesStep \/ IAPStep \/ FinRulesStep
  BY <1>1, <1>8 DEF RulesStep, IAPStep, FinRulesStep
<1>9. CASE SchemeStep \/ FinSchemeStep
  BY <1>1, <1>9 DEF SchemeStep, FinSchemeStep
<1> QED BY <1>0, <1>4, <1>5, <1>6, <1>7, <1>8, <1>9 DEF WorkStep

\* The stages behind the check of the annotation are entered with it.
LEMMA WorkOwned ==
    ASSUME TypeInv, CopyInv, ReportInv, Work, CurrentCopies, OwnedStage',
           NEW p \in Policies, p = wk.p
    PROVE  /\ Kept /\ wk'.ap.target \in Lockable
           /\ BackRef(store', wk.ap.target) = wk.p \/ Awaited(p)'
<1>0. wk.p \in Policies /\ WorkStep /\ cache' = cache
  BY WorkSteps
<1>1. /\ wk'.pc \in {"rules", "iap", "scheme", "status"} /\ wk'.pc # "idle"
      /\ wk'.pc = "status" => ~wk'.err
  BY DEF OwnedStage
<1>2. ~GivesUp /\ ~Ends /\ ~Reports /\ ~Armed
  BY <1>1, IdleStage DEF GivesUp, Ends, Reports, Armed
<1>3. CASE BackRefStep
  <2>1. SpecValid /\ MovesTo("rules")
    BY <1>2, <1>3 DEF BackRefStep
  <2>2. wk.ap.target \in Lockable
    BY <2>1 DEF SpecValid, Validate, Lockable
  <2>3. BackRef(store', wk.ap.target) = wk.p
    <3>1. CASE store' = store /\ BackRef(cache, wk.ap.target) = wk.p
      BY <2>2, <3>1 DEF CurrentCopies
    <3>2. CASE OwnerBecomes(wk.ap.target, wk.p)
      BY <2>2, <3>2 DEF OwnerBecomes
    <3> QED BY <1>2, <1>3, <3>1, <3>2 DEF BackRefStep
  <2> QED BY <2>1, <2>2, <2>3 DEF MovesTo, Kept
<1>4. CASE RulesStep \/ IAPStep \/ SchemeStep
  <2>1. OwnedStage /\ Kept /\ queue' = queue
    BY <1>2, <1>4 DEF RulesStep, IAPStep, SchemeStep, OwnedStage, MovesTo
  <2>2. /\ wk.ap.target \in Lockable
        /\ BackRef(store, wk.ap.target) = wk.p \/ Awaited(p)
    BY <2>1 DEF ReportInv
  <2>3. BackRef(store', wk.ap.target) = BackRef(store, wk.ap.target)
    BY <1>4 DEF RulesStep, IAPStep, SchemeStep, RuleBecomes, ConfigBecomes, BackRef
  <2>4. Awaited(p) => Awaited(p)'
    BY <1>0, <2>1, ChangesAwaited
  <2> QED BY <2>1, <2>2, <2>3, <2>4 DEF Kept
<1>5. CASE AddFinalizerStep \/ StatusStep
  BY <1>2, <1>5 DEF AddFinalizerStep, StatusStep
<1>6. CASE FinRulesStep \/ FinSchemeStep \/ FinBackRefStep \/ FinRemoveStep
  BY <1>1, <1>2, <1>6 DEF FinRulesStep, FinSchemeStep, FinBackRefStep, FinRemoveStep, MovesTo
<1> QED BY <1>0, <1>3, <1>4, <1>5, <1>6 DEF WorkStep

\* Marks come from users alone, and the controller takes a finalizer only with
\* the object.
LEMMA WorkMarks ==
    ASSUME TypeInv, ReportInv, Work
    PROVE  \A p \in Policies : store'.policy[p].deleting => store'.policy[p].finalizer
<1>0. wk.p \in Policies /\ WorkStep /\ wk.ap \in AuthPolicy
  BY WorkSteps, TypeParts
<1>1. CASE store'.policy = store.policy
  BY <1>1 DEF ReportInv
<1>2. ASSUME NEW x, PolicyBecomes(wk.p, x), x.deleting => x.finalizer
      PROVE  \A p \in Policies : store'.policy[p].deleting => store'.policy[p].finalizer
  BY <1>2 DEF PolicyBecomes, ReportInv
<1>3. CASE AddFinalizerStep
  <2>1. [wk.ap EXCEPT !.finalizer = TRUE].finalizer
    BY <1>0 DEF AuthPolicy
  <2>2. CASE PolicyBecomes(wk.p, [wk.ap EXCEPT !.finalizer = TRUE])
    BY <1>2, <2>1, <2>2
  <2> QED BY <1>1, <1>3, <2>2 DEF AddFinalizerStep
<1>4. CASE StatusStep
  <2>1. NewStatus.deleting = wk.ap.deleting /\ NewStatus.finalizer = wk.ap.finalizer
    BY <1>0 DEF AuthPolicy, NewStatus
  <2>2. CASE store.policy[wk.p] = wk.ap /\ PolicyBecomes(wk.p, NewStatus)
    <3>1. wk.ap.deleting => wk.ap.finalizer
      BY <1>0, <2>2 DEF ReportInv
    <3> QED BY <1>2, <2>1, <2>2, <3>1
  <2> QED BY <1>1, <1>4, <2>2 DEF StatusStep
<1>5. CASE FinRemoveStep
  <2>1. ~NoSuchAuthPolicy.deleting
    BY DEF NoSuchAuthPolicy
  <2> QED BY <1>1, <1>2, <1>5, <2>1 DEF FinRemoveStep
<1>6. CASE BackRefStep \/ FinBackRefStep
  BY <1>1, <1>6 DEF BackRefStep, FinBackRefStep, OwnerBecomes
<1>7. CASE RulesStep \/ IAPStep \/ FinRulesStep
  BY <1>1, <1>7 DEF RulesStep, IAPStep, FinRulesStep, RuleBecomes
<1>8. CASE SchemeStep \/ FinSchemeStep
  BY <1>1, <1>8 DEF SchemeStep, FinSchemeStep, ConfigBecomes
<1> QED BY <1>0, <1>3, <1>4, <1>5, <1>6, <1>7, <1>8 DEF WorkStep

LEMMA WorkReportInv ==
    ASSUME TypeInv, CopyInv, ReportInv, Work,
           Lagging \cap {"policy", "route", "gateway"} = {}
    PROVE  ReportInv'
<1>0. wk.p \in Policies /\ cache' = cache /\ CurrentCopies /\ wk.pc # "idle"
  BY WorkSteps, SettledCopies
     DEF WorkStep, AddFinalizerStep, BackRefStep, RulesStep, IAPStep, SchemeStep, StatusStep,
         FinRulesStep, FinSchemeStep, FinBackRefStep, FinRemoveStep
<1>p. PICK p \in Policies : p = wk.p
  BY <1>0
<1>1. /\ queue \subseteq queue'
      /\ \/ wk'.pc # "idle" /\ Kept
         \/ /\ wk'.pc # "idle" /\ wk'.p = wk.p
            /\ store'.policy[wk.p] = wk'.ap \/ wk.p \in queue
         \/ wk'.pc = "idle" /\ (Fine(p)' \/ wk.p \in queue')
  BY <1>0, <1>p, WorkEnds, IdleStage DEF Armed, GivesUp, Ends, Kept
<1>2. \A q \in Policies :
        /\ Fine(q) \/ Awaited(q) => Fine(q)' \/ Awaited(q)'
        /\ q \in queue' => Awaited(q)'
  BY <1>0, <1>p, <1>1, ChangesAwaited
<1>3. /\ Awaited(p) => Awaited(p)'
      /\ store'.policy[wk.p] = store.policy[wk.p] \/ Awaited(p)'
  BY <1>0, <1>p, <1>1, ChangesAwaited
<1>4. \A q \in Policies : Fine(q)' \/ Awaited(q)' \/ (wk'.pc # "idle" /\ wk'.p = q)
  BY <1>p, <1>1, <1>2 DEF ReportInv, Kept
<1>5. wk'.pc # "idle" => wk'.p = wk.p /\ (store'.policy[wk.p] = wk'.ap \/ Awaited(p)')
  BY <1>0, <1>p, <1>1, <1>2, <1>3 DEF ReportInv, Kept
<1>6. OwnedStage' => /\ wk'.p = wk.p /\ wk'.ap.target \in Lockable
                     /\ BackRef(store', wk'.ap.target) = wk.p \/ Awaited(p)'
  BY <1>0, <1>p, WorkOwned DEF Kept
<1> QED BY <1>p, <1>4, <1>5, <1>6, WorkMarks DEF ReportInv, Lockable, Awaited

LEMMA NextReportInv ==
    ASSUME Lagging \cap {"policy", "route", "gateway"} = {}
    PROVE  TypeInv /\ CopyInv /\ ReportInv /\ [Next]_vars => ReportInv'
<1> SUFFICES ASSUME TypeInv, CopyInv, ReportInv, [Next]_vars
             PROVE  ReportInv'
  OBVIOUS
<1>1. CASE Crash \/ Panic
  <2>1. store' = store /\ wk'.pc = "idle"
    BY <1>1, RestartEffect, IdleStage DEF Restart
  <2>2. \A p \in Policies : store.policy[p].live => p \in queue'
    BY <1>1, RestartEffect DEF Restart
  <2>3. \A p \in Policies : Fine(p)' \/ Awaited(p)'
    BY <2>1, <2>2 DEF Fine, Awaited
  <2> QED BY <2>1, <2>3 DEF ReportInv, OwnedStage
<1>2. CASE UNCHANGED vars
  BY <1>2 DEF ReportInv, Fine, Awaited, OwnedStage, Lockable, vars
<1> QED BY <1>1, <1>2, StartReportInv, WorkReportInv, WatchReportInv, EnvironmentReportInv DEF Next

\* When policies, routes and gateways are read as they are, whatever users edit,
\* delete or retarget, whatever fails and whenever the process stops: once the
\* queue is empty and every event delivered, each policy reports success on its
\* current generation, owns its target, and none is left marked for deletion.
\* The controller cannot come to rest with an error reported, or with a policy
\* that has lost its target unnoticed.
THEOREM StatusUpToDate ==
    ASSUME Lagging \cap {"policy", "route", "gateway"} = {}
    PROVE  Spec => []StatusConverges
<1>1. Init => TypeInv /\ CopyInv /\ ReportInv
  BY InitTypeInv, InitCopyInv, InitReportInv
<1>2. TypeInv /\ CopyInv /\ ReportInv /\ [Next]_vars => (TypeInv /\ CopyInv /\ ReportInv)'
  BY NextTypeInv, NextCopyInv, NextReportInv
<1>3. ReportInv => StatusConverges
  <2> SUFFICES ASSUME ReportInv, Quiescent, NEW p \in Policies, store.policy[p].live
               PROVE  /\ store.policy[p].observed
                      /\ store.policy[p].available \in {"Protected", "AuthSchemeNotReady"}
                      /\ p \in Owners
    BY DEF StatusConverges
  <2>1. ~Awaited(p)
    BY DEF Awaited, Quiescent
  <2>2. Fine(p)
    BY <2>1 DEF ReportInv, Quiescent
  <2> QED BY <2>2 DEF Fine, Owners
<1> QED BY <1>1, <1>2, <1>3, PTL DEF Spec

-----------------------------------------------------------------------------
(* Rules and scheme. The gateways of a route stay, and no gateway rejects  *)
(* it, so that the loops over the gateways are run through.                *)

Pinned == Edits \cap {"route", "parents", "rejecting"} = {}

RoutesInv ==
    /\ \A r \in Routes : store.route[r].live /\ store.route[r].rejecting = {}
    /\ \A n \in IAPNames : ~store.iap[n].live => store.iap[n] = NoSuchIAP

\* What a route leads to stays.
LinksKept ==
    \A r \in Routes : /\ store'.route[r].live = store.route[r].live
                      /\ store'.route[r].parents = store.route[r].parents
                      /\ store'.route[r].rejecting = store.route[r].rejecting

LEMMA LinksLead ==
    ASSUME LinksKept
    PROVE  /\ \A t : TargetedGatewayKeys(store', t) = TargetedGatewayKeys(store, t)
           /\ \A t : GatewayKeys(store', t) = GatewayKeys(store, t)
           /\ \A t : RulesOf(store', t) = RulesOf(store, t)
<1>1. \A t : TargetedGatewayKeys(store', t) = TargetedGatewayKeys(store, t)
  BY DEF LinksKept, TargetedGatewayKeys
<1> QED BY <1>1 DEF GatewayKeys, RulesOf

\* The gateway keys, and the rules they lead to.
LEMMA KeysAndRules ==
    ASSUME TypeInv, NEW t
    PROVE  /\ \A n \in RulesOf(store, t) : \E key \in GatewayKeys(store, t) :
                 n = getAuthPolicyName(key[1], t)
           /\ \A key \in GatewayKeys(store, t) :
                 /\ key[1] \in Gateways
                 /\ getAuthPolicyName(key[1], t) \in RulesOf(store, t)
           /\ RulesOf(store, t) \subseteq IAPNames
<1>1. TargetedGatewayKeys(store, t) \subseteq Gateways
  <2>1. \A r \in Routes : store.route[r] \in Route
    BY TypeParts, GetTypes
  <2> QED BY <2>1 DEF TargetedGatewayKeys, Route
<1>2. \A g \in Gateways : getAuthPolicyName(g, t) \in IAPNames
  BY DEF getAuthPolicyName, IAPNames, Names
<1>3. ASSUME NEW n \in RulesOf(store, t)
      PROVE  \E key \in GatewayKeys(store, t) : n = getAuthPolicyName(key[1], t)
  <2>1. PICK g \in TargetedGatewayKeys(store, t) : n = getAuthPolicyName(g, t)
    BY DEF RulesOf
  <2>2. PICK i \in IF t \in Routes THEN Sections[t] ELSE {0} : TRUE
    BY ClusterAssumption
  <2>3. <<g, i>> \in GatewayKeys(store, t) /\ <<g, i>>[1] = g
    BY <2>1, <2>2 DEF GatewayKeys
  <2> QED BY <2>1, <2>3
<1>4. \A key \in GatewayKeys(store, t) : key[1] \in TargetedGatewayKeys(store, t)
  BY DEF GatewayKeys
<1> QED BY <1>1, <1>2, <1>3, <1>4 DEF RulesOf

\* The action at each of the stages that visit gateways.
LEMMA ActionAt ==
    ASSUME Work
    PROVE  /\ wk.pc = "rules" => ComputeAuthRules
           /\ wk.pc = "iap" => AuthRulesDone \/ \E key \in wk.todo : ReconcileAuthRules(key)
           /\ wk.pc = "scheme" => ReconcileAuthSchemes
           /\ wk.pc = "finRules" => ListIstioAuthPolicies
           /\ wk.pc = "finIAP" =>
                 IstioAuthPoliciesRemoved \/ \E key \in wk.todo : RemoveIstioAuthPolicy(key)
<1>1. /\ AddFinalizer => wk.pc = "addFinalizer"
      /\ ReconcileNetworkResourceBackReference => wk.pc = "backRef"
      /\ ComputeAuthRules => wk.pc = "rules"
      /\ AuthRulesDone => wk.pc = "iap"
      /\ \A key : ReconcileAuthRules(key) => wk.pc = "iap"
      /\ ReconcileAuthSchemes => wk.pc = "scheme"
      /\ ReconcileStatus => wk.pc = "status"
  BY DEF AddFinalizer, ReconcileNetworkResourceBackReference, ComputeAuthRules, AuthRulesDone,
         ReconcileAuthRules, ReconcileAuthSchemes, ReconcileStatus, At
<1>2. /\ ListIstioAuthPolicies => wk.pc = "finRules"
      /\ IstioAuthPoliciesRemoved => wk.pc = "finIAP"
      /\ \A key : RemoveIstioAuthPolicy(key) => wk.pc = "finIAP"
      /\ RemoveAuthSchemes => wk.pc = "finScheme"
      /\ DeleteNetworkResourceBackReference => wk.pc = "finBackRef"
      /\ RemoveFinalizer => wk.pc = "finRemove"
  BY DEF ListIstioAuthPolicies, IstioAuthPoliciesRemoved, RemoveIstioAuthPolicy, RemoveAuthSchemes,
         DeleteNetworkResourceBackReference, RemoveFinalizer, At
<1> QED BY <1>1, <1>2 DEF Work, Apply, Finalize

\* The rules are compiled and the gateways listed.
Lists(pc) ==
    /\ Kept /\ queue' = queue /\ store' = store /\ wk'.pc = pc /\ wk'.err = wk.err
    /\ wk'.todo = GatewayKeys(store, wk.ap.target)

\* The gateway of a key is visited.
Visits(key) ==
    /\ Kept /\ queue' = queue /\ key \in wk.todo /\ wk'.todo = wk.todo \ {key}
    /\ wk'.rules = wk.rules /\ wk'.err = wk.err /\ wk'.pc = wk.pc

RuleName(key) == getAuthPolicyName(key[1], wk.ap.target)

LEMMA TargetsFetched ==
    ASSUME TypeInv, Settled, RoutesInv, Lagging \cap {"route", "gateway"} = {}, NEW t
    PROVE  /\ TargetedGatewayKeysOK(cache, t)
           /\ GatewayKeys(cache, t) = GatewayKeys(store, t)
           /\ \A s : AuthRules(cache, t, s) = AuthRules(store, t, s)
<1>1. cache.route = store.route
  BY SettledTargets
<1> QED BY <1>1 DEF TargetedGatewayKeysOK, FetchValidHTTPRoute, RoutesInv, GatewayKeys,
                    TargetedGatewayKeys, AuthRules

LEMMA ListMoves ==
    ASSUME TypeInv, RoutesInv, Work, Lagging \cap {"route", "gateway"} = {}
    PROVE  /\ wk.pc = "rules" =>
                 \/ store' = store /\ Reports
                 \/ Lists("iap") /\ wk'.rules = AuthRules(store, wk.ap.target, wk.ap.spec)
           /\ wk.pc = "finRules" => Lists("finIAP")
<1>0. wk \in Worker /\ Settled
  BY TypeParts, WorkSteps
<1>1. /\ TargetedGatewayKeysOK(cache, wk.ap.target)
      /\ GatewayKeys(cache, wk.ap.target) = GatewayKeys(store, wk.ap.target)
      /\ AuthRules(cache, wk.ap.target, wk.ap.spec) = AuthRules(store, wk.ap.target, wk.ap.spec)
  BY <1>0, TargetsFetched
<1>2. CASE wk.pc = "rules"
  <2> DEFINE next == [wk EXCEPT !.pc = "iap", !.rules = AuthRules(cache, wk.ap.target, wk.ap.spec),
                                !.todo = GatewayKeys(cache, wk.ap.target)]
  <2>1. Abort \/ Advance(next)
    BY <1>1, <1>2, ActionAt DEF ComputeAuthRules
  <2>2. CASE Abort
    BY <1>2, <2>2, FailMoves, AbortEffect DEF SpecStages
  <2>3. CASE Advance(next)
    <3>1. /\ next.pc = "iap" /\ next.p = wk.p /\ next.ap = wk.ap /\ next.err = wk.err
          /\ next.rules = AuthRules(cache, wk.ap.target, wk.ap.spec)
          /\ next.todo = GatewayKeys(cache, wk.ap.target)
      BY <1>0 DEF Worker
    <3> HIDE DEF next
    <3> QED BY <1>1, <1>2, <2>3, <3>1 DEF Advance, Goto, Lists, Kept
  <2> QED BY <1>2, <2>1, <2>2, <2>3
<1>3. CASE wk.pc = "finRules"
  <2>1. Advance([wk EXCEPT !.pc = "finIAP", !.todo = GatewayKeys(store, wk.ap.target)])
    BY <1>1, <1>3, ActionAt DEF ListIstioAuthPolicies
  <2>2. Lists("finIAP")
    BY <1>0, <2>1 DEF Advance, Goto, Lists, Kept, Worker
  <2> QED BY <1>3, <2>2
<1> QED BY <1>2, <1>3

\* The worker's rules are written for the gateway of a key, and removed.
Writes(key) == RuleBecomes(RuleName(key), WithRules(RuleName(key)))
Removes(key) == RuleBecomes(RuleName(key), NoSuchIAP)

LEMMA WrittenRules ==
    ASSUME TypeInv, NEW key \in wk.todo
    PROVE  /\ RuleName(key) \in IAPNames
           /\ WithRules(RuleName(key)) = [live |-> TRUE, rules |-> wk.rules]
           /\ [live |-> TRUE, rules |-> wk.rules] \in AuthorizationPolicy
           /\ ~NoSuchIAP.live /\ NoSuchIAP \in AuthorizationPolicy
<1>1. RuleName(key) \in IAPNames
  BY NameTypes DEF RuleName
<1>2. store.iap[RuleName(key)] \in AuthorizationPolicy /\ wk.rules \in Rules
  BY <1>1, TypeParts, GetTypes DEF Worker
<1>3. WithRules(RuleName(key)) = [live |-> TRUE, rules |-> wk.rules]
  <2> DEFINE x == WithRules(RuleName(key))
  <2>1. x \in AuthorizationPolicy /\ x.live = TRUE /\ x.rules = wk.rules
    BY <1>2 DEF WithRules, AuthorizationPolicy
  <2> HIDE DEF x
  <2>2. x = [live |-> TRUE, rules |-> wk.rules]
    BY <2>1 DEF AuthorizationPolicy
  <2> QED BY <2>2 DEF x
<1>4. [live |-> TRUE, rules |-> wk.rules] \in AuthorizationPolicy
  BY <1>2 DEF AuthorizationPolicy
<1>5. ~NoSuchIAP.live
  BY DEF NoSuchIAP
<1> QED BY <1>1, <1>3, <1>4, <1>5, AbsentTypes

LEMMA RuleMoves ==
    ASSUME TypeInv, RoutesInv, Work, wk.pc = "iap"
    PROVE  \/ Reports /\ (store' = store \/ \E key \in wk.todo : Writes(key))
           \/ wk.todo = {} /\ store' = store /\ MovesTo("scheme")
           \/ \E key \in wk.todo :
                 /\ Visits(key)
                 /\ \/ Writes(key)
                    \/ /\ store' = store /\ store.iap[RuleName(key)].live
                       /\ cache.iap # store.iap
<1>0. wk \in Worker
  BY TypeParts
<1>1. CASE AuthRulesDone
  BY <1>1, FailMoves DEF AuthRulesDone, Advance
<1>2. ASSUME NEW key \in wk.todo, ReconcileAuthRules(key)
      PROVE  \/ Reports /\ (store' = store \/ Writes(key))
             \/ /\ Visits(key)
                /\ \/ Writes(key)
                   \/ /\ store' = store /\ store.iap[RuleName(key)].live
                      /\ cache.iap # store.iap
  <2> DEFINE n        == RuleName(key)
             desired  == alwaysUpdateAuthPolicy(cache.iap[n], wk.rules)
             exists   == AlreadyExists(cache.iap[n], store.iap[n], NoSuchIAP)
             accepted == exists \/ ResourceAccepted(cache.iap[n], store.iap[n], desired, NoSuchIAP)
             after    == IF exists THEN store ELSE [store EXCEPT !.iap[n] = desired]
  <2>1. Call(accepted, after, Goto(Visited(key)))
    BY <1>2 DEF ReconcileAuthRules, RuleName
  <2>2. n \in IAPNames /\ cache.iap[n] \in AuthorizationPolicy /\ store.iap[n] \in AuthorizationPolicy
    BY WrittenRules, TypeParts, GetTypes
  <2>3. desired.live = TRUE /\ desired # NoSuchIAP
    <3>1. desired.live = TRUE
      BY <2>2 DEF alwaysUpdateAuthPolicy, AuthorizationPolicy
    <3> QED BY <3>1 DEF NoSuchIAP
  <2>4. exists => store.iap[n].live /\ cache.iap # store.iap
    BY <2>2 DEF AlreadyExists, RoutesInv
  <2>5. accepted /\ ~exists => desired = WithRules(n)
    BY <2>3 DEF ResourceAccepted, UpdateAccepted, alwaysUpdateAuthPolicy, WithRules
  <2>6. WithRules(n) \in AuthorizationPolicy
    BY WrittenRules
  <2>7. store' = [store EXCEPT !.iap[n] = WithRules(n)] => Writes(key)
    BY <2>2, <2>6, PutBecomes DEF Writes
  <2>8. Fail => Reports
    BY FailMoves DEF SpecStages
  <2>9. Goto(Visited(key)) => Visits(key)
    BY <1>0 DEF Goto, Visited, Visits, Kept, Worker
  <2> HIDE DEF n, desired, exists, accepted, after
  <2>10. \/ accepted /\ store' = after /\ (Goto(Visited(key)) \/ Fail)
         \/ store' = store /\ Fail
    BY <2>1, CallEffect
  <2>11. accepted /\ store' = after => \/ Writes(key)
                                       \/ store' = store /\ store.iap[n].live /\ cache.iap # store.iap
    BY <2>4, <2>5, <2>7 DEF after
  <2> QED BY <2>8, <2>9, <2>10, <2>11 DEF n
<1> QED BY <1>1, <1>2, ActionAt

LEMMA RemovalMoves ==
    ASSUME TypeInv, Work, wk.pc = "finIAP"
    PROVE  \/ GivesUp /\ (store' = store \/ \E key \in wk.todo : Removes(key))
           \/ wk.todo = {} /\ store' = store /\ MovesTo("finScheme")
           \/ \E key \in wk.todo : Visits(key) /\ Removes(key)
<1>0. wk \in Worker
  BY TypeParts
<1>1. CASE IstioAuthPoliciesRemoved
  BY <1>1, FailMoves DEF IstioAuthPoliciesRemoved, Advance
<1>2. ASSUME NEW key \in wk.todo, RemoveIstioAuthPolicy(key)
      PROVE  \/ GivesUp /\ (store' = store \/ Removes(key))
             \/ Visits(key) /\ Removes(key)
  <2> DEFINE after == [store EXCEPT !.iap[RuleName(key)] = NoSuchIAP]
  <2>1. \/ store' = store /\ Fail
        \/ store' = after /\ (Goto(Visited(key)) \/ Fail)
    BY <1>2, RemoveRulesEffect DEF RuleName
  <2>2. Fail => GivesUp
    BY FailMoves DEF SpecStages
  <2>3. Goto(Visited(key)) => Visits(key)
    BY <1>0 DEF Goto, Visited, Visits, Kept, Worker
  <2>4. store' = after => Removes(key)
    BY WrittenRules, PutBecomes DEF Removes
  <2> HIDE DEF after
  <2> QED BY <2>1, <2>2, <2>3, <2>4
<1> QED BY <1>1, <1>2, ActionAt

LEMMA SchemeMoves ==
    ASSUME TypeInv, Work, wk.pc = "scheme", cache.config = store.config
    PROVE  LET n == authConfigName[wk.p]
           IN  \/ Reports /\ (store' = store \/ ConfigBecomes(n, WithScheme(n)))
               \/ MovesTo("status") /\ ConfigBecomes(n, WithScheme(n))
<1> DEFINE n        == authConfigName[wk.p]
           next     == [wk EXCEPT !.pc = "status"]
           desired  == alwaysUpdateAuthConfig(cache.config[n], wk.ap.spec)
           exists   == AlreadyExists(cache.config[n], store.config[n], NoSuchConfig)
           accepted == exists \/ ResourceAccepted(cache.config[n], store.config[n], desired, NoSuchConfig)
           after    == IF exists THEN store ELSE [store EXCEPT !.config[n] = desired]
<1>1. Call(accepted, after, Goto(next))
  BY ActionAt DEF ReconcileAuthSchemes
<1>2. n \in ConfigNames /\ store.config[n] \in AuthConfig /\ wk.ap.spec \in Specs \cup {None}
  BY TypeParts, NameTypes, GetTypes DEF AuthPolicy
<1>3. ~exists /\ desired = WithScheme(n)
  BY DEF AlreadyExists, alwaysUpdateAuthConfig, WithScheme
<1>4. WithScheme(n) \in AuthConfig
  BY <1>2 DEF WithScheme, AuthConfig
<1>5. store' = after => ConfigBecomes(n, WithScheme(n))
  BY <1>2, <1>3, <1>4, PutBecomes
<1>6. (Fail => Reports) /\ (Goto(next) => MovesTo("status"))
  BY FailMoves DEF SpecStages
<1> HIDE DEF n, next, desired, exists, accepted, after
<1>7. \/ store' = after /\ (Goto(next) \/ Fail)
      \/ store' = store /\ Fail
  BY <1>1, CallEffect
<1> QED BY <1>5, <1>6, <1>7 DEF n

\* Users change nothing of what a route leads to, and no AuthorizationPolicy.
LEMMA EnvironmentLinks ==
    ASSUME TypeInv, Environment, Pinned
    PROVE  LinksKept /\ store'.iap = store.iap
<1>0. store \in AuthCluster /\ \A r \in Routes : store.route[r] \in Route
  BY TypeParts, GetTypes
<1>1. store'.route = store.route => LinksKept
  BY DEF LinksKept
<1>2. ASSUME EditRoutes PROVE LinksKept /\ store'.iap = store.iap
  <2>1. PICK r \in Routes, hs \in HostLists : EditRouteHosts(r, hs)
    BY <1>2 DEF EditRoutes, CreateRoute, DeleteRoute, EditParents, SetRejecting, Edit, Pinned
  <2> DEFINE x == [store.route[r] EXCEPT !.hosts = hs]
  <2>2. store' = [store EXCEPT !.route[r] = x]
    BY <1>0, <2>1 DEF EditRouteHosts, Edit, AuthCluster
  <2>3. /\ x \in Route /\ x.live = store.route[r].live /\ x.parents = store.route[r].parents
        /\ x.rejecting = store.route[r].rejecting
    BY <1>0, ClusterAssumption DEF Route
  <2> HIDE DEF x
  <2>4. /\ store'.route[r] = x /\ store'.iap = store.iap
        /\ \A q \in Routes \ {r} : store'.route[q] = store.route[q]
    BY <1>0, <2>2, <2>3, PutRoute
  <2> QED BY <2>3, <2>4 DEF LinksKept
<1>3. ASSUME EditPolicies PROVE store'.route = store.route /\ store'.iap = store.iap
  <2>1. PICK p \in Policies : PolicyEdited(p)
    BY <1>3, EditPoliciesEffect
  <2> QED BY <1>0, <2>1, PutPolicy DEF PolicyEdited
<1>4. ASSUME NEW g \in Gateways, GatewayEdited(g)
      PROVE  store'.route = store.route /\ store'.iap = store.iap
  BY <1>0, <1>4, PutGateway DEF GatewayEdited
<1>5. ASSUME NEW n \in ConfigNames, ConfigEdited(n)
      PROVE  store'.route = store.route /\ store'.iap = store.iap
  BY <1>0, <1>5, PutConfig DEF ConfigEdited
<1> QED BY <1>1, <1>2, <1>3, <1>4, <1>5, EditGatewaysEffect, OthersEffect DEF Environment

HostsKept == \A r \in Routes : store'.route[r].hosts = store.route[r].hosts

LEMMA WorkLinks ==
    ASSUME TypeInv, Work
    PROVE  LinksKept /\ HostsKept
<1>0. WorkStep /\ \A r \in Routes : store.route[r] \in Route
  BY WorkSteps, TypeParts, GetTypes
<1>1. store'.route = store.route => LinksKept /\ HostsKept
  BY DEF LinksKept, HostsKept
<1>2. ASSUME NEW t, NEW p, OwnerBecomes(t, p) PROVE LinksKept /\ HostsKept
  <2>1. \A r \in Routes : LET x == [store.route[r] EXCEPT !.backref = p]
                          IN  /\ x.live = store.route[r].live /\ x.parents = store.route[r].parents
                              /\ x.rejecting = store.route[r].rejecting /\ x.hosts = store.route[r].hosts
    BY <1>0 DEF Route
  <2> QED BY <1>2, <2>1 DEF OwnerBecomes, LinksKept, HostsKept
<1>3. CASE BackRefStep \/ FinBackRefStep
  BY <1>1, <1>2, <1>3 DEF BackRefStep, FinBackRefStep
<1>4. CASE AddFinalizerStep \/ StatusStep \/ FinRemoveStep
  BY <1>1, <1>4 DEF AddFinalizerStep, StatusStep, FinRemoveStep, PolicyBecomes
<1>5. CASE RulesStep \/ IAPStep \/ FinRulesStep
  BY <1>1, <1>5 DEF RulesStep, IAPStep, FinRulesStep, RuleBecomes
<1>6. CASE SchemeStep \/ FinSchemeStep
  BY <1>1, <1>6 DEF SchemeStep, FinSchemeStep, ConfigBecomes
<1> QED BY <1>0, <1>3, <1>4, <1>5, <1>6 DEF WorkStep

LEMMA InitRoutesInv == Init => RoutesInv
BY InitFacts DEF RoutesInv

LEMMA NextRoutesInv ==
    ASSUME Pinned
    PROVE  TypeInv /\ RoutesInv /\ [Next]_vars => RoutesInv'
<1> SUFFICES ASSUME TypeInv, RoutesInv, [Next]_vars
             PROVE  RoutesInv'
  OBVIOUS
<1>1. LinksKept /\ store'.iap = store.iap => RoutesInv'
  BY DEF LinksKept, RoutesInv
<1>2. CASE store' = store
  BY <1>1, <1>2 DEF LinksKept
<1>3. CASE Work
  <2>1. WorkStep /\ LinksKept
    BY <1>3, WorkSteps, WorkLinks
  <2>2. ASSUME NEW n \in IAPNames, NEW x, RuleBecomes(n, x), x.live \/ x = NoSuchIAP
        PROVE  RoutesInv'
    BY <2>1, <2>2 DEF RuleBecomes, RoutesInv, LinksKept
  <2>3. \A g \in Gateways : getAuthPolicyName(g, wk.ap.target) \in IAPNames
    BY DEF getAuthPolicyName, IAPNames, Names
  <2>4. CASE IAPStep
    <3>1. \A n \in IAPNames : WithRules(n).live
      <4>1. \A n \in IAPNames : store.iap[n] \in AuthorizationPolicy
        BY TypeParts, GetTypes
      <4> QED BY <4>1 DEF WithRules, AuthorizationPolicy
    <3> QED BY <1>2, <2>2, <2>3, <2>4, <3>1 DEF IAPStep
  <2>5. CASE FinRulesStep
    BY <1>2, <2>2, <2>3, <2>5 DEF FinRulesStep
  <2>6. CASE AddFinalizerStep \/ BackRefStep \/ RulesStep \/ SchemeStep \/ StatusStep
             \/ FinSchemeStep \/ FinBackRefStep \/ FinRemoveStep
    <3>1. store'.iap = store.iap
      BY <2>6 DEF AddFinalizerStep, BackRefStep, RulesStep, SchemeStep, StatusStep, FinSchemeStep,
         FinBackRefStep, FinRemoveStep, PolicyBecomes, ConfigBecomes, OwnerBecomes
    <3> QED BY <1>1, <2>1, <3>1
  <2> QED BY <2>1, <2>4, <2>5, <2>6 DEF WorkStep
<1>4. CASE Environment
  BY <1>1, <1>4, EnvironmentLinks
<1>5. \A p \in Policies : Start(p) => store' = store
  BY StartTyped
<1>6. Watch \/ Crash \/ Panic \/ UNCHANGED vars => store' = store
  BY RestartEffect DEF Watch, Restart, vars
<1> QED BY <1>2, <1>3, <1>4, <1>5, <1>6 DEF Next

\* The gateways the loops have been to have the rules, or have them no more.
InsideInv ==
    /\ wk.pc \in {"iap", "finIAP"} => wk.todo \subseteq GatewayKeys(store, wk.ap.target)
    /\ wk.pc = "iap" =>
          \A key \in GatewayKeys(store, wk.ap.target) \ wk.todo : store.iap[RuleName(key)].live
    /\ wk.pc = "scheme" => \A n \in RulesOf(store, wk.ap.target) : store.iap[n].live
    /\ wk.pc = "finIAP" =>
          \A key \in GatewayKeys(store, wk.ap.target) \ wk.todo : ~store.iap[RuleName(key)].live
    /\ wk.pc \in {"finScheme", "finBackRef", "finRemove"} =>
          \A n \in RulesOf(store, wk.ap.target) : ~store.iap[n].live

InsideStages == {"iap", "scheme", "finIAP", "finScheme", "finBackRef", "finRemove"}

LEMMA OutsideInv == wk.pc \notin InsideStages => InsideInv
BY DEF InsideInv, InsideStages

LEMMA OutsideInvNext == wk'.pc \notin InsideStages => InsideInv'
BY DEF InsideInv, InsideStages

LEMMA StayInside ==
    ASSUME InsideInv, LinksKept, store'.iap = store.iap, wk'.ap = wk.ap,
           \/ wk'.pc = wk.pc /\ wk'.todo = wk.todo
           \/ wk.pc \in {"finScheme", "finBackRef"} /\ wk'.pc \in {"finBackRef", "finRemove"}
    PROVE  InsideInv'
<1>1. /\ GatewayKeys(store', wk.ap.target) = GatewayKeys(store, wk.ap.target)
      /\ RulesOf(store', wk.ap.target) = RulesOf(store, wk.ap.target)
  BY LinksLead
<1>2. \A key : RuleName(key)' = RuleName(key)
  BY DEF RuleName
<1> QED BY <1>1, <1>2 DEF InsideInv

LEMMA WorkInsideInv ==
    ASSUME TypeInv, RoutesInv, InsideInv, Work, Lagging \cap {"route", "gateway"} = {}
    PROVE  InsideInv'
<1>0. WorkStep /\ LinksKept
  BY WorkSteps, WorkLinks
<1> DEFINE t    == wk.ap.target
           keys == GatewayKeys(store, t)
<1>1. GatewayKeys(store', t) = keys /\ RulesOf(store', t) = RulesOf(store, t)
  BY <1>0, LinksLead
<1>2. /\ \A n \in RulesOf(store, t) : \E key \in keys : n = RuleName(key)
      /\ \A key \in keys : RuleName(key) \in IAPNames
  BY KeysAndRules DEF RuleName
<1>3. Kept => \A key : RuleName(key)' = RuleName(key)
  BY DEF RuleName, Kept
<1>4. /\ Reports \/ GivesUp \/ Ends \/ Armed => wk'.pc \notin InsideStages
      /\ MovesTo("rules") \/ MovesTo("status") => wk'.pc \notin InsideStages
  BY IdleStage DEF Reports, GivesUp, Ends, Armed, MovesTo, InsideStages
<1>5. CASE Lists("iap") \/ Lists("finIAP")
  BY <1>1, <1>5 DEF Lists, Kept, InsideInv
<1>6. CASE wk.pc = "rules" \/ wk.pc = "finRules"
  BY <1>4, <1>5, <1>6, ListMoves, OutsideInvNext
<1>7. CASE wk.pc = "iap"
  <2>0. \A key \in keys \ wk.todo : store.iap[RuleName(key)].live
    BY <1>7 DEF InsideInv
  <2>1. CASE wk.todo = {} /\ store' = store /\ MovesTo("scheme")
    <3>1. \A n \in RulesOf(store, t) : store.iap[n].live
      BY <1>2, <2>0, <2>1
    <3> QED BY <2>1, <3>1 DEF MovesTo, Kept, InsideInv
  <2>2. ASSUME NEW key \in wk.todo, Visits(key),
               Writes(key) \/ (store' = store /\ store.iap[RuleName(key)].live)
        PROVE  InsideInv'
    <3>1. Kept /\ wk'.todo = wk.todo \ {key} /\ wk'.pc = "iap" /\ wk.todo \subseteq keys
      BY <1>7, <2>2 DEF Visits, InsideInv
    <3>2. \A k \in keys \ wk'.todo : store'.iap[RuleName(k)].live
      <4>1. RuleName(key) \in IAPNames /\ WithRules(RuleName(key)).live
        BY WrittenRules
      <4> QED BY <1>2, <2>0, <2>2, <3>1, <4>1 DEF Writes, RuleBecomes
    <3> HIDE DEF t, keys
    <3> QED BY <1>1, <1>3, <3>1, <3>2 DEF Kept, InsideInv, t
  <2> QED BY <1>4, <1>7, <2>1, <2>2, RuleMoves, OutsideInvNext
<1>8. CASE wk.pc = "finIAP"
  <2>0. \A key \in keys \ wk.todo : ~store.iap[RuleName(key)].live
    BY <1>8 DEF InsideInv
  <2>1. CASE wk.todo = {} /\ store' = store /\ MovesTo("finScheme")
    <3>1. \A n \in RulesOf(store, t) : ~store.iap[n].live
      BY <1>2, <2>0, <2>1
    <3> QED BY <2>1, <3>1 DEF MovesTo, Kept, InsideInv
  <2>2. ASSUME NEW key \in wk.todo, Visits(key), Removes(key)
        PROVE  InsideInv'
    <3>1. Kept /\ wk'.todo = wk.todo \ {key} /\ wk'.pc = "finIAP" /\ wk.todo \subseteq keys
      BY <1>8, <2>2 DEF Visits, InsideInv
    <3>2. \A k \in keys \ wk'.todo : ~store'.iap[RuleName(k)].live
      <4>1. RuleName(key) \in IAPNames /\ ~NoSuchIAP.live
        BY WrittenRules
      <4> QED BY <1>2, <2>0, <2>2, <3>1, <4>1 DEF Removes, RuleBecomes
    <3> HIDE DEF t, keys
    <3> QED BY <1>1, <1>3, <3>1, <3>2 DEF Kept, InsideInv, t
  <2> QED BY <1>4, <1>8, <2>1, <2>2, RemovalMoves, OutsideInvNext
<1>9. CASE FinSchemeStep \/ FinBackRefStep
  <2>1. store'.iap = store.iap
    BY <1>9 DEF FinSchemeStep, FinBackRefStep, ConfigBecomes, OwnerBecomes
  <2>2. \/ wk'.pc \notin InsideStages
        \/ /\ Kept /\ wk.pc \in {"finScheme", "finBackRef"}
           /\ wk'.pc \in {"finBackRef", "finRemove"}
    BY <1>4, <1>9 DEF FinSchemeStep, FinBackRefStep, MovesTo
  <2> QED BY <1>0, <2>1, <2>2, StayInside, OutsideInvNext DEF Kept
<1>10. CASE AddFinalizerStep \/ BackRefStep \/ SchemeStep \/ StatusStep \/ FinRemoveStep
  <2>1. wk'.pc \notin InsideStages
    BY <1>4, <1>10 DEF AddFinalizerStep, BackRefStep, SchemeStep, StatusStep, FinRemoveStep
  <2> QED BY <2>1, OutsideInvNext
<1> QED BY <1>0, <1>6, <1>7, <1>8, <1>9, <1>10 DEF WorkStep, RulesStep, IAPStep, FinRulesStep

LEMMA NextInsideInv ==
    ASSUME Pinned, Lagging \cap {"route", "gateway"} = {}
    PROVE  TypeInv /\ RoutesInv /\ InsideInv /\ [Next]_vars => InsideInv'
<1> SUFFICES ASSUME TypeInv, RoutesInv, InsideInv, [Next]_vars
             PROVE  InsideInv'
  OBVIOUS
<1>1. CASE store' = store /\ wk' = wk
  <2>1. LinksKept /\ store'.iap = store.iap
    BY <1>1 DEF LinksKept
  <2> QED BY <1>1, <2>1, StayInside
<1>2. CASE Environment
  BY <1>2, EnvironmentLinks, EnvironmentEffect, StayInside
<1>3. CASE Crash \/ Panic
  <2>1. wk'.pc \notin InsideStages
    BY <1>3, RestartEffect, IdleStage DEF Restart, InsideStages
  <2> QED BY <2>1, OutsideInvNext
<1>4. ASSUME NEW p \in Policies, Start(p) PROVE InsideInv'
  <2>1. wk'.pc = "idle" \/ wk'.pc = EntryStage(cache.policy[p])
    BY <1>4, StartEffect, IdleStage DEF Idle
  <2>2. wk'.pc \notin InsideStages
    BY <2>1 DEF InsideStages, EntryStage
  <2> QED BY <2>2, OutsideInvNext
<1>5. Watch \/ UNCHANGED vars => store' = store /\ wk' = wk
  BY DEF Watch, vars
<1> QED BY <1>1, <1>2, <1>3, <1>4, <1>5, WorkInsideInv DEF Next

\* An AuthConfig comes and goes at its stage, for the policy at work.
LEMMA NextConfigInside ==
    ASSUME TypeInv, CopyInv, FinalizerInv, InsideInv, [Next]_vars,
           Edits \cap {"retarget", "deleteUnmarked"} = {},
           \A p, q \in Policies : authConfigName[p] = authConfigName[q] => p = q
    PROVE  ConfigInsideRules
<1>0. \A p \in Policies : authConfigName[p] \in ConfigNames
  BY DEF ConfigNames
<1>1. CASE \A p \in Policies : Config(store', p).live = Config(store, p).live
  BY <1>1 DEF ConfigInsideRules
<1>2. CASE Environment
  BY <1>0, <1>1, <1>2, EnvironmentFollows DEF Config
<1>3. CASE store'.config = store.config
  BY <1>1, <1>3 DEF Config
<1>4. CASE Work
  <2>0. WorkStep /\ wk.p \in Policies
    BY <1>4, WorkSteps
  <2>1. ASSUME NEW x, ConfigBecomes(authConfigName[wk.p], x), NEW p \in Policies,
               Config(store', p).live # Config(store, p).live
        PROVE  p = wk.p
    BY <1>0, <2>0, <2>1 DEF ConfigBecomes, Config
  <2>2. CASE SchemeStep /\ \E x : ConfigBecomes(authConfigName[wk.p], x) /\ x.live
    <3>1. /\ wk.ap.live /\ ~wk.ap.deleting /\ CopyTrue(store.policy[wk.p], wk.ap)
          /\ \A n \in RulesOf(store, wk.ap.target) : store.iap[n].live
      BY <2>2 DEF SchemeStep, CopyInv, ApplyStages, SpecStages, FinalizerInv, CopiesInv, InsideInv
    <3>2. store.policy[wk.p].target = wk.ap.target
      BY <3>1 DEF CopyTrue
    <3>3. Config(store', wk.p).live
      BY <2>0, <2>2 DEF ConfigBecomes, Config
    <3> QED BY <2>1, <2>2, <3>1, <3>2, <3>3 DEF ConfigInsideRules
  <2>3. CASE FinSchemeStep /\ ConfigBecomes(authConfigName[wk.p], NoSuchConfig)
    <3>1. /\ wk.ap.live /\ wk.ap.deleting /\ CopyTrue(store.policy[wk.p], wk.ap)
          /\ \A n \in RulesOf(store, wk.ap.target) : ~store.iap[n].live
      BY <2>3 DEF FinSchemeStep, CopyInv, FinStages, FinalizerInv, CopiesInv, InsideInv
    <3>2. Config(store, wk.p).live => store.policy[wk.p].target = wk.ap.target
      BY <2>0, <3>1 DEF CopyTrue, FinalizerInv, TraceInv
    <3>3. ~Config(store', wk.p).live
      BY <2>0, <2>3 DEF ConfigBecomes, Config, NoSuchConfig
    <3> QED BY <2>1, <2>3, <3>1, <3>2, <3>3 DEF ConfigInsideRules
  <2>4. SchemeStep => store' = store \/ \E x : ConfigBecomes(authConfigName[wk.p], x) /\ x.live
    <3>1. WithScheme(authConfigName[wk.p]).live
      <4>1. store.config[authConfigName[wk.p]] \in AuthConfig
        BY <1>0, <2>0, TypeParts, GetTypes
      <4> QED BY <4>1 DEF WithScheme, AuthConfig
    <3> QED BY <3>1 DEF SchemeStep
  <2>5. CASE AddFinalizerStep \/ BackRefStep \/ RulesStep \/ IAPStep \/ StatusStep
             \/ FinRulesStep \/ FinBackRefStep \/ FinRemoveStep
    <3>1. store'.config = store.config
      BY <2>5 DEF AddFinalizerStep, BackRefStep, RulesStep, IAPStep, StatusStep, FinRulesStep,
         FinBackRefStep, FinRemoveStep, PolicyBecomes, RuleBecomes, OwnerBecomes
    <3> QED BY <1>3, <3>1
  <2>6. FinSchemeStep => store' = store \/ ConfigBecomes(authConfigName[wk.p], NoSuchConfig)
    BY DEF FinSchemeStep
  <2> QED BY <1>3, <2>0, <2>2, <2>3, <2>4, <2>5, <2>6 DEF WorkStep
<1>5. \A p \in Policies : Start(p) => store' = store
  BY StartTyped
<1>6. Watch \/ Crash \/ Panic \/ UNCHANGED vars => store' = store
  BY RestartEffect DEF Watch, Restart, vars
<1> QED BY <1>2, <1>3, <1>4, <1>5, <1>6 DEF Next

\* While the links of routes to gateways stay, and the rest is as for
\* FinalizerCovers, an AuthConfig appears only when every AuthorizationPolicy of
\* its policy's target is there, and goes only when none is, however old the
\* copies of policies, AuthorizationPolicies and AuthConfigs are, whatever call
\* fails and wherever the process stops between the two loops.
THEOREM SchemeComesInside ==
    ASSUME Lagging \cap {"route", "gateway"} = {}, Pinned,
           Edits \cap {"retarget", "deleteUnmarked"} = {},
           \A p, q \in Policies : authConfigName[p] = authConfigName[q] => p = q
    PROVE  Spec => SchemeFollowsRules
<1> DEFINE Inv == /\ TypeInv /\ CopyInv /\ AbsentUnowned /\ FinalizerInv
                  /\ RoutesInv /\ InsideInv
<1>1. Init => Inv
  <2>1. Init => wk.pc \notin InsideStages
    BY IdleStage DEF Init, InsideStages
  <2> QED BY <2>1, InitTypeInv, InitCopyInv, InitOwnership, InitFinalizerInv, InitRoutesInv, OutsideInv
<1>2. Inv /\ [Next]_vars => Inv'
  BY NextTypeInv, NextCopyInv, NextAbsentUnowned, NextFinalizerInv, NextRoutesInv, NextInsideInv
<1>3. Inv /\ [Next]_vars => ConfigInsideRules
  BY NextConfigInside
<1> HIDE DEF Inv
<1> QED BY <1>1, <1>2, <1>3, PTL DEF Spec, SchemeFollowsRules

-----------------------------------------------------------------------------
(* At rest every target is protected as its policy asks, and nothing else  *)
(* is left. Every policy has targets of its own, and all copies are read   *)
(* as they are.                                                            *)

Prompt == Lagging \cap {"policy", "route", "gateway", "iap", "config"} = {}

\* No two policies can have one target, no two routes one name.
Apart ==
    /\ \A p, q \in Policies : p # q => TargetsOf[p] \cap TargetsOf[q] = {}
    /\ \A r, q \in Routes : RouteName[r] = RouteName[q] => r = q
    /\ \A p, q \in Policies : authConfigName[p] = authConfigName[q] => p = q

AllCurrent ==
    /\ CurrentCopies
    /\ cache.route = store.route /\ cache.iap = store.iap /\ cache.config = store.config

LEMMA SettledAll ==
    ASSUME TypeInv, Settled, Prompt
    PROVE  AllCurrent
<1>1. {"iap", "config"} \subseteq DOMAIN store
  BY TypeParts DEF AuthCluster
<1>2. cache.iap = store.iap /\ cache.config = store.config
  BY <1>1 DEF Settled, Prompt
<1>3. Lagging \cap {"policy", "route", "gateway"} = {} /\ Lagging \cap {"route", "gateway"} = {}
  BY DEF Prompt
<1> QED BY <1>2, <1>3, SettledCopies, SettledTargets DEF AllCurrent

\* Policies have targets that users give them.
AimsInv ==
    /\ \A p \in Policies : store.policy[p].live => store.policy[p].target \in TargetsOf[p]
    /\ wk.pc # "idle" => wk.ap.target \in TargetsOf[wk.p]

LEMMA InitAimsInv == Init => AimsInv
<1>1. Init => wk.pc = "idle"
  BY IdleStage DEF Init
<1> QED BY <1>1, InitFacts DEF AimsInv

LEMMA NextAimsInv ==
    ASSUME Prompt, Edits \cap {"retarget", "deleteUnmarked"} = {}
    PROVE  TypeInv /\ CopyInv /\ AimsInv /\ [Next]_vars => AimsInv'
<1> SUFFICES ASSUME TypeInv, CopyInv, AimsInv, [Next]_vars
             PROVE  AimsInv'
  OBVIOUS
<1>0. store \in AuthCluster
  BY TypeParts
<1>1. CASE store'.policy = store.policy /\ wk'.pc = "idle"
  BY <1>1 DEF AimsInv
<1>2. CASE store'.policy = store.policy /\ wk' = wk
  BY <1>2 DEF AimsInv
<1>3. ASSUME NEW p \in Policies, Start(p) PROVE AimsInv'
  <2>1. store' = store /\ Settled
    BY <1>3, StartEffect DEF Stepped, At
  <2>2. cache.policy = store.policy
    BY <2>1, SettledAll DEF AllCurrent, CurrentCopies
  <2>3. CASE wk' = Idle
    BY <1>1, <2>1, <2>3, IdleStage
  <2>4. CASE wk' # Idle
    <3>1. wk'.p = p /\ wk'.ap = cache.policy[p] /\ wk'.pc = EntryStage(cache.policy[p])
      BY <1>3, <2>4, StartEffect DEF Idle
    <3>2. wk'.pc # "idle" => store.policy[p].live
      BY <2>2, <3>1 DEF EntryStage
    <3> QED BY <2>1, <2>2, <3>1, <3>2 DEF AimsInv
  <2> QED BY <2>3, <2>4
<1>4. CASE Environment
  <2>0. wk' = wk
    BY <1>4, EnvironmentEffect
  <2>1. ASSUME NEW p \in Policies, PolicyEdited(p) PROVE AimsInv'
    <3>1. PICK x \in AuthPolicy :
            /\ store' = [store EXCEPT !.policy[p] = x]
            /\ x.live => \/ x.target \in TargetsOf[p]
                         \/ store.policy[p].live /\ x.target = store.policy[p].target
      BY <2>1 DEF PolicyEdited, NoSuchAuthPolicy
    <3>2. store'.policy[p] = x /\ \A q \in Policies \ {p} : store'.policy[q] = store.policy[q]
      BY <1>0, <3>1, PutPolicy
    <3> QED BY <2>0, <3>1, <3>2 DEF AimsInv
  <2>2. ASSUME NEW r \in Routes, RouteEdited(r) PROVE store'.policy = store.policy
    BY <1>0, <2>2, PutRoute DEF RouteEdited
  <2>3. ASSUME NEW g \in Gateways, GatewayEdited(g) PROVE store'.policy = store.policy
    BY <1>0, <2>3, PutGateway DEF GatewayEdited
  <2>4. ASSUME NEW n \in ConfigNames, ConfigEdited(n) PROVE store'.policy = store.policy
    BY <1>0, <2>4, PutConfig DEF ConfigEdited
  <2> QED BY <1>2, <1>4, <2>0, <2>1, <2>2, <2>3, <2>4, EnvironmentEffect
<1>5. CASE Work
  <2>0. WorkStep /\ wk.p \in Policies /\ wk.ap \in AuthPolicy /\ wk.pc # "idle"
    BY <1>5, WorkSteps, TypeParts
       DEF WorkStep, AddFinalizerStep, BackRefStep, RulesStep, IAPStep, SchemeStep, StatusStep,
           FinRulesStep, FinSchemeStep, FinBackRefStep, FinRemoveStep
  <2>1. /\ [wk.ap EXCEPT !.finalizer = TRUE].target = wk.ap.target
        /\ NewStatus.target = wk.ap.target
        /\ ~NoSuchAuthPolicy.live
    BY <2>0 DEF AuthPolicy, NewStatus, NoSuchAuthPolicy
  <2>2. wk'.pc = "idle" \/ (wk'.p = wk.p /\ wk'.ap.target = wk.ap.target)
    BY <2>0, <2>1, IdleStage
       DEF WorkStep, AddFinalizerStep, BackRefStep, RulesStep, IAPStep, SchemeStep, StatusStep,
           FinRulesStep, FinSchemeStep, FinBackRefStep, FinRemoveStep, MovesTo, Reports, GivesUp,
           Ends, Armed, Kept
  <2>3. \/ store'.policy = store.policy
        \/ \E x : PolicyBecomes(wk.p, x) /\ (x.live => x.target = wk.ap.target)
    BY <2>0, <2>1
       DEF WorkStep, AddFinalizerStep, BackRefStep, RulesStep, IAPStep, SchemeStep, StatusStep,
           FinRulesStep, FinSchemeStep, FinBackRefStep, FinRemoveStep, RuleBecomes, ConfigBecomes,
           OwnerBecomes
  <2>4. \A p \in Policies : store'.policy[p].live => store'.policy[p].target \in TargetsOf[p]
    BY <2>0, <2>3 DEF AimsInv, PolicyBecomes
  <2> QED BY <2>0, <2>2, <2>4 DEF AimsInv
<1>6. CASE Crash \/ Panic
  BY <1>1, <1>6, RestartEffect, IdleStage DEF Restart
<1>7. Watch \/ UNCHANGED vars => store' = store /\ wk' = wk
  BY DEF Watch, vars
<1> QED BY <1>2, <1>3, <1>4, <1>5, <1>6, <1>7 DEF Next

\* Targets that are apart have AuthorizationPolicies of their own.
LEMMA RulesApart ==
    ASSUME Apart, NEW t \in Targets, NEW u \in Targets, t # u
    PROVE  RulesOf(store, t) \cap RulesOf(store, u) = {}
<1>1. ASSUME NEW n \in RulesOf(store, t), n \in RulesOf(store, u) PROVE FALSE
  <2>1. PICK g \in TargetedGatewayKeys(store, t), h \in TargetedGatewayKeys(store, u) :
          n = getAuthPolicyName(g, t) /\ n = getAuthPolicyName(h, u)
    BY <1>1 DEF RulesOf
  <2>2. \A r \in Routes : RouteName[r] \in Names
    BY AuthAssumption
  <2>3. CASE t \in Routes \/ u \in Routes
    BY <2>1, <2>2, <2>3, AuthAssumption DEF getAuthPolicyName, Apart
  <2>4. CASE t \notin Routes /\ u \notin Routes
    <3>1. g = t /\ h = u
      BY <2>1, <2>4 DEF TargetedGatewayKeys
    <3> QED BY <2>1, <2>4, <3>1 DEF getAuthPolicyName
  <2> QED BY <2>3, <2>4
<1> QED BY <1>1

\* The worker writes and removes the AuthorizationPolicies of its target alone.
LEMMA WorkRules ==
    ASSUME TypeInv, RoutesInv, InsideInv, Work
    PROVE  \A n \in IAPNames \ RulesOf(store, wk.ap.target) : store'.iap[n] = store.iap[n]
<1>0. WorkStep
  BY WorkSteps
<1>1. ASSUME NEW key \in wk.todo, Writes(key) \/ Removes(key), wk.pc \in {"iap", "finIAP"}
      PROVE  \A n \in IAPNames \ RulesOf(store, wk.ap.target) : store'.iap[n] = store.iap[n]
  <2>1. key \in GatewayKeys(store, wk.ap.target)
    BY <1>1 DEF InsideInv
  <2>2. RuleName(key) \in RulesOf(store, wk.ap.target)
    BY <2>1, KeysAndRules DEF RuleName
  <2> QED BY <1>1, <2>2 DEF Writes, Removes, RuleBecomes
<1>2. CASE wk.pc = "iap"
  BY <1>1, <1>2, RuleMoves
<1>3. CASE wk.pc = "finIAP"
  BY <1>1, <1>3, RemovalMoves
<1>4. CASE wk.pc \notin {"iap", "finIAP"}
  <2>1. store'.iap = store.iap
    <3>1. CASE RulesStep \/ FinRulesStep
      <4>1. wk.pc = "finRules" => store' = store
        <5>1. wk.pc = "finRules" => ListIstioAuthPolicies
          BY ActionAt
        <5> QED BY <5>1 DEF ListIstioAuthPolicies, Advance
      <4> QED BY <1>4, <3>1, <4>1 DEF RulesStep, FinRulesStep
    <3>2. CASE AddFinalizerStep \/ BackRefStep \/ SchemeStep \/ StatusStep
               \/ FinSchemeStep \/ FinBackRefStep \/ FinRemoveStep
      BY <3>2 DEF AddFinalizerStep, BackRefStep, SchemeStep, StatusStep, FinSchemeStep,
         FinBackRefStep, FinRemoveStep, PolicyBecomes, ConfigBecomes, OwnerBecomes
    <3> QED BY <1>0, <1>4, <3>1, <3>2 DEF WorkStep, IAPStep
  <2> QED BY <2>1
<1> QED BY <1>2, <1>3, <1>4

\* Every AuthorizationPolicy is there for a policy that holds the finalizer.
LeakInv ==
    \A n \in IAPNames : store.iap[n].live =>
        \E p \in Policies : /\ Holds(store.policy[p])
                            /\ n \in RulesOf(store, store.policy[p].target)

LEMMA WorkLeakInv ==
    ASSUME TypeInv, CopyInv, FinalizerInv, RoutesInv, InsideInv, LeakInv, Work
    PROVE  LeakInv'
<1>0. WorkStep /\ wk.p \in Policies /\ wk.ap \in AuthPolicy
  BY WorkSteps, TypeParts
<1>1. \A t : RulesOf(store', t) = RulesOf(store, t)
  BY WorkLinks, LinksLead
<1>2. \A p \in Policies : Holds(store.policy[p]) =>
        \/ Holds(store'.policy[p]) /\ store'.policy[p].target = store.policy[p].target
        \/ p = wk.p /\ PolicyRemoved
  <2>1. CASE AllFollow
    BY <2>1, FollowsCopies DEF AllFollow
  <2>2. CASE FinalizerAdded
    <3> DEFINE x == [wk.ap EXCEPT !.finalizer = TRUE]
    <3>1. /\ x.live = wk.ap.live /\ x.target = wk.ap.target /\ x.finalizer = TRUE
          /\ store.policy[wk.p] = wk.ap /\ PolicyBecomes(wk.p, x)
      BY <1>0, <2>2 DEF AuthPolicy, FinalizerAdded
    <3> HIDE DEF x
    <3> QED BY <3>1 DEF PolicyBecomes, Holds
  <2>3. CASE PolicyRemoved
    BY <2>3 DEF PolicyRemoved, PolicyBecomes
  <2> QED BY <2>1, <2>2, <2>3, WorkPolicies
<1>3. ASSUME NEW n \in IAPNames, store'.iap[n].live, store.iap[n].live
      PROVE  \E p \in Policies : /\ Holds(store'.policy[p])
                                 /\ n \in RulesOf(store', store'.policy[p].target)
  <2>1. PICK p \in Policies : Holds(store.policy[p]) /\ n \in RulesOf(store, store.policy[p].target)
    BY <1>3 DEF LeakInv
  <2>2. ~(p = wk.p /\ PolicyRemoved)
    BY <1>3, <2>1 DEF PolicyRemoved, InsideInv
  <2> QED BY <1>1, <1>2, <2>1, <2>2
<1>4. ASSUME NEW n \in IAPNames, store'.iap[n].live, ~store.iap[n].live
      PROVE  \E p \in Policies : /\ Holds(store'.policy[p])
                                 /\ n \in RulesOf(store', store'.policy[p].target)
  <2>1. n \in RulesOf(store, wk.ap.target)
    BY <1>4, WorkRules
  <2>2. IAPStep /\ store' # store
    <3>1. ~NoSuchIAP.live
      BY DEF NoSuchIAP
    <3>2. ~FinRulesStep
      BY <1>4, <3>1 DEF FinRulesStep, RuleBecomes
    <3>3. ~(AddFinalizerStep \/ BackRefStep \/ RulesStep \/ SchemeStep \/ StatusStep
            \/ FinSchemeStep \/ FinBackRefStep \/ FinRemoveStep)
      BY <1>4 DEF AddFinalizerStep, BackRefStep, RulesStep, SchemeStep, StatusStep, FinSchemeStep,
         FinBackRefStep, FinRemoveStep, PolicyBecomes, ConfigBecomes, OwnerBecomes
    <3> QED BY <1>0, <1>4, <3>2, <3>3 DEF WorkStep
  <2>3. /\ wk.pc = "iap" /\ wk.ap.live /\ ~wk.ap.deleting /\ wk.ap.finalizer
        /\ CopyTrue(store.policy[wk.p], wk.ap)
    BY <2>2 DEF IAPStep, CopyInv, ApplyStages, SpecStages, FinalizerInv, CopiesInv
  <2>4. Holds(store.policy[wk.p]) /\ store.policy[wk.p].target = wk.ap.target
    BY <2>3 DEF CopyTrue, Holds
  <2>5. store'.policy = store.policy
    BY <2>2 DEF IAPStep, RuleBecomes
  <2> QED BY <1>0, <1>1, <2>1, <2>4, <2>5
<1> QED BY <1>3, <1>4 DEF LeakInv, Holds

LEMMA InitLeakInv == Init => LeakInv
BY InitFacts DEF LeakInv, NoSuchIAP

LEMMA NextLeakInv ==
    ASSUME Pinned, Edits \cap {"retarget", "deleteUnmarked"} = {}
    PROVE  TypeInv /\ CopyInv /\ FinalizerInv /\ RoutesInv /\ InsideInv /\ LeakInv /\ [Next]_vars
             => LeakInv'
<1> SUFFICES ASSUME TypeInv, CopyInv, FinalizerInv, RoutesInv, InsideInv, LeakInv, [Next]_vars
             PROVE  LeakInv'
  OBVIOUS
<1>1. CASE store' = store
  BY <1>1 DEF LeakInv
<1>2. CASE Environment
  <2>1. store'.iap = store.iap /\ \A t : RulesOf(store', t) = RulesOf(store, t)
    BY <1>2, EnvironmentLinks, LinksLead
  <2>2. \A p \in Policies : Holds(store.policy[p]) =>
          Holds(store'.policy[p]) /\ store'.policy[p].target = store.policy[p].target
    BY <1>2, EnvironmentFollows, FollowsCopies
  <2>3. ASSUME NEW n \in IAPNames, store'.iap[n].live
        PROVE  \E p \in Policies : /\ Holds(store'.policy[p])
                                   /\ n \in RulesOf(store', store'.policy[p].target)
    <3>1. PICK p \in Policies : Holds(store.policy[p]) /\ n \in RulesOf(store, store.policy[p].target)
      BY <2>1, <2>3 DEF LeakInv
    <3> QED BY <2>1, <2>2, <3>1
  <2> QED BY <2>3 DEF LeakInv, Holds
<1>3. \A p \in Policies : Start(p) => store' = store
  BY StartTyped
<1>4. Watch \/ Crash \/ Panic \/ UNCHANGED vars => store' = store
  BY RestartEffect DEF Watch, Restart, vars
<1> QED BY <1>1, <1>2, <1>3, <1>4, WorkLeakInv DEF Next

-----------------------------------------------------------------------------
\* The rules of a target on all of its gateways, and the scheme of a policy.
Guarded(c, t, s) ==
    \A n \in RulesOf(c, t) : c.iap[n] = [live |-> TRUE, rules |-> AuthRules(c, t, s)]

HasScheme(c, p, s) == Config(c, p).live /\ Config(c, p).spec = s

Protected(c, p) ==
    c.policy[p].live => /\ Guarded(c, c.policy[p].target, c.policy[p].spec)
                        /\ HasScheme(c, p, c.policy[p].spec)

\* The policy is in the queue or awaited, or the event of its route will put it
\* there.
Told(p) ==
    \/ Awaited(p)
    \/ \E r \in Routes : /\ cache.route[r] # store.route[r]
                         /\ p \in {cache.route[r].backref, store.route[r].backref}

\* What the worker has put in place so far is what its policy asks for.
Begun ==
    /\ wk.pc = "iap" =>
          /\ wk.rules = AuthRules(store, wk.ap.target, wk.ap.spec)
          /\ \A key \in GatewayKeys(store, wk.ap.target) \ wk.todo :
                store.iap[RuleName(key)] = [live |-> TRUE, rules |-> wk.rules]
    /\ wk.pc = "scheme" \/ (wk.pc = "status" /\ ~wk.err) =>
          Guarded(store, wk.ap.target, wk.ap.spec)
    /\ wk.pc = "status" /\ ~wk.err => HasScheme(store, wk.p, wk.ap.spec)

\* No policy is forgotten before its target is protected as it asks.
ProtInv ==
    /\ \A p \in Policies : Protected(store, p) \/ Told(p) \/ (wk.pc # "idle" /\ wk.p = p)
    /\ wk.pc # "idle" => Told(wk.p) \/ Begun

\* The rules that a target asks for, when neither links nor hostnames change.
LEMMA AskedKept ==
    ASSUME LinksKept, NEW t, t \in Routes => store'.route[t].hosts = store.route[t].hosts
    PROVE  /\ \A s : AuthRules(store', t, s) = AuthRules(store, t, s)
           /\ (\A n \in RulesOf(store, t) : store'.iap[n] = store.iap[n]) =>
                 \A s : Guarded(store, t, s) => Guarded(store', t, s)
<1>1. \A s : AuthRules(store', t, s) = AuthRules(store, t, s)
  BY DEF AuthRules
<1>2. RulesOf(store', t) = RulesOf(store, t)
  BY LinksLead
<1> QED BY <1>1, <1>2 DEF Guarded

\* Whatever a step writes while the copies are current, the policies it
\* matters to are told.
LEMMA ChangesTold ==
    ASSUME AllCurrent, cache' = cache, queue \subseteq queue', NEW p \in Policies
    PROVE  /\ Told(p) => p \in queue
           /\ p \in queue' => Told(p)'
           /\ \/ Told(p)'
              \/ /\ store'.policy[p] = store.policy[p]
                 /\ \A r \in Routes : store.route[r].backref = p => store'.route[r] = store.route[r]
<1>1. (Told(p) => p \in queue) /\ (p \in queue' => Told(p)')
  BY ChangesAwaited DEF Told, Awaited, AllCurrent, CurrentCopies
<1>2. Awaited(p)' \/ store'.policy[p] = store.policy[p]
  BY ChangesAwaited DEF AllCurrent
<1>3. \A r \in Routes : store.route[r].backref = p /\ store'.route[r] # store.route[r] => Told(p)'
  BY DEF Told, AllCurrent
<1> QED BY <1>1, <1>2, <1>3 DEF Told

LEMMA WatchTold ==
    ASSUME TypeInv, Watch, NEW p \in Policies, Told(p)
    PROVE  Told(p)'
<1>0. store \in AuthCluster /\ cache \in AuthCluster
  BY TypeParts
<1>1. store' = store /\ (p \in queue' => Awaited(p)')
  BY DEF Watch, Awaited
<1>2. CASE Awaited(p)
  BY <1>2, WatchAwaited DEF Told
<1>3. ASSUME NEW r \in Routes, cache.route[r] # store.route[r],
             p \in {cache.route[r].backref, store.route[r].backref}
      PROVE  Told(p)'
  <2>1. \A q \in Routes : DeliverRoute(q) =>
          \/ q = r /\ p \in queue'
          \/ cache'.route[r] = cache.route[r]
    <3> SUFFICES ASSUME NEW q \in Routes, DeliverRoute(q)
                 PROVE  (q = r /\ p \in queue') \/ cache'.route[r] = cache.route[r]
      OBVIOUS
    <3>1. \A x \in Routes \ {q} : cache'.route[x] = cache.route[x]
      BY <1>0, GetTypes, PutRoute DEF DeliverRoute
    <3>2. q = r => p \in queue'
      BY <1>3, ClusterAssumption DEF DeliverRoute, MapToAuthPolicy
    <3> QED BY <3>1, <3>2
  <2>2. \A q \in Policies : DeliverPolicy(q) => cache'.route = cache.route
    BY <1>0, GetTypes, PutPolicy DEF DeliverPolicy
  <2>3. \A g \in Gateways : DeliverGateway(g) => cache'.route = cache.route
    BY <1>0, GetTypes, PutGateway DEF DeliverGateway
  <2>4. \A n \in IAPNames : DeliverIAP(n) => cache'.route = cache.route
    BY <1>0, GetTypes, PutIAP DEF DeliverIAP
  <2>5. \A n \in ConfigNames : DeliverConfig(n) => cache'.route = cache.route
    BY <1>0, GetTypes, PutConfig DEF DeliverConfig
  <2>6. p \in queue' \/ cache'.route[r] = cache.route[r]
    BY <2>1, <2>2, <2>3, <2>4, <2>5 DEF Watch
  <2> QED BY <1>1, <1>3, <2>6 DEF Told
<1> QED BY <1>2, <1>3 DEF Told

\* What the worker does for its policy leaves the others' protection alone.
LEMMA WorkOthers ==
    ASSUME TypeInv, RoutesInv, InsideInv, AimsInv, CopyInv, Work, Apart,
           NEW q \in Policies, q # wk.p, Protected(store, q)
    PROVE  Protected(store', q)
<1>0. /\ WorkStep /\ wk.p \in Policies /\ wk.pc # "idle" /\ LinksKept /\ HostsKept
      /\ authConfigName[q] \in ConfigNames /\ authConfigName[q] # authConfigName[wk.p]
  BY WorkSteps, WorkLinks
     DEF WorkStep, AddFinalizerStep, BackRefStep, RulesStep, IAPStep, SchemeStep, StatusStep,
         FinRulesStep, FinSchemeStep, FinBackRefStep, FinRemoveStep, ConfigNames, Apart
<1>1. store'.policy[q] = store.policy[q] /\ Config(store', q) = Config(store, q)
  BY <1>0
     DEF WorkStep, AddFinalizerStep, BackRefStep, RulesStep, IAPStep, SchemeStep, StatusStep,
         FinRulesStep, FinSchemeStep, FinBackRefStep, FinRemoveStep, RuleBecomes, ConfigBecomes,
         OwnerBecomes, PolicyBecomes, Config
<1>2. CASE store.policy[q].live
  <2> DEFINE t == store.policy[q].target
             s == store.policy[q].spec
  <2>1. /\ t \in TargetsOf[q] /\ wk.ap.target \in TargetsOf[wk.p]
        /\ TargetsOf[q] \subseteq Targets /\ TargetsOf[wk.p] \subseteq Targets
        /\ TargetsOf[q] \cap TargetsOf[wk.p] = {}
    BY <1>0, <1>2, ClusterAssumption DEF AimsInv, Apart
  <2>2. RulesOf(store, t) \cap RulesOf(store, wk.ap.target) = {}
    <3> HIDE DEF t
    <3>1. t \in Targets /\ wk.ap.target \in Targets /\ t # wk.ap.target
      BY <2>1
    <3> QED BY <3>1, RulesApart
  <2>3. \A n \in RulesOf(store, t) : store'.iap[n] = store.iap[n]
    BY <2>2, WorkRules, KeysAndRules
  <2>4. Guarded(store, t, s) => Guarded(store', t, s)
    BY <1>0, <2>3, AskedKept DEF HostsKept
  <2>5. Guarded(store, t, s) /\ HasScheme(store, q, s)
    BY <1>2 DEF Protected
  <2> HIDE DEF t, s
  <2>6. Guarded(store', t, s) /\ HasScheme(store', q, s)
    BY <1>1, <2>4, <2>5 DEF HasScheme
  <2> QED BY <1>1, <2>6 DEF Protected, t, s
<1>3. CASE ~store.policy[q].live
  BY <1>1, <1>3 DEF Protected
<1> QED BY <1>2, <1>3

\* What the worker puts in place for its policy.
LEMMA WorkBegun ==
    ASSUME TypeInv, CopyInv, RoutesInv, InsideInv, Begun, Work, AllCurrent,
           Lagging \cap {"route", "gateway"} = {}
    PROVE  wk'.pc = "idle" \/ Begun'
<1>0. /\ WorkStep /\ wk.p \in Policies /\ LinksKept /\ HostsKept
      /\ authConfigName[wk.p] \in ConfigNames
  BY WorkSteps, WorkLinks DEF ConfigNames
<1> DEFINE t    == wk.ap.target
           s    == wk.ap.spec
           keys == GatewayKeys(store, t)
           done == [live |-> TRUE, rules |-> wk.rules]
<1>1. /\ \A n \in RulesOf(store, t) : \E key \in keys : n = RuleName(key)
      /\ \A key \in keys : RuleName(key) \in IAPNames
      /\ GatewayKeys(store', t) = keys
  BY <1>0, KeysAndRules, LinksLead DEF RuleName
<1>2. Kept => \A key : RuleName(key)' = RuleName(key)
  BY DEF RuleName, Kept
<1>3. AuthRules(store', t, s) = AuthRules(store, t, s)
  BY <1>0, AskedKept DEF HostsKept
<1>4. /\ wk'.pc \in {"backRef", "rules"} => Begun'
      /\ wk'.pc \in FinStages => Begun'
      /\ Reports => Begun'
  BY DEF Begun, FinStages, Reports
<1>5. GivesUp \/ Ends => wk'.pc = "idle"
  BY IdleStage DEF GivesUp, Ends
<1>6. CASE wk.pc = "rules"
  <2>1. CASE Lists("iap") /\ wk'.rules = AuthRules(store, t, s)
    BY <2>1 DEF Lists, Kept, Begun
  <2> QED BY <1>4, <1>6, <2>1, ListMoves
<1>7. CASE wk.pc = "iap"
  <2>0. /\ wk.rules = AuthRules(store, t, s)
        /\ \A key \in keys \ wk.todo : store.iap[RuleName(key)] = done
    BY <1>7 DEF Begun
  <2>1. CASE wk.todo = {} /\ store' = store /\ MovesTo("scheme")
    <3>1. Guarded(store, t, s)
      BY <1>1, <2>0, <2>1 DEF Guarded
    <3> QED BY <2>1, <3>1 DEF MovesTo, Kept, Begun
  <2>2. ASSUME NEW key \in wk.todo, Visits(key), Writes(key)
        PROVE  Begun'
    <3>1. /\ Kept /\ wk'.todo = wk.todo \ {key} /\ wk'.pc = "iap" /\ wk.todo \subseteq keys
          /\ wk'.rules = wk.rules
      BY <1>7, <2>2 DEF Visits, InsideInv
    <3>2. \A k \in keys \ wk'.todo : store'.iap[RuleName(k)] = done
      <4>1. RuleName(key) \in IAPNames /\ WithRules(RuleName(key)) = done
        BY WrittenRules
      <4> HIDE DEF done, keys
      <4> QED BY <1>1, <2>0, <2>2, <3>1, <4>1 DEF Writes, RuleBecomes
    <3>3. wk'.rules = AuthRules(store', wk'.ap.target, wk'.ap.spec)
      BY <1>3, <2>0, <3>1 DEF Kept
    <3>4. \A k \in GatewayKeys(store', wk'.ap.target) \ wk'.todo :
            store'.iap[RuleName(k)'] = [live |-> TRUE, rules |-> wk'.rules]
      BY <1>1, <1>2, <3>1, <3>2 DEF Kept
    <3> QED BY <3>1, <3>3, <3>4 DEF Begun
  <2> QED BY <1>4, <1>7, <2>1, <2>2, RuleMoves DEF AllCurrent
<1>8. CASE wk.pc = "scheme"
  <2>0. Guarded(store, t, s)
    BY <1>8 DEF Begun
  <2>1. CASE MovesTo("status") /\ ConfigBecomes(authConfigName[wk.p], WithScheme(authConfigName[wk.p]))
    <3>1. HasScheme(store', wk.p, s)
      <4>1. store.config[authConfigName[wk.p]] \in AuthConfig
        BY <1>0, TypeParts, GetTypes
      <4>2. /\ WithScheme(authConfigName[wk.p]).live
            /\ WithScheme(authConfigName[wk.p]).spec = s
        BY <4>1 DEF WithScheme, AuthConfig
      <4> QED BY <1>0, <2>1, <4>2 DEF ConfigBecomes, HasScheme, Config
    <3>2. store'.iap = store.iap
      BY <2>1 DEF ConfigBecomes
    <3>3. Guarded(store', t, s)
      BY <1>0, <2>0, <3>2, AskedKept DEF HostsKept
    <3> QED BY <2>1, <3>1, <3>3 DEF MovesTo, Kept, Begun
  <2> QED BY <1>4, <1>8, <2>1, SchemeMoves DEF AllCurrent
<1>9. CASE wk.pc \notin {"rules", "iap", "scheme"}
  <2>1. wk'.pc = "idle" \/ wk'.pc \in {"backRef", "rules"} \/ wk'.pc \in FinStages \/ Reports
    BY <1>0, <1>5, <1>9
       DEF WorkStep, AddFinalizerStep, BackRefStep, RulesStep, IAPStep, SchemeStep, StatusStep,
           FinRulesStep, FinSchemeStep, FinBackRefStep, FinRemoveStep, MovesTo, Armed, FinStages
  <2> QED BY <1>4, <2>1
<1> QED BY <1>6, <1>7, <1>8, <1>9

\* The worker is done with a policy when its target is protected, or nothing is
\* left of it, or it comes up again.
LEMMA WorkDone ==
    ASSUME TypeInv, CopyInv, ReportInv, ProtInv, Work, AllCurrent, wk'.pc = "idle"
    PROVE  Protected(store', wk.p) \/ wk.p \in queue'
<1>0. WorkStep /\ wk.p \in Policies /\ wk.ap \in AuthPolicy /\ LinksKept /\ HostsKept /\ cache' = cache
  BY WorkSteps, TypeParts, WorkLinks
<1>p. PICK p \in Policies : p = wk.p
  BY <1>0
<1>1. CASE StatusStep /\ ~wk.err /\ Ends
  <2>1. wk.pc # "idle" /\ (store.policy[wk.p] = wk.ap \/ Awaited(p)) /\ (Told(p) \/ Begun)
    BY <1>p, <1>1 DEF StatusStep, ReportInv, ProtInv
  <2>2. Told(p) \/ Awaited(p) => wk.p \in queue'
    BY <1>0, <1>p, <1>1, ChangesTold DEF Ends, Told
  <2>3. CASE store.policy[wk.p] = wk.ap /\ Begun
    <3>1. Guarded(store, wk.ap.target, wk.ap.spec) /\ HasScheme(store, wk.p, wk.ap.spec)
      BY <1>1, <2>3 DEF StatusStep, Begun
    <3>2. NewStatus.target = wk.ap.target /\ NewStatus.spec = wk.ap.spec
      BY <1>0 DEF NewStatus, AuthPolicy
    <3>3. /\ store'.policy[wk.p].target = wk.ap.target /\ store'.policy[wk.p].spec = wk.ap.spec
          /\ store'.iap = store.iap /\ store'.config = store.config
      BY <1>1, <2>3, <3>2, IdleStage DEF StatusStep, PolicyBecomes
    <3>4. Guarded(store', wk.ap.target, wk.ap.spec) /\ HasScheme(store', wk.p, wk.ap.spec)
      BY <1>0, <3>1, <3>3, AskedKept DEF HostsKept, HasScheme, Config
    <3> QED BY <3>3, <3>4 DEF Protected
  <2> QED BY <2>1, <2>2, <2>3
<1>2. CASE FinRemoveStep /\ Ends
  <2>1. ~store'.policy[wk.p].live \/ GivesUp
    BY <1>2 DEF FinRemoveStep, PolicyBecomes, NoSuchAuthPolicy
  <2> QED BY <2>1 DEF Protected, GivesUp
<1>3. CASE GivesUp
  BY <1>3 DEF GivesUp
<1>4. GivesUp \/ (StatusStep /\ ~wk.err /\ Ends) \/ (FinRemoveStep /\ Ends)
  BY <1>0
     DEF WorkStep, AddFinalizerStep, BackRefStep, RulesStep, IAPStep, SchemeStep, StatusStep,
         FinRulesStep, FinSchemeStep, FinBackRefStep, FinRemoveStep, MovesTo, Reports, Armed
<1> QED BY <1>1, <1>2, <1>3, <1>4

LEMMA WorkProtInv ==
    ASSUME TypeInv, CopyInv, ReportInv, RoutesInv, InsideInv, AimsInv, ProtInv, Work,
           Apart, Prompt
    PROVE  ProtInv'
<1>0. /\ wk.p \in Policies /\ cache' = cache /\ AllCurrent /\ wk.pc # "idle"
      /\ Lagging \cap {"route", "gateway"} = {}
  BY WorkSteps, SettledAll
     DEF Prompt, WorkStep, AddFinalizerStep, BackRefStep, RulesStep, IAPStep, SchemeStep, StatusStep,
         FinRulesStep, FinSchemeStep, FinBackRefStep, FinRemoveStep
<1>p. PICK p \in Policies : p = wk.p
  BY <1>0
<1>1. queue \subseteq queue' /\ (wk'.pc = "idle" \/ wk'.p = wk.p)
  BY <1>0, WorkSteps, IdleStage
     DEF WorkStep, AddFinalizerStep, BackRefStep, RulesStep, IAPStep, SchemeStep, StatusStep,
         FinRulesStep, FinSchemeStep, FinBackRefStep, FinRemoveStep, MovesTo, Reports, Armed, Kept,
         GivesUp, Ends
<1>2. \A q \in Policies : (Told(q) => q \in queue) /\ (q \in queue' => Told(q)')
  BY <1>0, <1>1, ChangesTold
<1>3. \A q \in Policies \ {wk.p} : Protected(store', q) \/ Told(q)'
  BY <1>1, <1>2, WorkOthers DEF ProtInv
<1>4. Protected(store', p) \/ Told(p)' \/ (wk'.pc # "idle" /\ wk'.p = p)
  BY <1>0, <1>p, <1>1, <1>2, WorkDone
<1>5. wk'.pc # "idle" => Told(p)' \/ Begun'
  BY <1>0, <1>p, <1>1, <1>2, WorkBegun DEF ProtInv
<1>6. \A q \in Policies : Protected(store', q) \/ Told(q)' \/ (wk'.pc # "idle" /\ wk'.p = q)
  BY <1>p, <1>3, <1>4
<1>7. wk'.pc # "idle" => Told(wk.p)' \/ Begun'
  BY <1>p, <1>1, <1>5 DEF Told, Awaited, Lockable
<1> QED BY <1>6, <1>7 DEF ProtInv

LEMMA EnvironmentSchemes ==
    ASSUME TypeInv, Environment
    PROVE  \A p \in Policies : \A s : HasScheme(store, p, s) => HasScheme(store', p, s)
<1>0. store \in AuthCluster /\ \A p \in Policies : authConfigName[p] \in ConfigNames
  BY TypeParts DEF ConfigNames
<1>1. CASE \A n \in ConfigNames : /\ store'.config[n].live = store.config[n].live
                                  /\ store'.config[n].spec = store.config[n].spec
  BY <1>0, <1>1 DEF HasScheme, Config
<1>2. ASSUME NEW p \in Policies, PolicyEdited(p) PROVE store'.config = store.config
  BY <1>0, <1>2, PutPolicy DEF PolicyEdited
<1>3. ASSUME NEW r \in Routes, RouteEdited(r) PROVE store'.config = store.config
  BY <1>0, <1>3, PutRoute DEF RouteEdited
<1>4. ASSUME NEW g \in Gateways, GatewayEdited(g) PROVE store'.config = store.config
  BY <1>0, <1>4, PutGateway DEF GatewayEdited
<1>5. ASSUME NEW n \in ConfigNames, ConfigEdited(n)
      PROVE  \A m \in ConfigNames : /\ store'.config[m].live = store.config[m].live
                                    /\ store'.config[m].spec = store.config[m].spec
  BY <1>0, <1>5, PutConfig DEF ConfigEdited
<1> QED BY <1>1, <1>2, <1>3, <1>4, <1>5, EnvironmentEffect

LEMMA EnvironmentProtInv ==
    ASSUME TypeInv, CopyInv, ReportInv, ProtInv, Environment, Pinned, Prompt
    PROVE  ProtInv'
<1>0. /\ wk' = wk /\ cache' = cache /\ queue' = queue /\ AllCurrent
      /\ LinksKept /\ store'.iap = store.iap
  BY EnvironmentEffect, EnvironmentLinks, SettledAll
<1>1. \A p \in Policies :
        /\ Told(p) \/ Awaited(p) => Told(p)'
        /\ \/ Told(p)'
           \/ /\ store'.policy[p] = store.policy[p]
              /\ \A r \in Routes : store.route[r].backref = p => store'.route[r] = store.route[r]
  BY <1>0, ChangesTold DEF Told
<1>2. ASSUME NEW p \in Policies, NEW t \in Lockable, BackRef(store, t) = p, ~Told(p)'
      PROVE  /\ \A s : AuthRules(store', t, s) = AuthRules(store, t, s)
             /\ \A s : Guarded(store, t, s) => Guarded(store', t, s)
  <2>1. t \in Routes => store'.route[t].hosts = store.route[t].hosts
    BY <1>1, <1>2 DEF BackRef
  <2> QED BY <1>0, <2>1, AskedKept
<1>3. ASSUME NEW p \in Policies, Protected(store, p), Fine(p), ~Told(p)'
      PROVE  Protected(store', p)
  <2>1. store'.policy[p] = store.policy[p]
    BY <1>1, <1>3
  <2>2. CASE store.policy[p].live
    <3> DEFINE t == store.policy[p].target
               s == store.policy[p].spec
    <3>1. t \in Lockable /\ BackRef(store, t) = p /\ Guarded(store, t, s) /\ HasScheme(store, p, s)
      BY <1>3, <2>2 DEF Fine, Protected
    <3> HIDE DEF t, s
    <3>2. Guarded(store', t, s) /\ HasScheme(store', p, s)
      BY <1>2, <1>3, <3>1, EnvironmentSchemes
    <3> QED BY <2>1, <3>2 DEF Protected, t, s
  <2> QED BY <2>1, <2>2 DEF Protected
<1>4. \A p \in Policies : Protected(store', p) \/ Told(p)' \/ (wk.pc # "idle" /\ wk.p = p)
  BY <1>1, <1>3 DEF ProtInv, ReportInv
<1>5. ASSUME wk.pc # "idle", NEW p \in Policies, p = wk.p, ~Told(p)'
      PROVE  Begun'
  <2>0. Begun
    BY <1>1, <1>5 DEF ProtInv
  <2>1. CASE OwnedStage
    <3> DEFINE t == wk.ap.target
               s == wk.ap.spec
    <3>1. t \in Lockable /\ BackRef(store, t) = p
      BY <1>1, <1>5, <2>1 DEF ReportInv
    <3>2. /\ AuthRules(store', t, s) = AuthRules(store, t, s)
          /\ Guarded(store, t, s) => Guarded(store', t, s)
          /\ HasScheme(store, p, s) => HasScheme(store', p, s)
          /\ GatewayKeys(store', t) = GatewayKeys(store, t)
      BY <1>0, <1>2, <1>5, <3>1, EnvironmentSchemes, LinksLead
    <3>3. \A key : RuleName(key)' = RuleName(key)
      BY <1>0 DEF RuleName
    <3> QED BY <1>0, <1>5, <2>0, <3>2, <3>3 DEF Begun
  <2>2. CASE ~OwnedStage
    BY <1>0, <2>2 DEF OwnedStage, Begun
  <2> QED BY <2>1, <2>2
<1>6. wk.pc # "idle" => wk.p \in Policies
  BY TypeParts
<1>7. wk'.pc # "idle" => Told(wk.p)' \/ Begun'
  BY <1>0, <1>5, <1>6 DEF Told, Awaited, Lockable
<1> QED BY <1>0, <1>4, <1>7 DEF ProtInv

LEMMA WatchProtInv ==
    ASSUME TypeInv, ProtInv, Watch
    PROVE  ProtInv'
<1>1. store' = store /\ wk' = wk /\ (wk.pc # "idle" => wk.p \in Policies)
  BY TypeParts DEF Watch
<1>2. \A p \in Policies : Told(p) => Told(p)'
  BY WatchTold
<1>3. Begun => Begun'
  BY <1>1 DEF Begun, RuleName
<1>4. \A p \in Policies : Protected(store', p) \/ Told(p)' \/ (wk'.pc # "idle" /\ wk'.p = p)
  BY <1>1, <1>2 DEF ProtInv
<1>5. ASSUME wk.pc # "idle", NEW p \in Policies, p = wk.p PROVE Told(p)' \/ Begun'
  BY <1>2, <1>3, <1>5 DEF ProtInv
<1>6. wk'.pc # "idle" => Told(wk.p)' \/ Begun'
  BY <1>1, <1>5 DEF Told, Awaited, Lockable
<1> QED BY <1>4, <1>6 DEF ProtInv

LEMMA StartProtInv ==
    ASSUME TypeInv, CopyInv, ReportInv, ProtInv, NEW p \in Policies, Start(p), Prompt
    PROVE  ProtInv'
<1>1. /\ store' = store /\ cache' = cache /\ wk.pc = "idle" /\ Settled
      /\ queue' = queue \ {p}
  BY StartEffect DEF Stepped, At
<1>2. AllCurrent
  BY <1>1, SettledAll
<1>3. \A q \in Policies : (Told(q) => q \in queue) /\ (q \in queue' => Told(q)')
  BY <1>2 DEF Told, Awaited, AllCurrent, CurrentCopies
<1>4. \A q \in Policies \ {p} : Protected(store', q) \/ Told(q)'
  BY <1>1, <1>3 DEF ProtInv
<1>5. CASE EntryStage(cache.policy[p]) = "idle" /\ wk' = Idle
  <2>1. ~store.policy[p].live
    BY <1>2, <1>5 DEF ReportInv, AllCurrent, CurrentCopies, EntryStage
  <2>2. Protected(store', p) /\ wk'.pc = "idle"
    BY <1>1, <1>5, <2>1, IdleStage DEF Protected
  <2> QED BY <1>4, <2>2 DEF ProtInv
<1>6. CASE /\ EntryStage(cache.policy[p]) # "idle"
           /\ wk' = [Idle EXCEPT !.pc = EntryStage(cache.policy[p]), !.p = p,
                                 !.ap = cache.policy[p]]
  <2>1. wk'.pc = EntryStage(cache.policy[p]) /\ wk'.p = p
    BY <1>6 DEF Idle
  <2>2. Begun'
    BY <2>1 DEF Begun, EntryStage
  <2> QED BY <1>4, <1>6, <2>1, <2>2 DEF ProtInv
<1> QED BY <1>5, <1>6, StartEffect

LEMMA InitProtInv == Init => ProtInv
<1> SUFFICES ASSUME Init PROVE ProtInv
  OBVIOUS
<1>1. wk.pc = "idle"
  BY IdleStage DEF Init
<1>2. \A p \in Policies : Protected(store, p) \/ Told(p)
  BY InitFacts DEF Protected, Told, Awaited
<1> QED BY <1>1, <1>2 DEF ProtInv

LEMMA NextProtInv ==
    ASSUME Pinned, Prompt, Apart
    PROVE  TypeInv /\ CopyInv /\ ReportInv /\ RoutesInv /\ InsideInv /\ AimsInv /\ ProtInv /\ [Next]_vars
             => ProtInv'
<1> SUFFICES ASSUME TypeInv, CopyInv, ReportInv, RoutesInv, InsideInv, AimsInv, ProtInv, [Next]_vars
             PROVE  ProtInv'
  OBVIOUS
<1>1. CASE Crash \/ Panic
  <2>1. wk'.pc = "idle" /\ \A p \in Policies : store.policy[p].live => p \in queue'
    BY <1>1, RestartEffect, IdleStage DEF Restart
  <2>2. store' = store
    BY <1>1, RestartEffect DEF Restart
  <2>3. \A p \in Policies : Protected(store', p) \/ Told(p)'
    BY <2>1, <2>2 DEF Protected, Told, Awaited
  <2> QED BY <2>1, <2>3 DEF ProtInv
<1>2. CASE UNCHANGED vars
  BY <1>2 DEF ProtInv, Told, Awaited, Begun, RuleName, Lockable, vars
<1> QED BY <1>1, <1>2, StartProtInv, WorkProtInv, WatchProtInv, EnvironmentProtInv DEF Next

\* When the informers are prompt, each policy has targets of its own, names do
\* not clash, and the links of routes to gateways stay: once the queue is empty
\* and every event delivered, the gateways of each policy's target carry exactly
\* the rules that policy and route now ask for, Authorino has its scheme, and
\* there is no other AuthorizationPolicy or AuthConfig, whatever specs and
\* hostnames were edited, policies deleted and created again, calls failed and
\* processes stopped on the way.
THEOREM ProtectedAtRest ==
    ASSUME Prompt, Pinned, Apart, Edits \cap {"retarget", "deleteUnmarked"} = {}
    PROVE  Spec => []ProtectionConverges
<1> DEFINE Inv == /\ TypeInv /\ CopyInv /\ AbsentUnowned /\ FinalizerInv /\ ReportInv
                  /\ RoutesInv /\ InsideInv /\ AimsInv /\ LeakInv /\ ProtInv
<1>0. /\ Lagging \cap {"route", "gateway"} = {} /\ Lagging \cap {"policy", "route", "gateway"} = {}
      /\ \A p, q \in Policies : authConfigName[p] = authConfigName[q] => p = q
  BY DEF Prompt, Apart
<1>1. Init => Inv
  <2>1. Init => wk.pc \notin InsideStages
    BY IdleStage DEF Init, InsideStages
  <2> QED BY <2>1, InitTypeInv, InitCopyInv, InitOwnership, InitFinalizerInv, InitReportInv,
             InitRoutesInv, OutsideInv, InitAimsInv, InitLeakInv, InitProtInv
<1>2. Inv /\ [Next]_vars => Inv'
  <2> SUFFICES ASSUME Inv, [Next]_vars PROVE Inv'
    OBVIOUS
  <2>1. TypeInv' /\ CopyInv' /\ AbsentUnowned' /\ FinalizerInv' /\ ReportInv'
    BY <1>0, NextTypeInv, NextCopyInv, NextAbsentUnowned, NextFinalizerInv, NextReportInv
  <2>2. RoutesInv' /\ InsideInv' /\ AimsInv' /\ LeakInv' /\ ProtInv'
    BY <1>0, NextRoutesInv, NextInsideInv, NextAimsInv, NextLeakInv, NextProtInv
  <2> QED BY <2>1, <2>2
<1>3. Inv => ProtectionConverges
  <2> SUFFICES ASSUME Inv, Quiescent
               PROVE  /\ \A p \in Owners : Protected(store, p)
                      /\ \A n \in IAPNames : store.iap[n].live =>
                            \E p \in Owners : n \in RulesOf(store, store.policy[p].target)
                      /\ \A n \in ConfigNames : store.config[n].live =>
                            \E p \in Owners : n = authConfigName[p]
    BY DEF ProtectionConverges, Protected, Guarded, HasScheme, Owners
  <2>1. \A p \in Policies : ~Told(p) /\ ~Awaited(p)
    BY DEF Told, Awaited, Quiescent
  <2>2. \A p \in Policies : Protected(store, p) /\ (store.policy[p].live => p \in Owners)
    BY <2>1 DEF ProtInv, ReportInv, Fine, Owners, Quiescent
  <2>3. \A n \in IAPNames : store.iap[n].live =>
          \E p \in Owners : n \in RulesOf(store, store.policy[p].target)
    BY <2>2 DEF LeakInv, Holds
  <2>4. \A n \in ConfigNames : store.config[n].live => \E p \in Owners : n = authConfigName[p]
    BY <2>2 DEF ConfigNames, FinalizerInv, TraceInv, Config, Holds
  <2> QED BY <2>2, <2>3, <2>4 DEF Owners
<1> HIDE DEF Inv
<1> QED BY <1>1, <1>2, <1>3, PTL DEF Spec
=============================================================================
