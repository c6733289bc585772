-------------------------- MODULE AuthPolicyProofs --------------------------
(***************************************************************************)
(* Theorems about the AuthPolicy controller, for any number of policies,   *)
(* routes, gateways and parentRefs, any lag of the caches, any number of   *)
(* edits and faults: what each call of Reconcile does, type correctness,   *)
(* and that no update is lost.                                             *)
(***************************************************************************)
EXTENDS AuthPolicyProperties, TLAPS

-----------------------------------------------------------------------------
(* Objects, and how a write changes a cluster.                             *)

\* The records standing for absent objects are objects.
LEMMA AbsentTypes ==
    /\ NoSuchAuthPolicy \in AuthPolicy
    /\ NoSuchRoute \in Route
    /\ NoSuchGateway \in Gateway
    /\ NoSuchIAP \in AuthorizationPolicy
    /\ NoSuchConfig \in AuthConfig
BY DEF NoSuchAuthPolicy, NoSuchRoute, NoSuchGateway, NoSuchIAP, NoSuchConfig,
       AuthPolicy, Route, Gateway, AuthorizationPolicy, AuthConfig, Rules

\* The objects of a cluster have their types.
LEMMA GetTypes ==
    ASSUME NEW c \in AuthCluster
    PROVE  /\ \A p \in Policies : c.policy[p] \in AuthPolicy
           /\ \A r \in Routes : c.route[r] \in Route
           /\ \A g \in Gateways : c.gateway[g] \in Gateway
           /\ \A n \in IAPNames : c.iap[n] \in AuthorizationPolicy
           /\ \A n \in ConfigNames : c.config[n] \in AuthConfig
BY DEF AuthCluster

\* Replacing one object of a cluster leaves a cluster, with all else in place.
LEMMA PutPolicy ==
    ASSUME NEW c \in AuthCluster, NEW p \in Policies, NEW x \in AuthPolicy
    PROVE  LET d == [c EXCEPT !.policy[p] = x]
           IN  /\ d \in AuthCluster
               /\ d.policy[p] = x
               /\ \A q \in Policies \ {p} : d.policy[q] = c.policy[q]
               /\ d.route = c.route /\ d.gateway = c.gateway
               /\ d.iap = c.iap /\ d.config = c.config
BY DEF AuthCluster

LEMMA PutRoute ==
    ASSUME NEW c \in AuthCluster, NEW r \in Routes, NEW x \in Route
    PROVE  LET d == [c EXCEPT !.route[r] = x]
           IN  /\ d \in AuthCluster
               /\ d.route[r] = x
               /\ \A q \in Routes \ {r} : d.route[q] = c.route[q]
               /\ d.policy = c.policy /\ d.gateway = c.gateway
               /\ d.iap = c.iap /\ d.config = c.config
BY DEF AuthCluster

LEMMA PutGateway ==
    ASSUME NEW c \in AuthCluster, NEW g \in Gateways, NEW x \in Gateway
    PROVE  LET d == [c EXCEPT !.gateway[g] = x]
           IN  /\ d \in AuthCluster
               /\ d.gateway[g] = x
               /\ \A q \in Gateways \ {g} : d.gateway[q] = c.gateway[q]
               /\ d.policy = c.policy /\ d.route = c.route
               /\ d.iap = c.iap /\ d.config = c.config
BY DEF AuthCluster

LEMMA PutIAP ==
    ASSUME NEW c \in AuthCluster, NEW n \in IAPNames, NEW x \in AuthorizationPolicy
    PROVE  LET d == [c EXCEPT !.iap[n] = x]
           IN  /\ d \in AuthCluster
               /\ d.iap[n] = x
               /\ \A m \in IAPNames \ {n} : d.iap[m] = c.iap[m]
               /\ d.policy = c.policy /\ d.route = c.route
               /\ d.gateway = c.gateway /\ d.config = c.config
BY DEF AuthCluster

LEMMA PutConfig ==
    ASSUME NEW c \in AuthCluster, NEW n \in ConfigNames, NEW x \in AuthConfig
    PROVE  LET d == [c EXCEPT !.config[n] = x]
           IN  /\ d \in AuthCluster
               /\ d.config[n] = x
               /\ \A m \in ConfigNames \ {n} : d.config[m] = c.config[m]
               /\ d.policy = c.policy /\ d.route = c.route
               /\ d.gateway = c.gateway /\ d.iap = c.iap
BY DEF AuthCluster

\* A busy worker has a policy.
BusyWithPolicy == wk.pc # "idle" => wk.p \in Policies

TypeInv == TypeOK /\ BusyWithPolicy

LEMMA TypeParts ==
    ASSUME TypeInv
    PROVE  /\ store \in AuthCluster /\ cache \in AuthCluster
           /\ queue \in SUBSET Policies /\ edits \in Nat /\ faults \in Nat
           /\ wk \in Worker /\ wk.ap \in AuthPolicy
           /\ wk.pc # "idle" => wk.p \in Policies
BY DEF TypeInv, TypeOK, BusyWithPolicy, Worker

\* The names of AuthorizationPolicies and AuthConfigs are among the names.
LEMMA NameTypes ==
    ASSUME TypeInv
    PROVE  /\ \A key \in wk.todo : getAuthPolicyName(key[1], wk.ap.target) \in IAPNames
           /\ wk.pc # "idle" => authConfigName[wk.p] \in ConfigNames
<1>1. \A g \in Gateways : getAuthPolicyName(g, wk.ap.target) \in IAPNames
  BY DEF getAuthPolicyName, IAPNames, Names
<1>2. \A key \in wk.todo : key[1] \in Gateways
  BY TypeParts DEF Worker
<1> QED BY <1>1, <1>2, TypeParts DEF ConfigNames

-----------------------------------------------------------------------------
(* What each step of the worker does to the cluster and to the worker.     *)

\* A step at stage pc reads caches that are up to date for the kinds that do
\* not lag, and uses up at most one fault.
Stepped(pc) ==
    /\ At(pc)
    /\ \/ faults' = faults
       \/ faults > 0 /\ faults' = faults - 1

LEMMA AbortEffect == Abort => store' = store /\ faults' = faults /\ Fail
BY DEF Abort

LEMMA AdvanceEffect ==
    ASSUME NEW next, Advance(next)
    PROVE  store' = store /\ faults' = faults /\ Goto(next)
BY DEF Advance

\* A call is answered, or its write is applied and the answer lost, or nothing
\* is written.
LEMMA CallEffect ==
    ASSUME NEW accepted, NEW after, NEW done, Call(accepted, after, done)
    PROVE  /\ \/ accepted /\ store' = after /\ done
              \/ accepted /\ store' = after /\ Fail
              \/ store' = store /\ Fail
           /\ faults' = faults \/ (faults > 0 /\ faults' = faults - 1)
BY DEF Call, Abort

\* The target t is stored as the cache has it, and gets the annotation p.
BackRefWritten(t, p) ==
    \/ /\ t \in Routes
       /\ store.route[t] = cache.route[t]
       /\ store' = [store EXCEPT !.route[t] = [store.route[t] EXCEPT !.backref = p]]
    \/ /\ t \in Gateways
       /\ store.gateway[t] = cache.gateway[t]
       /\ store' = [store EXCEPT !.gateway[t] = [store.gateway[t] EXCEPT !.backref = p]]

LEMMA BackRefAccepted ==
    ASSUME NEW t \in Routes \cup Gateways, NEW p,
           TargetUpdateAccepted(t), store' = WithBackRef(t, p)
    PROVE  BackRefWritten(t, p)
BY ClusterAssumption DEF TargetUpdateAccepted, UpdateAccepted, WithBackRef, BackRefWritten

LEMMA StartEffect ==
    ASSUME NEW p \in Policies, Start(p)
    PROVE  /\ Stepped("idle") /\ store' = store /\ p \in queue /\ queue' = queue \ {p}
           /\ \/ /\ EntryStage(cache.policy[p]) = "idle"
                 /\ wk' = Idle
              \/ /\ EntryStage(cache.policy[p]) # "idle"
                 /\ wk' = [Idle EXCEPT !.pc = EntryStage(cache.policy[p]), !.p = p,
                                       !.ap = cache.policy[p]]
BY DEF Start, Stepped

\* The copy of the policy with the finalizer.
Finalized == [wk EXCEPT !.pc = "backRef", !.ap.finalizer = TRUE]

LEMMA AddFinalizerEffect ==
    ASSUME AddFinalizer
    PROVE  /\ Stepped("addFinalizer")
           /\ \/ store' = store /\ Fail
              \/ ~store.policy[wk.p].live /\ store' = store /\ Goto(Finalized)
              \/ /\ store.policy[wk.p].live /\ store.policy[wk.p] = wk.ap
                 /\ store' = [store EXCEPT !.policy[wk.p] = Finalized.ap]
                 /\ Goto(Finalized) \/ Fail
<1>1. At("addFinalizer")
  BY DEF AddFinalizer
<1>2. \/ ~store.policy[wk.p].live /\ Advance(Finalized)
      \/ /\ store.policy[wk.p].live
         /\ Call(UpdateAccepted(store.policy[wk.p], wk.ap),
                 [store EXCEPT !.policy[wk.p] = Finalized.ap], Goto(Finalized))
  BY DEF AddFinalizer, Finalized
<1>3. CASE ~store.policy[wk.p].live /\ Advance(Finalized)
  BY <1>1, <1>3, AdvanceEffect DEF Stepped
<1>4. CASE /\ store.policy[wk.p].live
           /\ Call(UpdateAccepted(store.policy[wk.p], wk.ap),
                   [store EXCEPT !.policy[wk.p] = Finalized.ap], Goto(Finalized))
  <2> DEFINE after == [store EXCEPT !.policy[wk.p] = Finalized.ap]
  <2>1. Call(UpdateAccepted(store.policy[wk.p], wk.ap), after, Goto(Finalized))
    BY <1>4
  <2> HIDE DEF after
  <2>2. /\ \/ UpdateAccepted(store.policy[wk.p], wk.ap) /\ store' = after /\ (Goto(Finalized) \/ Fail)
           \/ store' = store /\ Fail
        /\ faults' = faults \/ (faults > 0 /\ faults' = faults - 1)
    BY <2>1, CallEffect
  <2> QED BY <1>1, <1>4, <2>2 DEF UpdateAccepted, Stepped, after
<1> QED BY <1>2, <1>3, <1>4

LEMMA BackReferenceEffect ==
    ASSUME ReconcileNetworkResourceBackReference
    PROVE  LET t    == wk.ap.target
               next == [wk EXCEPT !.pc = "rules"]
           IN  /\ Stepped("backRef")
               /\ \/ store' = store /\ Fail
                  \/ SpecValid /\ BackRef(cache, t) = wk.p /\ store' = store /\ Goto(next)
                  \/ /\ SpecValid /\ BackRef(cache, t) = NoPolicy /\ BackRefWritten(t, wk.p)
                     /\ Goto(next) \/ Fail
<1> DEFINE t    == wk.ap.target
           next == [wk EXCEPT !.pc = "rules"]
<1>1. At("backRef")
  BY DEF ReconcileNetworkResourceBackReference
<1>2. \/ Abort
      \/ SpecValid /\ BackRef(cache, t) = wk.p /\ Advance(next)
      \/ /\ SpecValid /\ BackRef(cache, t) = NoPolicy
         /\ Call(TargetUpdateAccepted(t), WithBackRef(t, wk.p), Goto(next))
  BY DEF ReconcileNetworkResourceBackReference, Taken
<1>3. SpecValid => t \in Routes \cup Gateways
  BY DEF SpecValid, Validate
<1> HIDE DEF t, next
<1>4. CASE Abort
  BY <1>1, <1>4, AbortEffect DEF Stepped, t, next
<1>5. CASE SpecValid /\ BackRef(cache, t) = wk.p /\ Advance(next)
  BY <1>1, <1>5, AdvanceEffect DEF Stepped, t, next
<1>6. CASE /\ SpecValid /\ BackRef(cache, t) = NoPolicy
           /\ Call(TargetUpdateAccepted(t), WithBackRef(t, wk.p), Goto(next))
  <2>1. /\ \/ TargetUpdateAccepted(t) /\ store' = WithBackRef(t, wk.p) /\ (Goto(next) \/ Fail)
           \/ store' = store /\ Fail
        /\ faults' = faults \/ (faults > 0 /\ faults' = faults - 1)
    BY <1>6, CallEffect
  <2>2. Stepped("backRef")
    BY <1>1, <2>1 DEF Stepped
  <2>3. TargetUpdateAccepted(t) /\ store' = WithBackRef(t, wk.p) => BackRefWritten(t, wk.p)
    BY <1>3, <1>6, BackRefAccepted
  <2> QED BY <1>6, <2>1, <2>2, <2>3 DEF t, next
<1> QED BY <1>2, <1>4, <1>5, <1>6

LEMMA ComputeRulesEffect ==
    ASSUME ComputeAuthRules
    PROVE  /\ Stepped("rules") /\ store' = store
           /\ \/ Fail
              \/ Goto([wk EXCEPT !.pc = "scheme"])
              \/ Goto([wk EXCEPT !.pc = "iap", !.rules = AuthRules(cache, wk.ap.target, wk.ap.spec),
                                 !.todo = GatewayKeys(cache, wk.ap.target)])
<1>1. At("rules")
  BY DEF ComputeAuthRules
<1>2. \/ Abort
      \/ Advance([wk EXCEPT !.pc = "scheme"])
      \/ Advance([wk EXCEPT !.pc = "iap", !.rules = AuthRules(cache, wk.ap.target, wk.ap.spec),
                            !.todo = GatewayKeys(cache, wk.ap.target)])
  BY DEF ComputeAuthRules
<1> QED BY <1>1, <1>2 DEF Stepped, Abort, Advance

\* What an AuthorizationPolicy is written with, and an AuthConfig.
WithRules(n) == [store.iap[n] EXCEPT !.live = TRUE, !.rules = wk.rules]
WithScheme(n) == [store.config[n] EXCEPT !.live = TRUE, !.spec = wk.ap.spec]

LEMMA ReconcileRulesEffect ==
    ASSUME TypeInv, NEW key \in wk.todo, ReconcileAuthRules(key)
    PROVE  LET n == getAuthPolicyName(key[1], wk.ap.target)
           IN  /\ Stepped("iap")
               /\ store' = store \/ store' = [store EXCEPT !.iap[n] = WithRules(n)]
               /\ Goto(Visited(key)) \/ Fail
<1> DEFINE n        == getAuthPolicyName(key[1], wk.ap.target)
           desired  == alwaysUpdateAuthPolicy(cache.iap[n], wk.rules)
           exists   == AlreadyExists(cache.iap[n], store.iap[n], NoSuchIAP)
           accepted == exists \/ ResourceAccepted(cache.iap[n], store.iap[n], desired, NoSuchIAP)
           after    == IF exists THEN store ELSE [store EXCEPT !.iap[n] = desired]
<1>1. At("iap") /\ Call(accepted, after, Goto(Visited(key)))
  BY DEF ReconcileAuthRules
<1>2. ResourceAccepted(cache.iap[n], store.iap[n], desired, NoSuchIAP)
        => cache.iap[n] = store.iap[n] \/ desired = NoSuchIAP
  BY DEF ResourceAccepted, UpdateAccepted
<1>3. desired # NoSuchIAP
  <2>1. cache.iap[n] \in AuthorizationPolicy
    BY TypeParts, GetTypes, NameTypes
  <2>2. desired.live = TRUE
    BY <2>1 DEF alwaysUpdateAuthPolicy, AuthorizationPolicy
  <2> QED BY <2>2 DEF NoSuchIAP
<1>4. cache.iap[n] = store.iap[n] => desired = WithRules(n)
  BY DEF alwaysUpdateAuthPolicy, WithRules
<1> HIDE DEF n, desired, exists, accepted, after
<1>5. /\ \/ accepted /\ store' = after /\ (Goto(Visited(key)) \/ Fail)
         \/ store' = store /\ Fail
      /\ faults' = faults \/ (faults > 0 /\ faults' = faults - 1)
  BY <1>1, CallEffect
<1> QED BY <1>1, <1>2, <1>3, <1>4, <1>5 DEF Stepped, accepted, after, n

LEMMA RulesDoneEffect ==
    ASSUME AuthRulesDone \/ IstioAuthPoliciesRemoved \/ ListIstioAuthPolicies
    PROVE  /\ store' = store
           /\ \/ Stepped("iap") /\ wk.todo = {} /\ Goto([wk EXCEPT !.pc = "scheme"])
              \/ Stepped("finIAP") /\ wk.todo = {} /\ Goto([wk EXCEPT !.pc = "finScheme"])
              \/ Stepped("finRules") /\ Goto([wk EXCEPT !.pc = "finScheme"])
              \/ Stepped("finRules") /\ Goto([wk EXCEPT !.pc = "finIAP",
                                                       !.todo = GatewayKeys(cache, wk.ap.target)])
<1>1. CASE AuthRulesDone
  BY <1>1 DEF AuthRulesDone, Advance, Stepped
<1>2. CASE IstioAuthPoliciesRemoved
  BY <1>2 DEF IstioAuthPoliciesRemoved, Advance, Stepped
<1>3. CASE ListIstioAuthPolicies
  <2>1. At("finRules")
    BY <1>3 DEF ListIstioAuthPolicies
  <2>2. \/ Advance([wk EXCEPT !.pc = "finScheme"])
        \/ Advance([wk EXCEPT !.pc = "finIAP", !.todo = GatewayKeys(cache, wk.ap.target)])
    BY <1>3 DEF ListIstioAuthPolicies
  <2> QED BY <2>1, <2>2 DEF Advance, Stepped
<1> QED BY <1>1, <1>2, <1>3

LEMMA ReconcileSchemesEffect ==
    ASSUME TypeInv, ReconcileAuthSchemes
    PROVE  LET n    == authConfigName[wk.p]
               next == [wk EXCEPT !.pc = "status"]
           IN  /\ Stepped("scheme")
               /\ store' = store \/ store' = [store EXCEPT !.config[n] = WithScheme(n)]
               /\ Goto(next) \/ Fail
<1> DEFINE n        == authConfigName[wk.p]
           next     == [wk EXCEPT !.pc = "status"]
           desired  == alwaysUpdateAuthConfig(cache.config[n], wk.ap.spec)
           exists   == AlreadyExists(cache.config[n], store.config[n], NoSuchConfig)
           accepted == exists \/ ResourceAccepted(cache.config[n], store.config[n], desired, NoSuchConfig)
           after    == IF exists THEN store ELSE [store EXCEPT !.config[n] = desired]
<1>1. At("scheme") /\ Call(accepted, after, Goto(next))
  BY DEF ReconcileAuthSchemes
<1>2. ResourceAccepted(cache.config[n], store.config[n], desired, NoSuchConfig)
        => cache.config[n] = store.config[n] \/ desired = NoSuchConfig
  BY DEF ResourceAccepted, UpdateAccepted
<1>3. desired # NoSuchConfig
  <2>1. cache.config[n] \in AuthConfig
    BY <1>1, TypeParts, GetTypes, NameTypes DEF At
  <2>2. desired.live = TRUE
    BY <2>1 DEF alwaysUpdateAuthConfig, AuthConfig
  <2> QED BY <2>2 DEF NoSuchConfig
<1>4. cache.config[n] = store.config[n] => desired = WithScheme(n)
  BY DEF alwaysUpdateAuthConfig, WithScheme
<1> HIDE DEF n, next, desired, exists, accepted, after
<1>5. /\ \/ accepted /\ store' = after /\ (Goto(next) \/ Fail)
         \/ store' = store /\ Fail
      /\ faults' = faults \/ (faults > 0 /\ faults' = faults - 1)
  BY <1>1, CallEffect
<1> QED BY <1>1, <1>2, <1>3, <1>4, <1>5 DEF Stepped, accepted, after, n, next

\* The status a reconciliation without or with an error ends with.
NewStatus ==
    [wk.ap EXCEPT !.observed = TRUE,
                  !.available = availableCondition(cache.config[authConfigName[wk.p]])]

LEMMA StatusEffect ==
    ASSUME ReconcileStatus
    PROVE  /\ Stepped("status")
           /\ \/ store' = store /\ Requeue
              \/ store' = store /\ NewStatus = wk.ap /\ ~wk.err /\ Goto(Idle)
              \/ /\ store.policy[wk.p] = wk.ap
                 /\ store' = [store EXCEPT !.policy[wk.p] = NewStatus]
                 /\ Requeue \/ (~wk.err /\ Goto(Idle))
<1> DEFINE after  == [store EXCEPT !.policy[wk.p] = NewStatus]
           Finish == IF wk.err THEN Requeue ELSE Goto(Idle)
<1>1. At("status")
  BY DEF ReconcileStatus
<1>2. \/ Abort
      \/ NewStatus = wk.ap /\ Finish /\ UNCHANGED <<store, faults>>
      \/ Call(UpdateAccepted(store.policy[wk.p], wk.ap), after, Finish)
  BY DEF ReconcileStatus, NewStatus
<1>3. Fail => Requeue
  BY <1>1 DEF Fail, At, SpecStages
<1>4. Finish => Requeue \/ (~wk.err /\ Goto(Idle))
  OBVIOUS
<1> HIDE DEF after, Finish
<1>5. CASE Abort
  BY <1>1, <1>3, <1>5 DEF Abort, Stepped
<1>6. CASE NewStatus = wk.ap /\ Finish /\ UNCHANGED <<store, faults>>
  BY <1>1, <1>4, <1>6 DEF Stepped
<1>7. CASE Call(UpdateAccepted(store.policy[wk.p], wk.ap), after, Finish)
  <2>1. /\ \/ UpdateAccepted(store.policy[wk.p], wk.ap) /\ store' = after /\ (Finish \/ Fail)
           \/ store' = store /\ Fail
        /\ faults' = faults \/ (faults > 0 /\ faults' = faults - 1)
    BY <1>7, CallEffect
  <2> QED BY <1>1, <1>3, <1>4, <2>1 DEF Stepped, UpdateAccepted, after
<1> QED BY <1>2, <1>5, <1>6, <1>7

LEMMA RemoveRulesEffect ==
    ASSUME NEW key, RemoveIstioAuthPolicy(key)
    PROVE  LET n == getAuthPolicyName(key[1], wk.ap.target)
           IN  /\ Stepped("finIAP")
               /\ \/ store' = store /\ Fail
                  \/ store' = [store EXCEPT !.iap[n] = NoSuchIAP] /\ (Goto(Visited(key)) \/ Fail)
<1> DEFINE n     == getAuthPolicyName(key[1], wk.ap.target)
           after == [store EXCEPT !.iap[n] = NoSuchIAP]
<1>1. At("finIAP") /\ Call(store.iap[n].live, after, Goto(Visited(key)))
  BY DEF RemoveIstioAuthPolicy
<1> HIDE DEF n, after
<1>2. /\ \/ store' = after /\ (Goto(Visited(key)) \/ Fail)
         \/ store' = store /\ Fail
      /\ faults' = faults \/ (faults > 0 /\ faults' = faults - 1)
  BY <1>1, CallEffect
<1> QED BY <1>1, <1>2 DEF Stepped, n, after

LEMMA RemoveSchemesEffect ==
    ASSUME RemoveAuthSchemes
    PROVE  /\ Stepped("finScheme")
           /\ \/ store' = store /\ Fail
              \/ /\ store' = [store EXCEPT !.config[authConfigName[wk.p]] = NoSuchConfig]
                 /\ Goto([wk EXCEPT !.pc = "finBackRef"]) \/ Fail
<1> DEFINE next  == [wk EXCEPT !.pc = "finBackRef"]
           after == [store EXCEPT !.config[authConfigName[wk.p]] = NoSuchConfig]
<1>1. At("finScheme") /\ Call(TRUE, after, Goto(next))
  BY DEF RemoveAuthSchemes
<1> HIDE DEF next, after
<1>2. /\ \/ store' = after /\ (Goto(next) \/ Fail)
         \/ store' = store /\ Fail
      /\ faults' = faults \/ (faults > 0 /\ faults' = faults - 1)
  BY <1>1 DEF Call, Abort
<1> QED BY <1>1, <1>2 DEF Stepped, next, after

LEMMA DeleteBackReferenceEffect ==
    ASSUME DeleteNetworkResourceBackReference
    PROVE  LET t    == wk.ap.target
               next == [wk EXCEPT !.pc = "finRemove"]
           IN  /\ Stepped("finBackRef")
               /\ \/ store' = store /\ Fail
                  \/ t \notin Unsupported /\ ~TargetLive(cache, t) /\ store' = store /\ Goto(next)
                  \/ /\ FetchValidTargetRef(cache, t) /\ BackRef(cache, t) = NoPolicy
                     /\ store' = store /\ Goto(next)
                  \/ /\ FetchValidTargetRef(cache, t) /\ BackRefWritten(t, NoPolicy)
                     /\ Goto(next) \/ Fail
<1> DEFINE t     == wk.ap.target
           next  == [wk EXCEPT !.pc = "finRemove"]
           valid == FetchValidTargetRef(cache, t)
           gone  == t \notin Unsupported /\ ~TargetLive(cache, t)
<1>1. At("finBackRef")
  BY DEF DeleteNetworkResourceBackReference
<1>2. \/ Abort
      \/ gone /\ Advance(next)
      \/ valid /\ BackRef(cache, t) = NoPolicy /\ Advance(next)
      \/ valid /\ Call(TargetUpdateAccepted(t), WithBackRef(t, NoPolicy), Goto(next))
  BY DEF DeleteNetworkResourceBackReference
<1>3. valid => t \in Routes \cup Gateways
  BY DEF FetchValidTargetRef
<1> HIDE DEF t, next, valid, gone
<1>4. CASE Abort
  BY <1>1, <1>4, AbortEffect DEF Stepped, t, next
<1>5. CASE gone /\ Advance(next)
  <2>1. store' = store /\ faults' = faults /\ Goto(next)
    BY <1>5, AdvanceEffect
  <2> QED BY <1>1, <1>5, <2>1 DEF Stepped, t, next, gone
<1>6. CASE valid /\ BackRef(cache, t) = NoPolicy /\ Advance(next)
  <2>1. store' = store /\ faults' = faults /\ Goto(next)
    BY <1>6, AdvanceEffect
  <2> QED BY <1>1, <1>6, <2>1 DEF Stepped, t, next, valid
<1>7. CASE valid /\ Call(TargetUpdateAccepted(t), WithBackRef(t, NoPolicy), Goto(next))
  <2>1. /\ \/ TargetUpdateAccepted(t) /\ store' = WithBackRef(t, NoPolicy) /\ (Goto(next) \/ Fail)
           \/ store' = store /\ Fail
        /\ faults' = faults \/ (faults > 0 /\ faults' = faults - 1)
    BY <1>7, CallEffect
  <2>2. Stepped("finBackRef")
    BY <1>1, <2>1 DEF Stepped
  <2>3. TargetUpdateAccepted(t) /\ store' = WithBackRef(t, NoPolicy) => BackRefWritten(t, NoPolicy)
    BY <1>3, <1>7, BackRefAccepted
  <2> QED BY <1>7, <2>1, <2>2, <2>3 DEF t, next, valid
<1> QED BY <1>2, <1>4, <1>5, <1>6, <1>7

LEMMA RemoveFinalizerEffect ==
    ASSUME RemoveFinalizer
    PROVE  /\ Stepped("finRemove")
           /\ \/ store' = store /\ Fail
              \/ ~store.policy[wk.p].live /\ store' = store /\ Goto(Idle)
              \/ /\ store.policy[wk.p].live /\ store.policy[wk.p] = wk.ap
                 /\ store' = [store EXCEPT !.policy[wk.p] = NoSuchAuthPolicy]
                 /\ Goto(Idle) \/ Fail
<1> DEFINE after == [store EXCEPT !.policy[wk.p] = NoSuchAuthPolicy]
<1>1. At("finRemove")
  BY DEF RemoveFinalizer
<1>2. \/ ~store.policy[wk.p].live /\ Advance(Idle)
      \/ /\ store.policy[wk.p].live
         /\ Call(UpdateAccepted(store.policy[wk.p], wk.ap), after, Goto(Idle))
  BY DEF RemoveFinalizer
<1> HIDE DEF after
<1>3. CASE ~store.policy[wk.p].live /\ Advance(Idle)
  BY <1>1, <1>3, AdvanceEffect DEF Stepped
<1>4. CASE /\ store.policy[wk.p].live
           /\ Call(UpdateAccepted(store.policy[wk.p], wk.ap), after, Goto(Idle))
  <2>1. /\ \/ UpdateAccepted(store.policy[wk.p], wk.ap) /\ store' = after /\ (Goto(Idle) \/ Fail)
           \/ store' = store /\ Fail
        /\ faults' = faults \/ (faults > 0 /\ faults' = faults - 1)
    BY <1>4, CallEffect
  <2> QED BY <1>1, <1>4, <2>1 DEF UpdateAccepted, Stepped, after
<1> QED BY <1>2, <1>3, <1>4

LEMMA RestartEffect ==
    ASSUME Crash \/ Panic
    PROVE  /\ wk.pc # "idle" /\ Restart
           /\ faults' = faults \/ (faults > 0 /\ faults' = faults - 1)
BY DEF Crash, Panic

-----------------------------------------------------------------------------
(* What the environment does.                                              *)

\* A policy appears, or is changed by its user, or goes at once.
PolicyEdited(p) ==
    \E x \in AuthPolicy :
        /\ store' = [store EXCEPT !.policy[p] = x]
        /\ \/ /\ ~store.policy[p].live
              /\ x.live /\ ~x.deleting /\ ~x.finalizer /\ x.target \in TargetsOf[p]
           \/ /\ store.policy[p].live
              /\ x.live /\ x.finalizer = store.policy[p].finalizer
              /\ x.target = store.policy[p].target \/ "retarget" \in Edits
              /\ store.policy[p].deleting => x.deleting
              /\ x.deleting => store.policy[p].deleting \/ store.policy[p].finalizer
           \/ /\ store.policy[p].live /\ ~store.policy[p].finalizer
              /\ x = NoSuchAuthPolicy /\ "deleteUnmarked" \in Edits

\* A target changes under its annotation, or appears or goes with it.
TargetEdited(old, new) ==
    \/ new.live = old.live /\ new.backref = old.backref
    \/ new.live = ~old.live /\ new.backref = NoPolicy

RouteEdited(r) ==
    \E x \in Route : store' = [store EXCEPT !.route[r] = x] /\ TargetEdited(store.route[r], x)

GatewayEdited(g) ==
    \E x \in Gateway : store' = [store EXCEPT !.gateway[g] = x] /\ TargetEdited(store.gateway[g], x)

ConfigEdited(n) ==
    \E x \in AuthConfig : /\ store' = [store EXCEPT !.config[n] = x]
                          /\ x.live = store.config[n].live /\ x.spec = store.config[n].spec

LEMMA EditPoliciesEffect ==
    ASSUME TypeInv, EditPolicies
    PROVE  \E p \in Policies : PolicyEdited(p)
<1>0. \A p \in Policies : store.policy[p] \in AuthPolicy
  BY TypeParts, GetTypes
<1>1. ASSUME NEW p \in Policies, NEW t \in TargetsOf[p], NEW s \in Specs, CreatePolicy(p, t, s)
      PROVE  PolicyEdited(p)
  <2> DEFINE x == NewAuthPolicy(t, s)
  <2>1. t \in Targets
    BY ClusterAssumption
  <2>2. x \in AuthPolicy /\ x.live /\ ~x.deleting /\ ~x.finalizer /\ x.target = t
    BY <2>1, AbsentTypes DEF NewAuthPolicy, NoSuchAuthPolicy, AuthPolicy
  <2> HIDE DEF x
  <2>3. ~store.policy[p].live /\ store' = [store EXCEPT !.policy[p] = x]
    BY <1>1 DEF CreatePolicy, Edit, x
  <2> QED BY <2>2, <2>3 DEF PolicyEdited
<1>2. ASSUME NEW p \in Policies, NEW s \in Specs, EditSpec(p, s)
      PROVE  PolicyEdited(p)
  <2> DEFINE x == [store.policy[p] EXCEPT !.spec = s, !.observed = FALSE]
  <2>1. /\ x \in AuthPolicy /\ x.live = store.policy[p].live
        /\ x.finalizer = store.policy[p].finalizer
        /\ x.target = store.policy[p].target
        /\ x.deleting = store.policy[p].deleting
    BY <1>0 DEF AuthPolicy
  <2>2. store.policy[p].live /\ store' = [store EXCEPT !.policy[p] = x]
    BY <1>2 DEF EditSpec, Edit
  <2> HIDE DEF x
  <2> QED BY <2>1, <2>2 DEF PolicyEdited
<1>3. ASSUME NEW p \in Policies, NEW t \in TargetsOf[p], Retarget(p, t)
      PROVE  PolicyEdited(p)
  <2> DEFINE x == [store.policy[p] EXCEPT !.target = t, !.observed = FALSE]
  <2>1. t \in Targets
    BY ClusterAssumption
  <2>2. /\ x \in AuthPolicy /\ x.live = store.policy[p].live
        /\ x.finalizer = store.policy[p].finalizer
        /\ x.deleting = store.policy[p].deleting
    BY <1>0, <2>1 DEF AuthPolicy
  <2>3. store.policy[p].live /\ store' = [store EXCEPT !.policy[p] = x] /\ "retarget" \in Edits
    BY <1>3 DEF Retarget, Edit
  <2> HIDE DEF x
  <2> QED BY <2>2, <2>3 DEF PolicyEdited
<1>4. ASSUME NEW p \in Policies, DeletePolicy(p)
      PROVE  PolicyEdited(p)
  <2> DEFINE x == [store.policy[p] EXCEPT !.deleting = TRUE, !.observed = FALSE]
  <2>1. /\ x \in AuthPolicy /\ x.live = store.policy[p].live
        /\ x.finalizer = store.policy[p].finalizer
        /\ x.target = store.policy[p].target /\ x.deleting
    BY <1>0 DEF AuthPolicy
  <2>2. /\ store.policy[p].live /\ store.policy[p].finalizer
        /\ store' = [store EXCEPT !.policy[p] = x]
    BY <1>4 DEF DeletePolicy, Edit
  <2> HIDE DEF x
  <2> QED BY <2>1, <2>2 DEF PolicyEdited
<1>5. ASSUME NEW p \in Policies, DeleteUnmarkedPolicy(p)
      PROVE  PolicyEdited(p)
  BY <1>5, AbsentTypes DEF DeleteUnmarkedPolicy, Edit, PolicyEdited
<1> QED BY <1>1, <1>2, <1>3, <1>4, <1>5 DEF EditPolicies


LEMMA EditRoutesEffect ==
    ASSUME TypeInv, EditRoutes
    PROVE  \E r \in Routes : RouteEdited(r)
<1>0. store \in AuthCluster /\ \A r \in Routes : store.route[r] \in Route
  BY TypeParts, GetTypes
<1>1. ASSUME NEW r \in Routes, NEW ps \in ParentsOf[r], NEW hs \in HostLists, CreateRoute(r, ps, hs)
      PROVE  RouteEdited(r)
  <2> DEFINE x == [NoSuchRoute EXCEPT !.live = TRUE, !.parents = ps, !.hosts = hs]
  <2>1. ps \in SUBSET Gateways /\ hs \in SUBSET Hostnames
    BY ClusterAssumption
  <2>2. x \in Route /\ x.live = TRUE /\ x.backref = NoPolicy
    BY <2>1 DEF NoSuchRoute, Route
  <2> HIDE DEF x
  <2>3. ~store.route[r].live /\ store' = [store EXCEPT !.route[r] = x]
    BY <1>1 DEF CreateRoute, Edit, x
  <2> QED BY <2>2, <2>3 DEF RouteEdited, TargetEdited
<1>2. ASSUME NEW r \in Routes, DeleteRoute(r)
      PROVE  RouteEdited(r)
  <2>1. store.route[r].live = TRUE /\ store' = [store EXCEPT !.route[r] = NoSuchRoute]
    BY <1>0, <1>2 DEF DeleteRoute, Edit, Route
  <2>2. NoSuchRoute.live = FALSE /\ NoSuchRoute.backref = NoPolicy
    BY DEF NoSuchRoute
  <2> QED BY <2>1, <2>2, AbsentTypes DEF RouteEdited, TargetEdited
<1>3. ASSUME NEW r \in Routes, NEW ps \in ParentsOf[r], EditParents(r, ps)
      PROVE  RouteEdited(r)
  <2> DEFINE x == [store.route[r] EXCEPT !.parents = ps]
  <2>1. ps \in SUBSET Gateways
    BY ClusterAssumption
  <2>2. x \in Route /\ x.live = store.route[r].live /\ x.backref = store.route[r].backref
    BY <1>0, <2>1 DEF Route
  <2>3. store' = [store EXCEPT !.route[r] = x]
    BY <1>3 DEF EditParents, Edit
  <2> HIDE DEF x
  <2> QED BY <2>2, <2>3 DEF RouteEdited, TargetEdited
<1>4. ASSUME NEW r \in Routes, NEW hs \in HostLists, EditRouteHosts(r, hs)
      PROVE  RouteEdited(r)
  <2> DEFINE x == [store.route[r] EXCEPT !.hosts = hs]
  <2>1. hs \in SUBSET Hostnames
    BY ClusterAssumption
  <2>2. x \in Route /\ x.live = store.route[r].live /\ x.backref = store.route[r].backref
    BY <1>0, <2>1 DEF Route
  <2>3. store' = [store EXCEPT !.route[r] = x]
    BY <1>4 DEF EditRouteHosts, Edit
  <2> HIDE DEF x
  <2> QED BY <2>2, <2>3 DEF RouteEdited, TargetEdited
<1>5. ASSUME NEW r \in Routes, NEW gs \in SUBSET Gateways, SetRejecting(r, gs)
      PROVE  RouteEdited(r)
  <2> DEFINE x == [store.route[r] EXCEPT !.rejecting = gs]
  <2>1. x \in Route /\ x.live = store.route[r].live /\ x.backref = store.route[r].backref
    BY <1>0 DEF Route
  <2>2. store' = [store EXCEPT !.route[r] = x]
    BY <1>5 DEF SetRejecting, Edit
  <2> HIDE DEF x
  <2> QED BY <2>1, <2>2 DEF RouteEdited, TargetEdited
<1> QED BY <1>1, <1>2, <1>3, <1>4, <1>5 DEF EditRoutes

LEMMA EditGatewaysEffect ==
    ASSUME TypeInv, EditGateways
    PROVE  \E g \in Gateways : GatewayEdited(g)
<1>0. store \in AuthCluster /\ \A g \in Gateways : store.gateway[g] \in Gateway
  BY TypeParts, GetTypes
<1>1. ASSUME NEW g \in Gateways, NEW hs \in HostLists, CreateGateway(g, hs)
      PROVE  GatewayEdited(g)
  <2> DEFINE x == [NoSuchGateway EXCEPT !.live = TRUE, !.ready = TRUE, !.hosts = hs]
  <2>1. hs \in SUBSET Hostnames
    BY ClusterAssumption
  <2>2. x \in Gateway /\ x.live = TRUE /\ x.backref = NoPolicy
    BY <2>1 DEF NoSuchGateway, Gateway
  <2> HIDE DEF x
  <2>3. ~store.gateway[g].live /\ store' = [store EXCEPT !.gateway[g] = x]
    BY <1>1 DEF CreateGateway, Edit, x
  <2> QED BY <2>2, <2>3 DEF GatewayEdited, TargetEdited
<1>2. ASSUME NEW g \in Gateways, DeleteGateway(g)
      PROVE  GatewayEdited(g)
  <2>1. store.gateway[g].live = TRUE /\ store' = [store EXCEPT !.gateway[g] = NoSuchGateway]
    BY <1>0, <1>2 DEF DeleteGateway, Edit, Gateway
  <2>2. NoSuchGateway.live = FALSE /\ NoSuchGateway.backref = NoPolicy
    BY DEF NoSuchGateway
  <2> QED BY <2>1, <2>2, AbsentTypes DEF GatewayEdited, TargetEdited
<1>3. ASSUME NEW g \in Gateways, NEW hs \in HostLists, EditGatewayHosts(g, hs)
      PROVE  GatewayEdited(g)
  <2> DEFINE x == [store.gateway[g] EXCEPT !.hosts = hs]
  <2>1. hs \in SUBSET Hostnames
    BY ClusterAssumption
  <2>2. x \in Gateway /\ x.live = store.gateway[g].live /\ x.backref = store.gateway[g].backref
    BY <1>0, <2>1 DEF Gateway
  <2>3. store' = [store EXCEPT !.gateway[g] = x]
    BY <1>3 DEF EditGatewayHosts, Edit
  <2> HIDE DEF x
  <2> QED BY <2>2, <2>3 DEF GatewayEdited, TargetEdited
<1>4. ASSUME NEW g \in Gateways, NEW b \in BOOLEAN, SetReady(g, b)
      PROVE  GatewayEdited(g)
  <2> DEFINE x == [store.gateway[g] EXCEPT !.ready = b]
  <2>1. x \in Gateway /\ x.live = store.gateway[g].live /\ x.backref = store.gateway[g].backref
    BY <1>0 DEF Gateway
  <2>2. store' = [store EXCEPT !.gateway[g] = x]
    BY <1>4 DEF SetReady, Edit
  <2> HIDE DEF x
  <2> QED BY <2>1, <2>2 DEF GatewayEdited, TargetEdited
<1> QED BY <1>1, <1>2, <1>3, <1>4 DEF EditGateways

LEMMA OthersEffect ==
    ASSUME TypeInv, Others
    PROVE  \/ \E n \in ConfigNames : ConfigEdited(n)
           \/ \E g \in Gateways : GatewayEdited(g)
<1>0. /\ store \in AuthCluster
      /\ \A g \in Gateways : store.gateway[g] \in Gateway
      /\ \A n \in ConfigNames : store.config[n] \in AuthConfig
  BY TypeParts, GetTypes
<1>1. ASSUME NEW n \in ConfigNames, NEW b \in BOOLEAN, SetConfigReady(n, b)
      PROVE  ConfigEdited(n)
  <2> DEFINE x == [store.config[n] EXCEPT !.ready = b]
  <2>1. x \in AuthConfig /\ x.live = store.config[n].live /\ x.spec = store.config[n].spec
    BY <1>0 DEF AuthConfig
  <2>2. store' = [store EXCEPT !.config[n] = x]
    BY <1>1 DEF SetConfigReady, Edit
  <2> HIDE DEF x
  <2> QED BY <2>1, <2>2 DEF ConfigEdited
<1>2. ASSUME NEW g \in Gateways, NEW R \in SUBSET Policies, AnnotateGateway(g, R)
      PROVE  GatewayEdited(g)
  <2> DEFINE x == [store.gateway[g] EXCEPT !.refs = R]
  <2>1. x \in Gateway /\ x.live = store.gateway[g].live /\ x.backref = store.gateway[g].backref
    BY <1>0 DEF Gateway
  <2>2. store' = [store EXCEPT !.gateway[g] = x]
    BY <1>2 DEF AnnotateGateway, Edit
  <2> HIDE DEF x
  <2> QED BY <2>1, <2>2 DEF GatewayEdited, TargetEdited
<1> QED BY <1>1, <1>2 DEF Others

\* One object is edited while nothing else happens.
LEMMA EnvironmentEffect ==
    ASSUME TypeInv, Environment
    PROVE  /\ UNCHANGED <<wk, faults, cache, queue>>
           /\ Settled /\ edits' \in Nat
           /\ \/ \E p \in Policies : PolicyEdited(p)
              \/ \E r \in Routes : RouteEdited(r)
              \/ \E g \in Gateways : GatewayEdited(g)
              \/ \E n \in ConfigNames : ConfigEdited(n)
<1>1. UNCHANGED <<wk, faults>> /\ edits \in Nat
  BY TypeParts DEF Environment
<1>2. Settled /\ edits > 0 /\ edits' = edits - 1 /\ UNCHANGED <<cache, queue>>
  BY DEF Environment, EditPolicies, EditRoutes, EditGateways, Others, CreatePolicy, EditSpec,
         Retarget, DeletePolicy, DeleteUnmarkedPolicy, CreateRoute, DeleteRoute, EditParents,
         EditRouteHosts, SetRejecting, CreateGateway, DeleteGateway, EditGatewayHosts, SetReady,
         SetConfigReady, AnnotateGateway, Edit
<1>3. edits' \in Nat
  BY <1>1, <1>2
<1> QED BY <1>1, <1>2, <1>3, EditPoliciesEffect, EditRoutesEffect, EditGatewaysEffect, OthersEffect
        DEF Environment

-----------------------------------------------------------------------------
(* Type correctness.                                                       *)

WorkerTyped ==
    /\ wk' \in Worker
    /\ wk'.pc # "idle" => wk'.p \in Policies
    /\ queue' \in SUBSET Policies

LEMMA IdleType == Idle \in Worker /\ Idle.pc = "idle"
BY AbsentTypes DEF Idle, Worker, Stages, Rules

LEMMA FailTyped ==
    ASSUME TypeInv, wk.pc # "idle"
    PROVE  Fail \/ Requeue \/ Goto(Idle) => WorkerTyped
<1>1. wk \in Worker /\ wk.p \in Policies /\ queue \in SUBSET Policies
  BY TypeParts
<1>2. Requeue \/ Goto(Idle) => WorkerTyped
  BY <1>1, IdleType DEF Requeue, Goto, WorkerTyped
<1> DEFINE next == [wk EXCEPT !.pc = "status", !.err = TRUE]
<1>3. next \in Worker /\ next.p = wk.p
  BY <1>1 DEF Worker, Stages
<1>4. Goto(next) => WorkerTyped
  <2> HIDE DEF next
  <2> QED BY <1>1, <1>3 DEF Goto, WorkerTyped
<1>5. Fail => Goto(next) \/ Requeue
  BY DEF Fail
<1> QED BY <1>2, <1>4, <1>5

\* Going on to another stage with new rules and loop, or with the finalizer.
LEMMA GotoTyped ==
    ASSUME TypeInv, wk.pc # "idle"
    PROVE  /\ \A pc \in Stages : Goto([wk EXCEPT !.pc = pc]) => WorkerTyped
           /\ \A pc \in Stages, todo \in SUBSET (Gateways \X Nat) :
                 Goto([wk EXCEPT !.pc = pc, !.todo = todo]) => WorkerTyped
           /\ \A pc \in Stages, todo \in SUBSET (Gateways \X Nat), rules \in Rules :
                 Goto([wk EXCEPT !.pc = pc, !.rules = rules, !.todo = todo]) => WorkerTyped
           /\ \A key : Goto(Visited(key)) => WorkerTyped
           /\ Goto(Finalized) => WorkerTyped
<1>1. wk \in Worker /\ wk.p \in Policies /\ queue \in SUBSET Policies /\ wk.ap \in AuthPolicy
  BY TypeParts
<1>2. \A next \in Worker : next.p = wk.p /\ Goto(next) => WorkerTyped
  BY <1>1 DEF Goto, WorkerTyped
<1>3. \A pc \in Stages : /\ [wk EXCEPT !.pc = pc] \in Worker
                         /\ [wk EXCEPT !.pc = pc].p = wk.p
  BY <1>1 DEF Worker
<1>4. \A pc \in Stages, todo \in SUBSET (Gateways \X Nat) :
        /\ [wk EXCEPT !.pc = pc, !.todo = todo] \in Worker
        /\ [wk EXCEPT !.pc = pc, !.todo = todo].p = wk.p
  BY <1>1 DEF Worker
<1>5. \A pc \in Stages, todo \in SUBSET (Gateways \X Nat), rules \in Rules :
        /\ [wk EXCEPT !.pc = pc, !.rules = rules, !.todo = todo] \in Worker
        /\ [wk EXCEPT !.pc = pc, !.rules = rules, !.todo = todo].p = wk.p
  BY <1>1 DEF Worker
<1>6. \A key : Visited(key) \in Worker /\ Visited(key).p = wk.p
  BY <1>1 DEF Worker, Visited
<1>7. Finalized \in Worker /\ Finalized.p = wk.p
  BY <1>1 DEF Worker, Finalized, Stages, SpecStages, AuthPolicy
<1>8. \A key : Goto(Visited(key)) => WorkerTyped
  BY <1>2, <1>6, Zenon
<1>9. Goto(Finalized) => WorkerTyped
  BY <1>2, <1>7, Zenon
<1>10. \A pc \in Stages : Goto([wk EXCEPT !.pc = pc]) => WorkerTyped
  BY <1>2, <1>3, Zenon
<1>11. \A pc \in Stages, todo \in SUBSET (Gateways \X Nat) :
         Goto([wk EXCEPT !.pc = pc, !.todo = todo]) => WorkerTyped
  BY <1>2, <1>4, Zenon
<1>12. \A pc \in Stages, todo \in SUBSET (Gateways \X Nat), rules \in Rules :
         Goto([wk EXCEPT !.pc = pc, !.rules = rules, !.todo = todo]) => WorkerTyped
  BY <1>2, <1>5, Zenon
<1> QED BY <1>8, <1>9, <1>10, <1>11, <1>12

\* What the worker computes from its copies.
LEMMA ComputedTypes ==
    ASSUME TypeInv
    PROVE  /\ AuthRules(cache, wk.ap.target, wk.ap.spec) \in Rules
           /\ GatewayKeys(cache, wk.ap.target) \in SUBSET (Gateways \X Nat)
<1>1. cache \in AuthCluster /\ wk.ap \in AuthPolicy
  BY TypeParts
<1>2. \A r \in Routes : /\ cache.route[r].hosts \in SUBSET Hostnames
                        /\ cache.route[r].parents \in SUBSET Gateways
  BY <1>1, GetTypes DEF Route
<1>3. TargetedGatewayKeys(cache, wk.ap.target) \subseteq Gateways
  BY <1>2 DEF TargetedGatewayKeys
<1>4. \A r \in Routes : Sections[r] \subseteq Nat
  BY ClusterAssumption
<1>5. GatewayKeys(cache, wk.ap.target) \in SUBSET (Gateways \X Nat)
  BY <1>3, <1>4 DEF GatewayKeys
<1>6. wk.ap.spec \in Specs \cup {None}
  BY <1>1 DEF AuthPolicy
<1>7. \A r \in Routes : OrWildcard(cache.route[r].hosts) \in SUBSET Hostnames
  BY <1>2, ClusterAssumption DEF OrWildcard
<1>8. AuthRules(cache, wk.ap.target, wk.ap.spec) \in Rules
  BY <1>6, <1>7, AuthAssumption DEF AuthRules, Rules
<1> QED BY <1>5, <1>8

LEMMA BackRefWrittenType ==
    ASSUME TypeInv, NEW t, NEW p \in Policies \cup {NoPolicy}, BackRefWritten(t, p)
    PROVE  store' \in AuthCluster
<1>1. store \in AuthCluster
  BY TypeParts
<1>2. CASE t \in Routes /\ store' = [store EXCEPT !.route[t] = [store.route[t] EXCEPT !.backref = p]]
  <2>1. [store.route[t] EXCEPT !.backref = p] \in Route
    BY <1>1, <1>2, GetTypes DEF Route
  <2> QED BY <1>1, <1>2, <2>1, PutRoute
<1>3. CASE t \in Gateways /\ store' = [store EXCEPT !.gateway[t] = [store.gateway[t] EXCEPT !.backref = p]]
  <2>1. [store.gateway[t] EXCEPT !.backref = p] \in Gateway
    BY <1>1, <1>3, GetTypes DEF Gateway
  <2> QED BY <1>1, <1>3, <2>1, PutGateway
<1> QED BY <1>2, <1>3 DEF BackRefWritten

LEMMA WrittenTypes ==
    ASSUME TypeInv, wk.pc # "idle"
    PROVE  /\ Finalized.ap \in AuthPolicy
           /\ NewStatus \in AuthPolicy
           /\ \A key \in wk.todo : LET n == getAuthPolicyName(key[1], wk.ap.target)
                                  IN  WithRules(n) \in AuthorizationPolicy
           /\ WithScheme(authConfigName[wk.p]) \in AuthConfig
<1>1. wk \in Worker /\ wk.ap \in AuthPolicy /\ store \in AuthCluster
  BY TypeParts
<1>2. Finalized.ap \in AuthPolicy
  BY <1>1 DEF Finalized, Worker, AuthPolicy
<1>3. NewStatus \in AuthPolicy
  BY <1>1 DEF NewStatus, availableCondition, AuthPolicy
<1>4. \A n \in IAPNames : WithRules(n) \in AuthorizationPolicy
  BY <1>1, GetTypes DEF WithRules, AuthorizationPolicy, Worker
<1>5. \A n \in ConfigNames : WithScheme(n) \in AuthConfig
  <2> TAKE n \in ConfigNames
  <2>1. store.config[n] \in AuthConfig /\ wk.ap.spec \in Specs \cup {None}
    BY <1>1, GetTypes DEF AuthPolicy
  <2> QED BY <2>1 DEF WithScheme, AuthConfig
<1> QED BY <1>2, <1>3, <1>4, <1>5, NameTypes

LEMMA WorkTyped ==
    ASSUME TypeInv, Work
    PROVE  /\ store' \in AuthCluster /\ WorkerTyped
           /\ cache' = cache /\ edits' = edits /\ faults' \in Nat
<1> DEFINE Typed == /\ store' \in AuthCluster /\ WorkerTyped
                    /\ cache' = cache /\ edits' = edits /\ faults' \in Nat
<1>0. store \in AuthCluster /\ faults \in Nat
  BY TypeParts
<1>1. \A pc \in Stages \ {"idle"} :
        Stepped(pc) => /\ wk.pc # "idle" /\ wk.p \in Policies
                       /\ cache' = cache /\ edits' = edits /\ faults' \in Nat
  BY <1>0, TypeParts DEF Stepped, At
<1>2. /\ SpecStages \subseteq Stages
      /\ {"addFinalizer", "backRef", "rules", "iap", "scheme", "status", "finRules", "finIAP",
          "finScheme", "finBackRef", "finRemove"} \subseteq Stages \ {"idle"}
  BY DEF Stages, SpecStages
<1>3. CASE AddFinalizer
  <2>1. wk.pc # "idle" /\ wk.p \in Policies
    BY <1>1, <1>2, <1>3, AddFinalizerEffect
  <2>2. store' = store \/ store' = [store EXCEPT !.policy[wk.p] = Finalized.ap]
    BY <1>3, AddFinalizerEffect
  <2>3. store' \in AuthCluster
    BY <1>0, <2>1, <2>2, WrittenTypes, PutPolicy
  <2>4. WorkerTyped
    BY <1>3, <2>1, AddFinalizerEffect, FailTyped, GotoTyped
  <2> QED BY <1>1, <1>2, <1>3, <2>3, <2>4, AddFinalizerEffect
<1>4. CASE ReconcileNetworkResourceBackReference
  <2>0. wk.pc # "idle" /\ wk.p \in Policies
    BY <1>1, <1>2, <1>4, BackReferenceEffect
  <2>1. store' = store \/ BackRefWritten(wk.ap.target, wk.p)
    BY <1>4, BackReferenceEffect
  <2>2. store' \in AuthCluster
    BY <1>0, <2>0, <2>1, BackRefWrittenType
  <2>3. WorkerTyped
    BY <1>2, <1>4, <2>0, BackReferenceEffect, FailTyped, GotoTyped
  <2> QED BY <1>1, <1>2, <1>4, <2>2, <2>3, BackReferenceEffect
<1>5. CASE ComputeAuthRules
  <2>0. wk.pc # "idle"
    BY <1>1, <1>2, <1>5, ComputeRulesEffect
  <2>1. WorkerTyped
    BY <1>2, <1>5, <2>0, ComputeRulesEffect, ComputedTypes, FailTyped, GotoTyped
  <2> QED BY <1>0, <1>1, <1>2, <1>5, <2>1, ComputeRulesEffect
<1>6. ASSUME NEW key \in wk.todo, ReconcileAuthRules(key) PROVE Typed
  <2> DEFINE n == getAuthPolicyName(key[1], wk.ap.target)
  <2>0. wk.pc # "idle" /\ n \in IAPNames
    BY <1>1, <1>2, <1>6, ReconcileRulesEffect, NameTypes
  <2>1. WithRules(n) \in AuthorizationPolicy
    BY <2>0, WrittenTypes
  <2>2. store' \in AuthCluster
    BY <1>0, <1>6, <2>0, <2>1, ReconcileRulesEffect, PutIAP
  <2>3. WorkerTyped
    BY <1>6, <2>0, ReconcileRulesEffect, FailTyped, GotoTyped
  <2> QED BY <1>1, <1>2, <1>6, <2>2, <2>3, ReconcileRulesEffect
<1>7. CASE AuthRulesDone \/ IstioAuthPoliciesRemoved \/ ListIstioAuthPolicies
  <2>0. wk.pc # "idle"
    BY <1>1, <1>2, <1>7, RulesDoneEffect
  <2>1. WorkerTyped
    BY <1>2, <1>7, <2>0, RulesDoneEffect, ComputedTypes, GotoTyped
  <2> QED BY <1>0, <1>1, <1>2, <1>7, <2>1, RulesDoneEffect
<1>8. CASE ReconcileAuthSchemes
  <2> DEFINE n == authConfigName[wk.p]
  <2>0. wk.pc # "idle" /\ n \in ConfigNames
    BY <1>1, <1>2, <1>8, ReconcileSchemesEffect, NameTypes
  <2>1. WithScheme(n) \in AuthConfig
    BY <2>0, WrittenTypes
  <2>2. store' \in AuthCluster
    BY <1>0, <1>8, <2>0, <2>1, ReconcileSchemesEffect, PutConfig
  <2>3. WorkerTyped
    BY <1>2, <1>8, <2>0, ReconcileSchemesEffect, FailTyped, GotoTyped
  <2> QED BY <1>1, <1>2, <1>8, <2>2, <2>3, ReconcileSchemesEffect
<1>9. CASE ReconcileStatus
  <2>1. wk.pc # "idle" /\ wk.p \in Policies
    BY <1>1, <1>2, <1>9, StatusEffect
  <2>2. store' = store \/ store' = [store EXCEPT !.policy[wk.p] = NewStatus]
    BY <1>9, StatusEffect
  <2>3. store' \in AuthCluster
    BY <1>0, <2>1, <2>2, WrittenTypes, PutPolicy
  <2>4. WorkerTyped
    BY <1>9, <2>1, StatusEffect, FailTyped
  <2> QED BY <1>1, <1>2, <1>9, <2>3, <2>4, StatusEffect
<1>10. ASSUME NEW key \in wk.todo, RemoveIstioAuthPolicy(key) PROVE Typed
  <2> DEFINE n == getAuthPolicyName(key[1], wk.ap.target)
  <2>0. wk.pc # "idle" /\ n \in IAPNames
    BY <1>1, <1>2, <1>10, RemoveRulesEffect, NameTypes
  <2>1. store' \in AuthCluster
    BY <1>0, <1>10, <2>0, AbsentTypes, RemoveRulesEffect, PutIAP
  <2>2. WorkerTyped
    BY <1>10, <2>0, RemoveRulesEffect, FailTyped, GotoTyped
  <2> QED BY <1>1, <1>2, <1>10, <2>1, <2>2, RemoveRulesEffect
<1>11. CASE RemoveAuthSchemes
  <2> DEFINE n == authConfigName[wk.p]
  <2>0. wk.pc # "idle" /\ n \in ConfigNames
    BY <1>1, <1>2, <1>11, RemoveSchemesEffect, NameTypes
  <2>1. store' \in AuthCluster
    BY <1>0, <1>11, <2>0, AbsentTypes, RemoveSchemesEffect, PutConfig
  <2>2. WorkerTyped
    BY <1>2, <1>11, <2>0, RemoveSchemesEffect, FailTyped, GotoTyped
  <2> QED BY <1>1, <1>2, <1>11, <2>1, <2>2, RemoveSchemesEffect
<1>12. CASE DeleteNetworkResourceBackReference
  <2>0. wk.pc # "idle"
    BY <1>1, <1>2, <1>12, DeleteBackReferenceEffect
  <2>1. store' = store \/ BackRefWritten(wk.ap.target, NoPolicy)
    BY <1>12, DeleteBackReferenceEffect
  <2>2. store' \in AuthCluster
    BY <1>0, <2>1, BackRefWrittenType
  <2>3. WorkerTyped
    BY <1>2, <1>12, <2>0, DeleteBackReferenceEffect, FailTyped, GotoTyped
  <2> QED BY <1>1, <1>2, <1>12, <2>2, <2>3, DeleteBackReferenceEffect
<1>13. CASE RemoveFinalizer
  <2>1. wk.pc # "idle" /\ wk.p \in Policies
    BY <1>1, <1>2, <1>13, RemoveFinalizerEffect
  <2>2. store' = store \/ store' = [store EXCEPT !.policy[wk.p] = NoSuchAuthPolicy]
    BY <1>13, RemoveFinalizerEffect
  <2>3. store' \in AuthCluster
    BY <1>0, <2>1, <2>2, AbsentTypes, PutPolicy
  <2>4. WorkerTyped
    BY <1>13, <2>1, RemoveFinalizerEffect, FailTyped
  <2> QED BY <1>1, <1>2, <1>13, <2>3, <2>4, RemoveFinalizerEffect
<1> QED BY <1>3, <1>4, <1>5, <1>6, <1>7, <1>8, <1>9, <1>10, <1>11, <1>12, <1>13 DEF Work, Apply, Finalize

LEMMA WatchTyped ==
    ASSUME TypeInv, Watch
    PROVE  cache' \in AuthCluster /\ queue' \in SUBSET Policies
<1>1. store \in AuthCluster /\ cache \in AuthCluster /\ queue \in SUBSET Policies
  BY TypeParts
<1>2. /\ \A r \in Routes : /\ MapToAuthPolicy(cache.route[r]) \subseteq Policies
                           /\ MapToAuthPolicy(store.route[r]) \subseteq Policies
      /\ \A g \in Gateways : /\ MapToAuthPolicy(cache.gateway[g]) \subseteq Policies
                             /\ MapToAuthPolicy(store.gateway[g]) \subseteq Policies
  BY <1>1, GetTypes DEF MapToAuthPolicy, Route, Gateway
<1>3. ASSUME NEW p \in Policies, DeliverPolicy(p)
      PROVE  cache' \in AuthCluster /\ queue' \in SUBSET Policies
  BY <1>1, <1>3, GetTypes, PutPolicy DEF DeliverPolicy
<1>4. ASSUME NEW r \in Routes, DeliverRoute(r)
      PROVE  cache' \in AuthCluster /\ queue' \in SUBSET Policies
  BY <1>1, <1>2, <1>4, GetTypes, PutRoute DEF DeliverRoute
<1>5. ASSUME NEW g \in Gateways, DeliverGateway(g)
      PROVE  cache' \in AuthCluster /\ queue' \in SUBSET Policies
  BY <1>1, <1>2, <1>5, GetTypes, PutGateway DEF DeliverGateway
<1>6. ASSUME NEW n \in IAPNames, DeliverIAP(n)
      PROVE  cache' \in AuthCluster /\ queue' \in SUBSET Policies
  BY <1>1, <1>6, GetTypes, PutIAP DEF DeliverIAP
<1>7. ASSUME NEW n \in ConfigNames, DeliverConfig(n)
      PROVE  cache' \in AuthCluster /\ queue' \in SUBSET Policies
  BY <1>1, <1>7, GetTypes, PutConfig DEF DeliverConfig
<1> QED BY <1>3, <1>4, <1>5, <1>6, <1>7 DEF Watch

LEMMA EnvironmentTyped ==
    ASSUME TypeInv, Environment
    PROVE  store' \in AuthCluster
<1>1. store \in AuthCluster
  BY TypeParts
<1> QED BY <1>1, EnvironmentEffect, PutPolicy, PutRoute, PutGateway, PutConfig
        DEF PolicyEdited, RouteEdited, GatewayEdited, ConfigEdited

LEMMA StartTyped ==
    ASSUME TypeInv, NEW p \in Policies, Start(p)
    PROVE  WorkerTyped /\ store' = store /\ cache' = cache /\ edits' = edits /\ faults' \in Nat
<1>1. /\ cache.policy[p] \in AuthPolicy
      /\ queue \in SUBSET Policies /\ faults \in Nat
  BY TypeParts, GetTypes
<1>2. EntryStage(cache.policy[p]) \in Stages
  BY DEF EntryStage, Stages, SpecStages
<1> DEFINE next == [Idle EXCEPT !.pc = EntryStage(cache.policy[p]), !.p = p, !.ap = cache.policy[p]]
<1>3. next \in Worker /\ next.p = p
  BY <1>1, <1>2, IdleType DEF Worker
<1>4. /\ queue' = queue \ {p} /\ (wk' = Idle \/ wk' = next) /\ Stepped("idle") /\ store' = store
  BY StartEffect
<1> HIDE DEF next
<1>5. WorkerTyped
  BY <1>1, <1>3, <1>4, IdleType DEF WorkerTyped
<1> QED BY <1>1, <1>4, <1>5 DEF Stepped, At

LEMMA InitTypeInv == Init => TypeInv
<1> SUFFICES ASSUME Init PROVE TypeInv
  OBVIOUS
<1>1. PICK S \in SUBSET Policies, ts \in [Policies -> Targets], ss \in [Policies -> Specs],
           ps \in [Routes -> SUBSET Gateways], hs \in [Routes \cup Gateways -> HostLists] :
        /\ store =
              [policy |-> [p \in Policies |->
                             IF p \in S THEN NewAuthPolicy(ts[p], ss[p]) ELSE NoSuchAuthPolicy],
               route |-> [r \in Routes |->
                             [NoSuchRoute EXCEPT !.live = TRUE, !.parents = ps[r], !.hosts = hs[r]]],
               gateway |-> [g \in Gateways |->
                             [NoSuchGateway EXCEPT !.live = TRUE, !.ready = TRUE, !.hosts = hs[g]]],
               iap |-> [n \in IAPNames |-> NoSuchIAP],
               config |-> [n \in ConfigNames |-> NoSuchConfig]]
        /\ queue = S
  BY DEF Init
<1>2. \A t \in Targets, s \in Specs : NewAuthPolicy(t, s) \in AuthPolicy
  BY DEF NewAuthPolicy, NoSuchAuthPolicy, AuthPolicy
<1>3. \A a \in SUBSET Gateways, b \in SUBSET Hostnames :
        [NoSuchRoute EXCEPT !.live = TRUE, !.parents = a, !.hosts = b] \in Route
  BY DEF NoSuchRoute, Route
<1>4. \A b \in SUBSET Hostnames :
        [NoSuchGateway EXCEPT !.live = TRUE, !.ready = TRUE, !.hosts = b] \in Gateway
  BY DEF NoSuchGateway, Gateway
<1>5. [p \in Policies |-> IF p \in S THEN NewAuthPolicy(ts[p], ss[p]) ELSE NoSuchAuthPolicy]
        \in [Policies -> AuthPolicy]
  BY <1>2, AbsentTypes
<1>6. [r \in Routes |-> [NoSuchRoute EXCEPT !.live = TRUE, !.parents = ps[r], !.hosts = hs[r]]]
        \in [Routes -> Route]
  <2>1. \A r \in Routes : ps[r] \in SUBSET Gateways /\ hs[r] \in SUBSET Hostnames
    BY ClusterAssumption
  <2>2. \A r \in Routes : [NoSuchRoute EXCEPT !.live = TRUE, !.parents = ps[r], !.hosts = hs[r]] \in Route
    BY <1>3, <2>1, Zenon
  <2> QED BY <2>2
<1>7. [g \in Gateways |-> [NoSuchGateway EXCEPT !.live = TRUE, !.ready = TRUE, !.hosts = hs[g]]]
        \in [Gateways -> Gateway]
  <2>1. \A g \in Gateways : hs[g] \in SUBSET Hostnames
    BY ClusterAssumption
  <2>2. \A g \in Gateways : [NoSuchGateway EXCEPT !.live = TRUE, !.ready = TRUE, !.hosts = hs[g]] \in Gateway
    BY <1>4, <2>1, Zenon
  <2> QED BY <2>2
<1>8. store \in AuthCluster
  BY <1>1, <1>5, <1>6, <1>7, AbsentTypes DEF AuthCluster
<1>9. cache = store /\ edits = MaxEdits /\ wk = Idle /\ faults = MaxFaults
  BY DEF Init
<1> QED BY <1>1, <1>8, <1>9, IdleType, ClusterAssumption DEF TypeInv, TypeOK, BusyWithPolicy

LEMMA NextTypeInv == TypeInv /\ [Next]_vars => TypeInv'
<1> SUFFICES ASSUME TypeInv, [Next]_vars PROVE TypeInv'
  OBVIOUS
<1> USE DEF TypeInv, TypeOK, BusyWithPolicy, WorkerTyped
<1>1. ASSUME NEW p \in Policies, Start(p) PROVE TypeInv'
  BY <1>1, StartTyped
<1>2. CASE Work
  BY <1>2, WorkTyped
<1>3. CASE Watch
  BY <1>3, WatchTyped DEF Watch
<1>4. CASE Environment
  BY <1>4, EnvironmentTyped, EnvironmentEffect
<1>5. CASE Crash \/ Panic
  BY <1>5, RestartEffect, IdleType DEF Restart
<1>6. CASE UNCHANGED vars
  BY <1>6 DEF vars
<1> QED BY <1>1, <1>2, <1>3, <1>4, <1>5, <1>6 DEF Next

\* Whatever fails, crashes or is edited, every object the AuthPolicy controller
\* writes and every copy it holds has the shape of its Go type.
THEOREM TypesCorrect == Spec => []TypeOK
<1>1. Init => TypeInv
  BY InitTypeInv
<1>2. TypeInv /\ [Next]_vars => TypeInv'
  BY NextTypeInv
<1>3. TypeInv => TypeOK
  BY DEF TypeInv
<1> QED BY <1>1, <1>2, <1>3, PTL DEF Spec

-----------------------------------------------------------------------------
(* The steps of the worker, stage by stage: how the worker goes on and     *)
(* which object is written.                                                *)

Kept == wk'.p = wk.p /\ wk'.ap = wk.ap

MovesTo(pc) == wk'.pc = pc /\ Kept /\ wk'.err = wk.err /\ queue' = queue
Reports == wk'.pc = "status" /\ Kept /\ wk'.err = TRUE /\ queue' = queue
GivesUp == wk' = Idle /\ queue' = queue \cup {wk.p}
Ends == wk' = Idle /\ queue' = queue

LEMMA FailMoves ==
    ASSUME TypeInv
    PROVE  /\ Fail /\ wk.pc \in SpecStages => Reports
           /\ Fail /\ wk.pc \notin SpecStages => GivesUp
           /\ Requeue => GivesUp
           /\ Goto(Idle) => Ends
           /\ \A pc : Goto([wk EXCEPT !.pc = pc]) => MovesTo(pc)
           /\ \A pc, todo : Goto([wk EXCEPT !.pc = pc, !.todo = todo]) => MovesTo(pc)
           /\ \A pc, todo, rules :
                 Goto([wk EXCEPT !.pc = pc, !.rules = rules, !.todo = todo]) => MovesTo(pc)
           /\ \A key : Goto(Visited(key)) => MovesTo(wk.pc)
<1>1. wk \in Worker
  BY TypeParts
<1>2. Fail /\ wk.pc \in SpecStages => Reports
  BY <1>1 DEF Fail, Goto, Reports, Kept, Worker
<1>3. /\ Fail /\ wk.pc \notin SpecStages => GivesUp
      /\ Requeue => GivesUp
      /\ Goto(Idle) => Ends
  BY DEF Fail, Requeue, Goto, GivesUp, Ends
<1>4. /\ \A pc : Goto([wk EXCEPT !.pc = pc]) => MovesTo(pc)
      /\ \A pc, todo : Goto([wk EXCEPT !.pc = pc, !.todo = todo]) => MovesTo(pc)
      /\ \A pc, todo, rules :
            Goto([wk EXCEPT !.pc = pc, !.rules = rules, !.todo = todo]) => MovesTo(pc)
      /\ \A key : Goto(Visited(key)) => MovesTo(wk.pc)
  BY <1>1 DEF Goto, MovesTo, Kept, Worker, Visited
<1> QED BY <1>2, <1>3, <1>4

\* One object of the store becomes x, and all else stays.
PolicyBecomes(p, x) ==
    /\ store'.policy[p] = x
    /\ \A q \in Policies \ {p} : store'.policy[q] = store.policy[q]
    /\ store'.route = store.route /\ store'.gateway = store.gateway
    /\ store'.iap = store.iap /\ store'.config = store.config

RuleBecomes(n, x) ==
    /\ store'.iap[n] = x
    /\ \A m \in IAPNames \ {n} : store'.iap[m] = store.iap[m]
    /\ store'.policy = store.policy /\ store'.route = store.route
    /\ store'.gateway = store.gateway /\ store'.config = store.config

ConfigBecomes(n, x) ==
    /\ store'.config[n] = x
    /\ \A m \in ConfigNames \ {n} : store'.config[m] = store.config[m]
    /\ store'.policy = store.policy /\ store'.route = store.route
    /\ store'.gateway = store.gateway /\ store'.iap = store.iap

LEMMA PutBecomes ==
    ASSUME TypeInv
    PROVE  /\ \A p \in Policies, x \in AuthPolicy :
                 store' = [store EXCEPT !.policy[p] = x] => PolicyBecomes(p, x)
           /\ \A n \in IAPNames, x \in AuthorizationPolicy :
                 store' = [store EXCEPT !.iap[n] = x] => RuleBecomes(n, x)
           /\ \A n \in ConfigNames, x \in AuthConfig :
                 store' = [store EXCEPT !.config[n] = x] => ConfigBecomes(n, x)
<1>0. store \in AuthCluster
  BY TypeParts
<1>1. ASSUME NEW p \in Policies, NEW x \in AuthPolicy, store' = [store EXCEPT !.policy[p] = x]
      PROVE  PolicyBecomes(p, x)
  BY <1>0, <1>1, PutPolicy DEF PolicyBecomes
<1>2. ASSUME NEW n \in IAPNames, NEW x \in AuthorizationPolicy, store' = [store EXCEPT !.iap[n] = x]
      PROVE  RuleBecomes(n, x)
  BY <1>0, <1>2, PutIAP DEF RuleBecomes
<1>3. ASSUME NEW n \in ConfigNames, NEW x \in AuthConfig, store' = [store EXCEPT !.config[n] = x]
      PROVE  ConfigBecomes(n, x)
  BY <1>0, <1>3, PutConfig DEF ConfigBecomes
<1> QED BY <1>1, <1>2, <1>3

Lockable == Routes \cup Gateways

\* The annotation of t, of which the cache has the stored copy, becomes p.
OwnerBecomes(t, p) ==
    /\ t \in Lockable
    /\ TargetLive(store, t) = TargetLive(cache, t)
    /\ BackRef(store, t) = BackRef(cache, t)
    /\ \A r \in Routes :
          store'.route[r] = IF r = t THEN [store.route[r] EXCEPT !.backref = p] ELSE store.route[r]
    /\ \A g \in Gateways :
          store'.gateway[g] = IF g = t THEN [store.gateway[g] EXCEPT !.backref = p] ELSE store.gateway[g]
    /\ \A u \in Lockable :
          /\ TargetLive(store', u) = TargetLive(store, u)
          /\ BackRef(store', u) = IF u = t THEN p ELSE BackRef(store, u)
    /\ store'.policy = store.policy /\ store'.iap = store.iap /\ store'.config = store.config

LEMMA BackRefPut ==
    ASSUME TypeInv, NEW t, NEW p \in Policies \cup {NoPolicy}, BackRefWritten(t, p)
    PROVE  OwnerBecomes(t, p)
<1>0. store \in AuthCluster /\ Routes \cap Gateways = {}
  BY TypeParts, ClusterAssumption
<1>1. CASE /\ t \in Routes /\ store.route[t] = cache.route[t]
           /\ store' = [store EXCEPT !.route[t] = [store.route[t] EXCEPT !.backref = p]]
  <2> DEFINE x == [store.route[t] EXCEPT !.backref = p]
  <2>1. x \in Route /\ x.live = store.route[t].live /\ x.backref = p
    BY <1>0, <1>1, GetTypes DEF Route
  <2>2. /\ store'.gateway = store.gateway /\ store'.route[t] = x
        /\ \A q \in Routes \ {t} : store'.route[q] = store.route[q]
        /\ store'.policy = store.policy /\ store'.iap = store.iap /\ store'.config = store.config
    BY <1>0, <1>1, <2>1, PutRoute
  <2>3. \A r \in Routes :
          store'.route[r] = IF r = t THEN [store.route[r] EXCEPT !.backref = p] ELSE store.route[r]
    BY <2>2
  <2> HIDE DEF x
  <2>4. \A u \in Lockable :
          /\ TargetLive(store', u) = TargetLive(store, u)
          /\ BackRef(store', u) = IF u = t THEN p ELSE BackRef(store, u)
    BY <1>0, <1>1, <2>1, <2>2 DEF TargetLive, BackRef, Lockable
  <2>5. TargetLive(store, t) = TargetLive(cache, t) /\ BackRef(store, t) = BackRef(cache, t)
    BY <1>0, <1>1 DEF TargetLive, BackRef
  <2> QED BY <1>0, <1>1, <2>2, <2>3, <2>4, <2>5 DEF OwnerBecomes, Lockable
<1>2. CASE /\ t \in Gateways /\ store.gateway[t] = cache.gateway[t]
           /\ store' = [store EXCEPT !.gateway[t] = [store.gateway[t] EXCEPT !.backref = p]]
  <2> DEFINE x == [store.gateway[t] EXCEPT !.backref = p]
  <2>1. x \in Gateway /\ x.live = store.gateway[t].live /\ x.backref = p
    BY <1>0, <1>2, GetTypes DEF Gateway
  <2>2. /\ store'.route = store.route /\ store'.gateway[t] = x
        /\ \A q \in Gateways \ {t} : store'.gateway[q] = store.gateway[q]
        /\ store'.policy = store.policy /\ store'.iap = store.iap /\ store'.config = store.config
    BY <1>0, <1>2, <2>1, PutGateway
  <2>3. \A g \in Gateways :
          store'.gateway[g] = IF g = t THEN [store.gateway[g] EXCEPT !.backref = p] ELSE store.gateway[g]
    BY <2>2
  <2> HIDE DEF x
  <2>4. \A u \in Lockable :
          /\ TargetLive(store', u) = TargetLive(store, u)
          /\ BackRef(store', u) = IF u = t THEN p ELSE BackRef(store, u)
    BY <1>0, <1>2, <2>1, <2>2 DEF TargetLive, BackRef, Lockable
  <2>5. TargetLive(store, t) = TargetLive(cache, t) /\ BackRef(store, t) = BackRef(cache, t)
    BY <1>0, <1>2 DEF TargetLive, BackRef
  <2> QED BY <1>0, <1>2, <2>2, <2>3, <2>4, <2>5 DEF OwnerBecomes, Lockable
<1> QED BY <1>1, <1>2 DEF BackRefWritten

\* The worker has put the finalizer on its copy.
Armed ==
    /\ wk'.pc = "backRef" /\ wk'.p = wk.p /\ wk'.err = wk.err /\ queue' = queue
    /\ wk'.ap = [wk.ap EXCEPT !.finalizer = TRUE]

AddFinalizerStep ==
    /\ wk.pc = "addFinalizer"
    /\ \/ store' = store /\ GivesUp
       \/ ~store.policy[wk.p].live /\ store' = store /\ Armed
       \/ /\ store.policy[wk.p].live /\ store.policy[wk.p] = wk.ap
          /\ PolicyBecomes(wk.p, [wk.ap EXCEPT !.finalizer = TRUE])
          /\ Armed \/ GivesUp

BackRefStep ==
    /\ wk.pc = "backRef"
    /\ \/ store' = store /\ Reports
       \/ SpecValid /\ BackRef(cache, wk.ap.target) = wk.p /\ store' = store /\ MovesTo("rules")
       \/ /\ SpecValid /\ BackRef(cache, wk.ap.target) = NoPolicy
          /\ OwnerBecomes(wk.ap.target, wk.p)
          /\ MovesTo("rules") \/ Reports

RulesStep ==
    /\ wk.pc = "rules" /\ store' = store
    /\ MovesTo("scheme") \/ MovesTo("iap") \/ Reports

IAPStep ==
    /\ wk.pc = "iap"
    /\ \/ store' = store
       \/ \E g \in Gateways :
             LET n == getAuthPolicyName(g, wk.ap.target) IN RuleBecomes(n, WithRules(n))
    /\ MovesTo("scheme") \/ MovesTo("iap") \/ Reports

SchemeStep ==
    /\ wk.pc = "scheme"
    /\ \/ store' = store
       \/ LET n == authConfigName[wk.p] IN ConfigBecomes(n, WithScheme(n))
    /\ MovesTo("status") \/ Reports

StatusStep ==
    /\ wk.pc = "status"
    /\ \/ store' = store /\ GivesUp
       \/ store' = store /\ NewStatus = wk.ap /\ ~wk.err /\ Ends
       \/ /\ store.policy[wk.p] = wk.ap
          /\ PolicyBecomes(wk.p, NewStatus)
          /\ GivesUp \/ (~wk.err /\ Ends)

FinRulesStep ==
    /\ wk.pc \in {"finRules", "finIAP"}
    /\ \/ store' = store
       \/ \E g \in Gateways : RuleBecomes(getAuthPolicyName(g, wk.ap.target), NoSuchIAP)
    /\ MovesTo("finIAP") \/ MovesTo("finScheme") \/ GivesUp

FinSchemeStep ==
    /\ wk.pc = "finScheme"
    /\ \/ store' = store /\ GivesUp
       \/ /\ ConfigBecomes(authConfigName[wk.p], NoSuchConfig)
          /\ MovesTo("finBackRef") \/ GivesUp

FinBackRefStep ==
    /\ wk.pc = "finBackRef"
    /\ \/ store' = store /\ GivesUp
       \/ /\ wk.ap.target \notin Unsupported /\ ~TargetLive(cache, wk.ap.target)
          /\ store' = store /\ MovesTo("finRemove")
       \/ /\ FetchValidTargetRef(cache, wk.ap.target) /\ BackRef(cache, wk.ap.target) = NoPolicy
          /\ store' = store /\ MovesTo("finRemove")
       \/ /\ FetchValidTargetRef(cache, wk.ap.target)
          /\ OwnerBecomes(wk.ap.target, NoPolicy)
          /\ MovesTo("finRemove") \/ GivesUp

FinRemoveStep ==
    /\ wk.pc = "finRemove"
    /\ \/ store' = store /\ GivesUp
       \/ ~store.policy[wk.p].live /\ store' = store /\ Ends
       \/ /\ store.policy[wk.p].live /\ store.policy[wk.p] = wk.ap
          /\ PolicyBecomes(wk.p, NoSuchAuthPolicy)
          /\ Ends \/ GivesUp

WorkStep ==
    \/ AddFinalizerStep \/ BackRefStep \/ RulesStep \/ IAPStep \/ SchemeStep \/ StatusStep
    \/ FinRulesStep \/ FinSchemeStep \/ FinBackRefStep \/ FinRemoveStep

LEMMA WorkSteps ==
    ASSUME TypeInv, Work
    PROVE  /\ WorkStep /\ wk.p \in Policies
           /\ Settled /\ cache' = cache
<1> USE DEF WorkStep
<1>0. store \in AuthCluster /\ wk \in Worker
  BY TypeParts
<1>1. \A pc : Stepped(pc) => wk.pc = pc /\ Settled /\ cache' = cache
  BY DEF Stepped, At
<1>2. /\ \A pc \in {"backRef", "rules", "iap", "scheme"} : pc \in SpecStages
      /\ \A pc \in {"addFinalizer", "status", "finRules", "finIAP", "finScheme", "finBackRef",
                    "finRemove"} : pc \notin SpecStages
  BY DEF SpecStages
<1>3. CASE AddFinalizer
  <2>1. wk.pc = "addFinalizer" /\ wk.p \in Policies /\ Settled /\ cache' = cache
    BY <1>1, <1>3, AddFinalizerEffect, TypeParts
  <2>2. Fail => GivesUp
    BY <1>2, <2>1, FailMoves
  <2>3. Finalized.ap = [wk.ap EXCEPT !.finalizer = TRUE]
    BY <1>0 DEF Finalized, Worker
  <2>4. Goto(Finalized) => Armed
    BY <1>0, <2>3 DEF Goto, Finalized, Armed, Worker
  <2>5. store' = [store EXCEPT !.policy[wk.p] = Finalized.ap] => PolicyBecomes(wk.p, Finalized.ap)
    BY <2>1, WrittenTypes, PutBecomes
  <2>6. AddFinalizerStep
    BY <1>3, <2>1, <2>2, <2>3, <2>4, <2>5, AddFinalizerEffect DEF AddFinalizerStep
  <2> QED BY <2>1, <2>6
<1>4. CASE ReconcileNetworkResourceBackReference
  <2>1. wk.pc = "backRef" /\ wk.p \in Policies /\ Settled /\ cache' = cache
    BY <1>1, <1>4, BackReferenceEffect, TypeParts
  <2>2. Fail => Reports
    BY <1>2, <2>1, FailMoves
  <2>3. Goto([wk EXCEPT !.pc = "rules"]) => MovesTo("rules")
    BY FailMoves
  <2>4. BackRefWritten(wk.ap.target, wk.p) => OwnerBecomes(wk.ap.target, wk.p)
    BY <2>1, BackRefPut
  <2>5. BackRefStep
    BY <1>4, <2>1, <2>2, <2>3, <2>4, BackReferenceEffect DEF BackRefStep
  <2> QED BY <2>1, <2>5
<1>5. CASE ComputeAuthRules
  <2>1. wk.pc = "rules" /\ wk.p \in Policies /\ Settled /\ cache' = cache
    BY <1>1, <1>5, ComputeRulesEffect, TypeParts
  <2>2. MovesTo("scheme") \/ MovesTo("iap") \/ Reports
    BY <1>2, <1>5, <2>1, ComputeRulesEffect, FailMoves
  <2>3. RulesStep
    BY <1>5, <2>1, <2>2, ComputeRulesEffect DEF RulesStep
  <2> QED BY <2>1, <2>3
<1>6. ASSUME NEW key \in wk.todo, ReconcileAuthRules(key)
      PROVE  IAPStep /\ wk.p \in Policies /\ Settled /\ cache' = cache
  <2> DEFINE n == getAuthPolicyName(key[1], wk.ap.target)
  <2>1. wk.pc = "iap" /\ wk.p \in Policies /\ Settled /\ cache' = cache
    BY <1>1, <1>6, ReconcileRulesEffect, TypeParts
  <2>2. MovesTo("iap") \/ Reports
    BY <1>2, <1>6, <2>1, ReconcileRulesEffect, FailMoves
  <2>3. n \in IAPNames /\ WithRules(n) \in AuthorizationPolicy /\ key[1] \in Gateways
    BY <1>0, <2>1, NameTypes, WrittenTypes DEF Worker
  <2>4. store' = store \/ RuleBecomes(n, WithRules(n))
    <3>1. store' = store \/ store' = [store EXCEPT !.iap[n] = WithRules(n)]
      BY <1>6, ReconcileRulesEffect
    <3> HIDE DEF n
    <3> QED BY <2>3, <3>1, PutBecomes
  <2> QED BY <2>1, <2>2, <2>3, <2>4 DEF IAPStep
<1>7. CASE AuthRulesDone \/ IstioAuthPoliciesRemoved \/ ListIstioAuthPolicies
  <2>1. /\ store' = store
        /\ \/ wk.pc = "iap" /\ MovesTo("scheme")
           \/ wk.pc \in {"finRules", "finIAP"} /\ (MovesTo("finScheme") \/ MovesTo("finIAP"))
    BY <1>1, <1>7, RulesDoneEffect, FailMoves
  <2>2. wk.p \in Policies /\ Settled /\ cache' = cache
    BY <1>1, <1>7, RulesDoneEffect, TypeParts
  <2> QED BY <2>1, <2>2 DEF IAPStep, FinRulesStep
<1>8. CASE ReconcileAuthSchemes
  <2> DEFINE n == authConfigName[wk.p]
  <2>1. wk.pc = "scheme" /\ wk.p \in Policies /\ Settled /\ cache' = cache
    BY <1>1, <1>8, ReconcileSchemesEffect, TypeParts
  <2>2. MovesTo("status") \/ Reports
    BY <1>2, <1>8, <2>1, ReconcileSchemesEffect, FailMoves
  <2>3. n \in ConfigNames /\ WithScheme(n) \in AuthConfig
    BY <2>1, NameTypes, WrittenTypes
  <2>4. store' = store \/ ConfigBecomes(n, WithScheme(n))
    <3>1. store' = store \/ store' = [store EXCEPT !.config[n] = WithScheme(n)]
      BY <1>8, ReconcileSchemesEffect
    <3> HIDE DEF n
    <3> QED BY <2>3, <3>1, PutBecomes
  <2> QED BY <2>1, <2>2, <2>4 DEF SchemeStep
<1>9. CASE ReconcileStatus
  <2>1. wk.pc = "status" /\ wk.p \in Policies /\ Settled /\ cache' = cache
    BY <1>1, <1>9, StatusEffect, TypeParts
  <2>2. (Requeue => GivesUp) /\ (Goto(Idle) => Ends)
    BY FailMoves
  <2>3. store' = [store EXCEPT !.policy[wk.p] = NewStatus] => PolicyBecomes(wk.p, NewStatus)
    BY <2>1, WrittenTypes, PutBecomes
  <2>4. StatusStep
    BY <1>9, <2>1, <2>2, <2>3, StatusEffect DEF StatusStep
  <2> QED BY <2>1, <2>4
<1>10. ASSUME NEW key \in wk.todo, RemoveIstioAuthPolicy(key)
       PROVE  FinRulesStep /\ wk.p \in Policies /\ Settled /\ cache' = cache
  <2> DEFINE n == getAuthPolicyName(key[1], wk.ap.target)
  <2>1. wk.pc = "finIAP" /\ wk.p \in Policies /\ Settled /\ cache' = cache
    BY <1>1, <1>10, RemoveRulesEffect, TypeParts
  <2>2. MovesTo("finIAP") \/ GivesUp
    BY <1>2, <1>10, <2>1, RemoveRulesEffect, FailMoves
  <2>3. n \in IAPNames /\ key[1] \in Gateways
    BY <1>0, NameTypes DEF Worker
  <2>4. store' = store \/ RuleBecomes(n, NoSuchIAP)
    <3>1. store' = store \/ store' = [store EXCEPT !.iap[n] = NoSuchIAP]
      BY <1>10, RemoveRulesEffect
    <3> HIDE DEF n
    <3> QED BY <2>3, <3>1, AbsentTypes, PutBecomes
  <2> QED BY <2>1, <2>2, <2>3, <2>4 DEF FinRulesStep
<1>11. CASE RemoveAuthSchemes
  <2>1. wk.pc = "finScheme" /\ wk.p \in Policies /\ Settled /\ cache' = cache
    BY <1>1, <1>11, RemoveSchemesEffect, TypeParts
  <2>2. Fail => GivesUp
    BY <1>2, <2>1, FailMoves
  <2>3. Goto([wk EXCEPT !.pc = "finBackRef"]) => MovesTo("finBackRef")
    BY FailMoves
  <2>4. store' = [store EXCEPT !.config[authConfigName[wk.p]] = NoSuchConfig]
          => ConfigBecomes(authConfigName[wk.p], NoSuchConfig)
    BY <2>1, NameTypes, AbsentTypes, PutBecomes
  <2>5. FinSchemeStep
    BY <1>11, <2>1, <2>2, <2>3, <2>4, RemoveSchemesEffect DEF FinSchemeStep
  <2> QED BY <2>1, <2>5
<1>12. CASE DeleteNetworkResourceBackReference
  <2>1. wk.pc = "finBackRef" /\ wk.p \in Policies /\ Settled /\ cache' = cache
    BY <1>1, <1>12, DeleteBackReferenceEffect, TypeParts
  <2>2. Fail => GivesUp
    BY <1>2, <2>1, FailMoves
  <2>3. Goto([wk EXCEPT !.pc = "finRemove"]) => MovesTo("finRemove")
    BY FailMoves
  <2>4. BackRefWritten(wk.ap.target, NoPolicy) => OwnerBecomes(wk.ap.target, NoPolicy)
    BY BackRefPut
  <2>5. FinBackRefStep
    BY <1>12, <2>1, <2>2, <2>3, <2>4, DeleteBackReferenceEffect DEF FinBackRefStep
  <2> QED BY <2>1, <2>5
<1>13. CASE RemoveFinalizer
  <2>1. wk.pc = "finRemove" /\ wk.p \in Policies /\ Settled /\ cache' = cache
    BY <1>1, <1>13, RemoveFinalizerEffect, TypeParts
  <2>2. (Fail => GivesUp) /\ (Goto(Idle) => Ends)
    BY <1>2, <2>1, FailMoves
  <2>3. store' = [store EXCEPT !.policy[wk.p] = NoSuchAuthPolicy]
          => PolicyBecomes(wk.p, NoSuchAuthPolicy)
    BY <2>1, AbsentTypes, PutBecomes
  <2>4. FinRemoveStep
    BY <1>13, <2>1, <2>2, <2>3, RemoveFinalizerEffect DEF FinRemoveStep
  <2> QED BY <2>1, <2>4
<1> QED BY <1>3, <1>4, <1>5, <1>6, <1>7, <1>8, <1>9, <1>10, <1>11, <1>12, <1>13 DEF Work, Apply, Finalize

-----------------------------------------------------------------------------
(* The copy of the policy that the worker carries from stage to stage.     *)

ApplyStages == SpecStages \cup {"addFinalizer", "status"}
FinStages == {"finRules", "finIAP", "finScheme", "finBackRef", "finRemove"}

\* Only a copy marked as deleted is finalized, only one that is not is applied,
\* and only with the finalizer on it beyond the first stage. Rules are written
\* for targets of a supported kind, and an error goes straight to the status.
CopyInv ==
    /\ wk.pc = "idle" => wk = Idle
    /\ wk.pc # "idle" => wk.ap.live
    /\ wk.pc \in FinStages => wk.ap.deleting /\ wk.ap.finalizer
    /\ wk.pc \in ApplyStages => ~wk.ap.deleting
    /\ wk.pc \in ApplyStages \ {"addFinalizer"} => wk.ap.finalizer
    /\ wk.pc \in {"rules", "iap"} => wk.ap.target \in Lockable
    /\ wk.err => wk.pc = "status"

LEMMA IdleStage ==
    /\ Idle.pc = "idle" /\ Idle.err = FALSE
    /\ "idle" \notin ApplyStages /\ "idle" \notin FinStages
<1>1. Idle.pc = "idle" /\ Idle.err = FALSE
  BY DEF Idle
<1>2. "idle" \notin ApplyStages /\ "idle" \notin FinStages
  BY DEF ApplyStages, SpecStages, FinStages
<1> QED BY <1>1, <1>2

LEMMA IdleCopy == wk' = Idle => CopyInv'
BY IdleStage DEF CopyInv

LEMMA InitCopyInv == Init => CopyInv
<1>1. Init => wk = Idle
  BY DEF Init
<1> QED BY <1>1, IdleStage DEF CopyInv

LEMMA StartCopyInv ==
    ASSUME TypeInv, NEW p \in Policies, Start(p)
    PROVE  CopyInv'
<1>1. CASE wk' = Idle
  BY <1>1, IdleCopy
<1>2. CASE wk' # Idle
  <2> DEFINE ap == cache.policy[p]
             pc == EntryStage(ap)
  <2>1. pc # "idle" /\ wk' = [Idle EXCEPT !.pc = pc, !.p = p, !.ap = ap]
    BY <1>2, StartEffect
  <2>2. wk'.pc = pc /\ wk'.ap = ap /\ wk'.err = FALSE
    BY <2>1 DEF Idle
  <2>3. /\ ap.live
        /\ \/ pc = "finRules" /\ ap.deleting /\ ap.finalizer
           \/ pc = "backRef" /\ ~ap.deleting /\ ap.finalizer
           \/ pc = "addFinalizer" /\ ~ap.deleting
    BY <2>1 DEF EntryStage
  <2> HIDE DEF ap, pc
  <2> QED BY <2>2, <2>3 DEF CopyInv, ApplyStages, SpecStages, FinStages
<1> QED BY <1>1, <1>2

LEMMA WorkCopyInv ==
    ASSUME TypeInv, CopyInv, Work
    PROVE  CopyInv'
<1> USE DEF ApplyStages, SpecStages, FinStages, CopyInv
<1>1. GivesUp \/ Ends => CopyInv'
  BY IdleCopy DEF GivesUp, Ends
<1>2. wk.ap \in AuthPolicy
  BY TypeParts
<1>3. CASE AddFinalizerStep
  <2>1. wk.pc = "addFinalizer" /\ (GivesUp \/ Armed)
    BY <1>3 DEF AddFinalizerStep
  <2>2. Armed => CopyInv'
    <3> DEFINE ap == [wk.ap EXCEPT !.finalizer = TRUE]
    <3>1. ap.live = wk.ap.live /\ ap.deleting = wk.ap.deleting /\ ap.finalizer
      BY <1>2 DEF AuthPolicy
    <3>2. Armed => wk'.ap = ap /\ wk'.pc = "backRef" /\ wk'.err = wk.err
      BY DEF Armed
    <3> HIDE DEF ap
    <3> QED BY <2>1, <3>1, <3>2
  <2> QED BY <1>1, <2>1, <2>2
<1>4. CASE BackRefStep
  <2>1. SpecValid => wk.ap.target \in Lockable
    BY DEF SpecValid, Validate, Lockable
  <2> QED BY <1>4, <2>1 DEF BackRefStep, Reports, MovesTo, Kept
<1>5. CASE RulesStep
  BY <1>5 DEF RulesStep, Reports, MovesTo, Kept
<1>6. CASE IAPStep
  BY <1>6 DEF IAPStep, Reports, MovesTo, Kept
<1>7. CASE SchemeStep
  BY <1>7 DEF SchemeStep, Reports, MovesTo, Kept
<1>8. CASE StatusStep
  BY <1>1, <1>8 DEF StatusStep
<1>9. CASE FinRulesStep
  <2>1. wk.pc \in {"finRules", "finIAP"} /\ (MovesTo("finIAP") \/ MovesTo("finScheme") \/ GivesUp)
    BY <1>9 DEF FinRulesStep
  <2>2. MovesTo("finIAP") \/ MovesTo("finScheme") => CopyInv'
    BY <2>1 DEF MovesTo, Kept
  <2> QED BY <1>1, <2>1, <2>2
<1>10. CASE FinSchemeStep
  <2>1. wk.pc = "finScheme" /\ (MovesTo("finBackRef") \/ GivesUp)
    BY <1>10 DEF FinSchemeStep
  <2>2. MovesTo("finBackRef") => CopyInv'
    BY <2>1 DEF MovesTo, Kept
  <2> QED BY <1>1, <2>1, <2>2
<1>11. CASE FinBackRefStep
  <2>1. wk.pc = "finBackRef" /\ (MovesTo("finRemove") \/ GivesUp)
    BY <1>11 DEF FinBackRefStep
  <2>2. MovesTo("finRemove") => CopyInv'
    BY <2>1 DEF MovesTo, Kept
  <2> QED BY <1>1, <2>1, <2>2
<1>12. CASE FinRemoveStep
  BY <1>1, <1>12 DEF FinRemoveStep
<1> QED BY <1>3, <1>4, <1>5, <1>6, <1>7, <1>8, <1>9, <1>10, <1>11, <1>12, WorkSteps DEF WorkStep

LEMMA NextCopyInv == TypeInv /\ CopyInv /\ [Next]_vars => CopyInv'
<1> SUFFICES ASSUME TypeInv, CopyInv, [Next]_vars PROVE CopyInv'
  OBVIOUS
<1>1. wk' = wk => CopyInv'
  BY DEF CopyInv
<1>2. Watch \/ Environment \/ UNCHANGED vars => wk' = wk
  BY DEF Watch, Environment, vars
<1>3. Crash \/ Panic => wk' = Idle
  BY RestartEffect DEF Restart
<1> QED BY <1>1, <1>2, <1>3, IdleCopy, StartCopyInv, WorkCopyInv DEF Next

-----------------------------------------------------------------------------
(* No update is lost.                                                      *)

LEMMA WorkLosesNothing ==
    ASSUME TypeInv, CopyInv, Work
    PROVE  LosesNothing
<1>0. /\ store \in AuthCluster /\ wk.ap \in AuthPolicy
      /\ \A r \in Routes : store.route[r] \in Route
      /\ \A g \in Gateways : store.gateway[g] \in Gateway
      /\ \A n \in ConfigNames : store.config[n] \in AuthConfig
  BY TypeParts, GetTypes
<1>1. ASSUME store'.policy = store.policy PROVE
        \A p \in Policies :
          LET old == store.policy[p]
              new == store'.policy[p]
          IN  \/ /\ new.live = old.live /\ new.deleting = old.deleting
                 /\ new.target = old.target /\ new.spec = old.spec
              \/ p = wk.p /\ old.deleting /\ ~new.live
  BY <1>1
<1>2. ASSUME store'.route = store.route PROVE
        \A r \in Routes :
          store'.route[r] = [store.route[r] EXCEPT !.backref = store'.route[r].backref]
  BY <1>0, <1>2 DEF Route
<1>3. ASSUME store'.gateway = store.gateway PROVE
        \A g \in Gateways :
          store'.gateway[g] = [store.gateway[g] EXCEPT !.backref = store'.gateway[g].backref]
  BY <1>0, <1>3 DEF Gateway
<1>4. ASSUME store'.config = store.config PROVE
        \A n \in ConfigNames : store'.config[n].live => store'.config[n].ready = store.config[n].ready
  BY <1>4
<1>5. store' = store => LosesNothing
  BY <1>1, <1>2, <1>3, <1>4 DEF LosesNothing
<1>6. \A n, x : RuleBecomes(n, x) => LosesNothing
  BY <1>1, <1>2, <1>3, <1>4 DEF LosesNothing, RuleBecomes
<1>7. ASSUME NEW x, PolicyBecomes(wk.p, x), store.policy[wk.p] = wk.ap,
             \/ /\ x.live = wk.ap.live /\ x.deleting = wk.ap.deleting
                /\ x.target = wk.ap.target /\ x.spec = wk.ap.spec
             \/ wk.ap.deleting /\ ~x.live
      PROVE  LosesNothing
  <2>1. \A p \in Policies : p = wk.p \/ store'.policy[p] = store.policy[p]
    BY <1>7 DEF PolicyBecomes
  <2>2. \A p \in Policies :
          LET old == store.policy[p]
              new == store'.policy[p]
          IN  \/ /\ new.live = old.live /\ new.deleting = old.deleting
                 /\ new.target = old.target /\ new.spec = old.spec
              \/ p = wk.p /\ old.deleting /\ ~new.live
    BY <1>7, <2>1 DEF PolicyBecomes
  <2> QED BY <1>2, <1>3, <1>4, <1>7, <2>2 DEF LosesNothing, PolicyBecomes
<1>8. ASSUME NEW n \in ConfigNames, NEW x, ConfigBecomes(n, x), x.live => x.ready = store.config[n].ready
      PROVE  LosesNothing
  <2>1. \A m \in ConfigNames : store'.config[m].live => store'.config[m].ready = store.config[m].ready
    BY <1>8 DEF ConfigBecomes
  <2> QED BY <1>1, <1>2, <1>3, <1>8, <2>1 DEF LosesNothing, ConfigBecomes
<1>9. ASSUME NEW t, NEW p \in Policies \cup {NoPolicy}, OwnerBecomes(t, p)
      PROVE  LosesNothing
  <2>1. \A r \in Routes :
          store'.route[r] = [store.route[r] EXCEPT !.backref = store'.route[r].backref]
    <3> TAKE r \in Routes
    <3>1. CASE r = t
      <4>1. store'.route[r] = [store.route[r] EXCEPT !.backref = p]
        BY <1>9, <3>1 DEF OwnerBecomes
      <4>2. [store.route[r] EXCEPT !.backref = p].backref = p
        BY <1>0 DEF Route
      <4> QED BY <4>1, <4>2
    <3>2. CASE r # t
      <4>1. store'.route[r] = store.route[r]
        BY <1>9, <3>2 DEF OwnerBecomes
      <4> QED BY <1>0, <4>1 DEF Route
    <3> QED BY <3>1, <3>2
  <2>2. \A g \in Gateways :
          store'.gateway[g] = [store.gateway[g] EXCEPT !.backref = store'.gateway[g].backref]
    <3> TAKE g \in Gateways
    <3>1. CASE g = t
      <4>1. store'.gateway[g] = [store.gateway[g] EXCEPT !.backref = p]
        BY <1>9, <3>1 DEF OwnerBecomes
      <4>2. [store.gateway[g] EXCEPT !.backref = p].backref = p
        BY <1>0 DEF Gateway
      <4> QED BY <4>1, <4>2
    <3>2. CASE g # t
      <4>1. store'.gateway[g] = store.gateway[g]
        BY <1>9, <3>2 DEF OwnerBecomes
      <4> QED BY <1>0, <4>1 DEF Gateway
    <3> QED BY <3>1, <3>2
  <2> QED BY <1>1, <1>4, <1>9, <2>1, <2>2 DEF LosesNothing, OwnerBecomes
<1>10. wk.p \in Policies /\ WorkStep
  BY WorkSteps
<1>11. CASE AddFinalizerStep
  <2> DEFINE x == [wk.ap EXCEPT !.finalizer = TRUE]
  <2>1. /\ x.live = wk.ap.live /\ x.deleting = wk.ap.deleting
        /\ x.target = wk.ap.target /\ x.spec = wk.ap.spec
    BY <1>0 DEF AuthPolicy
  <2>2. store' = store \/ (store.policy[wk.p] = wk.ap /\ PolicyBecomes(wk.p, x))
    BY <1>11 DEF AddFinalizerStep
  <2> HIDE DEF x
  <2> QED BY <1>5, <1>7, <2>1, <2>2
<1>12. CASE BackRefStep \/ FinBackRefStep
  BY <1>5, <1>9, <1>10, <1>12 DEF BackRefStep, FinBackRefStep
<1>13. CASE RulesStep \/ IAPStep \/ FinRulesStep
  BY <1>5, <1>6, <1>13 DEF RulesStep, IAPStep, FinRulesStep
<1>14. CASE SchemeStep \/ FinSchemeStep
  <2> DEFINE n == authConfigName[wk.p]
  <2>1. n \in ConfigNames
    BY <1>10 DEF ConfigNames
  <2>2. WithScheme(n).ready = store.config[n].ready
    BY <1>0, <2>1 DEF WithScheme, AuthConfig
  <2>3. ~NoSuchConfig.live
    BY DEF NoSuchConfig
  <2>4. store' = store \/ ConfigBecomes(n, WithScheme(n)) \/ ConfigBecomes(n, NoSuchConfig)
    BY <1>14 DEF SchemeStep, FinSchemeStep
  <2> HIDE DEF n
  <2> QED BY <1>5, <1>8, <2>1, <2>2, <2>3, <2>4
<1>15. CASE StatusStep
  <2>1. /\ NewStatus.live = wk.ap.live /\ NewStatus.deleting = wk.ap.deleting
        /\ NewStatus.target = wk.ap.target /\ NewStatus.spec = wk.ap.spec
    BY <1>0 DEF AuthPolicy, NewStatus
  <2> QED BY <1>5, <1>7, <1>15, <2>1 DEF StatusStep
<1>16. CASE FinRemoveStep
  <2>1. wk.ap.deleting /\ ~NoSuchAuthPolicy.live
    BY <1>16 DEF FinRemoveStep, CopyInv, FinStages, NoSuchAuthPolicy
  <2> QED BY <1>5, <1>7, <1>16, <2>1 DEF FinRemoveStep
<1> QED BY <1>10, <1>11, <1>12, <1>13, <1>14, <1>15, <1>16 DEF WorkStep

\* Whatever copies the worker has read and however old they are, no step of
\* Reconcile overwrites what users, Authorino and the RateLimitPolicy
\* controller have written meanwhile: an update made from another copy than
\* the stored one is refused.
THEOREM UpdatesSurvive == Spec => NeverLosesUpdates
<1>1. Init => TypeInv /\ CopyInv
  BY InitTypeInv, InitCopyInv
<1>2. TypeInv /\ CopyInv /\ [Next]_vars => (TypeInv /\ CopyInv)'
  BY NextTypeInv, NextCopyInv
<1>3. TypeInv /\ CopyInv => NoLostUpdate
  BY WorkLosesNothing DEF NoLostUpdate
<1> QED BY <1>1, <1>2, <1>3, PTL DEF Spec, NeverLosesUpdates
=============================================================================
