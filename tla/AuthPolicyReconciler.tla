----------------------- MODULE AuthPolicyReconciler -----------------------
(***************************************************************************)
(* The AuthPolicy controller: one worker applies a policy (finalizer, back *)
(* reference on the target, an Istio AuthorizationPolicy for every gateway *)
(* of the target, Authorino's AuthConfig, status) or, when it is being     *)
(* deleted, finalizes it (AuthorizationPolicies, AuthConfig, back          *)
(* reference, finalizer), one API call per step.                           *)
(*                                                                         *)
(* Istio and Authorino are not modelled: an AuthorizationPolicy counts as  *)
(* enforced when it is there, and Authorino sets an AuthConfig's readiness.*)
(***************************************************************************)
EXTENDS PolicyTargets

CONSTANTS
    Ruleless,    \* the specs without rules: they are compiled from the route
    Schemeless,  \* the specs without an authScheme
    RouteName,   \* metadata.name of each route, unique in its namespace only
    authConfigName \* the AuthConfig's name for each policy, "ap-<ns>-<name>"

Names == {RouteName[r] : r \in Routes}
ConfigNames == {authConfigName[p] : p \in Policies}

ASSUME AuthAssumption ==
    /\ Ruleless \subseteq Specs
    /\ Schemeless \subseteq Specs
    /\ RouteName \in [Routes -> Names]
    /\ authConfigName \in [Policies -> ConfigNames]
    /\ None \notin Names

-----------------------------------------------------------------------------
(* Objects.                                                                *)

\* An AuthPolicy; available is the reason of its Available condition.
AuthPolicy ==
    [live : BOOLEAN, deleting : BOOLEAN, finalizer : BOOLEAN,
     target : Targets \cup {None}, spec : Specs \cup {None},
     observed : BOOLEAN,
     available : {"Unknown", "Protected", "ReconciliationError", "AuthSchemeNotReady"}]

NoSuchAuthPolicy ==
    [live |-> FALSE, deleting |-> FALSE, finalizer |-> FALSE,
     target |-> None, spec |-> None, observed |-> FALSE, available |-> "Unknown"]

NewAuthPolicy(t, s) == [NoSuchAuthPolicy EXCEPT !.live = TRUE, !.target = t, !.spec = s]

\* Which requests go to the authorization provider: those of the rules of a
\* spec, or those of a route as it was, here by its hostnames.
Rules == (Specs \cup {None}) \X SUBSET Hostnames

\* An Istio AuthorizationPolicy, which lives in its gateway's namespace.
AuthorizationPolicy == [live : BOOLEAN, rules : Rules]

NoSuchIAP == [live |-> FALSE, rules |-> <<None, {}>>]

\* "on-<gateway>" for a gateway policy, "on-<gateway>-using-<route>" for a
\* route policy: the namespaces of policy and route are not in the name.
getAuthPolicyName(g, t) == IF t \in Routes THEN <<g, RouteName[t]>> ELSE <<g, None>>

IAPNames == Gateways \X (Names \cup {None})

\* The gateway keys as the loops meet them: one for every parentRef, so that a
\* gateway comes up once for each of the sections the route names.
GatewayKeys(c, t) ==
    TargetedGatewayKeys(c, t) \X (IF t \in Routes THEN Sections[t] ELSE {0})

\* Authorino's AuthConfig.
AuthConfig == [live : BOOLEAN, spec : Specs \cup {None}, ready : BOOLEAN]

NoSuchConfig == [live |-> FALSE, spec |-> None, ready |-> FALSE]

AuthCluster ==
    [policy : [Policies -> AuthPolicy], route : [Routes -> Route],
     gateway : [Gateways -> Gateway], iap : [IAPNames -> AuthorizationPolicy],
     config : [ConfigNames -> AuthConfig]]

-----------------------------------------------------------------------------
VARIABLES
    wk,      \* the worker: program counter and local copies
    faults   \* the API failures and crashes left

vars == <<store, cache, queue, edits, wk, faults>>

\* An error in reconcileSpec is reported in the status.
SpecStages == {"backRef", "rules", "iap", "scheme"}

Stages == SpecStages \cup
    {"idle", "addFinalizer", "status", "finRules", "finIAP", "finScheme", "finBackRef", "finRemove"}

\* ap: the copy of the policy read from the cache; rules: the rules computed;
\* todo: the gateway keys the current loop has yet to visit; err: reconcileSpec
\* failed.
Worker ==
    [pc : Stages, p : Policies \cup {NoPolicy}, ap : AuthPolicy, rules : Rules,
     todo : SUBSET (Gateways \X Nat), err : BOOLEAN]

Idle ==
    [pc |-> "idle", p |-> NoPolicy, ap |-> NoSuchAuthPolicy, rules |-> <<None, {}>>,
     todo |-> {}, err |-> FALSE]

-----------------------------------------------------------------------------
(* Watch events. AuthorizationPolicies and AuthConfigs are read through    *)
(* informers too, but their events reconcile nothing.                      *)

\* Mutant: an object without the annotation is mapped to the empty key.
MapToAuthPolicyUnchecked(obj) == {obj.backref}

\* Route and gateway events go to the policy of the back reference.
MapToAuthPolicy(obj) == {obj.backref} \ {NoPolicy}

DeliverPolicy(p) ==
    /\ cache.policy[p] # store.policy[p]
    /\ cache' = [cache EXCEPT !.policy[p] = store.policy[p]]
    /\ queue' = queue \cup {p}

DeliverRoute(r) ==
    /\ cache.route[r] # store.route[r]
    /\ cache' = [cache EXCEPT !.route[r] = store.route[r]]
    /\ queue' = queue \cup MapToAuthPolicy(cache.route[r]) \cup MapToAuthPolicy(store.route[r])

DeliverGateway(g) ==
    /\ cache.gateway[g] # store.gateway[g]
    /\ cache' = [cache EXCEPT !.gateway[g] = store.gateway[g]]
    /\ queue' = queue \cup MapToAuthPolicy(cache.gateway[g]) \cup MapToAuthPolicy(store.gateway[g])

DeliverIAP(n) ==
    /\ cache.iap[n] # store.iap[n]
    /\ cache' = [cache EXCEPT !.iap[n] = store.iap[n]]
    /\ UNCHANGED queue

DeliverConfig(n) ==
    /\ cache.config[n] # store.config[n]
    /\ cache' = [cache EXCEPT !.config[n] = store.config[n]]
    /\ UNCHANGED queue

Watch ==
    /\ \/ \E p \in Policies : DeliverPolicy(p)
       \/ \E r \in Routes : DeliverRoute(r)
       \/ \E g \in Gateways : DeliverGateway(g)
       \/ \E n \in IAPNames : DeliverIAP(n)
       \/ \E n \in ConfigNames : DeliverConfig(n)
    /\ UNCHANGED <<store, edits, wk, faults>>

-----------------------------------------------------------------------------
(* How a step of the worker ends.                                          *)

\* Mutant: an error is not returned to the work queue.
RequeueForgotten == wk' = Idle /\ UNCHANGED queue

Requeue == wk' = Idle /\ queue' = queue \cup {wk.p}

Goto(next) == wk' = next /\ UNCHANGED queue

\* An error in reconcileSpec goes to the status, any other ends Reconcile;
\* the policy is requeued in the end either way.
Fail ==
    IF wk.pc \in SpecStages
    THEN Goto([wk EXCEPT !.pc = "status", !.err = TRUE])
    ELSE Requeue

\* Without an API call.
Advance(next) == Goto(next) /\ UNCHANGED <<store, faults>>

Abort == Fail /\ UNCHANGED <<store, faults>>

\* A write: the server accepts or refuses it, or the call fails on the way
\* there, or on the way back after the server has applied it.
Call(accepted, after, done) ==
    \/ accepted /\ store' = after /\ done /\ UNCHANGED faults
    \/ ~accepted /\ Abort
    \/ /\ faults > 0
       /\ faults' = faults - 1
       /\ store' \in {store, IF accepted THEN after ELSE store}
       /\ Fail

At(pc) ==
    /\ wk.pc = pc
    /\ Settled
    /\ UNCHANGED <<cache, edits>>

Visited(key) == [wk EXCEPT !.todo = @ \ {key}]

-----------------------------------------------------------------------------
(* Reconcile.                                                              *)

\* Mutant: the finalizer is added last, once the spec is reconciled.
EntryStageUnfinalized(ap) ==
    IF ap.live
    THEN IF ap.deleting
         THEN IF ap.finalizer THEN "finRules" ELSE "idle"
         ELSE "backRef"
    ELSE "idle"

\* Mutant: a policy that carries the finalizer is taken to own its target.
EntryStageOwner(ap) ==
    IF ap.live
    THEN IF ap.deleting
         THEN IF ap.finalizer THEN "finRules" ELSE "idle"
         ELSE IF ap.finalizer THEN "rules" ELSE "addFinalizer"
    ELSE "idle"

\* Mutant: a deletion is not noticed.
EntryStageUndeleted(ap) ==
    IF ap.live /\ ~ap.deleting
    THEN IF ap.finalizer THEN "backRef" ELSE "addFinalizer"
    ELSE "idle"

\* Mutant: finalization begins with the AuthConfig.
EntryStageSchemeFirst(ap) ==
    IF ap.live
    THEN IF ap.deleting
         THEN IF ap.finalizer THEN "finScheme" ELSE "idle"
         ELSE IF ap.finalizer THEN "backRef" ELSE "addFinalizer"
    ELSE "idle"

\* Where Reconcile begins with the policy it read.
EntryStage(ap) ==
    IF ap.live
    THEN IF ap.deleting
         THEN IF ap.finalizer THEN "finRules" ELSE "idle"
         ELSE IF ap.finalizer THEN "backRef" ELSE "addFinalizer"
    ELSE "idle"

\* Mutant: every reconciliation puts the policy back.
StartAgain(p) ==
    /\ At("idle")
    /\ p \in queue
    /\ UNCHANGED queue
    /\ LET ap == cache.policy[p]
           pc == EntryStage(ap)
       IN  wk' = IF pc = "idle" THEN Idle ELSE [Idle EXCEPT !.pc = pc, !.p = p, !.ap = ap]
    /\ UNCHANGED <<store, faults>>

\* Take a policy from the queue and read it.
Start(p) ==
    /\ At("idle")
    /\ p \in queue
    /\ queue' = queue \ {p}
    /\ LET ap == cache.policy[p]
           pc == EntryStage(ap)
       IN  wk' = IF pc = "idle" THEN Idle ELSE [Idle EXCEPT !.pc = pc, !.p = p, !.ap = ap]
    /\ UNCHANGED <<store, faults>>

\* The update of a policy that is no longer there is not an error: Reconcile
\* goes on with its copy.
AddFinalizer ==
    /\ At("addFinalizer")
    /\ LET next == [wk EXCEPT !.pc = "backRef", !.ap.finalizer = TRUE]
       IN  \/ ~store.policy[wk.p].live /\ Advance(next)
           \/ /\ store.policy[wk.p].live
              /\ Call(UpdateAccepted(store.policy[wk.p], wk.ap),
                      [store EXCEPT !.policy[wk.p] = next.ap], Goto(next))

\* The target as the worker read it, with the annotation set or taken away.
WithBackRef(t, p) ==
    IF t \in Routes
    THEN [store EXCEPT !.route[t] = [cache.route[t] EXCEPT !.backref = p]]
    ELSE [store EXCEPT !.gateway[t] = [cache.gateway[t] EXCEPT !.backref = p]]

TargetUpdateAccepted(t) ==
    IF t \in Routes
    THEN UpdateAccepted(store.route[t], cache.route[t])
    ELSE UpdateAccepted(store.gateway[t], cache.gateway[t])

\* The targetRef is supported and valid, and the hosts of rules and scheme lie
\* within the target's hostnames.
SpecValid ==
    /\ Validate(wk.p, wk.ap.target)
    /\ FetchValidTargetRef(cache, wk.ap.target)
    /\ <<wk.ap.spec, TargetHostnames(cache, wk.ap.target)>> \in Fits

\* Mutant: whose key the annotation holds is not looked at.
TakenNever(t) == FALSE

\* The annotation holds the key of another policy.
Taken(t) == BackRef(cache, t) \notin {wk.p, NoPolicy}

\* Validate and enforceHierarchicalConstraints, then write the policy's key in
\* the target's annotation unless it is there already; the key of another
\* policy is an error.
ReconcileNetworkResourceBackReference ==
    /\ At("backRef")
    /\ LET t    == wk.ap.target
           next == [wk EXCEPT !.pc = "rules"]
       IN  \/ ~SpecValid /\ Abort
           \/ /\ SpecValid /\ wk.ap.spec \notin Schemeless
              /\ \/ Taken(t) /\ Abort
                 \/ BackRef(cache, t) = wk.p /\ Advance(next)
                 \/ /\ ~Taken(t) /\ BackRef(cache, t) # wk.p
                    /\ Call(TargetUpdateAccepted(t), WithBackRef(t, wk.p), Goto(next))

\* Rules given, or those compiled from the route; a gateway policy without
\* rules selects every request.
AuthRules(c, t, s) ==
    CASE s \notin Ruleless -> <<s, {}>>
      [] s \in Ruleless /\ t \in Routes -> <<None, OrWildcard(c.route[t].hosts)>>
      [] OTHER -> <<None, {}>>

\* Compile the rules and list the gateways. The target is fetched for its
\* rules when none are given, and a failure of that is returned; one of the
\* second fetch, for the gateway keys, is taken for "nothing to do".
ComputeAuthRules ==
    /\ At("rules")
    /\ LET t       == wk.ap.target
           fetched == wk.ap.spec \in Ruleless => FetchValidTargetRef(cache, t)
       IN  \/ ~fetched /\ Abort
           \/ fetched /\ ~TargetedGatewayKeysOK(cache, t) /\ Advance([wk EXCEPT !.pc = "scheme"])
           \/ /\ fetched /\ TargetedGatewayKeysOK(cache, t)
              /\ Advance([wk EXCEPT !.pc = "iap", !.rules = AuthRules(cache, t, wk.ap.spec),
                                    !.todo = GatewayKeys(cache, t)])

\* ReconcileResource with an error AlreadyExists ignored: what the cache does
\* not have but the server does counts as reconciled, and stays as it is.
AlreadyExists(cached, stored, none) == cached = none /\ stored # none

\* What ReconcileResource sends when the object is found: all of the existing
\* one but its rules, or its spec. Without an existing object, the desired one.
alwaysUpdateAuthPolicy(existing, rules) == [existing EXCEPT !.live = TRUE, !.rules = rules]

alwaysUpdateAuthConfig(existing, spec) == [existing EXCEPT !.live = TRUE, !.spec = spec]

\* An AuthorizationPolicy is created, or always updated, for every gateway key
\* of the target, whether that gateway exists or not.
ReconcileAuthRules(key) ==
    /\ At("iap")
    /\ LET n       == getAuthPolicyName(key[1], wk.ap.target)
           desired == alwaysUpdateAuthPolicy(cache.iap[n], wk.rules)
           exists  == AlreadyExists(cache.iap[n], store.iap[n], NoSuchIAP)
       IN  Call(exists \/ ResourceAccepted(cache.iap[n], store.iap[n], desired, NoSuchIAP),
                IF exists THEN store ELSE [store EXCEPT !.iap[n] = desired],
                Goto(Visited(key)))

\* The loop is done.
AuthRulesDone ==
    /\ At("iap")
    /\ wk.todo = {}
    /\ Advance([wk EXCEPT !.pc = "scheme"])

\* The AuthConfig is created, or always updated.
ReconcileAuthSchemes ==
    /\ At("scheme")
    /\ LET n       == authConfigName[wk.p]
           desired == alwaysUpdateAuthConfig(cache.config[n], wk.ap.spec)
           exists  == AlreadyExists(cache.config[n], store.config[n], NoSuchConfig)
       IN  Call(exists \/ ResourceAccepted(cache.config[n], store.config[n], desired, NoSuchConfig),
                IF exists THEN store ELSE [store EXCEPT !.config[n] = desired],
                Goto([wk EXCEPT !.pc = "status"]))

availableCondition(config) ==
    IF wk.err THEN "ReconciliationError"
    ELSE IF config.ready THEN "Protected" ELSE "AuthSchemeNotReady"

\* Without an error the AuthConfig must be found in the cache. The status is
\* written when it changes or lags behind the generation; a conflict requeues,
\* as does any error.
ReconcileStatus ==
    /\ At("status")
    /\ LET config == cache.config[authConfigName[wk.p]]
           status == [wk.ap EXCEPT !.observed = TRUE, !.available = availableCondition(config)]
           failed == ~wk.err /\ ~config.live
           Finish == IF wk.err THEN Requeue ELSE Goto(Idle)
       IN  \/ failed /\ Abort
           \/ ~failed /\ status = wk.ap /\ Finish /\ UNCHANGED <<store, faults>>
           \/ ~failed /\ status # wk.ap /\ Call(UpdateAccepted(store.policy[wk.p], wk.ap),
                                                [store EXCEPT !.policy[wk.p] = status], Finish)

-----------------------------------------------------------------------------
(* Finalization of a deleted policy.                                       *)

\* A target that cannot be fetched leaves nothing to remove.
ListIstioAuthPolicies ==
    /\ At("finRules")
    /\ LET t == wk.ap.target
       IN  \/ ~TargetedGatewayKeysOK(cache, t) /\ Advance([wk EXCEPT !.pc = "finScheme"])
           \/ /\ TargetedGatewayKeysOK(cache, t)
              /\ Advance([wk EXCEPT !.pc = "finIAP", !.todo = GatewayKeys(cache, t)])

\* Deleting what is not there is an error like any other.
RemoveIstioAuthPolicy(key) ==
    /\ At("finIAP")
    /\ LET n == getAuthPolicyName(key[1], wk.ap.target)
       IN  Call(store.iap[n].live, [store EXCEPT !.iap[n] = NoSuchIAP], Goto(Visited(key)))

IstioAuthPoliciesRemoved ==
    /\ At("finIAP")
    /\ wk.todo = {}
    /\ Advance([wk EXCEPT !.pc = "finScheme"])

\* Here NotFound is no error.
RemoveAuthSchemes ==
    /\ At("finScheme")
    /\ Call(TRUE, [store EXCEPT !.config[authConfigName[wk.p]] = NoSuchConfig],
            Goto([wk EXCEPT !.pc = "finBackRef"]))

\* Whatever policy the annotation of the target names, it goes. A target that
\* is not found is no error, one of an unsupported kind is.
DeleteNetworkResourceBackReference ==
    /\ At("finBackRef")
    /\ LET t     == wk.ap.target
           next  == [wk EXCEPT !.pc = "finRemove"]
           valid == FetchValidTargetRef(cache, t)
           gone  == t \notin Unsupported /\ ~TargetLive(cache, t)
       IN  \/ gone /\ Advance(next)
           \/ ~gone /\ ~valid /\ Abort
           \/ valid /\ BackRef(cache, t) = NoPolicy /\ Advance(next)
           \/ /\ valid /\ BackRef(cache, t) # NoPolicy
              /\ Call(TargetUpdateAccepted(t), WithBackRef(t, NoPolicy), Goto(next))

\* Without its finalizer the API server drops the object.
RemoveFinalizer ==
    /\ At("finRemove")
    /\ \/ ~store.policy[wk.p].live /\ Advance(Idle)
       \/ /\ store.policy[wk.p].live
          /\ Call(UpdateAccepted(store.policy[wk.p], wk.ap),
                  [store EXCEPT !.policy[wk.p] = NoSuchAuthPolicy], Goto(Idle))

-----------------------------------------------------------------------------
\* The process stops and another takes over: caches are listed afresh and the
\* events of that listing enqueue every policy the mappers name.
Restart ==
    /\ wk' = Idle
    /\ cache' = store
    /\ queue' = {p \in Policies :
                    \/ store.policy[p].live
                    \/ \E r \in Routes : store.route[r].backref = p
                    \/ \E g \in Gateways : store.gateway[g].backref = p}
    /\ UNCHANGED <<store, edits>>

Crash ==
    /\ faults > 0
    /\ wk.pc # "idle"
    /\ faults' = faults - 1
    /\ Restart

\* enforceHierarchicalConstraints takes the hosts of an authScheme that is not
\* there: a nil dereference, which no one recovers from.
Panic ==
    /\ wk.pc = "backRef"
    /\ Settled
    /\ SpecValid
    /\ wk.ap.spec \in Schemeless
    /\ Restart
    /\ UNCHANGED faults

-----------------------------------------------------------------------------
(* The environment: users edit policies, Authorino sets the readiness of   *)
(* AuthConfigs, and the RateLimitPolicy controller annotates gateways.     *)

CreatePolicy(p, t, s) ==
    /\ ~store.policy[p].live
    /\ Edit("create", [store EXCEPT !.policy[p] = NewAuthPolicy(t, s)])

\* A change of spec raises metadata.generation; a policy that is being deleted
\* can still be edited.
EditSpec(p, s) ==
    /\ store.policy[p].live
    /\ store.policy[p].spec # s
    /\ Edit(IF store.policy[p].deleting THEN "lateSpec" ELSE "spec",
            [store EXCEPT !.policy[p] = [@ EXCEPT !.spec = s, !.observed = FALSE]])

Retarget(p, t) ==
    /\ store.policy[p].live
    /\ store.policy[p].target # t
    /\ Edit("retarget", [store EXCEPT !.policy[p] = [@ EXCEPT !.target = t, !.observed = FALSE]])

\* The API server keeps an object with a finalizer and marks it.
DeletePolicy(p) ==
    /\ store.policy[p].live
    /\ store.policy[p].finalizer
    /\ ~store.policy[p].deleting
    /\ Edit("delete", [store EXCEPT !.policy[p] = [@ EXCEPT !.deleting = TRUE, !.observed = FALSE]])

\* A policy the controller has not put its finalizer on goes at once.
DeleteUnmarkedPolicy(p) ==
    /\ store.policy[p].live
    /\ ~store.policy[p].finalizer
    /\ Edit("deleteUnmarked", [store EXCEPT !.policy[p] = NoSuchAuthPolicy])

SetConfigReady(n, b) ==
    /\ store.config[n].live
    /\ store.config[n].ready # b
    /\ Edit("config", [store EXCEPT !.config[n].ready = b])

AnnotateGateway(g, R) ==
    /\ store.gateway[g].live
    /\ store.gateway[g].refs # R
    /\ Edit("annotate", [store EXCEPT !.gateway[g].refs = R])

EditPolicies ==
    \E p \in Policies :
        \/ \E t \in TargetsOf[p], s \in Specs : CreatePolicy(p, t, s)
        \/ \E s \in Specs : EditSpec(p, s)
        \/ \E t \in TargetsOf[p] : Retarget(p, t)
        \/ DeletePolicy(p)
        \/ DeleteUnmarkedPolicy(p)

Others ==
    \/ \E n \in ConfigNames, b \in BOOLEAN : SetConfigReady(n, b)
    \/ \E g \in Gateways, R \in SUBSET Policies : AnnotateGateway(g, R)

Environment ==
    /\ EditPolicies \/ EditRoutes \/ EditGateways \/ Others
    /\ UNCHANGED <<wk, faults>>

-----------------------------------------------------------------------------
Init ==
    /\ \E S \in SUBSET Policies, ts \in [Policies -> Targets], ss \in [Policies -> Specs],
          ps \in [Routes -> SUBSET Gateways],
          hs \in [Routes \cup Gateways -> HostLists] :
          /\ \A p \in Policies : ts[p] \in TargetsOf[p]
          /\ \A r \in Routes : ps[r] \in ParentsOf[r]
          /\ store =
              [policy |-> [p \in Policies |->
                             IF p \in S THEN NewAuthPolicy(ts[p], ss[p]) ELSE NoSuchAuthPolicy],
               route |-> [r \in Routes |->
                             [NoSuchRoute EXCEPT !.live = TRUE, !.parents = ps[r], !.hosts = hs[r]]],
               gateway |-> [g \in Gateways |->
                             [NoSuchGateway EXCEPT !.live = TRUE, !.ready = TRUE, !.hosts = hs[g]]],
               iap |-> [n \in IAPNames |-> NoSuchIAP],
               config |-> [n \in ConfigNames |-> NoSuchConfig]]
          /\ queue = S
    /\ cache = store
    /\ edits = MaxEdits
    /\ wk = Idle
    /\ faults = MaxFaults

Apply ==
    \/ AddFinalizer
    \/ ReconcileNetworkResourceBackReference
    \/ ComputeAuthRules
    \/ \E key \in wk.todo : ReconcileAuthRules(key)
    \/ AuthRulesDone
    \/ ReconcileAuthSchemes
    \/ ReconcileStatus

Finalize ==
    \/ ListIstioAuthPolicies
    \/ \E key \in wk.todo : RemoveIstioAuthPolicy(key)
    \/ IstioAuthPoliciesRemoved
    \/ RemoveAuthSchemes
    \/ DeleteNetworkResourceBackReference
    \/ RemoveFinalizer

Work == Apply \/ Finalize

Next ==
    \/ \E p \in Policies : Start(p)
    \/ Work
    \/ Panic
    \/ Watch
    \/ Environment
    \/ Crash

Spec == Init /\ [][Next]_vars

\* Informers deliver, a worker that has begun goes on (if only to panic), and
\* the queue is first in, first out. Users and faults owe nothing.
Fairness ==
    /\ WF_vars(Watch)
    /\ WF_vars(Work \/ Panic)
    /\ \A p \in Policies : SF_vars(Start(p))

FairSpec == Spec /\ Fairness
=============================================================================
