---------------------- MODULE AuthPolicyOwnershipProofs ----------------------
(***************************************************************************)
(* The back-reference annotations of the AuthPolicy controller implement   *)
(* the lock of TargetOwnership, and only the policy that holds the lock    *)
(* writes the AuthorizationPolicies of the target, whatever the caches     *)
(* hold.                                                                   *)
(***************************************************************************)
EXTENDS AuthPolicyProofs

-----------------------------------------------------------------------------
(* Steps, as the annotations see them.                                     *)

OwnersKept ==
    \A u \in Lockable :
        /\ TargetLive(store', u) = TargetLive(store, u)
        /\ BackRef(store', u) = BackRef(store, u)

JobKept ==
    /\ wk'.p = wk.p
    /\ wk'.ap.target = wk.ap.target
    /\ wk'.ap.deleting = wk.ap.deleting

Claims(t) ==
    /\ t = wk.ap.target /\ ~wk.ap.deleting /\ wk.p \in Policies
    /\ TargetLive(store, t) /\ BackRef(store, t) = NoPolicy
    /\ OwnerBecomes(t, wk.p)
    /\ JobKept

Releases(t) ==
    /\ t = wk.ap.target /\ wk.ap.deleting /\ wk.p \in Policies
    /\ TargetLive(store, t)
    /\ OwnerBecomes(t, NoPolicy)
    /\ JobKept \/ wk' = Idle

\* Users make t appear or vanish, and its annotation goes with it.
Toggles(t) ==
    /\ TargetLive(store', t) <=> ~TargetLive(store, t)
    /\ BackRef(store', t) = NoPolicy
    /\ \A u \in Lockable \ {t} :
          /\ TargetLive(store', u) = TargetLive(store, u)
          /\ BackRef(store', u) = BackRef(store, u)
    /\ JobKept

\* Taking up a policy with its target.
Begins(p) ==
    /\ wk = Idle
    /\ OwnersKept
    /\ wk'.p = p /\ wk'.ap \in AuthPolicy

LEMMA SameTargetsKeepOwners ==
    store'.route = store.route /\ store'.gateway = store.gateway => OwnersKept
BY DEF OwnersKept, TargetLive, BackRef

LEMMA WorkKinds ==
    ASSUME TypeInv, CopyInv, Work
    PROVE  \/ OwnersKept /\ (JobKept \/ wk' = Idle)
           \/ Claims(wk.ap.target) /\ wk.ap.target \in Lockable
           \/ Releases(wk.ap.target) /\ wk.ap.target \in Lockable
<1> DEFINE Quiet == OwnersKept /\ (JobKept \/ wk' = Idle)
<1>0. wk.ap \in AuthPolicy /\ wk.p \in Policies
  BY TypeParts, WorkSteps
<1>1. /\ Kept => JobKept
      /\ \A pc : MovesTo(pc) => JobKept
      /\ Reports => JobKept
      /\ GivesUp \/ Ends => wk' = Idle
      /\ Armed => JobKept
  BY <1>0 DEF JobKept, Kept, MovesTo, Reports, GivesUp, Ends, Armed, AuthPolicy
<1>2. /\ store' = store => OwnersKept
      /\ \A p, x : PolicyBecomes(p, x) => OwnersKept
      /\ \A n, x : RuleBecomes(n, x) \/ ConfigBecomes(n, x) => OwnersKept
  BY SameTargetsKeepOwners DEF PolicyBecomes, RuleBecomes, ConfigBecomes
<1>3. FetchValidTargetRef(cache, wk.ap.target) => TargetLive(cache, wk.ap.target)
  BY DEF FetchValidTargetRef, FetchValidHTTPRoute, FetchValidGateway, TargetLive
<1>4. CASE BackRefStep
  <2>1. wk.pc = "backRef" /\ ~wk.ap.deleting
    BY <1>4 DEF BackRefStep, CopyInv, ApplyStages, SpecStages
  <2>2. CASE store' = store /\ (Reports \/ MovesTo("rules"))
    BY <1>1, <1>2, <2>2
  <2>3. CASE /\ SpecValid /\ BackRef(cache, wk.ap.target) = NoPolicy
             /\ OwnerBecomes(wk.ap.target, wk.p)
             /\ MovesTo("rules") \/ Reports
    <3>1. wk.ap.target \in Lockable /\ TargetLive(store, wk.ap.target)
      BY <1>3, <2>3 DEF OwnerBecomes, SpecValid
    <3>2. BackRef(store, wk.ap.target) = NoPolicy
      BY <2>3 DEF OwnerBecomes
    <3>3. Claims(wk.ap.target)
      BY <1>0, <1>1, <2>1, <2>3, <3>1, <3>2 DEF Claims
    <3> QED BY <3>1, <3>3
  <2> QED BY <1>4, <2>2, <2>3 DEF BackRefStep
<1>5. CASE FinBackRefStep
  <2>1. wk.pc = "finBackRef" /\ wk.ap.deleting
    BY <1>5 DEF FinBackRefStep, CopyInv, FinStages
  <2>2. CASE store' = store /\ (GivesUp \/ MovesTo("finRemove"))
    BY <1>1, <1>2, <2>2
  <2>3. CASE /\ FetchValidTargetRef(cache, wk.ap.target)
             /\ OwnerBecomes(wk.ap.target, NoPolicy)
             /\ MovesTo("finRemove") \/ GivesUp
    <3>1. wk.ap.target \in Lockable /\ TargetLive(store, wk.ap.target)
      BY <1>3, <2>3 DEF OwnerBecomes
    <3>2. Releases(wk.ap.target)
      BY <1>0, <1>1, <2>1, <2>3, <3>1 DEF Releases
    <3> QED BY <3>1, <3>2
  <2> QED BY <1>5, <2>2, <2>3 DEF FinBackRefStep
<1>6. CASE AddFinalizerStep
  BY <1>1, <1>2, <1>6 DEF AddFinalizerStep
<1>7. CASE RulesStep
  BY <1>1, <1>2, <1>7 DEF RulesStep
<1>8. CASE IAPStep
  BY <1>1, <1>2, <1>8 DEF IAPStep
<1>9. CASE SchemeStep
  BY <1>1, <1>2, <1>9 DEF SchemeStep
<1>10. CASE StatusStep
  BY <1>1, <1>2, <1>10 DEF StatusStep
<1>11. CASE FinRulesStep
  BY <1>1, <1>2, <1>11 DEF FinRulesStep
<1>12. CASE FinSchemeStep
  BY <1>1, <1>2, <1>12 DEF FinSchemeStep
<1>13. CASE FinRemoveStep
  BY <1>1, <1>2, <1>13 DEF FinRemoveStep
<1> QED BY <1>4, <1>5, <1>6, <1>7, <1>8, <1>9, <1>10, <1>11, <1>12, <1>13, WorkSteps DEF WorkStep

\* A route or a gateway is edited: its annotation stays, or goes with it.
LEMMA TargetEditKinds ==
    ASSUME TypeInv, JobKept
    PROVE  /\ \A r \in Routes : RouteEdited(r) => OwnersKept \/ Toggles(r)
           /\ \A g \in Gateways : GatewayEdited(g) => OwnersKept \/ Toggles(g)
<1>0. /\ store \in AuthCluster /\ Routes \cap Gateways = {}
      /\ \A r \in Routes : store.route[r] \in Route
      /\ \A g \in Gateways : store.gateway[g] \in Gateway
  BY TypeParts, GetTypes, ClusterAssumption
<1>1. ASSUME NEW r \in Routes, RouteEdited(r) PROVE OwnersKept \/ Toggles(r)
  <2>1. PICK x \in Route : store' = [store EXCEPT !.route[r] = x] /\ TargetEdited(store.route[r], x)
    BY <1>1 DEF RouteEdited
  <2>2. /\ store'.gateway = store.gateway /\ store'.route[r] = x
        /\ \A q \in Routes \ {r} : store'.route[q] = store.route[q]
    BY <1>0, <2>1, PutRoute
  <2>3. \A u \in Lockable \ {r} :
          /\ TargetLive(store', u) = TargetLive(store, u)
          /\ BackRef(store', u) = BackRef(store, u)
    BY <1>0, <2>2 DEF TargetLive, BackRef, Lockable
  <2>4. /\ TargetLive(store, r) = store.route[r].live /\ BackRef(store, r) = store.route[r].backref
        /\ TargetLive(store', r) = x.live /\ BackRef(store', r) = x.backref
    BY <1>0, <2>2 DEF TargetLive, BackRef, Route
  <2> QED BY <2>1, <2>3, <2>4 DEF TargetEdited, OwnersKept, Toggles
<1>2. ASSUME NEW g \in Gateways, GatewayEdited(g) PROVE OwnersKept \/ Toggles(g)
  <2>1. PICK x \in Gateway : store' = [store EXCEPT !.gateway[g] = x] /\ TargetEdited(store.gateway[g], x)
    BY <1>2 DEF GatewayEdited
  <2>2. /\ store'.route = store.route /\ store'.gateway[g] = x
        /\ \A q \in Gateways \ {g} : store'.gateway[q] = store.gateway[q]
    BY <1>0, <2>1, PutGateway
  <2>3. \A u \in Lockable \ {g} :
          /\ TargetLive(store', u) = TargetLive(store, u)
          /\ BackRef(store', u) = BackRef(store, u)
    BY <1>0, <2>2 DEF TargetLive, BackRef, Lockable
  <2>4. /\ TargetLive(store, g) = store.gateway[g].live /\ BackRef(store, g) = store.gateway[g].backref
        /\ TargetLive(store', g) = x.live /\ BackRef(store', g) = x.backref
    BY <1>0, <2>2 DEF TargetLive, BackRef, Gateway
  <2> QED BY <2>1, <2>3, <2>4 DEF TargetEdited, OwnersKept, Toggles
<1> QED BY <1>1, <1>2

LEMMA EnvironmentKinds ==
    ASSUME TypeInv, Environment
    PROVE  \/ OwnersKept /\ JobKept
           \/ \E t \in Lockable : Toggles(t)
<1>1. JobKept
  BY DEF Environment, JobKept
<1>2. ASSUME NEW p \in Policies, PolicyEdited(p) PROVE OwnersKept
  BY <1>2, TypeParts, PutPolicy, SameTargetsKeepOwners DEF PolicyEdited
<1>3. ASSUME NEW n \in ConfigNames, ConfigEdited(n) PROVE OwnersKept
  BY <1>3, TypeParts, PutConfig, SameTargetsKeepOwners DEF ConfigEdited
<1> QED BY <1>1, <1>2, <1>3, TargetEditKinds, EnvironmentEffect DEF Lockable

\* Every step is one of these to the lock.
LEMMA NextKinds ==
    ASSUME TypeInv, CopyInv, [Next]_vars
    PROVE  \/ OwnersKept /\ (JobKept \/ wk' = Idle)
           \/ \E p \in Policies : Begins(p)
           \/ \E t \in Lockable : Claims(t) \/ Releases(t) \/ Toggles(t)
<1>0. store' = store => OwnersKept
  BY SameTargetsKeepOwners
<1>1. ASSUME NEW p \in Policies, Start(p)
      PROVE  Begins(p) \/ (OwnersKept /\ wk' = Idle)
  <2>1. wk = Idle /\ store' = store
    BY <1>1, StartEffect DEF Stepped, At, CopyInv
  <2>2. cache.policy[p] \in AuthPolicy
    BY TypeParts, GetTypes
  <2>3. wk' = Idle \/ (wk'.p = p /\ wk'.ap \in AuthPolicy)
    BY <1>1, <2>2, StartEffect DEF Idle
  <2> QED BY <1>0, <2>1, <2>3 DEF Begins
<1>2. CASE Work
  BY <1>2, WorkKinds
<1>3. CASE Watch \/ UNCHANGED vars
  BY <1>0, <1>3 DEF Watch, vars, JobKept
<1>4. CASE Environment
  BY <1>4, EnvironmentKinds
<1>5. CASE Crash \/ Panic
  BY <1>0, <1>5, RestartEffect DEF Restart
<1> QED BY <1>1, <1>2, <1>3, <1>4, <1>5 DEF Next

-----------------------------------------------------------------------------
(* The refinement.                                                         *)

LEMMA StutterStep == OwnersKept /\ JobKept => UNCHANGED Ownership!vars
BY DEF OwnersKept, JobKept, Lockable, Ownership!vars

\* An idle worker has no job.
LEMMA IdleJob ==
    [policy |-> Idle.p, target |-> Idle.ap.target, deleting |-> Idle.ap.deleting] = Ownership!NoJob
<1>1. Idle.p = NoPolicy /\ Idle.ap = NoSuchAuthPolicy
  BY DEF Idle
<1>2. NoSuchAuthPolicy.target = None /\ NoSuchAuthPolicy.deleting = FALSE
  BY DEF NoSuchAuthPolicy
<1> QED BY <1>1, <1>2 DEF Ownership!NoJob

LEMMA EndStep == OwnersKept /\ wk' = Idle => Ownership!Next
BY IdleJob DEF OwnersKept, Lockable, Ownership!Next, Ownership!End

LEMMA ClaimStep ==
    ASSUME NEW t \in Lockable, Claims(t)
    PROVE  Ownership!Next
<1>1. wk.p # NoPolicy
  BY ClusterAssumption DEF Claims
<1>2. Ownership!Claim(t)
  BY <1>1 DEF Claims, OwnerBecomes, JobKept, Lockable, Ownership!Claim, Ownership!NoJob
<1> QED BY <1>2 DEF Lockable, Ownership!Next

LEMMA ReleaseStep ==
    ASSUME NEW t \in Lockable, Releases(t)
    PROVE  Ownership!Next
<1> DEFINE job == [policy |-> wk.p, target |-> wk.ap.target, deleting |-> wk.ap.deleting]
<1>0. /\ t = wk.ap.target /\ wk.ap.deleting /\ wk.p \in Policies
      /\ TargetLive(store, t) /\ OwnerBecomes(t, NoPolicy) /\ (JobKept \/ wk' = Idle)
  BY DEF Releases
<1>1. job' \in {job, Ownership!NoJob}
  BY <1>0, IdleJob DEF JobKept
<1>2. job # Ownership!NoJob /\ job.target = t /\ job.deleting
  BY <1>0, ClusterAssumption DEF Ownership!NoJob
<1>3. [u \in Lockable |-> TargetLive(store, u)][t]
  BY <1>0
<1>4. [u \in Lockable |-> BackRef(store, u)]'
        = [[u \in Lockable |-> BackRef(store, u)] EXCEPT ![t] = NoPolicy]
  BY <1>0 DEF OwnerBecomes, Lockable
<1>5. [u \in Lockable |-> TargetLive(store, u)]' = [u \in Lockable |-> TargetLive(store, u)]
  BY <1>0 DEF OwnerBecomes, Lockable
<1>6. Ownership!Release(t)
  BY <1>1, <1>2, <1>3, <1>4, <1>5 DEF Lockable, Ownership!Release
<1> QED BY <1>6 DEF Lockable, Ownership!Next

\* A target that is not there carries no annotation.
AbsentUnowned == \A u \in Lockable : ~TargetLive(store, u) => BackRef(store, u) = NoPolicy

LEMMA NextAbsentUnowned ==
    TypeInv /\ CopyInv /\ AbsentUnowned /\ [Next]_vars => AbsentUnowned'
<1> SUFFICES ASSUME TypeInv, CopyInv, AbsentUnowned, [Next]_vars
             PROVE  \A u \in Lockable : ~TargetLive(store', u) => BackRef(store', u) = NoPolicy
  BY DEF AbsentUnowned, Lockable
<1>1. CASE OwnersKept
  BY <1>1 DEF OwnersKept, AbsentUnowned
<1>2. ASSUME NEW t \in Lockable, Claims(t) \/ Releases(t)
      PROVE  \A u \in Lockable : ~TargetLive(store', u) => BackRef(store', u) = NoPolicy
  BY <1>2 DEF Claims, Releases, OwnerBecomes, AbsentUnowned
<1>3. ASSUME NEW t \in Lockable, Toggles(t)
      PROVE  \A u \in Lockable : ~TargetLive(store', u) => BackRef(store', u) = NoPolicy
  BY <1>3 DEF Toggles, AbsentUnowned
<1> QED BY <1>1, <1>2, <1>3, NextKinds DEF Begins

LEMMA ToggleStep ==
    ASSUME AbsentUnowned, NEW t \in Lockable, Toggles(t)
    PROVE  Ownership!Next
<1>1. CASE TargetLive(store, t)
  <2>1. [u \in Lockable |-> TargetLive(store, u)]'
          = [[u \in Lockable |-> TargetLive(store, u)] EXCEPT ![t] = FALSE]
    <3>1. TargetLive(store', t) = FALSE
      BY <1>1 DEF Toggles, TargetLive
    <3> QED BY <3>1 DEF Toggles, Lockable
  <2>2. [u \in Lockable |-> BackRef(store, u)]'
          = [[u \in Lockable |-> BackRef(store, u)] EXCEPT ![t] = NoPolicy]
    BY DEF Toggles, Lockable
  <2>3. Ownership!Vanish(t)
    BY <1>1, <2>1, <2>2 DEF Toggles, JobKept, Lockable, Ownership!Vanish
  <2> QED BY <2>3 DEF Lockable, Ownership!Next
<1>2. CASE ~TargetLive(store, t)
  <2>1. BackRef(store, t) = NoPolicy
    BY <1>2 DEF AbsentUnowned
  <2>2. Ownership!Appear(t)
    BY <1>2, <2>1 DEF Toggles, JobKept, Lockable, Ownership!Appear
  <2> QED BY <2>2 DEF Lockable, Ownership!Next
<1> QED BY <1>1, <1>2

\* Every step is a step of the lock, or none.
LEMMA NextIsOwnershipStep ==
    TypeInv /\ CopyInv /\ AbsentUnowned /\ [Next]_vars => [Ownership!Next]_(Ownership!vars)
<1> SUFFICES ASSUME TypeInv, CopyInv, AbsentUnowned, [Next]_vars
             PROVE  [Ownership!Next]_(Ownership!vars)
  OBVIOUS
<1>1. CASE OwnersKept /\ (JobKept \/ wk' = Idle)
  BY <1>1, StutterStep, EndStep
<1>2. ASSUME NEW p \in Policies, Begins(p) PROVE Ownership!Next
  <2>1. wk'.ap.target \in Targets \cup {None} /\ wk'.ap.deleting \in BOOLEAN
    BY <1>2 DEF Begins, AuthPolicy
  <2>2. Ownership!Begin(p, wk'.ap.target, wk'.ap.deleting)
    BY <1>2, IdleJob DEF Begins, OwnersKept, Lockable, Ownership!Begin
  <2> QED BY <2>1, <2>2 DEF Ownership!Next
<1> QED BY <1>1, <1>2, ClaimStep, ReleaseStep, ToggleStep, NextKinds

\* At first no target carries an annotation, no policy the finalizer or a mark,
\* there is no AuthConfig and no AuthorizationPolicy, every route is there and
\* rejected by no one, and every policy is in the queue with a target of its own.
LEMMA InitFacts ==
    ASSUME Init
    PROVE  /\ \A u \in Lockable : BackRef(store, u) = NoPolicy /\ TargetLive(store, u) \in BOOLEAN
           /\ \A p \in Policies : /\ ~store.policy[p].finalizer /\ ~store.policy[p].deleting
                                  /\ store.policy[p].live => p \in queue
                                  /\ store.policy[p].live => store.policy[p].target \in TargetsOf[p]
           /\ \A r \in Routes : store.route[r].live /\ store.route[r].rejecting = {}
           /\ \A n \in IAPNames : store.iap[n] = NoSuchIAP
           /\ \A n \in ConfigNames : ~store.config[n].live
<1>1. PICK S \in SUBSET Policies, ts \in [Policies -> Targets], ss \in [Policies -> Specs],
           ps \in [Routes -> SUBSET Gateways], hs \in [Routes \cup Gateways -> HostLists] :
        /\ \A p \in Policies : ts[p] \in TargetsOf[p]
        /\ store =
              [policy |-> [p \in Policies |->
                             IF p \in S THEN NewAuthPolicy(ts[p], ss[p]) ELSE NoSuchAuthPolicy],
               route |-> [r \in Routes |->
                             [NoSuchRoute EXCEPT !.live = TRUE, !.parents = ps[r], !.hosts = hs[r]]],
               gateway |-> [g \in Gateways |->
                             [NoSuchGateway EXCEPT !.live = TRUE, !.ready = TRUE, !.hosts = hs[g]]],
               iap |-> [n \in IAPNames |-> NoSuchIAP],
               config |-> [n \in ConfigNames |-> NoSuchConfig]]
        /\ queue = S
  BY DEF Init
<1>2. \A a, b : /\ [NoSuchRoute EXCEPT !.live = TRUE, !.parents = a, !.hosts = b].backref = NoPolicy
                /\ [NoSuchRoute EXCEPT !.live = TRUE, !.parents = a, !.hosts = b].live
                /\ [NoSuchRoute EXCEPT !.live = TRUE, !.parents = a, !.hosts = b].rejecting = {}
  BY DEF NoSuchRoute
<1>3. \A b : [NoSuchGateway EXCEPT !.live = TRUE, !.ready = TRUE, !.hosts = b].backref = NoPolicy
  BY DEF NoSuchGateway
<1>4. \A r \in Routes : /\ store.route[r].backref = NoPolicy
                        /\ store.route[r].live /\ store.route[r].rejecting = {}
  <2> TAKE r \in Routes
  <2>1. store.route[r] = [NoSuchRoute EXCEPT !.live = TRUE, !.parents = ps[r], !.hosts = hs[r]]
    BY <1>1
  <2> QED BY <1>2, <2>1, Zenon
<1>5. \A g \in Gateways : store.gateway[g].backref = NoPolicy
  <2> TAKE g \in Gateways
  <2>1. store.gateway[g] = [NoSuchGateway EXCEPT !.live = TRUE, !.ready = TRUE, !.hosts = hs[g]]
    BY <1>1
  <2> QED BY <1>3, <2>1, Zenon
<1>6. \A t, s : /\ ~NewAuthPolicy(t, s).finalizer /\ ~NewAuthPolicy(t, s).deleting
                /\ NewAuthPolicy(t, s).target = t
  BY DEF NewAuthPolicy, NoSuchAuthPolicy
<1>7. ~NoSuchAuthPolicy.live /\ ~NoSuchAuthPolicy.finalizer /\ ~NoSuchAuthPolicy.deleting
  BY DEF NoSuchAuthPolicy
<1>8. \A p \in Policies : /\ ~store.policy[p].finalizer /\ ~store.policy[p].deleting
                          /\ store.policy[p].live => p \in queue
                          /\ store.policy[p].live => store.policy[p].target \in TargetsOf[p]
  <2> TAKE p \in Policies
  <2>1. store.policy[p] = IF p \in S THEN NewAuthPolicy(ts[p], ss[p]) ELSE NoSuchAuthPolicy
    BY <1>1
  <2> QED BY <1>1, <1>6, <1>7, <2>1
<1>9. /\ \A n \in IAPNames : store.iap[n] = NoSuchIAP
      /\ \A n \in ConfigNames : ~store.config[n].live
  BY <1>1 DEF NoSuchConfig
<1>10. \A u \in Lockable : BackRef(store, u) = NoPolicy /\ TargetLive(store, u) \in BOOLEAN
  BY <1>4, <1>5 DEF BackRef, Lockable, TargetLive
<1> QED BY <1>4, <1>8, <1>9, <1>10

LEMMA InitOwnership == Init => Ownership!Init /\ AbsentUnowned
<1>1. Init => wk = Idle
  BY DEF Init
<1> QED BY <1>1, InitFacts, IdleJob DEF Ownership!Init, Lockable, AbsentUnowned

\* Whatever the caches hold, whichever calls fail and whenever the process
\* crashes or panics, an AuthPolicy takes the back reference of a route or
\* gateway only when no policy has it, and loses it only to a finalization of a
\* policy with that target or to the deletion of the target.
THEOREM OwnershipImplementsLock == Spec => OwnershipIsALock
<1>1. Init => TypeInv /\ CopyInv /\ AbsentUnowned /\ Ownership!Init
  BY InitTypeInv, InitCopyInv, InitOwnership
<1>2. TypeInv /\ CopyInv /\ AbsentUnowned /\ [Next]_vars => (TypeInv /\ CopyInv /\ AbsentUnowned)'
  BY NextTypeInv, NextCopyInv, NextAbsentUnowned
<1>3. TypeInv /\ CopyInv /\ AbsentUnowned /\ [Next]_vars => [Ownership!Next]_(Ownership!vars)
  BY NextIsOwnershipStep
<1> QED BY <1>1, <1>2, <1>3, PTL DEF Spec, OwnershipIsALock, Ownership!Spec

-----------------------------------------------------------------------------
(* Only the owner writes rules.                                            *)

\* The owner a cache shows is the owner, or the target has been freed since;
\* and so it is for the target whose rules the worker computes or writes.
OwnerInv ==
    /\ \A u \in Lockable :
          BackRef(cache, u) # NoPolicy => BackRef(store, u) \in {BackRef(cache, u), NoPolicy}
    /\ wk.pc \in {"rules", "iap"} => BackRef(store, wk.ap.target) \in {wk.p, NoPolicy}

\* A target keeps its owner, or is freed, or is claimed from a cached copy that
\* shows it free.
OwnerMoves ==
    \A u \in Lockable :
        \/ BackRef(store', u) \in {BackRef(store, u), NoPolicy}
        \/ wk.pc = "backRef" /\ BackRef(cache, u) = NoPolicy /\ BackRef(store', u) = wk.p

LEMMA WorkOwnerMoves ==
    ASSUME TypeInv, CopyInv, Work
    PROVE  OwnerMoves
<1>1. OwnersKept => OwnerMoves
  BY DEF OwnersKept, OwnerMoves
<1>2. ASSUME Claims(wk.ap.target) PROVE OwnerMoves
  <2>1. wk.pc = "backRef"
    <3>1. wk.p # NoPolicy
      BY <1>2, ClusterAssumption DEF Claims
    <3>2. store'.route # store.route \/ store'.gateway # store.gateway
      BY <1>2, <3>1 DEF Claims, OwnerBecomes, BackRef, Lockable
    <3>3. ~wk.ap.deleting
      BY <1>2 DEF Claims
    <3> QED BY <3>2, <3>3, WorkSteps
            DEF WorkStep, AddFinalizerStep, BackRefStep, RulesStep, IAPStep, SchemeStep, StatusStep,
                FinRulesStep, FinSchemeStep, FinBackRefStep, FinRemoveStep, PolicyBecomes,
                RuleBecomes, ConfigBecomes, CopyInv, FinStages
  <2> QED BY <1>2, <2>1 DEF Claims, OwnerBecomes, OwnerMoves
<1>3. ASSUME Releases(wk.ap.target) PROVE OwnerMoves
  BY <1>3 DEF Releases, OwnerBecomes, OwnerMoves
<1> QED BY <1>1, <1>2, <1>3, WorkKinds

LEMMA WorkOwnerInv ==
    ASSUME TypeInv, CopyInv, OwnerInv, Work
    PROVE  OwnerInv'
<1>0. cache' = cache /\ WorkStep /\ OwnerMoves
  BY WorkSteps, WorkOwnerMoves
<1>1. \A u \in Lockable :
        BackRef(cache', u) # NoPolicy => BackRef(store', u) \in {BackRef(cache', u), NoPolicy}
  BY <1>0 DEF OwnerMoves, OwnerInv
<1>2. ASSUME wk'.pc \in {"rules", "iap"}
      PROVE  BackRef(store', wk'.ap.target) \in {wk'.p, NoPolicy}
  <2>1. CASE BackRefStep
    <3>1. Kept
      BY <1>2, <2>1 DEF BackRefStep, MovesTo, Reports
    <3>2. SpecValid => wk.ap.target \in Lockable
      BY DEF SpecValid, Validate, Lockable
    <3>3. CASE SpecValid /\ BackRef(cache, wk.ap.target) = wk.p /\ store' = store
      <4>1. BackRef(store, wk.ap.target) \in {wk.p, NoPolicy}
        BY <3>2, <3>3, WorkSteps, ClusterAssumption DEF OwnerInv
      <4> QED BY <3>1, <3>3, <4>1 DEF Kept
    <3>4. CASE OwnerBecomes(wk.ap.target, wk.p)
      BY <3>1, <3>4 DEF OwnerBecomes, Kept
    <3> QED BY <1>2, <2>1, <3>3, <3>4 DEF BackRefStep, Reports
  <2>2. CASE RulesStep \/ IAPStep
    <3>1. wk.pc \in {"rules", "iap"} /\ Kept
      BY <2>2 DEF RulesStep, IAPStep, MovesTo, Reports
    <3>2. store'.route = store.route /\ store'.gateway = store.gateway
      BY <2>2 DEF RulesStep, IAPStep, RuleBecomes
    <3> QED BY <3>1, <3>2 DEF OwnerInv, Kept, BackRef
  <2>3. CASE AddFinalizerStep \/ SchemeStep \/ StatusStep \/ FinRulesStep \/ FinSchemeStep
             \/ FinBackRefStep \/ FinRemoveStep
    <3>1. wk' # Idle
      BY <1>2, IdleStage
    <3> QED BY <1>2, <2>3, <3>1
            DEF AddFinalizerStep, SchemeStep, StatusStep, FinRulesStep, FinSchemeStep,
                FinBackRefStep, FinRemoveStep, MovesTo, Reports, Armed, GivesUp, Ends
  <2> QED BY <1>0, <2>1, <2>2, <2>3 DEF WorkStep
<1> QED BY <1>1, <1>2 DEF OwnerInv, Lockable

\* A delivered copy is the stored one, and the others stay.
LEMMA WatchBackRefs ==
    ASSUME TypeInv, Watch
    PROVE  \A u \in Lockable : BackRef(cache', u) \in {BackRef(cache, u), BackRef(store, u)}
<1>0. store \in AuthCluster /\ cache \in AuthCluster /\ Routes \cap Gateways = {}
  BY TypeParts, ClusterAssumption
<1>1. CASE cache'.route = cache.route /\ cache'.gateway = cache.gateway
  BY <1>1 DEF BackRef
<1>2. ASSUME NEW r \in Routes, DeliverRoute(r)
      PROVE  \A u \in Lockable : BackRef(cache', u) \in {BackRef(cache, u), BackRef(store, u)}
  <2>1. /\ cache'.gateway = cache.gateway /\ cache'.route[r] = store.route[r]
        /\ \A q \in Routes \ {r} : cache'.route[q] = cache.route[q]
    BY <1>0, <1>2, GetTypes, PutRoute DEF DeliverRoute
  <2> QED BY <1>0, <2>1 DEF BackRef, Lockable
<1>3. ASSUME NEW g \in Gateways, DeliverGateway(g)
      PROVE  \A u \in Lockable : BackRef(cache', u) \in {BackRef(cache, u), BackRef(store, u)}
  <2>1. /\ cache'.route = cache.route /\ cache'.gateway[g] = store.gateway[g]
        /\ \A q \in Gateways \ {g} : cache'.gateway[q] = cache.gateway[q]
    BY <1>0, <1>3, GetTypes, PutGateway DEF DeliverGateway
  <2> QED BY <1>0, <2>1 DEF BackRef, Lockable
<1>4. ASSUME NEW p \in Policies, DeliverPolicy(p)
      PROVE  cache'.route = cache.route /\ cache'.gateway = cache.gateway
  BY <1>0, <1>4, GetTypes, PutPolicy DEF DeliverPolicy
<1>5. ASSUME NEW n \in IAPNames, DeliverIAP(n)
      PROVE  cache'.route = cache.route /\ cache'.gateway = cache.gateway
  BY <1>0, <1>5, GetTypes, PutIAP DEF DeliverIAP
<1>6. ASSUME NEW n \in ConfigNames, DeliverConfig(n)
      PROVE  cache'.route = cache.route /\ cache'.gateway = cache.gateway
  BY <1>0, <1>6, GetTypes, PutConfig DEF DeliverConfig
<1> QED BY <1>1, <1>2, <1>3, <1>4, <1>5, <1>6 DEF Watch

LEMMA NextOwnerInv == TypeInv /\ CopyInv /\ OwnerInv /\ [Next]_vars => OwnerInv'
<1> SUFFICES ASSUME TypeInv, CopyInv, OwnerInv, [Next]_vars PROVE OwnerInv'
  OBVIOUS
<1>1. ASSUME NEW p \in Policies, Start(p) PROVE OwnerInv'
  <2>1. store' = store /\ cache' = cache
    BY <1>1, StartTyped
  <2>2. wk'.pc \notin {"rules", "iap"}
    BY <1>1, StartEffect, IdleStage DEF EntryStage, Idle
  <2> QED BY <2>1, <2>2 DEF OwnerInv, Lockable
<1>2. CASE Work
  BY <1>2, WorkOwnerInv
<1>3. CASE Watch
  <2>1. store' = store /\ wk' = wk
    BY <1>3 DEF Watch
  <2>2. \A u \in Lockable :
          BackRef(cache', u) # NoPolicy => BackRef(store, u) \in {BackRef(cache', u), NoPolicy}
    BY <1>3, WatchBackRefs DEF OwnerInv
  <2> QED BY <2>1, <2>2 DEF OwnerInv, Lockable
<1>4. CASE Environment
  <2>1. wk' = wk /\ cache' = cache
    BY <1>4, EnvironmentEffect
  <2>2. \A u \in Lockable : BackRef(store', u) \in {BackRef(store, u), NoPolicy}
    BY <1>4, EnvironmentKinds DEF OwnersKept, Toggles
  <2>3. wk.pc \in {"rules", "iap"} => wk.ap.target \in Lockable
    BY DEF CopyInv
  <2> QED BY <2>1, <2>2, <2>3 DEF OwnerInv, Lockable
<1>5. CASE Crash \/ Panic
  <2>1. store' = store /\ cache' = store /\ wk'.pc = "idle"
    BY <1>5, RestartEffect, IdleStage DEF Restart
  <2> QED BY <2>1 DEF OwnerInv, Lockable
<1>6. CASE UNCHANGED vars
  BY <1>6 DEF OwnerInv, Lockable, vars
<1> QED BY <1>1, <1>2, <1>3, <1>4, <1>5, <1>6 DEF Next

\* Only ReconcileAuthRules writes AuthorizationPolicies that stay, and those of
\* the worker's target.
LEMMA RulesWritten ==
    ASSUME TypeInv, CopyInv, OwnerInv, [Next]_vars
    PROVE  WrittenByOwner
<1>1. store'.iap = store.iap => WrittenByOwner
  BY DEF WrittenByOwner
<1>2. CASE Work
  <2>1. CASE IAPStep
    <3>1. CASE store' = store
      BY <1>1, <3>1
    <3>2. ASSUME NEW g \in Gateways, NEW n, n = getAuthPolicyName(g, wk.ap.target),
                 RuleBecomes(n, WithRules(n))
          PROVE  WrittenByOwner
      <4>1. BackRef(store, wk.ap.target) \in {wk.p, NoPolicy}
        BY <2>1 DEF IAPStep, OwnerInv
      <4>2. \A m \in IAPNames : store'.iap[m] # store.iap[m] => m = n
        BY <3>2 DEF RuleBecomes
      <4> QED BY <3>2, <4>1, <4>2 DEF WrittenByOwner
    <3> QED BY <2>1, <3>1, <3>2 DEF IAPStep
  <2>2. CASE FinRulesStep
    <3>1. CASE store' = store
      BY <1>1, <3>1
    <3>2. ASSUME NEW n, RuleBecomes(n, NoSuchIAP) PROVE WrittenByOwner
      <4>1. ~NoSuchIAP.live
        BY DEF NoSuchIAP
      <4> QED BY <3>2, <4>1 DEF WrittenByOwner, RuleBecomes
    <3> QED BY <2>2, <3>1, <3>2 DEF FinRulesStep
  <2>3. CASE AddFinalizerStep \/ BackRefStep \/ RulesStep \/ SchemeStep \/ StatusStep
             \/ FinSchemeStep \/ FinBackRefStep \/ FinRemoveStep
    <3>1. store'.iap = store.iap
      BY <2>3 DEF AddFinalizerStep, BackRefStep, RulesStep, SchemeStep, StatusStep, FinSchemeStep,
         FinBackRefStep, FinRemoveStep, PolicyBecomes, ConfigBecomes, OwnerBecomes
    <3> QED BY <1>1, <3>1
  <2> QED BY <1>2, <2>1, <2>2, <2>3, WorkSteps DEF WorkStep
<1>3. CASE Environment
  <2>1. store'.iap = store.iap
    <3>1. store \in AuthCluster
      BY TypeParts
    <3>2. \A p \in Policies : PolicyEdited(p) => store'.iap = store.iap
      BY <3>1, PutPolicy DEF PolicyEdited
    <3>3. \A r \in Routes : RouteEdited(r) => store'.iap = store.iap
      BY <3>1, PutRoute DEF RouteEdited
    <3>4. \A g \in Gateways : GatewayEdited(g) => store'.iap = store.iap
      BY <3>1, PutGateway DEF GatewayEdited
    <3>5. \A n \in ConfigNames : ConfigEdited(n) => store'.iap = store.iap
      BY <3>1, PutConfig DEF ConfigEdited
    <3> QED BY <1>3, <3>2, <3>3, <3>4, <3>5, EnvironmentEffect
  <2> QED BY <1>1, <2>1
<1>4. store' = store => WrittenByOwner
  BY <1>1
<1>5. \A p \in Policies : Start(p) => store' = store
  BY StartTyped
<1>6. Watch \/ Crash \/ Panic \/ UNCHANGED vars => store' = store
  BY RestartEffect DEF Watch, Restart, vars
<1> QED BY <1>2, <1>3, <1>4, <1>5, <1>6 DEF Next

\* AuthorizationPolicies are named after their target: however old the copies
\* the worker reads, every step that writes one is taken for the policy that
\* the target's annotation names, or whose annotation was taken away since.
THEOREM OwnerWritesRules == Spec => OnlyOwnerWritesRules
<1>1. Init => TypeInv /\ CopyInv /\ OwnerInv
  <2>1. Init => cache = store /\ wk = Idle
    BY DEF Init
  <2>2. Init => OwnerInv
    BY <2>1, InitFacts, IdleStage DEF OwnerInv
  <2> QED BY <2>2, InitTypeInv, InitCopyInv
<1>2. TypeInv /\ CopyInv /\ OwnerInv /\ [Next]_vars => (TypeInv /\ CopyInv /\ OwnerInv)'
  BY NextTypeInv, NextCopyInv, NextOwnerInv
<1>3. TypeInv /\ CopyInv /\ OwnerInv /\ [Next]_vars => WrittenByOwner
  BY RulesWritten
<1> QED BY <1>1, <1>2, <1>3, PTL DEF Spec, OnlyOwnerWritesRules
=============================================================================
