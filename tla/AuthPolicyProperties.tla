----------------------- MODULE AuthPolicyProperties -----------------------
(***************************************************************************)
(* What the AuthPolicy controller promises about the cluster.              *)
(***************************************************************************)
EXTENDS AuthPolicyReconciler

\* Every object, copy and counter has the shape its Go type gives it, and the
\* worker's program counter is one of the stages of Reconcile.
TypeOK ==
    /\ store \in AuthCluster
    /\ cache \in AuthCluster
    /\ queue \in SUBSET Policies
    /\ edits \in Nat
    /\ wk \in Worker
    /\ faults \in Nat

\* The AuthorizationPolicies of a target, on the gateways it has in c.
RulesOf(c, t) == {getAuthPolicyName(g, t) : g \in TargetedGatewayKeys(c, t)}

Config(c, p) == c.config[authConfigName[p]]

-----------------------------------------------------------------------------
(* What steps may never do.                                                *)

\* A step that writes an AuthorizationPolicy is taken for the policy that the
\* back reference of the target names; a target that users deleted or replaced
\* since the policy took it names none.
WrittenByOwner ==
    \A n \in IAPNames :
        store'.iap[n] # store.iap[n] /\ store'.iap[n].live =>
            /\ \E g \in Gateways : n = getAuthPolicyName(g, wk.ap.target)
            /\ BackRef(store, wk.ap.target) \in {wk.p, NoPolicy}

\* AuthorizationPolicies are named after the target, not after the policy: of
\* the policies with one target, only the owner ever writes them, in spite of
\* the finalizations that take the back reference from it.
OnlyOwnerWritesRules == [][WrittenByOwner]_vars

\* An AuthConfig appears when the AuthorizationPolicies of its policy's target
\* are all there, and goes when they are all gone.
ConfigInsideRules ==
    \A p \in Policies :
        /\ ~Config(store, p).live /\ Config(store', p).live =>
              \A n \in RulesOf(store, store.policy[p].target) : store.iap[n].live
        /\ Config(store, p).live /\ ~Config(store', p).live =>
              \A n \in RulesOf(store, store.policy[p].target) : ~store.iap[n].live

\* reconcileSpec puts the rules in place before the scheme, and finalization
\* takes them away first: no failed call or crash leaves a gateway that sends
\* requests to Authorino after their AuthConfig was taken away, or an AuthConfig
\* reported as protecting what no gateway asks it about.
SchemeFollowsRules == [][ConfigInsideRules]_vars

\* What users, Authorino and the RateLimitPolicy controller write stays, except
\* that a policy being deleted goes.
LosesNothing ==
    /\ \A p \in Policies :
          LET old == store.policy[p]
              new == store'.policy[p]
          IN  \/ /\ new.live = old.live /\ new.deleting = old.deleting
                 /\ new.target = old.target /\ new.spec = old.spec
              \/ p = wk.p /\ old.deleting /\ ~new.live
    /\ \A r \in Routes :
          store'.route[r] = [store.route[r] EXCEPT !.backref = store'.route[r].backref]
    /\ \A g \in Gateways :
          store'.gateway[g] = [store.gateway[g] EXCEPT !.backref = store'.gateway[g].backref]
    /\ \A n \in ConfigNames :
          store'.config[n].live => store'.config[n].ready = store.config[n].ready

NoLostUpdate == Work => LosesNothing

\* However old the copies are, no write of Reconcile (finalizer, back reference,
\* AuthConfig, status) overwrites what others have written meanwhile: the edits
\* of users, the RateLimitPolicy controller's annotations on the same gateways,
\* the readiness Authorino reports.
NeverLosesUpdates == [][NoLostUpdate]_vars

\* The annotations as a lock on the targets: see TargetOwnership.
Ownership == INSTANCE TargetOwnership WITH
    Targets <- Routes \cup Gateways,
    Aims <- Targets \cup {None},
    there <- [t \in Routes \cup Gateways |-> TargetLive(store, t)],
    owner <- [t \in Routes \cup Gateways |-> BackRef(store, t)],
    job <- [policy |-> wk.p, target |-> wk.ap.target, deleting |-> wk.ap.deleting]

\* The back references of AuthPolicies implement the lock: whatever the caches
\* hold, ReconcileTargetBackReference takes only a free target of the policy at
\* work, and only finalizations (or deleting the target) free one.
OwnershipIsALock == Ownership!Spec

-----------------------------------------------------------------------------
(* Cleanup and convergence.                                                *)

\* Something in the cluster is there for p.
Traces(p) ==
    \/ \E t \in Routes \cup Gateways : BackRef(store, t) = p
    \/ Config(store, p).live

\* While there are traces of a policy the finalizer keeps its object: it is
\* added before the first of them and removed after the last, so that a deleted
\* policy leaves no AuthConfig and no lock on its target behind.
FinalizerCoversTraces ==
    \A p \in Policies : Traces(p) => store.policy[p].live /\ store.policy[p].finalizer

Quiescent == wk.pc = "idle" /\ queue = {} /\ cache = store

Owners == {p \in Policies : store.policy[p].live /\ BackRef(store, store.policy[p].target) = p}

\* At rest the gateways of every owner's target carry the rules its spec asks
\* for, or those of the route as it now is, and Authorino has its scheme; no
\* other AuthorizationPolicy and no other AuthConfig is left.
ProtectionConverges ==
    Quiescent =>
        /\ \A p \in Owners :
              LET ap == store.policy[p]
              IN  /\ \A n \in RulesOf(store, ap.target) :
                        store.iap[n] = [live |-> TRUE, rules |-> AuthRules(store, ap.target, ap.spec)]
                  /\ Config(store, p).live /\ Config(store, p).spec = ap.spec
        /\ \A n \in IAPNames :
              store.iap[n].live => \E p \in Owners : n \in RulesOf(store, store.policy[p].target)
        /\ \A n \in ConfigNames :
              store.config[n].live => \E p \in Owners : n = authConfigName[p]

\* At rest every policy reports on its current generation, and one that says
\* its target is protected owns it.
StatusConverges ==
    Quiescent =>
        \A p \in Policies :
            store.policy[p].live =>
                /\ store.policy[p].observed
                /\ store.policy[p].available \in {"Protected", "AuthSchemeNotReady"}
                /\ p \in Owners

-----------------------------------------------------------------------------
(* What must happen in the end.                                            *)

\* As long as no call fails, a deleted policy goes away: its finalizer is
\* removed in the end.
DeletionCompletes ==
    [](faults = MaxFaults) =>
        \A p \in Policies : store.policy[p].deleting ~> ~store.policy[p].deleting

\* The AuthConfig of a deleted policy is removed (the controller's test waits
\* for that after deleting its policies).
DeletedConfigGoes ==
    \A p \in Policies : store.policy[p].deleting ~> ~Config(store, p).live

\* No policy is being deleted, their targets are accepted and ready, their hosts
\* fit, and every one has a target of its own.
TargetsValid ==
    \A p \in Policies :
        LET ap == store.policy[p]
        IN  ap.live =>
              /\ ~ap.deleting
              /\ Validate(p, ap.target)
              /\ FetchValidTargetRef(store, ap.target)
              /\ <<ap.spec, TargetHostnames(store, ap.target)>> \in Fits
              /\ \A q \in Policies \ {p} : store.policy[q].live => store.policy[q].target # ap.target

\* Once the environment is still and the targets are valid, the controller
\* comes to rest, although it updates AuthorizationPolicies and AuthConfig on
\* every reconciliation and fails until the new AuthConfig shows in its cache.
ComesToRest == <>[]TargetsValid => <>[]Quiescent
=============================================================================
