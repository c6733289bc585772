# Verification of the Kuadrant controller

TLA+ modules, TLC runs and TLAPS proofs for `kuadrant-controller`, the Kubernetes
controller that turns `RateLimitPolicy` objects attached to Gateway API routes and
gateways into Limitador limits, Istio `EnvoyFilter`s and `WasmPlugin`s, and `AuthPolicy`
objects into Istio `AuthorizationPolicy`s and Authorino `AuthConfig`s. Paths below are
relative to the repository (`src/`).

## 1. The system

### Inventory

| component | state | operations | properties that make it correct |
|---|---|---|---|
| RateLimitPolicy controller (`controllers/apim/ratelimitpolicy_controller.go`, `_finalizers.go`) | the locals of one `Reconcile` call: copies of the policy and of the gateways, the gateway diff | `Reconcile` = add finalizer, `reconcileSpec` (validate, back reference, gateway diff, limits, EnvoyFilter, plugin, annotation), `reconcileStatus`; or `finalizeRLP` in the opposite order | convergence, cleanup, one owner per target, finalizer covers every trace, deletions complete, no lost update |
| Target-ref reconciler (`pkg/reconcilers/targetref_reconciler.go`) | back-reference annotation of a route or gateway | fetch and validate target, targeted gateways, hostnames, write/delete back reference | only the owner's key; user fields survive |
| Base reconciler (`pkg/reconcilers/base_reconciler.go`) | none (cached client) | get/create/update/delete, `ReconcileResource` | optimistic concurrency loses nothing |
| Gateway diff (`pkg/rlptools/gateway_utils.go`) | annotation: JSON list of policies on each gateway | New/Same/LeftGateways, AddRLP, DeleteRLP | no policy of another reconciliation is dropped |
| Limits (`ratelimitpolicy_limits.go`, `pkg/rlptools/limit_index.go`) | limits in the one Limitador object, by gateway and domain | rebuild the gateways of the diff, one update | equal to what the gateway's policies ask |
| EnvoyFilter (`ratelimitpolicy_cluster_envoy_filter.go`) | one per gateway | create / always update / delete for new and left gateways | there exactly when a policy configures the gateway |
| WASM plugin (`ratelimitpolicy_wasm_plugins.go`, `pkg/rlptools/wasm_utils.go`) | one per gateway | create / update when different / delete | agrees with the limits |
| Status (`ratelimitpolicy_status.go`) | conditions, observedGeneration, gateways' limits | compute, compare, update | reports the current generation; no endless writes |
| Event mappers (`gateway_rlp_eventmapper.go`, `gateway_eventmapper.go`, `httproute_eventmapper.go`) | none | object event -> policies to reconcile | everything affected is reconciled again |
| API types (`apis/apim/v1alpha1`) | spec and status | `Validate`, status equality, `FlattenLimits` | |
| AuthPolicy controller (`authpolicy_controller.go`, `_status.go`, `_utils.go`) | one AuthorizationPolicy per gateway of the target, one AuthConfig per policy, back reference | apply: validate, back reference, rules, scheme, status; finalize: rules, scheme, back reference, finalizer | only the owner writes a target's rules; rules before scheme; both follow spec and route; deletions complete |
| Hostname and rule algorithms (`pkg/common`) | none | `SubsetOf`, `ValidSubdomains`, `RulesFromHTTPRoute`, namespace encoding | containment of hosts; every request the route lets through is selected |
| Manager, logging, version, generated code | | | start-up and restart only |

### How the parts interact

Watch events fill informer caches and, through the event mappers, the work queue.
One worker (`MaxConcurrentReconciles` is not set) takes a policy from the queue and
runs `Reconcile`, which reads everything from the caches and writes to the API server
with optimistic concurrency. Its writes come back as events. Policies never call each
other: they meet in the gateway annotation (which lists the policies that configure the
gateway), in the back-reference annotation of a target, and in the shared outputs of a
gateway, which every reconciliation computes for *all* the policies listed.

The AuthPolicy controller is a second controller of the same process, with its own queue
and worker. It shares the target reference and base reconcilers, and with them the routes
and gateways, on which it keeps a back reference under another annotation; the two
controllers meet only in whole-object updates of the same routes and gateways. Its outputs
are not shared between policies, but AuthorizationPolicies are named after gateway and
target, not after the policy.

### What is hard

* reads are old: caches lag behind the server, and gateway copies are kept over several
  API calls before they are written back;
* a reconciliation is up to a dozen API calls, any of which may be refused, fail before
  or after it took effect, or be cut off by a crash; the whole is then run again;
* the gateway annotation is at once the memory of what was configured and the trigger
  that wakes the other policies;
* users edit, move, retarget and delete policies, routes and gateways at any moment;
* deletion must undo what was applied, from a target that may have changed or gone.

`PROJECT.json` lists the hazards with their lines.

## 2. The model

| module | contents |
|---|---|
| `PolicyTargets` | what both controllers share: routes and gateways in the API server (`store`) and in the informers (`cache`), target validation, what the server accepts, users' edits of targets |
| `TargetOwnership` | abstract specification: the back reference as a lock on a target |
| `KuadrantCluster` | extends `PolicyTargets` with RateLimitPolicies, Limitador, plugins and filters, event mappers and watch events |
| `RateLimitPolicyReconciler` | extends it with the worker `wk`: one action per API call of `Reconcile`, crashes, the specification and its fairness |
| `RateLimitPolicyProperties` | its properties and the refinement mapping to `TargetOwnership` |
| `AuthPolicyReconciler` | extends `PolicyTargets`: AuthPolicies, AuthorizationPolicies, AuthConfigs, events, the worker, crashes and the panic |
| `AuthPolicyProperties` | its properties and its refinement mapping |
| `Hostname`, `RouteRules`, `LimitIndex` | the algorithms of `pkg/common` and `pkg/rlptools` with their reference definitions; `LimitIndex` also has `reconcileLimits` as an action on the flat list of limits |
| `Algorithms` | the inputs the algorithms are run on, their properties, and the specification that runs them or the limit index |
| `MCRateLimitPolicy`, `MCAuthPolicy`, `MCAlgorithms` | constants for TLC; one `.cfg` per run |
| `RateLimitPolicyProofs` | TLAPS: type correctness, worker invariant, no lost update, EnvoyFilter before annotation |
| `RateLimitPolicyOwnershipProofs` | TLAPS: the controller implements `TargetOwnership` |
| `RateLimitPolicyTraceProofs` | TLAPS: the job at hand and the copies it is done from; annotation last, only owners referenced, the finalizer covers every trace |
| `RateLimitPolicyRestProofs` | TLAPS: no policy is forgotten; references, status, filters, limits and plugins at rest |
| `AuthPolicyProofs` | TLAPS: type correctness, no lost update |
| `AuthPolicyOwnershipProofs` | TLAPS: the controller implements `TargetOwnership`; only owners write rules |
| `AuthPolicyTraceProofs` | TLAPS: the finalizer covers every trace, status at rest, scheme inside the rules, protection at rest |
| `AlgorithmProofs` | TLAPS: `SubsetOf`, `ValidSubdomains`, `RulesFromHTTPRoute`, `SameLimitList` and the limit index for all inputs |

### State and code

* `store`, `cache`: records of policies, routes, gateways, Limitador, plugins, filters.
  `store` is written by API calls and by the environment; `cache` only by `Deliver*`.
  `Lagging` names the kinds whose informer may be behind; the others deliver before
  anything else happens. (All six may lag; runs choose, to keep each question small.)
* `queue`: the set of policies waiting. controller-runtime's queue has no duplicates,
  and handlers and rate-limited retries give no order worth relying on.
* `wk`: program counter (`backRef`, `diff`, `limits`, `filter`, `plugin`, `refs`,
  `status`, `finDiff`, ...), mode (apply/finalize), the copies `rlp` and `gws`, the diff
  `left`/`same`/`new`, the gateways `todo` of the current loop and whether
  `reconcileSpec` has failed. A finalization appends one copy of a gateway for every
  parentRef (`computeFinalizeGatewayDiff`): `twice` has the left gateways of which there is more
  than one copy, and `again` those whose first copy the current loop has not dealt with yet. All
  copies are read before the first is written, so the second annotation update of a gateway
  conflicts with the first. (The diff of an apply goes through gateways, not keys, and has one
  entry for each.)
* `Sections`: which sections of a gateway the parentRefs of a route name, for each of its gateways.
* An update is accepted when the stored object equals the copy it was made from
  (`UpdateAccepted`): equality of contents stands for equality of resourceVersions. An
  object changed and changed back would be refused by the server and is accepted here;
  the refusal is covered by the failing calls of `Call`.
* `Call(accepted, after, done)`: the server applies the write; or refuses it; or the
  call fails, with or without the write having happened (`MaxFaults` bounds these).
* An error in `reconcileSpec` goes on to the status and then requeues; any other error
  requeues at once (`Fail`).
* Cache reads between two writes are one step: only watch deliveries could come
  between, and these read a cache of the same or a later moment.

In `AuthPolicyReconciler` the same conventions hold; `wk.todo` holds *gateway keys*, one per
parentRef, because the code's loops do not remove duplicates. `getAuthPolicyName` and `authConfigName` keep what
the names are built from, so that collisions can be expressed: `RouteName` is the route's name
without its namespace. `AlreadyExists` is the error the code ignores. `Panic` is the nil
dereference for a spec without `authScheme`: the process restarts and meets it again.
`AnnotateGateway` is the RateLimitPolicy controller as this one sees it.

`TargetOwnership` knows for each target whether it is there and which policy its annotation
names, and the job at hand. `Claim` needs a free target, `Release` a finalization of a policy
with that target; nothing moves the lock from one policy to another. The mapping reads the
annotations and `wk`; it holds although both controllers decide on cached copies, because an
update is accepted only when the copy is current.

### Data abstractions

* A spec is a model value; `Fits` says within which hostname lists its rule hosts lie
  (`validateRuleHosts`, `ValidSubdomains`); `SameNamespace` says which targets `Validate`
  lets a policy have, and `Unsupported` holds targets of other kinds. (A wrong API group
  with a supported kind behaves as a target outside `SameNamespace`.)
* Limits and WASM actions are sets of `<<domain, policy, spec>>` in the reconciler; duplicates
  and order are in `LimitIndex`, the rules a route gives in `RouteRules`. The gateway labels
  used as selectors are left out. Since the plugin's domains come out of a Go map, `ReconcilePlugin` may write
  although nothing changed.
* The annotation list is a set of keys; an annotation that does not parse is left out.
* `observed` = "observedGeneration equals generation"; messages and reasons are dropped.
* A delivery brings the latest version and may skip intermediate ones, as a relist does;
  old and new object are both mapped, as `EnqueueRequestsFromMapFunc` does.
* Retries come back without backoff, in any order.
* A route names the same sections of all its gateways, and keeps them when it moves
  (`Sections`). A third copy of a gateway is as the second: a finalization has conflicted by then.
* A hostname is a wildcard flag and a sequence of labels; the string test "ends with `.a.b`" is
  then a proper suffix of labels, and a label that merely ends in the same letters is another
  label. Hostnames in route rules are compared as they are: rules do not support wildcards
  (`doc/rate-limiting.md`, known limitations), other than `*` for a route without hostnames.
* A path, and the pattern a rule has for it, is a sequence of characters. What the code does is
  `routePathMatchToRulePath`: the value, or `/`, with a star behind it for a prefix. What it is
  compared with comes from outside the repository: a gateway matches a prefix by elements of the
  path and ignores a slash at its end (`UnderPrefix`), a rule's star at the end of a pattern stands
  for any characters (`Covers`). A regular expression is one that matches every path.
* A rate limit without rules gets those of its route (`wasm_utils.go:37-41`). In the reconciler
  they are part of the limit, so an edit of a route's matches is no change there; what the rules are
  is in `RouteRules`.
* Strings inside a limit are numbers in their order; a namespace is the sequence of its parts
  between `#` and `/`. `Sort` is the insertion sort that `sort.Sort` uses for up to 12 elements.
* The limit index has an entry for every gateway and domain, empty where Go's maps have none. Limits
  of other writers (`Foreign`) have a namespace that does not parse, and are dropped by the next
  write; one that parses but names no gateway of the controller would be kept, and is left out.

### Bounds

`MaxEdits` (changes by users, gateway provider and Limitador operator), `MaxFaults`
(failed calls and crashes), `Edits` (which kinds of change). Sets have one to three
policies, one or two routes and gateways. Two policies of different kinds on one gateway
and two gateways for one route are what the code distinguishes: every output of a gateway
is computed from the set of its policies, and the diff has three classes. Every
environment change can meet a reconciliation between any two of its calls, so two or three
changes already make conflicts, retries and overtaken reconciliations; the faulty runs add
two failures. The algorithms run has names of up to two labels over two labels, hosts of three
(one more than any name, so that every containment that fails has a witness), routes with two
matches (values missing, `/`, `/a` and `/a/`, tried on paths of up to three characters, so that a path
can end with the prefix, go on after a slash or go on within the element), lists of up to three
limits that differ in every field the comparison may reach last,
and two gateways with two domains. `CHECK_DEADLOCK FALSE` everywhere: with no edits left and nothing to do the
system rests, which is what `ComesToRest` wants.

### Fairness

`WF(Watch)`: informers deliver. `WF(Work)`: a reconciliation that has begun goes on.
`SF(Start(p))` for each policy: the work queue serves first in, first out, and a failing
policy goes to the back, so no policy in the queue waits for ever although others keep
being requeued. Edits, failures and crashes have no fairness. The AuthPolicy controller has
the same; its panic counts as going on.

## 3. What TLC checks

| run | setting | checked |
|---|---|---|
| `lifecycle` | two route policies, a gateway policy, one gateway; create and delete | `FinalizerCoversTraces`, `ReferencesConverge`, `ConfigConverges`, `FilterConverges`, `DeletionCompletes`, `ComesToRest` |
| `faults` | one route and one gateway policy, the route naming two sections of its gateway; two failed calls or crashes | `FinalizerCoversTraces`, `ReferencesConverge`, `FilterConverges`, `StatusConverges`, `AnnotationIsLast`, `DeletionCompletes` |
| `moves` | a route moves between two gateways, a policy between two routes | `ReferencesConverge`, `ConfigConverges`, `FilterConverges` |
| `edits` | specs, hostnames (also none), Accepted and Ready change | `ConfigConverges`, `StatusConverges`, `ComesToRest` |
| `stale_inputs` | policies', routes' and gateways' informers lag, every kind of edit, a route naming two sections of a gateway | `TypeOK`, `NeverLosesUpdates`, `OwnershipIsALock` |
| `stale_copies` | two policies for one moving route and one for its gateway; gateways', Limitador's and EnvoyFilters' informers lag, Limitador may go | `OnlyOwnersReferenced`, `OwnershipIsALock`, `NeverLosesUpdates`, `FilterIsFirst` |
| `auth_lifecycle` | an AuthPolicy on a route with two gateways or on a gateway, with rules or without; three edits (create, delete, spec, hostnames, AuthConfig readiness), one failed call or crash | `FinalizerCoversTraces`, `ProtectionConverges`, `StatusConverges`, `SchemeFollowsRules`, `DeletionCompletes`, `ComesToRest` |
| `auth_stale` | two AuthPolicies for one route, one may move to any target; gateways', AuthorizationPolicies' and AuthConfigs' informers lag; any edit, one failed call or crash; a spec without scheme | `TypeOK`, `OnlyOwnerWritesRules`, `NeverLosesUpdates`, `OwnershipIsALock` |
| `algorithms` | every bounded input of the algorithms; every sequence of reconciliations of the limit index | `HostnamesContained`, `RouteRequestsSelected`, `SameListsExactly`, `LimitsAreApplied`, `WritesNoReordering` |

`OwnershipIsALock` is the refinement: TLC checks each controller's specification against
`TargetOwnership!Spec`.

The convergence properties speak of *quiescent* states: nothing queued, worker idle,
caches current. `ComesToRest` says that such a state is reached and kept once targets are
valid; together they are the controller's promise that the cluster follows the policies.
They hold in the settings above and not in every setting: `ConfigConverges` is not checked
under `faults` nor, with deletions, where a route names two sections of a gateway, and
`FilterConverges` not where an edit makes an annotation update conflict
while the route moves, because there the code does not converge (next section). For the
AuthPolicy controller, `ProtectionConverges` is checked where routes stay with their gateways
and caches are current, and `DeletionCompletes` says "as long as no call fails": after a failed
call finalization meets AuthorizationPolicies that are already gone, and stops there.

Each property has a mutant: an operator, placed before the one it stands for and marked
`Mutant:`, that changes it as a plausible bug would (a loop that skips left gateways, an
error that is not returned, a forced update, stages in another order), under which TLC
finds the property violated.

### Disagreements between code and documentation

Each is a run whose name begins with `v_`; TLC's trace is the scenario.

* `v_owner` (`OnePolicyPerTarget`): deleting a policy that was refused removes the owner's
  back reference; a third policy then owns the target while the first still configures
  the gateway.
* `v_limits` (`ConfigConverges`): a route's parentRefs name two sections of a gateway. Its policy's
  finalization updates one copy of the gateway and conflicts on the second; the gateway's own
  policy, brought up by the first update, has its limits written; the retry of the finalization
  deletes them, changes no annotation, and no event brings them back. No call fails. The
  documentation has a gateway's policy apply to all traffic hitting the gateway.
* `v_deletion` (`DeletedConfigGoes`): a route's parentRefs name two listeners of a gateway;
  finalization deletes the one AuthorizationPolicy twice, fails on the second deletion, and
  never reaches the AuthConfig, whose removal the controller's test waits for.

The model shows more that no run states; they are listed as hazards. RateLimitPolicy: a route leaves
a gateway, its EnvoyFilter is deleted, an edit makes the annotation update conflict, the route comes
back, and the gateway counts as "same" and never gets its EnvoyFilter again (the run `moves` checks
`FilterConverges` for edits that leave gateways alone); a route
deleted before its policy leaves plugin, limits and EnvoyFilter on its gateways; a
finalization retried after a failed call loses limits as in `v_limits`; a spec that its own
reconciliation refuses is applied by the
reconciliation of another policy of the gateway; a gateway configured by a reconciliation whose
annotation update conflicted is not cleaned once the route has moved on (`LeftGateways` reads
the annotation, which is written last); finalization does not `Validate`, and so reaches a target
in another namespace that applying refused; a policy with a targetRef of an unsupported kind
gets its finalizer before it is refused, after which its finalization fails for ever.
AuthPolicy: AuthorizationPolicies of gateways that a route has left stay; the finalization of a
refused policy removes the owner's AuthorizationPolicies and back reference; readiness that
Authorino reports later does not reach the status. Limits: limits of other writers are dropped
by the next update of the list. Route rules: a match that compiles to
no rule (headers alone, or a regular expression) is dropped beside one that does, and the pattern
`/a/*` written for a prefix `/a/` does not select `/a`, which the prefix routes, although a rate limit
without rules is documented as "equivalent to matching all the requests"
(`doc/rate-limiting.md:279`, `ratelimitpolicy_types.go:159`); `RouteRequestsSelected` says that nothing
else is lost. A pattern selects paths that its prefix does not route (`/ab` for `/a`).

## 4. What is proved

Everything below holds for all sets of policies, routes, gateways, specs and hostnames and for
any number of edits, failed calls and crashes. The assumptions on constants are `ClusterAssumption`,
`AuthAssumption`, `LimitIndexAssumption` and `AlgorithmsAssumption` (kinds of keys are disjoint,
constants have their types, hosts are long enough to tell names apart); TLC evaluates them in every
run of their modules. Further hypotheses are stated with each result.

### For every lag and every edit

RateLimitPolicy controller:

* `TypeInvariant`, `TypeCorrect`: `Spec => []TypeOK`. `TypeOK` is not inductive: that requeuing
  `wk.p` keeps the queue within the policies needs that a busy worker holds a policy
  (`BusyWithPolicy`). The proof has one step per action; `CallTypeInv` and `FailType` carry what
  all API calls share.
* `WorkerInvariant`: `WorkerInv` ties stage, mode and diff together. A finalization works on a
  policy marked for deletion and has only left gateways, left gateways are disjoint from
  the others, loops stay within the diff.
* `UpdatesAreNeverLost`: `Spec => NeverLosesUpdates`. An accepted update starts from a copy
  equal to the stored object (`CallEffect`), so only the written field changes; a removed
  finalizer drops a policy that is being deleted (from `WorkerInv`), and the annotation
  changes by `wk.p` alone. Limits, EnvoyFilters and plugins change only on gateways of the diff: the
  list of limits is shared by all gateways, and is written whole from a copy equal to the stored one.
  This is the argument that optimistic concurrency with whole-object
  updates on stale copies is safe, for any number of objects.
* `FilterInvariant`, `FilterComesFirst`: `Spec => FilterIsFirst`. The inductive part says that from
  the EnvoyFilter stage on every new gateway has its EnvoyFilter or is still to be visited. It is
  kept because only `ReconcileFilter` writes filters, for a new gateway `RLPRefsAfter` is never
  empty, and a refused write leaves the stage.
* `OwnershipImplementsLock`: `Spec => OwnershipIsALock`, that is `Spec => TargetOwnership!Spec` under
  the mapping. `LockInv` strengthens the type and worker invariants: a target that is not there
  carries no annotation, a worker about to write one is not at a policy being deleted, and an idle
  worker is `Idle`. Every step is then one of five kinds (`NextKinds`): it keeps all annotations,
  begins a job, claims, releases, or creates or deletes a target; each is a step of the lock or
  none. `ClaimOrQuiet` is the heart: the cached copy says the target is free, and the accepted
  update says the stored one equals it.
* `BaseInvariant`: the above together with `JobInv`, which says what copy, mode and target the
  worker has at each stage. The proofs about traces start from it.

AuthPolicy controller:

* `TypesCorrect`, `UpdatesSurvive`, `OwnershipImplementsLock`: as above. `CopyInv` says what copy of
  the policy the worker has at each stage (marked for deletion when it finalizes, with the finalizer
  beyond the first stage), `AbsentUnowned` that a target that is not there carries no annotation.
* `OwnerWritesRules`: `Spec => OnlyOwnerWritesRules`. The worker writes rules only after it saw its
  key in the target's annotation or put it there; the annotation leaves a policy only by being
  taken away, so at the write it still names the policy or was taken away in between.

Algorithms (`AlgorithmProofs`):

* `SubsetOfExact`: `SubsetOf(n, o)` exactly when every host `n` stands for is one `o` stands for, for
  names of any length; the converse direction picks as witness the shortest host below a
  wildcard name. Rests on two lemmas about suffixes of sequences (`SuffixTransitive`,
  `SuffixesNested`).
* `ValidSubdomainsSound`, `ValidSubdomainsExact`: an accepted list names hosts of the domains only,
  and the name reported for a refused list has, for each domain, a host outside it.
* `RulesSelectRouted`: a request that a match lets through is selected by some rule, for paths of any
  length over any characters, unless the match is left out beside one that compiles, or the path is
  that of a prefix without its slash at the end (`AbovePattern`): the losses named in section 3, and no
  others. The two sides speak of different relations: a path that lies under a prefix by elements
  begins with its characters (`PrefixBegins`), and the pattern with the star selects what does
  (`StarCovers`).
* `HostnamesAreContained`, `RouteRequestsAreSelected`: the same as the invariants that the run
  `algorithms` checks. Containment is there compared on a set of hosts that need not be all of them:
  `Told` says which hosts it must have to tell a name from others (a name itself; for a wildcard two of
  its hosts, one of them a label longer than the name), and all hosts together have them
  (`AllHostsTell`).
* `SameListsAreExact`: `Spec => []SameListsExactly`. `Fields` is prefix-free, since each list follows its
  length (`FieldsTell`), so `Less` is a total order, reflexive and antisymmetric (`LessIsOrder`,
  `LessAntisymmetric`, `LessTransitive`), although `sort.Sort` asks for a strict one. Insertion keeps
  a list in order and counts (`InsertOrders`), two lists in order with the same counts are one list
  (`OrderedSame`), and bags are counts (`BagsByTimes`). `SortIsTheOrder` adds that any algorithm that
  leaves a list in order leaves the same one: longer lists, which `sort.Sort` does not sort by
  insertion, are covered as far as it does that with a `Less` that is no strict order.
* `LimitsStayApplied`, `ReorderingsAreNotWritten`: `Spec => []LimitsAreApplied` and
  `Spec => WritesNoReordering`. `IndexInv` says of every limit, listed or not, that the list has it for
  a gateway and domain as often as it was last asked for. Reading the list into the index keeps the
  counts (`IndexCounts`), so does writing it in any order of the maps (`ToLimitsCounts`), `Equals` is
  equality of counts (`EqualsIsCount`, from the theorem before), and the index is written exactly
  when a count changes (`ReconcileStep`).

The last two rest on inductions over the length of lists. The operators are folds of the community
modules; `FoldExists` shows by induction that the function such a fold chooses exists, for steps given
as a function, and `SortSteps`, `IndexSteps` and `FlattenSteps` unfold the three folds from it.
`Induction` and `LeastNumber` are stated for sets of numbers, since the library's induction theorems
take an operator.

### Under hypotheses on edits and lag

These are safety and convergence properties that the code does not have in every setting
(section 3). Each hypothesis excludes a behaviour, named with it, under which the property or the
argument for it fails; TLC's runs of the same properties satisfy or go beyond them.

* `OwnersReferenced` (`OnlyOwnersReferenced` and `OnePolicyPerTarget`, any lag): no deletions of
  policies or targets and no retargeting (`Growing`). `v_owner` is the counterexample with
  deletions.
* `CopiesInvariant` (any lag): without retargeting and `deleteUnmarked`, the copies of a policy in
  cache and worker are true of what only moves one way: target, finalizer, mark of deletion.
  `deleteUnmarked` removes a policy that has no finalizer yet, after which the reconciliation
  that already runs goes on with an absent object.
* `AnnotationComesLast` (`AnnotationIsLast`; policies, routes, gateways and filters may lag):
  Limitador and plugins are read as they are, nobody else writes Limitador, and routes list
  hostnames, since a policy of a route without any has no limits that could speak of it.
  `PlacedInv` says that past each stage what it puts in place for the new gateways is there.
* `TraceInvariant`, `FinalizerCovers` (`FinalizerCoversTraces`; policies and filters may lag): routes,
  gateways, Limitador and plugins are read as they are, and targets stay where they are.
  Finalization visits the gateways of the target as it is then, so a route that moved or went
  leaves traces it does not visit, and an old copy of a route hides the back reference.
  `TraceInv` adds to the copies: traces lie only on gateways of the policy's own target
  (`CoveredInv`), a back reference names a policy with finalizer and that target (`OwnedInv`), the
  diff at work is the diff of the stored objects but for a gateway of which a second copy is still
  to be written (`DiffInv`, `Superseded`), and a finalization has left nothing
  on the gateways it is through with (`SweptInv`).
* `RestInvariant`, `ReferencesAtRest` (`ReferencesConverge`), `StatusAtRest` (`StatusConverges`):
  everything but filters is read as it is (`Prompt`), and targets stay in place (`InPlace`). The
  invariant is "no policy is forgotten": each one is `Fine` (status up to date, listed by the
  gateways of its target), `Awaited` (queued, or an undelivered event maps to it), or at work
  (`ReportInv`); and an applied policy's gateways list it or are still to be annotated
  (`ListingInv`). At rest nothing is awaited or at work, so all are fine. The hard steps are writes
  of one policy that make another's status old: the proof shows that the gateway's event reaches
  every policy that reports it.
* `FiltersAtRest` (`FilterConverges`): with current EnvoyFilters as well. `FilteredInv`: a gateway
  that lists policies has its filter, and one that has a filter is a gateway of a policy other
  than the one whose finalization is through with it. When routes move, a filter can stay
  missing (section 3).
* `ConfigAtRest` (`ConfigConverges`, with any faults and crashes): `Prompt`, `InPlace`, and nothing is
  deleted and Limitador not edited by others (`Lasting`): Limitador is not watched. `ConfigInv` says that the
  limits and the plugin of each gateway are what its policies ask for (`Right`), or a policy whose
  target leads to the gateway comes up again (`Due`), or the worker is at such a policy and has got
  as far as its stage says (`Applying`, `Finalizing`). The hard part is that the outputs are computed
  from *all* policies of a gateway while each of these, its route and the gateway's hostnames
  change: every such change must bring up a policy of the gateway.
* `ConfigAfterDeletions` (`ConfigConverges`, with deletions, as in the run `lifecycle`): `Prompt`,
  `Undisturbed` (create, delete and changes of hostnames; no failed call and no crash; filters are
  read as they are), `Separate` (no two policies have a target in common, and none is refused), and
  `ListedOnce` (no route names two sections of a gateway; otherwise `v_limits`).
  A finalization takes the limits of all policies of its gateways away and relies on the event of the
  annotation it then rewrites to bring the others up. When it is run again, after a failed call, a
  crash, a gateway that was not ready or an edit that met one of its writes, it takes the limits away
  and finds the annotation rewritten; and so does the finalization of a policy that was refused
  and never listed. `Smooth` says that a finalization meets each gateway once and is not
  given up before limits and plugins are written.
  Variants of `lifecycle` with one failed call, with edits of specs or readiness,
  with two policies for one target, or with specs that do not fit, do violate `ConfigConverges`.
* AuthPolicy `FinalizerCovers` (policies, AuthorizationPolicies and AuthConfigs may lag): routes and
  gateways are read as they are, no retargeting and `deleteUnmarked`, `authConfigName` injective:
  two policies with one AuthConfig would each remove the other's.
* AuthPolicy `StatusUpToDate` (`StatusConverges`, every edit): policies, routes and gateways are read
  as they are. With lagging policies the model has a policy changed and changed back between two
  deliveries, which a comparison of contents does not see and a resourceVersion would; with
  lagging routes two changes become one event.
* `SchemeComesInside` (`SchemeFollowsRules`; policies, AuthorizationPolicies and AuthConfigs may lag):
  routes and gateways are read as they are, routes keep their parents and stay accepted (`Pinned`).
  For a route that is not accepted the loops
  over the gateways are skipped and the scheme is written or removed all the same; after a move
  the old gateways keep their rules.
* `ProtectedAtRest` (`ProtectionConverges`): everything is read as it is, `Pinned`, and
  `Apart`: policies have different targets and no names collide, because the finalization of a
  refused policy removes the owner's AuthorizationPolicies. On top of the invariants of the three theorems before,
  `AimsInv` says that policies have targets users may give them (so that `Apart` keeps them apart),
  `LeakInv` that every AuthorizationPolicy belongs to a policy that holds the finalizer, and `ProtInv`
  that each policy is `Protected` (its rules and scheme are what it asks for), `Told` (it will be worked
  on again) or at work, where `Begun` says how far the work has come.

### Only model-checked

* `ConfigConverges` and the other convergence properties where routes move or policies are
  retargeted (run `moves`): the proofs use that targets stay in place. With deletions and failed calls
  together `ConfigConverges` is false (above).
* `DeletionCompletes` and `ComesToRest`: liveness under fairness is out of the prover's reach, as is
  `ENABLED`.

## 5. Not modelled, and the plan

Not modelled: hand-edited annotations and outputs; more than one worker per controller (none is
configured, and `config/manager` deploys one replica with leader election); both controllers at
work in one state space (each sees the other as an editor of gateway annotations); the JSON
structure of the WASM configuration, the EnvoyFilter's patch and the AuthorizationPolicy's
selector (data that no decision reads); how `sort.Sort` sorts more than 12 limits; owner references, map and
slice helpers that nothing calls; logging, generated code.

Left to prove: convergence for routes that move, under the condition
that no annotation update conflicts (section 3 says why one is needed).
