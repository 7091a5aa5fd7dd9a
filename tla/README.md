# cf-k8s-networking: formal models

TLA+ models of cf-k8s-networking, the networking control plane of
cf-for-k8s: TLC configurations that check them on small instances, and TLAPS
proofs of the most important properties for every instance. File names below
are relative to the repository root; `RC` is `routecontroller/`.

## 1. The system

Cloud Controller stores one *Route* custom resource per CF route. The route
controller watches Routes and keeps, for each, one Kubernetes *Service* per
destination, and for each FQDN one Istio *VirtualService* that sends requests,
by path, to those Services. Istio and Kubernetes carry the traffic.

| Component | Source | State | Operations |
|---|---|---|---|
| Route reconciler | `RC/controllers/networking/route_controller.go` | none across calls; the work queue and its timers are its memory | `Reconcile`, `reconcileServices`, `reconcileVirtualServices`, `finalizeRouteForDeletion`, `SetupWithManager` |
| Builders | `RC/resourcebuilders/*.go` | none (pure) | `VirtualServiceBuilder.Build`, `ServiceBuilder.Build` |
| Route type | `RC/apis/networking/v1alpha1/route_types.go` | fields of a Route | `FQDN` |
| Manager, configuration | `RC/main.go`, `RC/cfg/config.go` | settings | `main`, `cfg.Load` |
| Kubernetes API, caches, garbage collector, Cloud Controller | not in the repository | stored objects, watch streams, caches | writes, deliveries, collection |
| Uptime measurement | `test/uptime` | counters, goroutines, an upgrade poller | `Record`, `AddResult`, `checkUpgrade`, the tests' loops |
| Scale measurement | `test/scale/internal/collector` | counters shared by goroutines | `MapRoute` |
| Stress test matcher | `RC/stress/matchers` | the exit code last seen | `Match`, `FailureMessage`, `MatchMayChangeInTheFuture` |
| Sidecar upgrade job | `ci/dockerfiles/upgrade/roll.sh` | none | restart of old workloads |
| Istio types, generated code, CI, deployment YAML | `RC/apis/istio`, `ci`, `config`, `hack` | none | none |

How they interact. The reconciler *reads* from the manager's caches, which
follow the API with a delay and independently for each object, and *writes* to
the API directly. A Route event queues the Route's name; an error queues it
again; success arms a timer (`RequeueAfter: ResyncInterval`). Services and
VirtualServices are not watched, so nothing that happens to them wakes the
controller. Routes with a common FQDN share one VirtualService: each one's
reconciliation rewrites it from the Routes it listed.

What is hard here:

* every decision (create or update, delete, "is this the last route") is made
  on a cached value that may be stale;
* a reconciliation is a sequence of up to a dozen API calls, any of which may
  fail or be the last before a crash, while users, siblings and the garbage
  collector act in between;
* deletion runs through a finalizer that must be stored before, and removed
  after, everything else;
* lost children and missed siblings raise no event: the resync repairs them, or
  the cache's own re-delivery of every Route, every ten hours;
* during a rolling update two managers may write at once, each from its own
  caches: the lease decides who leads, it does not fence writes;
* the measurements share counters between goroutines and must be evaluated
  after the last of them.

What makes each component correct:

* builders: a request reaches the most specific route that has destinations;
  weights sum to 100; every host named is a Service that gets built; the result
  for an FQDN depends on its own routes only;
* reconciler, safety: no Service precedes its owner's finalizer; no Service or
  VirtualService is taken from a route that is served; no stored Route is ever
  left without something that will bring the worker back to it;
* reconciler, liveness: once users and faults stop, everything equals what the
  stored Routes call for; a deleted Route loses its Services whatever its
  siblings are like;
* manager: it runs only when fully set up, comes up once calls succeed, and no
  Route is lost between a leader and its successor;
* measurements: they end, and the verdict is the one the samples deserve.

`PROJECT.json` lists the hazards one by one with the line where each bites.

## 2. Modules

| Module | Models | Extends |
|---|---|---|
| `ResourceBuilders` | both builders, as operators | community modules |
| `MCResourceBuilders` | one `Build` over enumerated inputs; builder properties | `ResourceBuilders` |
| `Cluster` | API, watch streams, caches, garbage collector, Cloud Controller (external) | `ResourceBuilders` |
| `RouteController` | the reconciler, composed with `Cluster`; its properties | `Cluster` |
| `RouteLifecycle` | abstract: the stages of a Route's life and what is provided at each | none; instantiated by `RouteController` |
| `MCRouteController` | small clusters and bounds | `RouteController` |
| `Handover` | two managers, leader election, a rolling update | `RouteController`, and a second instance of it |
| `MCHandover` | the small clusters with two managers | `Handover`, `MCRouteController` |
| `Startup` | `main`, `cfg.Load`, `SetupWithManager`, restarts | none |
| `UpgradeChecker` | the polling goroutine of the uptime tests, and kapp (external) | none |
| `ControlPlaneUptime` | the control plane uptime test | `UpgradeChecker` |
| `RouteMapper` | the scale test's goroutines and evaluation | none |
| `ExitMatcher` | the stress tests' matcher under gomega's polling | none |
| `ResourceBuildersProofs` | the order of paths, the sort, the sums: theorems about the builders | `MCResourceBuilders` |
| `RouteControllerProofs` | types, finalizer, no route forgotten: theorems and the invariant `IInv`; what a second manager observes; the copies of a Route in relation to each other: `HInv` | `RouteController` |
| `ChildrenProofs` | who may take children away: `CInv` and the action properties; the refinement of `RouteLifecycle` | `RouteControllerProofs` |
| `HandoverProofs` | two managers: `HandoverInv` and its theorems | `Handover`, `RouteControllerProofs`, and a second instance of it |
| `ControlPlaneUptimeProofs`, `RouteMapperProofs`, `ExitMatcherProofs`, `StartupProofs` | theorems about the module each is named after | that module |

### ResourceBuilders

A host name is a sequence of labels, so that `FQDN` really joins host and domain
(the same FQDN can be written in two ways); a path is a sequence of characters,
so that prefixes and Go's string order (`StringGreater`) are the real ones.
sha256 is taken as injective. Owner references are a set: their order follows
that of the routes and means nothing to Kubernetes. Everything a destination
contributes besides its GUID and weight (labels, selector, port, headers) is one
value, `app`. A RouteList is a set: the cache's index returns it in no fixed
order. `fqdnToVirtualService` takes namespace and gateways from an arbitrary
member, as the code takes them from whichever route happens to be first;
`validateRoutesForFQDN` makes the choice irrelevant, which `RoutesOfFQDNAgree`
checks. URLs within an FQDN are distinct, as in Cloud Controller, so there is
one sorted order and `sortRoutes` chooses it among the permutations; skipping
the routes without destinations before or after the sort is the same.

### Cluster

Each key (a Route, Service or VirtualService name) has its stored value, a
stream of undelivered values and a cached value. A write appends to the stream;
`Receive...` moves the head into the cache. An Update carries the version that
was read; for a cached child this is the current one exactly when the stream is
empty. Routes carry `uid` and `version`, so that a recreated Route is another
object. `DeleteRoute` marks a Route that has a finalizer and removes one that
does not. The collector removes a Service whose owner is gone, drops dangling
references of a VirtualService and removes it with the last one.
`Evict...` is a deletion by anybody else ("child resources are deleted in
etcd", decision record 12).

### RouteController

`pc` says where in `Reconcile` the single worker is
(`MaxConcurrentReconciles` is not set, so it is 1); the other worker variables
are the locals that live across API calls.

| Action | Code (`route_controller.go`) |
|---|---|
| `Get(k)` | 57-65, with the NotFound return |
| `List`, `AfterList` | 67-70, the branches of 72-88 |
| `AddFinalizer` | 72-78 |
| `ListServices` | 103-112, and the choice of 129 |
| `ListServicesToFinalize` | 160-170 |
| `ApplyService` | one iteration of 114-127 |
| `DeleteService(s)` | one iteration of 221-230, called from 130 or 167 |
| `ApplyVirtualService` | 95-98 with 135-158 |
| `ShrinkVirtualService` | 188-192 with 135-158 |
| `DeleteVirtualService` | 172-187 |
| `RemoveFinalizer` | 194-199 |
| `Succeed`, `Finalized`, `Fail` | the returns 100, 87, and every `return ctrl.Result{}, err` |
| `Abort` | any call that fails, or succeeds with its answer lost |
| `DeliverRoute(k)`, `Resync(k)` | the watch set up at 252-254, the timer of 100 |
| `Redeliver(k)` | `main.go:66-73` sets no `SyncPeriod`, so controller-runtime's cache (v0.8.3) hands out every Route anew each ten hours |
| `Crash` | the process of `main.go` is replaced; caches are listed afresh |

Two details matter. `Get` of the VirtualService at line 177 swallows *every*
error: one branch of `DeleteVirtualService` skips the deletion on a fault. And
a Service update is always sent (the API server defaults fields that the
mutate function clears), but one that changes nothing raises no event.

### RouteLifecycle

What the controller promises without caches, queue or API calls. A Route is
`absent`, `open`, `guarded` (its finalizer is stored) or `leaving`, in this
order, and may vanish only from `open` or `leaving`. `Provide(s, k)`: a Service
is written only for a guarded or leaving Route. `Publish(n, S)`: a VirtualService
may be rewritten or deleted at any time, but drops only leaving Routes. `Lose` is
a deletion by somebody else. `RouteController` instantiates it with the
refinement mapping `StageOf`, `ProvidersOf`, `ListedIn` over the stored objects;
`ImplementsLifecycle` says that every step, under stale caches, faults and
crashes, is one of these or a stutter.

### Handover

The plain variables are the old manager; `New` is a second instance of
`RouteController` with watches, caches, queue and worker of its own on the same
stored objects. A write by one manager appears in the other's streams (`Watch`).

| Action | Code |
|---|---|
| `StartNew` | `main.go:66-92` of the new process; the indexed caches (Routes, Services) are filled before the lease is held |
| `StandbyReceives(k)` | the standby's caches go on, no controller listens |
| `TakeOver` | the lease is acquired and the controller starts: every cached Route is queued (`route_controller.go:252-254`) |
| `OldExits` | `main.go:91-95`: `Start` returns when the lease cannot be renewed, wherever the worker is |
| `OldWorks`, `NewWorks` | the actions of `RouteController`, failing calls and lost answers (`Abort`), re-deliveries and crashes among them; in `overlap` both |

`Crash` here is a leader that dies and leads again once it is restarted; an old
leader that does not get the lease back is `OldExits`, since all it could do is
stand by. A standby that dies, and an old manager that wins the lease back from
the new one, are not modelled.

In `overlap` the old manager still believes to lead. `Overdue` says whether it
goes on to take new names from its queue or at most ends the reconciliation it
is in.

### Startup

`step` follows `main`; every call either succeeds or logs and exits, after
which the kubelet starts a process that has nothing of the old one. A text of
`RESYNC_INTERVAL` is a sign and a sequence of numbers with units; `Suffixed`
appends the `s` of `cfg.Load` to the last unit (`""` becomes `s`, `m` becomes
`ms`, anything else is unknown to `ParseDuration`), and a value beyond
`MaxDuration` is refused as in Go.

### UpgradeChecker, ControlPlaneUptime

`UpgradeChecker` is the goroutine that an uptime test starts (`checkUpgrade`,
`StopPolling`, a panic of `kappAppChangeLS`, which ends the process) and kapp's
list of app-changes.

In `ControlPlaneUptime` three kinds of actors meet: the test (`pc`, one action
per step of its loop and of the evaluation after it), the checker and one
sampler per mapped route (`Wake`, `Sample`, `addResult`,
`Done`). Each look at the checker takes its mutex anew, so `CheckFound` and
`Break` are separate steps. A sampler's delivery and its `waitGroup.Done()` are
separate too. Without time, a sleep or timeout may end at any moment; this
includes schedules that are only just possible, such as an upgrade found
finished before the first route is mapped (verdict "panic").

### RouteMapper

One goroutine per route: the cf commands (`cfWithRetry`), `Attempts` requests
(`GetError`, `GetBad`, `GetOK`), `Report`. `now` is what `time.Now().Unix()`
says, in whole seconds counted from `startTime`. A request, answered or not,
lasts no longer than the client's timeout of one second (`scale_test.go:36`) and
so moves this clock by 0 or by 1; which of the two depends on fractions of a
second that nobody reads, and is left open. `lastFailure` is taken after the
answer, as in the code. The sleep moves the clock by 1; the goroutine's own
steps take no time and a sleep does not end late. `reachedAt` (when the first
200 arrived) and `unanswered` (the requests since the last bad answer that ended
in an error, up to the first 200) are kept for `MeasuredOnce` only. A goroutine
that gives up on cf leaves through ginkgo's panic and its deferred `Done`.

### ExitMatcher

gomega asks the oracle (`Ask`), then `Match`, then decides; the process may exit
between any two. Whatever is matched may be a gexec session, another `Exiter`
(for which `FailureMessage` panics), or something else (an error).

## 3. Runs

| Run | Instance | Shows |
|---|---|---|
| `builders` | 5820 lists of 1-3 valid routes (nested, sibling and empty paths, two FQDNs, one spelled in two ways, 0-3 destinations) and 4800 pairs with mixed or wrong weights, internal and external, two namespaces | `MostSpecificRouteWins`, `TrafficIsSplitCompletely`, `HostsAreServicesOfOwners`, `BuildIsLocal`, `RoutesOfFQDNAgree` |
| `shared_fqdn` | two routes of one FQDN; 3 user changes, 1 loss, 1 fault, 1 crash | `TypeOK`, `FinalizerGuardsServices`, `NoRouteForgotten`, `VirtualServiceOutlivesItsRoutes`, `ImplementsLifecycle` (987 thousand states) |
| `moving_route` | one route, three valid sets of destinations; 3 changes, 1 fault | `Convergence`, `OnlyOwnersDeleteServices` (346 thousand states) |
| `convergence` | two routes, 3 changes; on one FQDN or two, either may have invalid weights | `Convergence`, `DeletedRoutesLoseServices` (263 thousand states) |
| `recovery` | two routes of one FQDN; 2 changes, 1 loss, 1 fault, 1 crash, 1 re-delivery | `Convergence` (233 thousand states) |
| `late_removal` | two routes of one FQDN, 3 changes, no faults | violation of `RemovalNeedsNoTimer`, finding 1 |
| `stuck_deletion` | two routes of one FQDN, one with invalid weights; 3 changes | violation of `DeletedRoutesGoAway`, finding 2 |
| `handover` | one route, two managers, `MaxLag = 1`; 2 changes, or 1 change with a fault and a crash or with a re-delivery | `FinalizerGuardsServices`, `NoRouteLostInHandover`, `Convergence` (210 thousand states) |
| `startup` | 369 environments, 2 faults | `IntervalIsAsConfigured`, `RunsOnlyWhenSetUp`, `ComesUp` |
| `scale` | two routes of three requests | `PassMeansAllMapped`, `MeasuredOnce`, `TestEnds` (74 thousand states) |
| `exit_matcher` | exit codes 0 to 2, four polls | `VerdictFitsProcess`, `NoPollAfterExit` |
| `uptime` | two routes of at most two requests each, two app-changes | `EverySampleCountsOnce`, `VerdictMatchesSamples`, `MeasuresToTheEnd`, `TestEnds` (189 thousand states) |

**Bounds.** Each member of `Limits` bounds what the environment does, by kind,
and it keeps within one of them: user changes, evictions, faults, crashes,
re-deliveries by the cache. The controller itself is not bounded. Three user
changes allow create-create-delete and create-delete-recreate, the shortest
histories in which a sibling or a second incarnation matters; one fault and one
crash may fall between any two steps. `MaxLag = 2` bounds the undelivered events
of one key: two are enough for a cache that has missed a deletion and a
recreation. Without it the states are infinite: while a watch stalls, a child
can be recreated and collected any number of times. In `ControlPlaneUptime` two
samplers are the fewest that can deliver in either order, and two requests let a
route be neither all good nor all bad; past `MaxRoutes` the loop goes on without
mapping more. In `RouteMapper` `Attempts = 3` (60 in the code) lets a route
fail, recover and fail again, and `MaxLatency = 1` may be exceeded. In `Startup`
`MaxFaults = 2` lets a restarted process fail again, and the numbers go past
`MaxDuration`. Two managers double the state: the run of `Handover` checks
safety and liveness with `MaxLag = 1` and a leader that takes no new name after
its lease (`Overdue = FALSE`), and with troubles only in histories of one user
change. TLC has also checked its two invariants with `MaxLag = 2` and an overdue
leader (1.57 million states), and with two changes together with a fault and a
crash (1.12 million) or a fault and a re-delivery (1.37 million); the theorems
of section 5 have them in any number. A single route is enough for the rivalry
of two managers over its children; it does not show two routes of one FQDN under
two managers (there a lagging new leader can delete a sibling's VirtualService,
which the resync restores; that instance is beyond TLC here). Deadlock is not
checked: when no Route is left and nothing is queued the controller really
waits, and the builders and the tests really end.

**Fairness.** The worker runs, timers fire, watch events arrive, the garbage
collector works: weak fairness of each. `Get(k)` has strong fairness because the
work queue is first in, first out and a failed name goes to its end, so no
queued name is passed over for ever. Users, evictions, faults and crashes have
none, nor has the cache's re-delivery: nothing has to wait ten hours. In the
uptime test goroutines run, sleeps and timeouts end and an upgrade that has
begun ends; whether one begins is left open. The checker runs kapp without a
timeout and with its mutex held (`upgrade.go:67-118`), and the test asks for that
mutex: `TestEnds` assumes that kapp always returns, with an answer or an error.
In `Handover` both managers are as fair as `RouteController`, a vacant lease is
taken and a leader that has lost its lease exits; whether there is a rolling
update is left open. In `Startup` the process runs and the kubelet restarts it.
In the scale test every goroutine runs (cf commands and requests have timeouts).

## 4. Findings

1. Decision record 12 relies on the finalizer for a "fast path" of updating
   VirtualServices shared by many routes (line 21); to rely on `RequeueAfter` of
   a different route for that "would be slow, and a strange behavior to support"
   (line 16). The reconciler of route *b* writes every listed sibling into the
   VirtualService, also *a* whose finalizer is not stored yet. If *a* is deleted
   then, it is gone at once, its own reconciliation finds nothing, and its entry
   stays until *b*'s resync: 900 s as deployed, and with `RESYNC_INTERVAL` 0 until
   the cache re-delivers *b*, which takes up to ten hours. `RemovalNeedsNoTimer`
   says that a controller that waits for nothing but timers leaves no such entry;
   `late_removal` shows one. It is a delay: `convergence` shows that the timer does
   remove the entry.
2. Decision record 12, line 30, says that Routes fail to be deleted "if there is
   no routecontroller available to resolve the finalizer". They also do when a
   sibling is invalid: `finalizeRouteForDeletion` rebuilds the VirtualService
   (`route_controller.go:189`) before it removes the finalizer, and the build
   fails at every retry. `DeletedRoutesLoseServices` shows that the Services do
   go away.

Smaller disagreements between documents and code, met while modelling and
without a run of their own:

* `RC/resourcebuilders/virtual_service_builder_test.go:599-600` says that a
  route without destinations next to another one gets a placeholder; the code
  (`virtual_service_builder.go:106`) skips it, as the test expects.
* `RC/integration/integration_test.go:162-167` says that no VirtualService is
  created for a route without destinations; the code creates one with a
  placeholder. The test passes because it looks before the controller acts.
* `virtual_service_builder.go:23` calls weights percentages; only their sum is
  checked and the schema sets no bounds. The comment on `validateWeights` relies
  on Cloud Controller.
* Decision record 12, line 12, counts `ResyncInterval` in seconds; `cfg.Load`
  appends `s` to the text before parsing it, so `1m` is one millisecond (every
  other value that ends in a unit is refused).
* `test/uptime/README.md:44-46` counts a route as a failure if more than 95% of
  its requests fail, and fails the test if more than 95% of the routes do; the
  code (`control_plane_results.go:49`, `control_plane_uptime_test.go:73`) wants
  more than 95% of the requests, and 95% of the routes, to succeed.
* `test/uptime/data_plane_uptime_test.go:42-43` speaks of a test that has "run
  for at least 15 minutes"; no condition in the code does.
* `test/scale/README.md:28-29` says that latency is measured until the route is
  reachable; a request that ends in an error does not move `lastFailure`
  (`route_mapper.go:49-51`), so a route that could not be reached at all is
  recorded as immediate. `MeasuredOnce` says how far off the record may be: by
  two seconds, and one more for each such request.

## 5. Proofs

Everything here holds for every value of the constants that the named
assumptions allow: any routes, specs, numbers of faults, samples or polls.

### The reconciler

Assumed: `NoWeightAssumption`, `GatewayAssumption`, `ClusterAssumption` (destinations are sequences,
the bounds are numbers), `ResyncAssumption`, and, for the action properties,
`DestinationAssumption`: no two Routes have a destination GUID in common, as
Cloud Controller hands them out. `Absent` is a record that no object looks
like, so nothing needs to be assumed of it.

| Theorem | States | From |
|---|---|---|
| `TypeCorrect` | `Spec => []TypeOK` | itself |
| `FinalizerGuards` | `Spec => []FinalizerGuardsServices` | `IInv` |
| `NothingForgotten` | `Spec => []NoRouteForgotten` | `IInv` |
| `OnlyOwnersDelete` | `Spec => OnlyOwnersDeleteServices` | `CInv` |
| `VirtualServiceOutlives` | `Spec => VirtualServiceOutlivesItsRoutes` | `CInv` |
| `ControllerImplementsLifecycle` | `Spec => ImplementsLifecycle` | `CInv` |

None of the properties is inductive. Three invariants are stacked; each
contains the one before it.

`IInv` (`RouteControllerProofs`) looks at single copies of a Route:

* `CopiesSound`: every copy of a Route (stored, in a stream, in a cache) bears
  its key's name and a UID already given out, and a finalizer in a copy is still
  there in the stored object of the same incarnation: without it a Service could
  be created on the word of a copy that means nothing;
* `HeldSound`: the same for the Route in the worker's hands, and that it has
  the finalizer whenever the worker is past `AddFinalizer`;
* `OwnersSound`: the owner of every Service is an incarnation that existed and,
  if it is still stored, has its finalizer (this implies
  `FinalizerGuardsServices`);
* `WatchCoherent`: the last value of a Route's stream, or its cached value when
  the stream is empty, is the stored one: a name dropped by `Get` because the
  cache has no Route is therefore gone or has an event under way;
* `FinalizedIsGone`: a worker that returns without a timer holds a Route whose
  name is no longer stored, has an event under way or is queued;
* `Remembered`: `NoRouteForgotten` itself, under a positive `ResyncInterval`.

`HInv` (`RouteControllerProofs`, the last part) relates the copies to each other. `View(k, i)` is
the cached copy for `i = 0` and the i-th of the stream after it. `ViewsPast`: a
copy of the stored incarnation has its FQDN, a deletion in it was not taken
back, and the same resourceVersion is the same object; a copy with the
finalizer and without a deletion is of a Route that is still stored, because
whoever finalized it would have had to read a later copy. `ViewsOrdered`: along
the stream a deletion stays marked, and after a copy of the stored incarnation
no other incarnation follows. `HeldPast` and `WayTaken` say the same of the
Route in hand. Optimistic locking is what makes this inductive: `AddFinalizer`
and `RemoveFinalizer` write only from the current version, hence from the stored
object itself.

`CInv` (`ChildrenProofs`) relates children to caches. A reference is `Known`
when its owner is gone or the cache already has that incarnation: the cache is
ahead of every child, since children are built from what was read there
(`ServiceOwnersKnown`, `VirtualServiceOwnersKnown`). Therefore, once the worker
has a Route, no child belongs to a later incarnation of it (`HeldKnown`), and
the list it read has every stored Route that the VirtualService lists
(`ListedKnown`): the test "am I the last route" errs only towards siblings that
nobody serves yet. `ServicesNamed` and `CondemnedOwned` say that what is about
to be deleted by bare name can only be a Service of the Route in hand. Both
action properties follow from `CInv` action by action.

The refinement (`ChildrenProofs`, the last part) has a lemma for each way of touching the
abstract state: `Create`, `Condemn` and `Vanish` from what users do (a Route
without a finalizer vanishes at once), `Guard` from `AddFinalizer`, `Vanish` from
`RemoveFinalizer`, `Provide` and `Retract` from Services written and deleted,
`Publish` from VirtualServices, `Lose` from evictions. Steps of the
garbage collector, caches, timers, retries and crashes change nothing of it, or
retract what is nobody's. That `Provide` finds its Route guarded or leaving is
`HeldPast`; that `Publish` drops only leaving Routes is `ListedKnown`.

### Two managers

| Theorem | States | From |
|---|---|---|
| `NothingLostInHandover` | `HandoverSpec => [](ResyncInterval > 0 => NoRouteLostInHandover)` | `HandoverInv` |
| `HandoverFinalizerGuards` | `HandoverSpec => []FinalizerGuardsServices` | `HandoverInv` |

The assumptions are those of the reconciler; `MaxLag`, `Overdue`, the number of
routes and the limits are arbitrary, so this covers what the run leaves out: two
routes of one FQDN, a leader that goes on past its lease, and any number of
failing calls, lost answers, re-deliveries and crashes of either manager together
with any number of changes (of the crashes those that section 2 describes).

`HandoverInv` says that each manager that is up is as its own specification
would have it: `IInv` of the old one until it exits, and of the new one from its
start `Consistent`, which is `IInv` without `Remembered`, since a standby has no
queue; from `TakeOver` on it must remember too. Before that the new
manager's streams are empty (`Unstarted`) and its worker idle (`NotLeading`).
One manager's lemmas are used for both: `NewP` is a second instance of
`RouteControllerProofs`, and bridging lemmas identify its definitions with those
of `New`.

The heart is what a write by one manager is to the other. `StepIsRouteWrite`: a
step of a manager changes the stored Routes in one place at most, and what it
stores is `Admissible`, as a user's write is. `ObserverSound`: a manager that
finds such a write in its streams stays `Consistent`, and if it remembered every
Route it still does, since the event is under way. It never matters
whether the writer holds the lease: optimistic locking is all that is used. At
`TakeOver` every cached Route is queued; a stored Route that is not in the cache
has an event under way by `WatchCoherent`.

### The builders

| Theorem | States |
|---|---|
| `MostSpecificWins` | `Spec => []MostSpecificRouteWins` |
| `TrafficSplit` | `Spec => []TrafficIsSplitCompletely` |
| `HostsExist` | `Spec => []HostsAreServicesOfOwners` |
| `LocalBuild` | `Spec => []BuildIsLocal` |
| `RoutesAgree` | `Spec => []RoutesOfFQDNAgree` |

These hold for any set of RouteLists and of request paths. Assumed of a list
(`RouteListsAssumption`): it is finite, its URLs differ, paths are strings,
destinations are a sequence, and no weight is negative, all of which Cloud
Controller or the schema sees to; of a request (`RequestPathsAssumption`), that
its path is a string; and of the configured gateway (`GatewayAssumption`), that
it is not the mesh's own: it is `<namespace>/<name>` as deployed
(`config/routecontroller/routecontroller-configmap.yaml:17`).

The inductive invariant is plain (`BuilderInv`: a result stays that of its
input); the substance is in the lemmas about the operators:

* `StringGreater` is a strict total order (`GreaterIsAnOrder`, `GreaterIsTotal`)
  in which a string is above its proper prefixes (`PrefixIsSmaller`);
* `SortedDescending`: `sortRoutes` lists each route once, in strictly descending
  order. A route's rank, one more than the number of routes above it, numbers the
  routes without gaps (`RankNumbers`, by cardinalities), so that a sorted list
  exists for CHOOSE to find;
* `FirstMatchIsLongest`: two paths that match a request are prefixes of one
  another, so of those the longest comes first. With `MeaningOfLongest` this
  gives `MostSpecificWins`;
* `TotalIs`: a sum is what any function says that adds up the weights one by
  one. For inferred weights that function is `i * (100 \div n)` plus the
  remainder, which is 100 at `n` (`InferredWeightsAddUp`).

No induction principle is needed: where one would be used, the least
counterexample is taken instead (`LeastElement`).

### The tests and the start-up

* `ControlPlaneUptimeProofs` (assuming `UptimeAssumption`, `NilAssumption` and
  `CheckerAssumption`): `SamplesCountedOnce`, `VerdictDeserved` and
  `MeasuredToTheEnd` are `[]EverySampleCountsOnce`, `[]VerdictMatchesSamples`
  and `[]MeasuresToTheEnd`. The verdict is about sums over samples that arrive
  in any order. `UInv` therefore counts: as many results are collected as
  samplers have delivered, and as many available ones (`Collected`); the
  counters are untouched or are of everything collected, and then nobody is
  still sampling (`Counted`). Two counting lemmas (one more result, one more
  sampler) carry the proof.
* `RouteMapperProofs`: `PassesOnMappedRoutes` and `RoutesMeasuredOnce`. `RInv`
  says that a goroutine reports nothing before its end and has then left exactly
  one mark (`ReportsAtEnd`, `EndedWithReport`), and that its last failure is no
  older than the last sleep and the requests without an answer since then, or,
  after the first 200, than that with the answer's own latency
  (`LastFailureKept`).
* `ExitMatcherProofs`: `VerdictIsTrue` and `LastPollAfterExit`. In `EInv` what
  `Match` read is never older than the oracle's answer (`AnswerOfPoll`,
  `CodeOfPoll`).
* `StartupProofs`: `RunsSetUp` and `IntervalConfigured`. In `SInv` main is past a
  step only with what that step set up in this very process (`Loaded`,
  `Indexed`). That a number `N` is read as `N` seconds is `SuffixedNumber`, which
  assumes that a text is a sign and a sequence of numbers with units
  (`EnvironmentsAssumption`).

TLC has checked each of these invariants, and their parts, as invariants of
the module's run before they were proved (`IInv` on `recovery`; `HInv` and `CInv`
on `shared_fqdn`, `moving_route` and `convergence`; `HandoverInv` on `handover`,
also with an overdue leader, 389 thousand states).

### Only model-checked

Every safety property that a run checks is a theorem. Liveness is left:
`Convergence` (with one manager and with two), `DeletedRoutesLoseServices`,
`ComesUp` and both `TestEnds` rest on fairness and on ENABLED, which are out of
the prover's reach. The two violations are counterexamples and need no proof.

## 6. Not modelled

Istio's and Kubernetes' own behaviour beyond the above; two replicas without
leader election (the deployment runs one, and a rolling update with election is
`Handover`); changes of a Route's host or domain and equal URLs (Cloud Controller
excludes them); rate limits; time, except where a module counts it; the JSON
wrappers of `RC/apis/istio` (a value is written and read by the same library;
what the cache does with a VirtualService of somebody else that has unknown
fields is the library's affair); deep copies and scheme registration, which are
generated; the data plane uptime test's loop, which is the control plane one
with a request in place of a sampler, and the latency statistics it prints; the
Kind of an owner reference, which a typed client may clear after
an update; the set-up and clean-up of the tests; scripts and YAML, `roll.sh`
among them: all of its state is kubectl's.

## 7. Plan

All code of the controller with control of its own is modelled, and every safety
property of the runs, the refinement included, is a theorem. What could be
added:

1. the refinement of `RouteLifecycle` with two managers. It does not hold as
   stated: a lagging new leader can delete a sibling's VirtualService, so
   `Publish` would need to drop Routes that are not leaving;
2. the data plane uptime test, as a second instance of the checker.
