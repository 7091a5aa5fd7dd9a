--------------------------- MODULE RouteController ---------------------------
(***************************************************************************)
(* The Route reconciler of routecontroller: one worker that takes a route  *)
(* name from the work queue and brings the route's Services and the        *)
(* VirtualService of its FQDN in line with the Routes it sees.             *)
(*                                                                         *)
(* Reads come from the manager's caches, which lag behind the API (module  *)
(* Cluster); writes go to the API, one step each, because everybody else   *)
(* may act between two of them.  A CreateOrUpdate reads its one object and *)
(* writes it in one step: a delivery between the two has the effect of the *)
(* same delivery after the step.                                           *)
(*                                                                         *)
(* "queue" is the work queue's set of names to process, those in back-off  *)
(* included; "resync" holds the names with a RequeueAfter timer.           *)
(***************************************************************************)
EXTENDS Cluster

CONSTANT ResyncInterval  \* seconds; RESYNC_INTERVAL of cfg.Load

ASSUME ResyncAssumption == ResyncInterval \in Int

VARIABLES
  queue, resync,
  pc,         \* where in Reconcile the worker is
  route,      \* the Route it got, Absent when it is idle
  routeList,  \* the Routes it listed for the FQDN
  applied,    \* how many of the desired Services are in place
  condemned   \* names of the Services still to delete

workerVars == <<pc, route, routeList, applied, condemned>>
vars == <<clusterVars, queue, resync, workerVars>>

Steps == {"idle", "list", "addFinalizer", "listServices", "services",
          "removeFinalizer", "succeeded", "finalized"}

\* Mutant: the worker goes idle with the last route still in hand.
IdleHoldingRoute ==
  /\ pc' = "idle"
  /\ UNCHANGED route
  /\ routeList' = {}
  /\ applied' = 0
  /\ condemned' = {}

Idle ==
  /\ pc' = "idle"
  /\ route' = Absent
  /\ routeList' = {}
  /\ applied' = 0
  /\ condemned' = {}

\* Mutant: the error is logged and dropped.
FailSilently ==
  /\ Idle
  /\ UNCHANGED <<queue, resync>>

\* Reconcile returns an error: the name is queued again, rate limited.
Fail ==
  /\ queue' = queue \cup {route.name}
  /\ Idle
  /\ UNCHANGED resync

Goto(step) ==
  /\ pc' = step
  /\ UNCHANGED <<queue, resync, route, routeList, applied, condemned>>

-----------------------------------------------------------------------------
(******************************** Reconcile ********************************)

\* The route is gone from the cache: nothing to do, nothing to retry.
Get(k) ==
  /\ pc = "idle"
  /\ k \in queue
  /\ queue' = queue \ {k}
  /\ route' = routeCache[k]
  /\ pc' = IF routeCache[k] = Absent THEN "idle" ELSE "list"
  /\ UNCHANGED <<clusterVars, resync, routeList, applied, condemned>>

\* Mutant: children are built for a route without a finalizer.
AfterListUnguarded(r) == "listServices"

\* Which way Reconcile goes with the Route it got.
AfterList(r) ==
  CASE ~ r.deleting /\ ~ r.finalizer -> "addFinalizer"
    [] ~ r.deleting /\ r.finalizer   -> "listServices"
    [] r.deleting /\ r.finalizer     -> "listServices"
    [] OTHER                         -> "finalized"

\* The Routes of the same FQDN, through the cache's index.
List ==
  /\ pc = "list"
  /\ routeList' = {r \in {routeCache[k] : k \in RouteNames} \ {Absent} :
                     FQDN(r) = FQDN(route)}
  /\ pc' = AfterList(route)
  /\ UNCHANGED <<clusterVars, queue, resync, route, applied, condemned>>

\* An Update is accepted only from the object's current resourceVersion.
IsCurrent(r) == routes[r.name] # Absent /\ routes[r.name].version = r.version

\* Mutant: the finalizer is stored whatever became of the route meanwhile.
AddFinalizerBlindly ==
  /\ pc = "addFinalizer"
  /\ route' = Stamped(route.name, [route EXCEPT !.finalizer = TRUE])
  /\ PutRoute(route.name, route')
  /\ pc' = "listServices"
  /\ UNCHANGED <<serviceVars, vsVars, spent, queue, resync, routeList, applied,
                 condemned>>

AddFinalizer ==
  /\ pc = "addFinalizer"
  /\ UNCHANGED <<serviceVars, vsVars, spent>>
  /\ \/ /\ IsCurrent(route)
        /\ route' = Stamped(route.name, [route EXCEPT !.finalizer = TRUE])
        /\ PutRoute(route.name, route')
        /\ pc' = "listServices"
        /\ UNCHANGED <<queue, resync, routeList, applied, condemned>>
     \/ /\ ~ IsCurrent(route)
        /\ Fail
        /\ UNCHANGED routeVars

-----------------------------------------------------------------------------
(**************************** reconcileServices ****************************)

\* The Services the cache has under the route's UID.
OwnedServices ==
  {s \in ServiceNames : /\ serviceCache[s] # Absent
                        /\ serviceCache[s].owner = routeToOwnerRef(route)}

\* Mutant: the desired Services are not spared.
findAllServices(actual, desired) == actual

\* Mutant: the Services of former destinations stay.
findNoServices(actual, desired) == {}

findServicesForDeletion(actual, desired) ==
  actual \ {desired[i].name : i \in DOMAIN desired}

ListServices ==
  /\ pc = "listServices"
  /\ ~ route.deleting
  /\ pc' = "services"
  /\ applied' = 0
  /\ condemned' = findServicesForDeletion(OwnedServices, BuildServices(route))
  /\ UNCHANGED <<clusterVars, queue, resync, route, routeList>>

\* Mutant: Services the route still wants are spared.
SpareDesiredServices ==
  /\ pc = "listServices"
  /\ route.deleting
  /\ pc' = "services"
  /\ applied' = 0
  /\ condemned' = findServicesForDeletion(OwnedServices, BuildServices(route))
  /\ UNCHANGED <<clusterVars, queue, resync, route, routeList>>

\* finalizeRouteForDeletion begins: every Service of the route shall go.
ListServicesToFinalize ==
  /\ pc = "listServices"
  /\ route.deleting
  /\ pc' = "services"
  /\ applied' = 0
  /\ condemned' = OwnedServices
  /\ UNCHANGED <<clusterVars, queue, resync, route, routeList>>

(***************************************************************************)
(* CreateOrUpdate of a child: Create when the cache has none, else Update. *)
(* The API refuses to create what exists, to update what is gone or was    *)
(* read stale.                                                             *)
(***************************************************************************)
Accepted(cached, actual, events) ==
  IF cached = Absent THEN actual = Absent
  ELSE actual # Absent /\ events = <<>>

ServicesPending == ~ route.deleting /\ applied < Len(route.spec.destinations)

(***************************************************************************)
(* The API server fills in defaults of the ports, so the cached Service    *)
(* always differs from the desired one and the Update is always sent; one  *)
(* that changes nothing leaves the object and its stream alone.            *)
(***************************************************************************)
ApplyService ==
  /\ pc = "services"
  /\ ServicesPending
  /\ LET s    == BuildServices(route)[applied + 1].name
         body == BuildServices(route)[applied + 1].body
     IN  \/ /\ Accepted(serviceCache[s], services[s], serviceEvents[s])
            /\ IF services[s] = body THEN UNCHANGED serviceVars
               ELSE PutService(s, body)
            /\ applied' = applied + 1
            /\ UNCHANGED <<queue, resync, pc, route, routeList, condemned>>
         \/ /\ ~ Accepted(serviceCache[s], services[s], serviceEvents[s])
            /\ Fail
            /\ UNCHANGED serviceVars
  /\ UNCHANGED <<routeVars, vsVars, spent>>

\* deleteServiceList: by name, whatever is stored there; NotFound is an error.
DeleteService(s) ==
  /\ pc = "services"
  /\ ~ ServicesPending
  /\ s \in condemned
  /\ \/ /\ services[s] # Absent
        /\ PutService(s, Absent)
        /\ condemned' = condemned \ {s}
        /\ UNCHANGED <<queue, resync, pc, route, routeList, applied>>
     \/ /\ services[s] = Absent
        /\ Fail
        /\ UNCHANGED serviceVars
  /\ UNCHANGED <<routeVars, vsVars, spent>>

-----------------------------------------------------------------------------
(************************ reconcileVirtualServices *************************)

(***************************************************************************)
(* All routes listed have one FQDN, so at most one VirtualService is built *)
(* (none from an empty list).  One that the cache already shows as desired *)
(* is left alone.                                                          *)
(***************************************************************************)
reconcileVirtualServices(list, next) ==
  IF BuildFails(list) THEN Fail /\ UNCHANGED vsVars
  ELSE LET built == BuildVirtualServices(list)
           stale == {n \in DOMAIN built : vsCache[n] # built[n]}
       IN  \/ /\ stale = {}
              /\ Goto(next)
              /\ UNCHANGED vsVars
           \/ \E n \in stale :
                /\ Accepted(vsCache[n], virtualServices[n], vsEvents[n])
                /\ PutVirtualService(n, built[n])
                /\ Goto(next)
           \/ \E n \in stale :
                /\ ~ Accepted(vsCache[n], virtualServices[n], vsEvents[n])
                /\ Fail
                /\ UNCHANGED vsVars

ServicesDone == pc = "services" /\ ~ ServicesPending /\ condemned = {}

ApplyVirtualService ==
  /\ ServicesDone
  /\ ~ route.deleting
  /\ reconcileVirtualServices(routeList, "succeeded")
  /\ UNCHANGED <<routeVars, serviceVars, spent>>

-----------------------------------------------------------------------------
(************************ finalizeRouteForDeletion *************************)

\* Mutant: routes are told apart by FQDN instead of name.
removeSameFQDN(r, list) == {q \in list : FQDN(q) # FQDN(r)}

removeRouteFromRouteList(r, list) == {q \in list : q.name # r.name}

\* Other routes share the FQDN: the VirtualService is rebuilt without this one.
ShrinkVirtualService ==
  /\ ServicesDone
  /\ route.deleting
  /\ LET rest == removeRouteFromRouteList(route, routeList)
     IN  /\ rest # {}
         /\ reconcileVirtualServices(rest, "removeFinalizer")
  /\ UNCHANGED <<routeVars, serviceVars, spent>>

(***************************************************************************)
(* The last route of the FQDN: the VirtualService goes too, if the cache   *)
(* has it.  Any other error of that Get is swallowed (line 177) and counts *)
(* as "nothing to delete".                                                 *)
(***************************************************************************)
DeleteVirtualService ==
  /\ ServicesDone
  /\ route.deleting
  /\ removeRouteFromRouteList(route, routeList) = {}
  /\ LET n == VirtualServiceName(FQDN(route))
     IN  \/ /\ vsCache[n] = Absent
            /\ Goto("removeFinalizer")
            /\ UNCHANGED <<vsVars, spent>>
         \/ /\ vsCache[n] # Absent
            /\ Spend("fault")
            /\ Goto("removeFinalizer")
            /\ UNCHANGED vsVars
         \/ /\ vsCache[n] # Absent
            /\ virtualServices[n] # Absent
            /\ PutVirtualService(n, Absent)
            /\ Goto("removeFinalizer")
            /\ UNCHANGED spent
         \/ /\ vsCache[n] # Absent
            /\ virtualServices[n] = Absent
            /\ Fail
            /\ UNCHANGED <<vsVars, spent>>
  /\ UNCHANGED <<routeVars, serviceVars>>

\* The last finalizer of a deleted object: with it the object goes.
RemoveFinalizer ==
  /\ pc = "removeFinalizer"
  /\ UNCHANGED <<serviceVars, vsVars, spent>>
  /\ \/ /\ IsCurrent(route)
        /\ PutRoute(route.name, Absent)
        /\ Goto("finalized")
     \/ /\ ~ IsCurrent(route)
        /\ Fail
        /\ UNCHANGED routeVars

-----------------------------------------------------------------------------
(************************ Returns, faults and timers ***********************)

\* Mutant: success is final, no RequeueAfter.
SucceedForGood ==
  /\ pc = "succeeded"
  /\ Idle
  /\ UNCHANGED <<clusterVars, queue, resync>>

\* Only a positive RequeueAfter arms a timer.
Succeed ==
  /\ pc = "succeeded"
  /\ resync' = IF ResyncInterval > 0 THEN resync \cup {route.name} ELSE resync
  /\ Idle
  /\ UNCHANGED <<clusterVars, queue>>

Finalized ==
  /\ pc = "finalized"
  /\ Idle
  /\ UNCHANGED <<clusterVars, queue, resync>>

\* A call is refused, or it is carried out and its answer is lost.
Abort ==
  /\ pc # "idle"
  /\ Spend("fault")
  /\ Fail
  /\ UNCHANGED <<routeVars, serviceVars, vsVars>>

Resync(k) ==
  /\ k \in resync
  /\ resync' = resync \ {k}
  /\ queue' = queue \cup {k}
  /\ UNCHANGED <<clusterVars, workerVars>>

\* The cache hands out every Route anew from time to time: SyncPeriod is not
\* set, which makes it ten hours.
Redeliver(k) ==
  /\ Spend("sync")
  /\ routeCache[k] # Absent
  /\ queue' = queue \cup {k}
  /\ UNCHANGED <<routeVars, serviceVars, vsVars, resync, workerVars>>

\* A watch event of a Route both updates the cache and queues its name.
DeliverRoute(k) ==
  /\ ReceiveRoute(k)
  /\ queue' = queue \cup {k}
  /\ UNCHANGED <<resync, workerVars>>

\* Mutant: the successor waits for the next event of each route.
CrashWithoutRequeue ==
  /\ Spend("crash")
  /\ Relist
  /\ queue' = {}
  /\ resync' = {}
  /\ Idle

\* The process dies, and its successor starts from a list of everything.
Crash ==
  /\ Spend("crash")
  /\ Relist
  /\ queue' = {k \in RouteNames : routes[k] # Absent}
  /\ resync' = {}
  /\ Idle

-----------------------------------------------------------------------------

Init ==
  /\ ClusterInit
  /\ queue = {}
  /\ resync = {}
  /\ pc = "idle"
  /\ route = Absent
  /\ routeList = {}
  /\ applied = 0
  /\ condemned = {}

\* Nothing but Route events reaches the controller by itself.
Unnoticed == UNCHANGED <<queue, resync, workerVars>>

Environment == ClusterNext /\ Unnoticed

Reconcile ==
  \/ List
  \/ AddFinalizer
  \/ ListServices
  \/ ListServicesToFinalize
  \/ ApplyService
  \/ \E s \in ServiceNames : DeleteService(s)
  \/ ApplyVirtualService
  \/ ShrinkVirtualService
  \/ DeleteVirtualService
  \/ RemoveFinalizer
  \/ Succeed
  \/ Finalized

Next ==
  \/ Environment
  \/ \E k \in RouteNames : Get(k) \/ Resync(k) \/ Redeliver(k) \/ DeliverRoute(k)
  \/ Reconcile
  \/ Abort
  \/ Crash

Spec == Init /\ [][Next]_vars

(***************************************************************************)
(* Fairness of the system, not of its users or of its faults: the worker   *)
(* runs, timers fire, watch events arrive, the garbage collector works.    *)
(* The work queue is first in first out and a failed name is added again   *)
(* at its end, so no name in it is passed over for ever: strong fairness   *)
(* of Get(k).  Redeliver has none: what must come about does so without    *)
(* waiting for it.                                                         *)
(***************************************************************************)
Fairness ==
  /\ WF_vars(Reconcile)
  /\ \A k \in RouteNames : /\ SF_vars(Get(k))
                           /\ WF_vars(Resync(k))
                           /\ WF_vars(DeliverRoute(k))
  /\ \A s \in ServiceNames : /\ WF_vars(CollectService(s) /\ Unnoticed)
                             /\ WF_vars(ReceiveService(s) /\ Unnoticed)
  /\ \A n \in VirtualServiceNames :
       /\ WF_vars(CollectVirtualService(n) /\ Unnoticed)
       /\ WF_vars(ReceiveVirtualService(n) /\ Unnoticed)

FairSpec == Spec /\ Fairness

-----------------------------------------------------------------------------
(******************************** Properties *******************************)

\* The worker holds a route exactly while it is busy.
WorkerTypeOK ==
  /\ queue \in SUBSET RouteNames
  /\ resync \in SUBSET RouteNames
  /\ pc \in Steps
  /\ route \in RouteOrAbsent
  /\ (pc = "idle") <=> (route = Absent)
  /\ routeList \in SUBSET Routes
  /\ applied \in Nat
  /\ condemned \in SUBSET ServiceNames

(***************************************************************************)
(* Every variable keeps its type, and Reconcile never goes on without the  *)
(* Route it got nor keeps it across two reconciliations.                   *)
(***************************************************************************)
TypeOK == ClusterTypeOK /\ WorkerTypeOK

(***************************************************************************)
(* While a Service's owner is in the API, the owner carries the finalizer: *)
(* the controller creates a Service only for a route whose finalizer is    *)
(* already stored (route_controller.go:73-78 before :90), so a user's      *)
(* delete can never make the route vanish ahead of its Services.           *)
(***************************************************************************)
FinalizerGuardsServices ==
  \A s \in ServiceNames :
    services[s] # Absent /\ ~ Dangling(services[s].owner)
      => routes[services[s].owner.name].finalizer

\* Something will bring the worker back to route k.
WillBeReconciled(k) ==
  \/ k \in queue
  \/ k \in resync
  \/ routeEvents[k] # <<>>
  \/ route # Absent /\ route.name = k

(***************************************************************************)
(* No Route in the API is ever forgotten while resync is on: whatever the  *)
(* worker read stale, failed at or returned early from, the route is       *)
(* queued, has a timer or an event under way, or is being worked on.       *)
(***************************************************************************)
NoRouteForgotten ==
  ResyncInterval > 0 =>
    \A k \in RouteNames : routes[k] # Absent => WillBeReconciled(k)

Evicted == spent'["evict"] # spent["evict"]

DeletesServicesOfOwner ==
  \A s \in ServiceNames :
    services[s] # Absent /\ services'[s] = Absent
    /\ ~ Dangling(services[s].owner) /\ ~ Evicted
      => /\ route # Absent
         /\ services[s].owner = routeToOwnerRef(route)
         /\ \/ route.deleting
            \/ \A i \in DOMAIN route.spec.destinations :
                 serviceName(route.spec.destinations[i]) # s

(***************************************************************************)
(* A Service whose owner is in the API is deleted only by its owner's own  *)
(* reconciliation, and then only if the owner is being deleted or, as the  *)
(* worker read it, no longer wants it: deleting by bare name from a stale  *)
(* list (deleteServiceList) never hits another incarnation's Service.      *)
(***************************************************************************)
OnlyOwnersDeleteServices == [][DeletesServicesOfOwner]_vars

DeletesUnusedVirtualServices ==
  \A n \in VirtualServiceNames :
    virtualServices[n] # Absent /\ virtualServices'[n] = Absent /\ ~ Evicted
      => \A ref \in virtualServices[n].owners :
           \/ Dangling(ref)
           \/ route # Absent /\ route.deleting /\ ref = routeToOwnerRef(route)

(***************************************************************************)
(* A VirtualService is deleted only when none of the Routes it lists is    *)
(* left in the API, apart from the one being finalized: the "last route"   *)
(* test of finalizeRouteForDeletion on a list from the cache never takes   *)
(* an FQDN away from a sibling that is being served.                       *)
(***************************************************************************)
VirtualServiceOutlivesItsRoutes == [][DeletesUnusedVirtualServices]_vars

(***************************************************************************)
(* The Services and the VirtualService that the Routes in the API call     *)
(* for, FQDN by FQDN.                                                      *)
(***************************************************************************)
StoredRoutes(n) ==
  {r \in {routes[k] : k \in RouteNames} \ {Absent} : VirtualServiceName(FQDN(r)) = n}

ServicesMatch(n) ==
  \A s \in ServiceNames :
    LET wanted == {b \in UNION {Range(BuildServices(r)) : r \in StoredRoutes(n)} :
                     b.name = s}
    IN  IF wanted # {} THEN \E b \in wanted : services[s] = b.body
        ELSE services[s] # Absent => VirtualServiceName(services[s].fqdn) # n

VirtualServiceMatches(n) ==
  IF StoredRoutes(n) = {} THEN virtualServices[n] = Absent
  ELSE virtualServices[n] = BuildVirtualServices(StoredRoutes(n))[n]

Settled(n) ==
  \/ BuildFails(StoredRoutes(n))
  \/ /\ \A r \in StoredRoutes(n) : ~ r.deleting
     /\ ServicesMatch(n)
     /\ VirtualServiceMatches(n)

(***************************************************************************)
(* Once users and faults stop, every FQDN whose Routes are valid ends up   *)
(* with exactly the Services and the VirtualService its Routes call for,   *)
(* and deleted Routes are gone, for good: whatever was lost, applied out   *)
(* of order or left by a crash on the way is repaired.                     *)
(***************************************************************************)
Convergence == \A n \in VirtualServiceNames : <>[]Settled(n)

\* Every event is delivered and every name taken; only timers are left.
OnlyTimersLeft ==
  /\ pc = "idle"
  /\ queue = {}
  /\ \A k \in RouteNames : routeEvents[k] = <<>>
  /\ \A s \in ServiceNames : serviceEvents[s] = <<>>
  /\ \A n \in VirtualServiceNames : vsEvents[n] = <<>>

(***************************************************************************)
(* What decision record 12 says of a VirtualService owned by many routes:  *)
(* the finalizer is the way by which a Route that goes is taken out of it, *)
(* RequeueAfter is for disasters.  So a controller that waits for its      *)
(* timers only leaves no entry to a Route that is gone.                    *)
(***************************************************************************)
RemovalNeedsNoTimer ==
  OnlyTimersLeft =>
    \A n \in VirtualServiceNames :
      virtualServices[n] # Absent /\ StoredRoutes(n) # {}
        => \A i \in DOMAIN virtualServices[n].http :
             \E r \in StoredRoutes(n) : virtualServices[n].http[i].match = r.spec.path

Deleting(k) == routes[k] # Absent /\ routes[k].deleting

(***************************************************************************)
(* A deleted Route stops being served whatever its siblings are like:      *)
(* finalizeRouteForDeletion removes the Services before it touches the     *)
(* VirtualService, so a build that fails for ever (line 189) cannot keep   *)
(* them, and no stale reconciliation brings them back for good.            *)
(***************************************************************************)
DeletedRoutesLoseServices ==
  \A k \in RouteNames :
    <>[](Deleting(k) => \A s \in ServiceNames :
           services[s] # Absent => services[s].owner # routeToOwnerRef(routes[k]))

(***************************************************************************)
(* What is expected of a deletion when decision record 12 says that Routes *)
(* will fail to be deleted "if there is no routecontroller available to    *)
(* resolve the finalizer": one is available here, and they go away.        *)
(***************************************************************************)
DeletedRoutesGoAway ==
  \A k \in RouteNames : Deleting(k) ~> routes[k] = Absent

-----------------------------------------------------------------------------
(*************************** What it implements ****************************)

\* The stage of route k in its life, as RouteLifecycle knows it.
StageOf(k) ==
  CASE routes[k] = Absent  -> "absent"
    [] OTHER -> IF routes[k].deleting THEN "leaving"
                ELSE IF routes[k].finalizer THEN "guarded" ELSE "open"

ProvidersOf(s) ==
  IF services[s] = Absent \/ Dangling(services[s].owner) THEN {}
  ELSE {services[s].owner.name}

ListedIn(n) ==
  IF virtualServices[n] = Absent THEN {}
  ELSE {ref.name : ref \in {o \in virtualServices[n].owners : ~ Dangling(o)}}

Lifecycle == INSTANCE RouteLifecycle WITH
  stage    <- [k \in RouteNames |-> StageOf(k)],
  existing <- {s \in ServiceNames : services[s] # Absent},
  provided <- [s \in ServiceNames |-> ProvidersOf(s)],
  listed   <- [n \in VirtualServiceNames |-> ListedIn(n)],
  losses   <- spent["evict"]

(***************************************************************************)
(* The controller, with all its caches, retries and crashes, implements    *)
(* RouteLifecycle: a Route goes through its stages in order, a Service is  *)
(* written only for a stored incarnation with a stored finalizer (a worker *)
(* never provides for a Route that has vanished under its hands), and no   *)
(* write based on a stale list drops a Route that is not being deleted     *)
(* from the VirtualService that lists it.                                  *)
(***************************************************************************)
ImplementsLifecycle == Lifecycle!Spec

=============================================================================
