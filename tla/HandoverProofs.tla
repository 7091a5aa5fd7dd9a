--------------------------- MODULE HandoverProofs ----------------------------
(***************************************************************************)
(* TLAPS proofs about Handover, for any set of route names, any specs and  *)
(* any bounds: what RouteControllerProofs shows of one manager is used     *)
(* twice, of the old one as it stands and of the new one through NewP,     *)
(* whose definitions are those of New together with the lemmas on them.    *)
(***************************************************************************)
EXTENDS Handover, RouteControllerProofs

NewP == INSTANCE RouteControllerProofs WITH
  routeEvents <- newRouteEvents, routeCache <- newRouteCache,
  serviceEvents <- newServiceEvents, serviceCache <- newServiceCache,
  vsEvents <- newVsEvents, vsCache <- newVsCache,
  queue <- newQueue, resync <- newResync, pc <- newPc, route <- newRoute,
  routeList <- newRouteList, applied <- newApplied, condemned <- newCondemned

Phases == {"alone", "standby", "overlap", "vacant", "replaced"}

\* Nothing has reached the new manager before it starts.
Unstarted ==
  /\ newRouteEvents = [k \in RouteNames |-> <<>>]
  /\ newServiceEvents = [s \in ServiceNames |-> <<>>]
  /\ DOMAIN newVsEvents = VirtualServiceNames
  /\ DOMAIN newVsCache = VirtualServiceNames

\* Without the lease no controller runs.
NotLeading ==
  /\ newQueue = {} /\ newResync = {}
  /\ newPc = "idle" /\ newRoute = Absent /\ newRouteList = {}
  /\ newApplied = 0 /\ newCondemned = {}

(***************************************************************************)
(* Each manager that is up is as its own specification would have it,      *)
(* whatever the other writes; only who leads must remember every Route.    *)
(***************************************************************************)
HandoverInv ==
  /\ phase \in Phases
  /\ OldUp => IInv
  /\ ~ NewUp => Unstarted
  /\ NewUp => NewP!Consistent
  /\ ~ NewLeads => NotLeading
  /\ NewLeads /\ ResyncInterval > 0 => NewP!Remembered

-----------------------------------------------------------------------------
(*************************** One set of definitions ************************)

\* The new manager's copy shares the constants, so their assumptions hold of it.
LEMMA NewAssumptions ==
  /\ NewP!NoWeightAssumption
  /\ NewP!GatewayAssumption
  /\ NewP!ClusterAssumption
  /\ NewP!DestinationAssumption
  /\ NewP!ResyncAssumption
BY NoWeightAssumption, GatewayAssumption, ClusterAssumption, DestinationAssumption,
   ResyncAssumption
   DEF NewP!MeshInternalGateway, MeshInternalGateway, NewP!Specs, Specs,
       NewP!Events, Events, NewP!ServiceNamesOf, ServiceNamesOf,
       NewP!serviceName, serviceName

LEMMA SameNames ==
  /\ New!ServiceNames = ServiceNames /\ NewP!ServiceNames = ServiceNames
  /\ New!VirtualServiceNames = VirtualServiceNames
  /\ NewP!VirtualServiceNames = VirtualServiceNames
BY DEF New!ServiceNames, NewP!ServiceNames, ServiceNames,
       New!ServiceNamesOf, NewP!ServiceNamesOf, ServiceNamesOf,
       New!serviceName, NewP!serviceName, serviceName,
       New!VirtualServiceNames, NewP!VirtualServiceNames, VirtualServiceNames,
       New!VirtualServiceName, NewP!VirtualServiceName, VirtualServiceName,
       New!HostName, NewP!HostName, HostName, New!Specs, NewP!Specs, Specs

LEMMA SameObjects ==
  /\ New!Absent = Absent /\ NewP!Absent = Absent
  /\ NewP!RouteOrAbsent = RouteOrAbsent
  /\ NewP!ServiceOrAbsent = ServiceOrAbsent
  /\ NewP!Events = Events
  /\ NewP!Routes = Routes
BY DEF New!Absent, NewP!Absent, Absent, NewP!RouteOrAbsent, RouteOrAbsent,
       NewP!Routes, Routes, NewP!Specs, Specs, NewP!ServiceOrAbsent, ServiceOrAbsent,
       NewP!Services, Services, NewP!OwnerRefs, OwnerRefs, NewP!HostName, HostName,
       NewP!Apps, Apps, NewP!Events, Events

\* Both copies build the same VirtualServices.
LEMMA SameBuild ==
  ASSUME NEW list
  PROVE  /\ New!BuildFails(list) = NewP!BuildFails(list)
         /\ New!BuildVirtualServices(list) = NewP!BuildVirtualServices(list)
<1> USE DEF New!groupByFQDN, NewP!groupByFQDN, New!FQDN, NewP!FQDN,
            New!IstioExpectedWeight, NewP!IstioExpectedWeight
<1>1. New!BuildFails(list) = NewP!BuildFails(list)
  BY DEF New!BuildFails, NewP!BuildFails, New!ValidForFQDN, NewP!ValidForFQDN,
         New!validateRoutesForFQDN, NewP!validateRoutesForFQDN,
         New!validateWeights, NewP!validateWeights,
         New!SumOfWeights, NewP!SumOfWeights, New!Total, NewP!Total
<1>2. New!BuildVirtualServices(list) = NewP!BuildVirtualServices(list)
  BY DEF New!BuildVirtualServices, NewP!BuildVirtualServices,
         New!VirtualServiceName, NewP!VirtualServiceName,
         New!fqdnToVirtualService, NewP!fqdnToVirtualService,
         New!ServedRoutes, NewP!ServedRoutes, New!sortRoutes, NewP!sortRoutes,
         New!StringGreater, NewP!StringGreater, New!SetToSeqs, NewP!SetToSeqs,
         New!Cardinality, NewP!Cardinality, New!IsFiniteSet, NewP!IsFiniteSet,
         New!routeToOwnerRef, NewP!routeToOwnerRef,
         New!MeshInternalGateway, NewP!MeshInternalGateway,
         New!HttpRoute, NewP!HttpRoute,
         New!destinationsToHttpRouteDestinations,
         NewP!destinationsToHttpRouteDestinations,
         New!httpRouteDestinationPlaceholder, NewP!httpRouteDestinationPlaceholder,
         New!Placeholder, NewP!Placeholder, New!serviceName, NewP!serviceName,
         New!InferredWeight, NewP!InferredWeight
<1> QED BY <1>1, <1>2

\* A step of New's environment is one of NewP's.
LEMMA NewEnvironment ==
  ASSUME New!Environment
  PROVE  NewP!Environment
BY DEF New!Environment, NewP!Environment, New!Unnoticed, NewP!Unnoticed,
       New!workerVars, NewP!workerVars, New!ClusterNext, NewP!ClusterNext,
       New!routeVars, NewP!routeVars, New!serviceVars, NewP!serviceVars,
       New!vsVars, NewP!vsVars, New!Absent, NewP!Absent,
       New!ServiceNames, NewP!ServiceNames, New!ServiceNamesOf, NewP!ServiceNamesOf,
       New!serviceName, NewP!serviceName, New!VirtualServiceNames,
       NewP!VirtualServiceNames, New!VirtualServiceName, NewP!VirtualServiceName,
       New!HostName, NewP!HostName, New!Specs, NewP!Specs, New!FQDN, NewP!FQDN,
       New!Spend, NewP!Spend, New!Events, NewP!Events,
       New!PutRoute, NewP!PutRoute, New!Stamped, NewP!Stamped,
       New!NewRoute, NewP!NewRoute, New!CreateRoute, NewP!CreateRoute,
       New!UpdateRoute, NewP!UpdateRoute, New!DeleteRoute, NewP!DeleteRoute,
       New!Dangling, NewP!Dangling, New!PutService, NewP!PutService,
       New!EvictService, NewP!EvictService, New!CollectService, NewP!CollectService,
       New!ReceiveService, NewP!ReceiveService,
       New!PutVirtualService, NewP!PutVirtualService,
       New!EvictVirtualService, NewP!EvictVirtualService,
       New!CollectVirtualService, NewP!CollectVirtualService,
       New!ReceiveVirtualService, NewP!ReceiveVirtualService

\* A step of New's worker, timers or Route events is one of NewP's.
LEMMA NewStep ==
  ASSUME \/ \E k \in RouteNames :
              New!Get(k) \/ New!Resync(k) \/ New!Redeliver(k) \/ New!DeliverRoute(k)
         \/ New!Reconcile \/ New!Abort \/ New!Crash
  PROVE  NewP!Next
<1> USE DEF New!clusterVars, NewP!clusterVars, New!routeVars, NewP!routeVars,
            New!serviceVars, NewP!serviceVars, New!vsVars, NewP!vsVars,
            New!workerVars, NewP!workerVars, New!Absent, NewP!Absent,
            New!Fail, NewP!Fail, New!Idle, NewP!Idle, New!Goto, NewP!Goto
<1>1. ASSUME NEW k \in RouteNames, New!Get(k)
      PROVE  NewP!Get(k)
  BY <1>1 DEF New!Get, NewP!Get
<1>2. ASSUME NEW k \in RouteNames, New!Resync(k)
      PROVE  NewP!Resync(k)
  BY <1>2 DEF New!Resync, NewP!Resync
<1>3. ASSUME NEW k \in RouteNames, New!DeliverRoute(k)
      PROVE  NewP!DeliverRoute(k)
  BY <1>3 DEF New!DeliverRoute, NewP!DeliverRoute, New!ReceiveRoute, NewP!ReceiveRoute
<1>4. ASSUME New!List
      PROVE  NewP!List
  BY <1>4 DEF New!List, NewP!List, New!AfterList, NewP!AfterList, New!FQDN, NewP!FQDN
<1>5. ASSUME New!AddFinalizer
      PROVE  NewP!AddFinalizer
  BY <1>5 DEF New!AddFinalizer, NewP!AddFinalizer, New!IsCurrent, NewP!IsCurrent,
              New!PutRoute, NewP!PutRoute, New!Stamped, NewP!Stamped
<1>6. ASSUME New!ListServices
      PROVE  NewP!ListServices
  BY <1>6 DEF New!ListServices, NewP!ListServices, New!BuildServices,
              NewP!BuildServices, New!FQDN, NewP!FQDN, New!routeToOwnerRef,
              NewP!routeToOwnerRef, New!serviceName, NewP!serviceName,
              New!OwnedServices, NewP!OwnedServices, New!ServiceNames,
              NewP!ServiceNames, New!ServiceNamesOf, NewP!ServiceNamesOf,
              New!findServicesForDeletion, NewP!findServicesForDeletion
<1>7. ASSUME New!ListServicesToFinalize
      PROVE  NewP!ListServicesToFinalize
  BY <1>7 DEF New!ListServicesToFinalize, NewP!ListServicesToFinalize,
              New!OwnedServices, NewP!OwnedServices, New!routeToOwnerRef,
              NewP!routeToOwnerRef, New!ServiceNames, NewP!ServiceNames,
              New!ServiceNamesOf, NewP!ServiceNamesOf, New!serviceName,
              NewP!serviceName
<1>8. ASSUME New!ApplyService
      PROVE  NewP!ApplyService
  BY <1>8 DEF New!ApplyService, NewP!ApplyService, New!Accepted, NewP!Accepted,
              New!PutService, NewP!PutService, New!BuildServices, NewP!BuildServices,
              New!FQDN, NewP!FQDN, New!routeToOwnerRef, NewP!routeToOwnerRef,
              New!serviceName, NewP!serviceName,
              New!ServicesPending, NewP!ServicesPending
<1>9. ASSUME NEW s \in ServiceNames, New!DeleteService(s)
      PROVE  NewP!DeleteService(s)
  BY <1>9 DEF New!DeleteService, NewP!DeleteService, New!PutService, NewP!PutService,
              New!ServicesPending, NewP!ServicesPending
<1>10. ASSUME New!ApplyVirtualService
       PROVE  NewP!ApplyVirtualService
  BY <1>10, SameBuild
     DEF New!ApplyVirtualService, NewP!ApplyVirtualService,
         New!reconcileVirtualServices, NewP!reconcileVirtualServices,
         New!Accepted, NewP!Accepted, New!PutVirtualService, NewP!PutVirtualService,
         New!ServicesDone, NewP!ServicesDone, New!ServicesPending, NewP!ServicesPending
<1>11. ASSUME New!ShrinkVirtualService
       PROVE  NewP!ShrinkVirtualService
  BY <1>11, SameBuild
     DEF New!ShrinkVirtualService, NewP!ShrinkVirtualService,
         New!reconcileVirtualServices, NewP!reconcileVirtualServices,
         New!Accepted, NewP!Accepted, New!PutVirtualService, NewP!PutVirtualService,
         New!removeRouteFromRouteList, NewP!removeRouteFromRouteList,
         New!ServicesDone, NewP!ServicesDone, New!ServicesPending, NewP!ServicesPending
<1>12. ASSUME New!DeleteVirtualService
       PROVE  NewP!DeleteVirtualService
  BY <1>12
     DEF New!DeleteVirtualService, NewP!DeleteVirtualService,
         New!PutVirtualService, NewP!PutVirtualService,
         New!Spend, NewP!Spend, New!Events, NewP!Events,
         New!FQDN, NewP!FQDN, New!VirtualServiceName, NewP!VirtualServiceName,
         New!removeRouteFromRouteList, NewP!removeRouteFromRouteList,
         New!ServicesDone, NewP!ServicesDone, New!ServicesPending, NewP!ServicesPending
<1>13. ASSUME New!RemoveFinalizer
       PROVE  NewP!RemoveFinalizer
  BY <1>13 DEF New!RemoveFinalizer, NewP!RemoveFinalizer, New!IsCurrent,
               NewP!IsCurrent, New!PutRoute, NewP!PutRoute
<1>14. ASSUME New!Succeed
       PROVE  NewP!Succeed
  BY <1>14 DEF New!Succeed, NewP!Succeed
<1>15. ASSUME New!Finalized
       PROVE  NewP!Finalized
  BY <1>15 DEF New!Finalized, NewP!Finalized
<1>16. ASSUME New!Reconcile
       PROVE  NewP!Reconcile
  BY ONLY <1>4, <1>5, <1>6, <1>7, <1>8, <1>9, <1>10, <1>11, <1>12, <1>13, <1>14, <1>15,
     <1>16, SameNames DEF New!Reconcile, NewP!Reconcile
<1>17. ASSUME NEW k \in RouteNames, New!Redeliver(k)
       PROVE  NewP!Redeliver(k)
  BY <1>17 DEF New!Redeliver, NewP!Redeliver, New!Spend, NewP!Spend, New!Events, NewP!Events
<1>18. ASSUME New!Abort
       PROVE  NewP!Abort
  BY <1>18 DEF New!Abort, NewP!Abort, New!Spend, NewP!Spend, New!Events, NewP!Events
<1>19. ASSUME New!Crash
       PROVE  NewP!Crash
  BY <1>19, SameNames
     DEF New!Crash, NewP!Crash, New!Spend, NewP!Spend, New!Events, NewP!Events,
         New!Relist, NewP!Relist
<1> QED BY ONLY <1>1, <1>2, <1>3, <1>16, <1>17, <1>18, <1>19,
            \/ \E k \in RouteNames :
                 New!Get(k) \/ New!Resync(k) \/ New!Redeliver(k) \/ New!DeliverRoute(k)
            \/ New!Reconcile \/ New!Abort \/ New!Crash
        DEF NewP!Next

-----------------------------------------------------------------------------
(************************* Each observes the other *************************)

\* What the two managers share is typed alike in both copies.
SharedTypeOK ==
  /\ routes \in [RouteNames -> RouteOrAbsent]
  /\ services \in [ServiceNames -> ServiceOrAbsent]
  /\ DOMAIN virtualServices = VirtualServiceNames
  /\ revision \in [RouteNames -> Nat]
  /\ spent \in [Events -> Nat]

\* What a watch sends has the type of what is stored.
LEMMA WatchType ==
  ASSUME NEW D, NEW V, NEW stored \in [D -> V], NEW stored1 \in [D -> V],
         NEW events \in [D -> Seq(V)]
  PROVE  [x \in D |-> IF stored1[x] = stored[x] THEN events[x]
                      ELSE Append(events[x], stored1[x])] \in [D -> Seq(V)]
OBVIOUS

\* The old manager stays as it should be while another writes.
LEMMA OldObserves ==
  ASSUME IInv, OldUp, OldWatches, UNCHANGED oldMemory, RouteWrite,
         SharedTypeOK', OwnersSound'
  PROVE  IInv'
<1>1. Watch(routes, routeEvents) /\ Watch(services, serviceEvents)
      /\ Watch(virtualServices, vsEvents)
  BY DEF OldWatches
<1>2. /\ routes \in [RouteNames -> RouteOrAbsent]
      /\ routeEvents \in [RouteNames -> Seq(RouteOrAbsent)]
      /\ services \in [ServiceNames -> ServiceOrAbsent]
      /\ serviceEvents \in [ServiceNames -> Seq(ServiceOrAbsent)]
      /\ DOMAIN virtualServices = VirtualServiceNames
  BY DEF IInv, TypeOK, ClusterTypeOK
<1>3. Observes
  BY <1>1, <1>2 DEF Watch, Observes
<1>4. routeEvents' \in [RouteNames -> Seq(RouteOrAbsent)]
  BY <1>2, <1>3, WatchType DEF Observes, SharedTypeOK
<1>5. serviceEvents' \in [ServiceNames -> Seq(ServiceOrAbsent)]
  <2>1. serviceEvents' = [s \in ServiceNames |->
          IF services'[s] = services[s] THEN serviceEvents[s]
          ELSE Append(serviceEvents[s], services'[s])]
    BY <1>1, <1>2 DEF Watch
  <2> QED BY <1>2, <2>1, WatchType DEF SharedTypeOK
<1>6. DOMAIN vsEvents' = VirtualServiceNames
  BY <1>1, <1>2 DEF Watch
<1>7. UNCHANGED <<routeCache, serviceCache, vsCache, queue, resync, workerVars>>
  BY DEF oldMemory
<1>8. ClusterTypeOK'
  BY <1>4, <1>5, <1>6, <1>7 DEF SharedTypeOK, IInv, TypeOK, ClusterTypeOK
<1>9. Consistent' /\ (Remembered => Remembered')
  BY <1>3, <1>7, <1>8, ObserverSound DEF IInv, Consistent
<1> QED BY <1>9 DEF IInv, Consistent

\* And so does the new one, whether it leads or not.
LEMMA NewObserves ==
  ASSUME NewP!Consistent, NewUp, NewWatches, UNCHANGED newMemory, RouteWrite,
         SharedTypeOK', OwnersSound'
  PROVE  NewP!Consistent' /\ (NewP!Remembered => NewP!Remembered')
<1>1. Watch(routes, newRouteEvents) /\ Watch(services, newServiceEvents)
  BY DEF NewWatches
<1>2. /\ routes \in [RouteNames -> RouteOrAbsent]
      /\ newRouteEvents \in [RouteNames -> Seq(RouteOrAbsent)]
      /\ services \in [ServiceNames -> ServiceOrAbsent]
      /\ newServiceEvents \in [ServiceNames -> Seq(ServiceOrAbsent)]
      /\ DOMAIN virtualServices = VirtualServiceNames
      /\ DOMAIN newVsEvents = VirtualServiceNames
  BY SameNames, SameObjects DEF NewP!Consistent, NewP!TypeOK, NewP!ClusterTypeOK
<1>3. NewP!Observes
  BY <1>1, <1>2 DEF Watch, NewP!Observes
<1>4. newRouteEvents' \in [RouteNames -> Seq(RouteOrAbsent)]
  BY <1>2, <1>3, WatchType DEF NewP!Observes, SharedTypeOK
<1>5. newServiceEvents' \in [ServiceNames -> Seq(ServiceOrAbsent)]
  <2>1. newServiceEvents' = [s \in ServiceNames |->
          IF services'[s] = services[s] THEN newServiceEvents[s]
          ELSE Append(newServiceEvents[s], services'[s])]
    BY <1>1, <1>2 DEF Watch
  <2> QED BY <1>2, <2>1, WatchType DEF SharedTypeOK
<1>6. DOMAIN newVsEvents' = VirtualServiceNames
  BY <1>2 DEF NewWatches, Watch
<1>7. /\ UNCHANGED <<newRouteCache, newServiceCache, newVsCache>>
      /\ UNCHANGED <<newRouteCache, newQueue, newResync, NewP!workerVars>>
  BY DEF newMemory, NewP!workerVars
<1>8. NewP!ClusterTypeOK'
  BY <1>4, <1>5, <1>6, <1>7, SameNames, SameObjects
     DEF SharedTypeOK, NewP!Consistent, NewP!TypeOK, NewP!ClusterTypeOK
<1>9. NewP!RouteWrite
  BY SameObjects DEF RouteWrite, NewP!RouteWrite, Admissible, NewP!Admissible
<1>10. NewP!OwnersSound'
  BY SameNames, SameObjects
     DEF NewP!OwnersSound, OwnersSound, NewP!OwnerSound, OwnerSound
<1> QED BY <1>3, <1>7, <1>8, <1>9, <1>10, NewP!ObserverSound, NewAssumptions

-----------------------------------------------------------------------------
(***************************** The invariant *******************************)

\* A step of the old manager, or of the environment while it is up.
LEMMA OldActs ==
  ASSUME HandoverInv, OldUp, Next, NewWatches, UNCHANGED <<phase, newMemory>>
  PROVE  HandoverInv'
<1>1. IInv /\ IInv' /\ RouteWrite
  BY InvariantStep, StepIsRouteWrite DEF HandoverInv
<1>2. SharedTypeOK' /\ OwnersSound'
  BY <1>1 DEF IInv, TypeOK, ClusterTypeOK, SharedTypeOK
<1>3. phase \in Phases /\ phase' = phase
  BY DEF HandoverInv
<1>4. ~ NewUp => Unstarted'
  BY DEF HandoverInv, Unstarted, NewWatches, NewUp, NewLeads, newMemory
<1>5. NewUp => NewP!Consistent' /\ (NewP!Remembered => NewP!Remembered')
  BY <1>1, <1>2, NewObserves DEF HandoverInv
<1>6. ~ NewLeads => NotLeading'
  BY DEF HandoverInv, NotLeading, newMemory
<1>7. NewLeads => NewUp
  BY DEF NewLeads, NewUp
<1>8. (NewUp' <=> NewUp) /\ (NewLeads' <=> NewLeads)
  BY <1>3 DEF NewUp, NewLeads
<1> QED BY <1>1, <1>3, <1>4, <1>5, <1>6, <1>7, <1>8 DEF HandoverInv

\* A step of the new manager as the leader.
LEMMA NewActs ==
  ASSUME HandoverInv, NewLeads, NewP!Next, OldWatches, UNCHANGED <<phase, oldMemory>>
  PROVE  HandoverInv'
<1>1. NewUp
  BY DEF NewLeads, NewUp
<1>2. NewP!IInv
  BY <1>1 DEF HandoverInv, NewP!IInv, NewP!Consistent
<1>3. NewP!IInv' /\ NewP!RouteWrite
  <2>1. [NewP!Next]_(NewP!vars)
    OBVIOUS
  <2> QED BY <1>2, <2>1, NewAssumptions, NewP!InvariantStep, NewP!StepIsRouteWrite
<1>4. RouteWrite
  BY <1>3, SameObjects DEF RouteWrite, NewP!RouteWrite, Admissible, NewP!Admissible
<1>5. SharedTypeOK'
  BY <1>3, SameNames, SameObjects
     DEF NewP!IInv, NewP!TypeOK, NewP!ClusterTypeOK, SharedTypeOK
<1>6. OwnersSound'
  BY <1>3, SameNames, SameObjects
     DEF NewP!IInv, NewP!OwnersSound, OwnersSound, NewP!OwnerSound, OwnerSound
<1>7. OldUp => IInv'
  BY <1>4, <1>5, <1>6, OldObserves DEF HandoverInv
<1>8. NewP!Consistent' /\ (ResyncInterval > 0 => NewP!Remembered')
  BY <1>3 DEF NewP!IInv, NewP!Consistent
<1>9. phase \in Phases /\ phase' = phase
  BY DEF HandoverInv
<1>10. OldUp' <=> OldUp
  BY <1>9 DEF OldUp
<1>11. NewUp' /\ NewLeads'
  BY <1>1, <1>9 DEF NewUp, NewLeads
<1> QED BY <1>7, <1>8, <1>9, <1>10, <1>11 DEF HandoverInv

(***************************************************************************)
(* A step of the environment as the new manager's copy has it: anything,   *)
(* once the old manager is gone, and until then deliveries to the new one. *)
(***************************************************************************)
LEMMA NewEnvironmentActs ==
  ASSUME HandoverInv, NewUp, NewP!Environment, OldWatches,
         UNCHANGED <<phase, oldMemory>>,
         ~ OldUp \/ UNCHANGED <<routes, revision, services, virtualServices>>
  PROVE  HandoverInv'
<1>1. NewP!Consistent
  BY DEF HandoverInv
<1>2. NewP!TypeOK'
  <2>1. NewP!TypeOK /\ [NewP!Next]_(NewP!vars)
    BY <1>1 DEF NewP!Consistent, NewP!Next
  <2> QED BY <2>1, NewAssumptions, NewP!TypeStep
<1>3. NewP!Consistent' /\ (NewP!Remembered => NewP!Remembered')
  BY <1>1, <1>2, NewAssumptions, NewP!EnvironmentSound
<1>4. OldUp => IInv'
  <2> SUFFICES ASSUME OldUp PROVE IInv'
    OBVIOUS
  <2>1. RouteWrite
    BY DEF RouteWrite
  <2>2. SharedTypeOK'
    BY <1>2, SameNames, SameObjects DEF NewP!TypeOK, NewP!ClusterTypeOK, SharedTypeOK
  <2>3. OwnersSound'
    BY DEF HandoverInv, IInv, OwnersSound
  <2> QED BY <2>1, <2>2, <2>3, OldObserves DEF HandoverInv
<1>5. ~ NewLeads => NotLeading'
  BY DEF HandoverInv, NotLeading, NewP!Environment, NewP!Unnoticed, NewP!workerVars
<1>6. phase \in Phases /\ phase' = phase
  BY DEF HandoverInv
<1>7. (OldUp' <=> OldUp) /\ (NewUp' <=> NewUp) /\ (NewLeads' <=> NewLeads)
  BY <1>6 DEF OldUp, NewUp, NewLeads
<1> QED BY <1>3, <1>4, <1>5, <1>6, <1>7 DEF HandoverInv

\* The new manager starts from what is stored.
LEMMA StartNewSound ==
  ASSUME HandoverInv, StartNew
  PROVE  HandoverInv'
<1>1. /\ IInv /\ Unstarted /\ NotLeading
      /\ OldUp' /\ NewUp' /\ ~ NewLeads' /\ phase' \in Phases
  BY DEF HandoverInv, StartNew, OldUp, NewUp, NewLeads, Phases
<1>2. UNCHANGED vars
  BY DEF StartNew, apiVars, oldMemory, oldStreams, vars, clusterVars, routeVars,
         serviceVars, vsVars
<1>3. IInv'
  BY <1>1, <1>2, InvariantStep
<1>4. /\ UNCHANGED <<routes, services, virtualServices, revision, spent>>
      /\ UNCHANGED <<newRouteEvents, newServiceEvents, newVsEvents, newVsCache>>
      /\ UNCHANGED <<newQueue, newResync, newPc, newRoute, newRouteList, newApplied,
                     newCondemned>>
      /\ newRouteCache' = routes
      /\ newServiceCache' = services
  BY DEF StartNew, apiVars, newStreams
<1>5. NotLeading'
  BY <1>1, <1>4 DEF NotLeading
<1>6. NewP!TypeOK'
  <2>1. newRouteEvents' \in [RouteNames -> Seq(RouteOrAbsent)]
        /\ newServiceEvents' \in [ServiceNames -> Seq(ServiceOrAbsent)]
    BY <1>1, <1>4 DEF Unstarted
  <2>2. NewP!ClusterTypeOK'
    BY <1>1, <1>4, <2>1, SameNames, SameObjects
       DEF NewP!ClusterTypeOK, IInv, TypeOK, ClusterTypeOK, Unstarted
  <2>3. NewP!WorkerTypeOK'
    BY <1>5, SameNames, SameObjects
       DEF NewP!WorkerTypeOK, NewP!Steps, NotLeading, RouteOrAbsent
  <2> QED BY <2>2, <2>3 DEF NewP!TypeOK
<1>7. \A k \in RouteNames : newRouteEvents'[k] = <<>> /\ Len(newRouteEvents'[k]) = 0
  BY <1>1, <1>4 DEF Unstarted
<1>8. NewP!CopiesSound'
  BY <1>1, <1>4, <1>7, SameObjects
     DEF IInv, CopiesSound, NewP!CopiesSound, Sound, NewP!Sound
<1>9. NewP!OwnersSound'
  BY <1>3, SameNames, SameObjects
     DEF IInv, NewP!OwnersSound, OwnersSound, NewP!OwnerSound, OwnerSound
<1>10. NewP!WatchCoherent'
  BY <1>4, <1>7 DEF NewP!WatchCoherent
<1>11. NewP!HeldSound' /\ NewP!FinalizedIsGone'
  BY <1>5, SameObjects DEF NotLeading, NewP!HeldSound, NewP!FinalizedIsGone
<1>12. NewP!Consistent'
  BY <1>6, <1>8, <1>9, <1>10, <1>11 DEF NewP!Consistent
<1> QED BY <1>1, <1>3, <1>5, <1>12 DEF HandoverInv

\* A standby's cache takes an event, and nothing is queued for it.
LEMMA StandbySound ==
  ASSUME HandoverInv, NEW k \in RouteNames, StandbyReceives(k)
  PROVE  HandoverInv'
<1>1. /\ NewP!Consistent /\ NotLeading /\ phase' = phase /\ phase \in Phases
      /\ NewUp' /\ ~ NewLeads'
  BY DEF HandoverInv, StandbyReceives, NewUp, NewLeads
<1>2. OldUp' <=> OldUp
  BY <1>1 DEF OldUp
<1>3. NewP!ReceiveRoute(k)
  BY DEF StandbyReceives, New!ReceiveRoute, NewP!ReceiveRoute, New!serviceVars,
         NewP!serviceVars, New!vsVars, NewP!vsVars
<1>4. UNCHANGED vars
  BY DEF StandbyReceives, New!ReceiveRoute, New!serviceVars, New!vsVars, oldMemory,
         oldStreams, vars, clusterVars, routeVars, serviceVars, vsVars
<1>5. OldUp => IInv'
  BY <1>4, InvariantStep DEF HandoverInv
<1>6. /\ UNCHANGED NewP!workerVars
      /\ UNCHANGED <<newQueue, newResync, newPc, newRoute, newRouteList, newApplied,
                     newCondemned>>
  BY DEF StandbyReceives, NewP!workerVars
<1>7. NotLeading'
  BY <1>1, <1>6 DEF NotLeading
<1>8. NewP!CopiesSound' /\ NewP!WatchCoherent' /\ NewP!OwnersSound' /\ NewP!HeldSound'
  BY <1>1, <1>3, <1>6, NewAssumptions, NewP!ReceiveSound
<1>9. NewP!FinalizedIsGone'
  BY <1>7 DEF NotLeading, NewP!FinalizedIsGone
<1>10. NewP!TypeOK'
  BY <1>1, <1>3, <1>6
     DEF NewP!ReceiveRoute, NewP!serviceVars, NewP!vsVars, NewP!Consistent,
         NewP!TypeOK, NewP!ClusterTypeOK, NewP!WorkerTypeOK
<1>11. NewP!Consistent'
  BY <1>8, <1>9, <1>10 DEF NewP!Consistent
<1> QED BY <1>1, <1>2, <1>5, <1>7, <1>11 DEF HandoverInv

(***************************************************************************)
(* Whoever takes over remembers every Route: one that is stored is in the  *)
(* cache, and so queued, or has an event under way (WatchCoherent).        *)
(***************************************************************************)
LEMMA TakeOverSound ==
  ASSUME HandoverInv, TakeOver
  PROVE  HandoverInv'
<1>1. /\ NewP!Consistent /\ NotLeading /\ phase' \in Phases
      /\ NewUp' /\ NewLeads' /\ (OldUp' <=> OldUp)
  BY DEF HandoverInv, TakeOver, NewUp, NewLeads, OldUp, Phases
<1>2. UNCHANGED vars
  BY DEF TakeOver, apiVars, oldMemory, oldStreams, vars, clusterVars, routeVars,
         serviceVars, vsVars
<1>3. OldUp => IInv'
  BY <1>2, InvariantStep DEF HandoverInv
<1>4. /\ UNCHANGED <<routes, services, virtualServices, revision, spent>>
      /\ UNCHANGED <<newRouteEvents, newServiceEvents, newRouteCache, newServiceCache>>
      /\ UNCHANGED <<newResync, newPc, newRoute, newRouteList, newApplied, newCondemned>>
      /\ newQueue' = {k \in RouteNames : newRouteCache[k] # Absent}
      /\ newVsCache' = virtualServices
      /\ DOMAIN newVsEvents' = VirtualServiceNames
  BY DEF TakeOver, apiVars
<1>5. NewP!TypeOK'
  BY <1>1, <1>4, SameNames
     DEF NewP!Consistent, NewP!TypeOK, NewP!ClusterTypeOK, NewP!WorkerTypeOK
<1>6. NewP!CopiesSound' /\ NewP!OwnersSound' /\ NewP!WatchCoherent'
  BY <1>1, <1>4
     DEF NewP!Consistent, NewP!CopiesSound, NewP!OwnersSound, NewP!WatchCoherent
<1>7. NewP!HeldSound' /\ NewP!FinalizedIsGone'
  BY <1>1, <1>4, SameObjects DEF NotLeading, NewP!HeldSound, NewP!FinalizedIsGone
<1>8. NewP!Remembered'
  BY <1>1, <1>4, SameObjects
     DEF NewP!Consistent, NewP!WatchCoherent, NewP!Remembered, NewP!WillBeReconciled
<1>9. NewP!Consistent'
  BY <1>5, <1>6, <1>7 DEF NewP!Consistent
<1> QED BY <1>1, <1>3, <1>8, <1>9 DEF HandoverInv

\* The old manager is gone, and nothing the new one relies on with it.
LEMMA NewUndisturbed ==
  ASSUME HandoverInv, UNCHANGED <<apiVars, newMemory, newStreams>>
  PROVE  /\ NewUp => NewP!Consistent'
         /\ ~ NewLeads => NotLeading'
         /\ NewLeads /\ ResyncInterval > 0 => NewP!Remembered'
<1>1. UNCHANGED NewP!vars
  BY DEF apiVars, newMemory, newStreams, NewP!vars, NewP!clusterVars, NewP!routeVars,
         NewP!serviceVars, NewP!vsVars, NewP!workerVars
<1>2. NewP!Consistent => NewP!Consistent' /\ (NewP!Remembered => NewP!Remembered')
  BY <1>1, NewAssumptions, NewP!ConsistentStutter
<1>3. ~ NewLeads => NotLeading'
  BY DEF HandoverInv, NotLeading, newMemory
<1>4. NewLeads => NewUp
  BY DEF NewLeads, NewUp
<1> QED BY <1>2, <1>3, <1>4 DEF HandoverInv

LEMMA OldExitsSound ==
  ASSUME HandoverInv, OldExits
  PROVE  HandoverInv'
<1>1. /\ ~ OldUp' /\ NewUp /\ NewUp' /\ (NewLeads' <=> NewLeads) /\ phase' \in Phases
  BY DEF OldExits, OldUp, NewUp, NewLeads, Phases
<1>2. UNCHANGED <<apiVars, newMemory, newStreams>>
  BY DEF OldExits
<1> QED BY <1>1, <1>2, NewUndisturbed DEF HandoverInv

LEMMA HandoverStutter ==
  ASSUME HandoverInv, UNCHANGED handoverVars
  PROVE  HandoverInv'
<1>1. phase' = phase /\ phase \in Phases
  BY DEF HandoverInv, handoverVars
<1>2. UNCHANGED vars
  BY DEF handoverVars, apiVars, oldMemory, oldStreams, vars, clusterVars, routeVars,
         serviceVars, vsVars
<1>3. OldUp => IInv'
  BY <1>2, InvariantStep DEF HandoverInv
<1>4. UNCHANGED <<apiVars, newMemory, newStreams>>
  BY DEF handoverVars
<1>5. ~ NewUp => Unstarted'
  BY <1>4 DEF HandoverInv, Unstarted, newMemory, newStreams
<1>6. (OldUp' <=> OldUp) /\ (NewUp' <=> NewUp) /\ (NewLeads' <=> NewLeads)
  BY <1>1 DEF OldUp, NewUp, NewLeads
<1> QED BY <1>1, <1>3, <1>4, <1>5, <1>6, NewUndisturbed DEF HandoverInv

LEMMA HandoverInitSound == HandoverInit => HandoverInv
<1> SUFFICES ASSUME HandoverInit PROVE HandoverInv
  OBVIOUS
<1>1. IInv /\ phase = "alone"
  BY InvariantInit DEF HandoverInit
<1>2. Unstarted /\ NotLeading
  BY SameNames, SameObjects
     DEF HandoverInit, New!Init, New!ClusterInit, Unstarted, NotLeading
<1> QED BY <1>1, <1>2 DEF HandoverInv, Phases, OldUp, NewUp, NewLeads

LEMMA HandoverStep ==
  ASSUME HandoverInv, [HandoverNext]_handoverVars
  PROVE  HandoverInv'
<1>1. CASE OldDoes(Environment)
  BY <1>1, OldActs DEF OldDoes, Next
<1>2. CASE ~ OldUp /\ NewDoes(New!Environment)
  <2>1. NewUp
    BY <1>2 DEF HandoverInv, Phases, OldUp, NewUp
  <2> QED BY <1>2, <2>1, NewEnvironment, NewEnvironmentActs DEF NewDoes
<1>3. CASE OldUp /\ NewUp /\ NewDoes(New!Unnoticed /\
             \/ \E s \in ServiceNames : New!ReceiveService(s)
             \/ \E n \in VirtualServiceNames : New!ReceiveVirtualService(n))
  <2>1. /\ New!Unnoticed
        /\ \/ \E s \in ServiceNames : New!ReceiveService(s)
           \/ \E n \in VirtualServiceNames : New!ReceiveVirtualService(n)
        /\ OldWatches /\ UNCHANGED <<phase, oldMemory>>
    BY <1>3 DEF NewDoes
  <2>2. New!Environment
    BY <2>1, SameNames DEF New!Environment, New!ClusterNext
  <2>3. UNCHANGED <<routes, revision, services, virtualServices>>
    BY <2>1 DEF New!ReceiveService, New!ReceiveVirtualService, New!routeVars,
                New!serviceVars, New!vsVars
  <2> QED BY <1>3, <2>1, <2>2, <2>3, NewEnvironment, NewEnvironmentActs
<1>4. CASE OldWorks
  <2>1. OldUp /\ Next /\ NewWatches /\ UNCHANGED <<phase, newMemory>>
    BY <1>4 DEF OldWorks, OldDoes, Next
  <2> QED BY <2>1, OldActs
<1>5. CASE NewWorks
  <2>1. /\ NewLeads /\ OldWatches /\ UNCHANGED <<phase, oldMemory>>
        /\ \/ \E k \in RouteNames :
                New!Get(k) \/ New!Resync(k) \/ New!Redeliver(k) \/ New!DeliverRoute(k)
           \/ New!Reconcile \/ New!Abort \/ New!Crash
    BY <1>5 DEF NewWorks, NewDoes
  <2> QED BY <2>1, NewStep, NewActs
<1>6. CASE StartNew
  BY <1>6, StartNewSound
<1>7. CASE \E k \in RouteNames : StandbyReceives(k)
  BY <1>7, StandbySound
<1>8. CASE TakeOver
  BY <1>8, TakeOverSound
<1>9. CASE OldExits
  BY <1>9, OldExitsSound
<1>10. CASE UNCHANGED handoverVars
  BY <1>10, HandoverStutter
<1> QED BY <1>1, <1>2, <1>3, <1>4, <1>5, <1>6, <1>7, <1>8, <1>9, <1>10
        DEF HandoverNext, Surroundings

LEMMA HandoverInvariance == HandoverSpec => []HandoverInv
BY HandoverInitSound, HandoverStep, PTL DEF HandoverSpec

(***************************************************************************)
(* In every rolling update with a positive ResyncInterval, no Route in the *)
(* API falls between the two managers, wherever the old one was stopped,   *)
(* however far the new one's cache lags, and whether or not the two work   *)
(* side by side for a while.                                               *)
(***************************************************************************)
THEOREM NothingLostInHandover ==
  HandoverSpec => [](ResyncInterval > 0 => NoRouteLostInHandover)
<1>1. ASSUME HandoverInv, ResyncInterval > 0, NEW k \in RouteNames, routes[k] # Absent
      PROVE  CASE phase \in {"alone", "standby"} -> WillBeReconciled(k)
               [] phase = "vacant" -> newRouteCache[k] # Absent \/ newRouteEvents[k] # <<>>
               [] OTHER -> New!WillBeReconciled(k)
  <2>1. CASE phase \in {"alone", "standby"}
    <3>1. WillBeReconciled(k)
      BY <1>1, <2>1 DEF HandoverInv, OldUp, IInv, Remembered
    <3> QED BY <2>1, <3>1
  <2>2. CASE phase = "vacant"
    <3>1. newRouteCache[k] # Absent \/ newRouteEvents[k] # <<>>
      BY <1>1, <2>2 DEF HandoverInv, NewUp, NewP!Consistent, NewP!WatchCoherent
    <3> QED BY <2>2, <3>1
  <2>3. CASE phase \in {"overlap", "replaced"}
    <3>1. NewP!WillBeReconciled(k)
      BY <1>1, <2>3, SameObjects DEF HandoverInv, NewLeads, NewP!Remembered
    <3>2. New!WillBeReconciled(k)
      BY <3>1, SameObjects DEF New!WillBeReconciled, NewP!WillBeReconciled
    <3> QED BY <2>3, <3>2
  <2> QED BY <1>1, <2>1, <2>2, <2>3 DEF HandoverInv, Phases
<1>2. HandoverInv => (ResyncInterval > 0 => NoRouteLostInHandover)
  BY <1>1 DEF NoRouteLostInHandover
<1> QED BY <1>2, HandoverInvariance, PTL

(***************************************************************************)
(* With two managers writing, one of them perhaps without a lease, it      *)
(* stays true that a Service whose owner is in the API has an owner with   *)
(* the finalizer: the lease is not what this safety rests on.              *)
(***************************************************************************)
THEOREM HandoverFinalizerGuards == HandoverSpec => []FinalizerGuardsServices
<1>1. HandoverInv => OwnersSound
  <2>1. HandoverInv /\ ~ OldUp => NewP!OwnersSound
    BY DEF HandoverInv, Phases, OldUp, NewUp, NewP!Consistent
  <2>2. NewP!OwnersSound => OwnersSound
    BY SameNames, SameObjects
       DEF NewP!OwnersSound, OwnersSound, NewP!OwnerSound, OwnerSound
  <2>3. HandoverInv /\ OldUp => OwnersSound
    BY DEF HandoverInv, IInv
  <2> QED BY <2>1, <2>2, <2>3
<1>2. HandoverInv => FinalizerGuardsServices
  BY <1>1 DEF OwnersSound, OwnerSound, FinalizerGuardsServices, Dangling
<1> QED BY <1>2, HandoverInvariance, PTL

=============================================================================
