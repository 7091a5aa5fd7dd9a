------------------------ MODULE RouteControllerProofs ------------------------
(***************************************************************************)
(* TLAPS proofs about RouteController, for any set of route names, any     *)
(* specs, and any bounds on users, losses, faults and crashes.             *)
(***************************************************************************)
EXTENDS RouteController, SequenceTheorems, TLAPS

-----------------------------------------------------------------------------
(**************************** Type correctness *****************************)

LEMMA AppendNotEmpty ==
  ASSUME NEW S, NEW e \in Seq(S), NEW x \in S
  PROVE  /\ Append(e, x) # <<>>
         /\ Append(e, x)[Len(Append(e, x))] = x
<1>1. Len(Append(e, x)) = Len(e) + 1 /\ Len(e) \in Nat
  OBVIOUS
<1>2. Append(e, x)[Len(e) + 1] = x
  BY <1>1
<1>3. Append(e, x) # <<>>
  BY <1>1
<1> QED BY <1>1, <1>2, <1>3

LEMMA TailShape ==
  ASSUME NEW S, NEW e \in Seq(S), e # <<>>
  PROVE  /\ Tail(e) = <<>> => Len(e) = 1
         /\ Tail(e) # <<>> => Tail(e)[Len(Tail(e))] = e[Len(e)]
<1>1. /\ Len(e) \in Nat \ {0}
      /\ Tail(e) \in Seq(S)
      /\ Len(Tail(e)) = Len(e) - 1
      /\ \A i \in 1..(Len(e) - 1) : Tail(e)[i] = e[i + 1]
  OBVIOUS
<1>2. Tail(e) = <<>> => Len(Tail(e)) = 0
  BY EmptySeq
<1>3. Tail(e) # <<>> => Len(Tail(e)) \in Nat \ {0}
  BY <1>1, EmptySeq
<1> QED BY <1>1, <1>2, <1>3

\* Neither a Route nor a Service looks like the mark of a missing object.
LEMMA AbsentIsNoObject == Absent \notin Routes /\ Absent \notin Services
<1>1. DOMAIN Absent = {"absent"}
  BY DEF Absent
<1>2. \A r \in Routes : "name" \in DOMAIN r
  BY DEF Routes
<1>3. \A s \in Services : "owner" \in DOMAIN s
  BY DEF Services
<1> QED BY <1>1, <1>2, <1>3

\* A stored Route keeps the cluster's types, whether it is new or removed.
LEMMA PutRouteType ==
  ASSUME ClusterTypeOK, NEW k \in RouteNames, NEW r \in RouteOrAbsent,
         PutRoute(k, r)
  PROVE  /\ routes' \in [RouteNames -> RouteOrAbsent]
         /\ routeEvents' \in [RouteNames -> Seq(RouteOrAbsent)]
         /\ routeCache' \in [RouteNames -> RouteOrAbsent]
         /\ revision' \in [RouteNames -> Nat]
BY DEF ClusterTypeOK, PutRoute

LEMMA PutServiceType ==
  ASSUME ClusterTypeOK, NEW s \in ServiceNames, NEW v \in ServiceOrAbsent,
         PutService(s, v)
  PROVE  /\ services' \in [ServiceNames -> ServiceOrAbsent]
         /\ serviceEvents' \in [ServiceNames -> Seq(ServiceOrAbsent)]
         /\ serviceCache' \in [ServiceNames -> ServiceOrAbsent]
BY DEF ClusterTypeOK, PutService

LEMMA PutVirtualServiceType ==
  ASSUME ClusterTypeOK, NEW n, NEW v, PutVirtualService(n, v)
  PROVE  /\ DOMAIN virtualServices' = VirtualServiceNames
         /\ DOMAIN vsEvents' = VirtualServiceNames
         /\ DOMAIN vsCache' = VirtualServiceNames
BY DEF ClusterTypeOK, PutVirtualService

LEMMA SpendType ==
  ASSUME ClusterTypeOK, NEW e \in Events, Spend(e)
  PROVE  spent' \in [Events -> Nat]
BY DEF ClusterTypeOK, Spend

\* Stamping a Route with its new resourceVersion leaves it a Route.
LEMMA StampedType ==
  ASSUME ClusterTypeOK, NEW k \in RouteNames, NEW r \in Routes
  PROVE  Stamped(k, r) \in Routes
<1>1. revision[k] + 1 \in Nat
  BY DEF ClusterTypeOK
<1> QED BY <1>1 DEF Stamped, Routes

\* What ServiceBuilder builds for a Route of the cluster is one of its Services.
LEMMA BuiltServiceType ==
  ASSUME NEW r \in Routes, NEW i \in 1..Len(r.spec.destinations)
  PROVE  /\ BuildServices(r)[i].name \in ServiceNames
         /\ BuildServices(r)[i].body \in Services
         /\ BuildServices(r)[i].body.owner = [name |-> r.name, uid |-> r.uid]
<1> DEFINE spec == r.spec
           dest == spec.destinations[i]
<1>1. spec \in Specs /\ r.name \in RouteNames /\ r.uid \in Nat
  BY DEF Routes
<1>2. i \in DOMAIN spec.destinations
  BY <1>1, ClusterAssumption
<1>3. BuildServices(r)[i] = [name |-> serviceName(dest),
                             body |-> [owner |-> routeToOwnerRef(r),
                                       fqdn  |-> FQDN(r),
                                       app   |-> dest.app]]
  BY <1>2 DEF BuildServices
<1>4. serviceName(dest) \in ServiceNames
  <2>1. PICK k \in RouteNames : spec \in SpecsOf[k]
    BY <1>1 DEF Specs
  <2>2. serviceName(dest) \in ServiceNamesOf(k)
    BY <1>2, <2>1 DEF ServiceNamesOf
  <2> QED BY <2>2 DEF ServiceNames
<1>5. dest.app \in Apps
  BY <1>1, <1>2 DEF Apps
<1>6. FQDN(r) \in {HostName(sp) : sp \in Specs}
  BY <1>1 DEF FQDN, HostName
<1>7. routeToOwnerRef(r) = [name |-> r.name, uid |-> r.uid]
      /\ routeToOwnerRef(r) \in OwnerRefs
  BY <1>1 DEF routeToOwnerRef, OwnerRefs
<1> QED BY <1>3, <1>4, <1>5, <1>6, <1>7 DEF Services

\* An error return puts a name back on the queue and leaves nothing behind.
LEMMA FailType ==
  ASSUME WorkerTypeOK, pc # "idle", Fail
  PROVE  WorkerTypeOK' /\ queue' = queue \cup {route.name}
<1>1. route \in Routes
  BY DEF WorkerTypeOK, RouteOrAbsent
<1> QED BY <1>1 DEF WorkerTypeOK, Fail, Idle, RouteOrAbsent, Routes, Steps

LEMMA GotoType ==
  ASSUME WorkerTypeOK, pc # "idle", NEW step \in Steps \ {"idle"}, Goto(step)
  PROVE  WorkerTypeOK'
BY DEF WorkerTypeOK, Goto

\* The environment's steps keep the cluster's types.
LEMMA EnvironmentType ==
  ASSUME ClusterTypeOK, ClusterNext
  PROVE  ClusterTypeOK'
<1> USE DEF routeVars, serviceVars, vsVars
<1>1. ASSUME NEW k \in RouteNames, CreateRoute(k)
      PROVE  ClusterTypeOK'
  <2>1. PICK spec \in SpecsOf[k] : PutRoute(k, NewRoute(k, spec))
    BY <1>1 DEF CreateRoute
  <2>2. revision[k] + 1 \in Nat
    BY DEF ClusterTypeOK
  <2>3. NewRoute(k, spec) \in RouteOrAbsent
    BY <2>2 DEF NewRoute, Routes, RouteOrAbsent, Specs
  <2>4. spent' \in [Events -> Nat]
    BY <1>1, SpendType DEF CreateRoute, Events
  <2> QED BY <1>1, <2>1, <2>3, <2>4, PutRouteType DEF CreateRoute, ClusterTypeOK
<1>2. ASSUME NEW k \in RouteNames, UpdateRoute(k)
      PROVE  ClusterTypeOK'
  <2>1. PICK spec \in SpecsOf[k] :
          PutRoute(k, Stamped(k, [routes[k] EXCEPT !.spec = spec]))
    BY <1>2 DEF UpdateRoute
  <2>2. routes[k] \in Routes /\ spec \in Specs
    BY <1>2 DEF UpdateRoute, ClusterTypeOK, RouteOrAbsent, Specs
  <2>3. [routes[k] EXCEPT !.spec = spec] \in Routes
    BY <2>2 DEF Routes
  <2>4. spent' \in [Events -> Nat]
    BY <1>2, SpendType DEF UpdateRoute, Events
  <2> QED BY <1>2, <2>1, <2>3, <2>4, StampedType, PutRouteType
          DEF UpdateRoute, ClusterTypeOK, RouteOrAbsent
<1>3. ASSUME NEW k \in RouteNames, DeleteRoute(k)
      PROVE  ClusterTypeOK'
  <2>1. routes[k] \in Routes
    BY <1>3 DEF DeleteRoute, ClusterTypeOK, RouteOrAbsent
  <2>2. [routes[k] EXCEPT !.deleting = TRUE] \in Routes
    BY <2>1 DEF Routes
  <2>3. (IF routes[k].finalizer
         THEN Stamped(k, [routes[k] EXCEPT !.deleting = TRUE])
         ELSE Absent) \in RouteOrAbsent
    BY <2>2, StampedType DEF RouteOrAbsent
  <2>4. spent' \in [Events -> Nat]
    BY <1>3, SpendType DEF DeleteRoute, Events
  <2> QED BY <1>3, <2>3, <2>4, PutRouteType DEF DeleteRoute, ClusterTypeOK
<1>4. ASSUME NEW s \in ServiceNames, EvictService(s)
      PROVE  ClusterTypeOK'
  <2>1. spent' \in [Events -> Nat]
    BY <1>4, SpendType DEF EvictService, Events
  <2> QED BY <1>4, <2>1, PutServiceType
          DEF EvictService, ClusterTypeOK, ServiceOrAbsent
<1>5. ASSUME NEW s \in ServiceNames, CollectService(s)
      PROVE  ClusterTypeOK'
  BY <1>5, PutServiceType DEF CollectService, ClusterTypeOK, ServiceOrAbsent
<1>6. ASSUME NEW s \in ServiceNames, ReceiveService(s)
      PROVE  ClusterTypeOK'
  BY <1>6 DEF ReceiveService, ClusterTypeOK
<1>7. ASSUME NEW n \in VirtualServiceNames, EvictVirtualService(n)
      PROVE  ClusterTypeOK'
  <2>1. spent' \in [Events -> Nat]
    BY <1>7, SpendType DEF EvictVirtualService, Events
  <2> QED BY <1>7, <2>1, PutVirtualServiceType
          DEF EvictVirtualService, ClusterTypeOK
<1>8. ASSUME NEW n \in VirtualServiceNames, CollectVirtualService(n)
      PROVE  ClusterTypeOK'
  BY <1>8, PutVirtualServiceType DEF CollectVirtualService, ClusterTypeOK
<1>9. ASSUME NEW n \in VirtualServiceNames, ReceiveVirtualService(n)
      PROVE  ClusterTypeOK'
  BY <1>9 DEF ReceiveVirtualService, ClusterTypeOK
<1> QED BY <1>1, <1>2, <1>3, <1>4, <1>5, <1>6, <1>7, <1>8, <1>9 DEF ClusterNext

\* Every outcome of reconcileVirtualServices keeps the types.
LEMMA ReconcileVirtualServicesType ==
  ASSUME TypeOK, pc # "idle", NEW list, NEW step \in Steps \ {"idle"},
         reconcileVirtualServices(list, step)
  PROVE  /\ WorkerTypeOK'
         /\ DOMAIN virtualServices' = VirtualServiceNames
         /\ DOMAIN vsEvents' = VirtualServiceNames
         /\ DOMAIN vsCache' = VirtualServiceNames
<1>1. CASE Fail /\ UNCHANGED vsVars
  BY <1>1, FailType DEF TypeOK, ClusterTypeOK, vsVars
<1>2. CASE Goto(step) /\ UNCHANGED vsVars
  BY <1>2, GotoType DEF TypeOK, ClusterTypeOK, vsVars
<1>3. ASSUME NEW n, NEW vs, PutVirtualService(n, vs), Goto(step)
      PROVE  /\ WorkerTypeOK'
             /\ DOMAIN virtualServices' = VirtualServiceNames
             /\ DOMAIN vsEvents' = VirtualServiceNames
             /\ DOMAIN vsCache' = VirtualServiceNames
  BY <1>3, GotoType, PutVirtualServiceType DEF TypeOK
<1> QED BY <1>1, <1>2, <1>3 DEF reconcileVirtualServices

LEMMA TypeStep ==
  ASSUME TypeOK, [Next]_vars
  PROVE  TypeOK'
<1> USE DEF routeVars, serviceVars, vsVars, clusterVars, workerVars
<1>0. ASSUME pc # "idle"
      PROVE  route \in Routes /\ route.name \in RouteNames
  BY <1>0 DEF TypeOK, WorkerTypeOK, RouteOrAbsent, Routes
<1>1. CASE Environment
  BY <1>1, EnvironmentType DEF Environment, Unnoticed, TypeOK, WorkerTypeOK
<1>2. ASSUME NEW k \in RouteNames, Get(k)
      PROVE  TypeOK'
  BY <1>2 DEF Get, TypeOK, ClusterTypeOK, WorkerTypeOK, Steps
<1>3. ASSUME NEW k \in RouteNames, Resync(k)
      PROVE  TypeOK'
  BY <1>3 DEF Resync, TypeOK, ClusterTypeOK, WorkerTypeOK
<1>4. ASSUME NEW k \in RouteNames, DeliverRoute(k)
      PROVE  TypeOK'
  BY <1>4 DEF DeliverRoute, ReceiveRoute, TypeOK, ClusterTypeOK, WorkerTypeOK
<1>5. CASE List
  <2>1. routeList' \in SUBSET Routes
    BY <1>5 DEF List, TypeOK, ClusterTypeOK, RouteOrAbsent
  <2>2. pc' \in Steps \ {"idle"}
    BY <1>5 DEF List, AfterList, Steps
  <2> QED BY <1>5, <2>1, <2>2 DEF List, TypeOK, ClusterTypeOK, WorkerTypeOK
<1>6. CASE AddFinalizer
  <2>1. CASE /\ route' = Stamped(route.name, [route EXCEPT !.finalizer = TRUE])
             /\ PutRoute(route.name, route')
             /\ pc' = "listServices"
             /\ UNCHANGED <<queue, resync, routeList, applied, condemned>>
    <3>1. pc = "addFinalizer"
      BY <1>6 DEF AddFinalizer
    <3>2. route \in Routes /\ route.name \in RouteNames
      BY <1>0, <3>1
    <3>3. [route EXCEPT !.finalizer = TRUE] \in Routes
      BY <3>2 DEF Routes
    <3>4. route' \in Routes
      BY <2>1, <3>2, <3>3, StampedType DEF TypeOK
    <3>5. route' # Absent
      BY <3>4, AbsentIsNoObject
    <3>6. WorkerTypeOK'
      BY <2>1, <3>4, <3>5 DEF TypeOK, WorkerTypeOK, Steps, RouteOrAbsent
    <3>7. ClusterTypeOK'
      BY <1>6, <2>1, <3>2, <3>4, PutRouteType
         DEF AddFinalizer, TypeOK, ClusterTypeOK, RouteOrAbsent
    <3> QED BY <3>6, <3>7 DEF TypeOK
  <2>2. CASE Fail /\ UNCHANGED routeVars
    BY <1>6, <2>2, FailType DEF AddFinalizer, TypeOK, ClusterTypeOK
  <2> QED BY <1>6, <2>1, <2>2 DEF AddFinalizer
<1>7. CASE ListServices \/ ListServicesToFinalize
  <2>1. condemned' \in SUBSET ServiceNames
    BY <1>7 DEF ListServices, ListServicesToFinalize, OwnedServices, findServicesForDeletion
  <2> QED BY <1>7, <2>1
          DEF ListServices, ListServicesToFinalize, TypeOK, ClusterTypeOK, WorkerTypeOK, Steps
<1>8. CASE ApplyService
  <2> DEFINE built == BuildServices(route)[applied + 1]
  <2>1. route \in Routes /\ applied + 1 \in 1..Len(route.spec.destinations)
        /\ applied + 1 \in Nat
    <3>1. route \in Routes /\ applied \in Nat
      BY <1>0, <1>8 DEF ApplyService, TypeOK, WorkerTypeOK
    <3>2. Len(route.spec.destinations) \in Nat
      BY <3>1, ClusterAssumption DEF Routes
    <3> QED BY <1>8, <3>1, <3>2 DEF ApplyService, ServicesPending
  <2>2. built.name \in ServiceNames /\ built.body \in ServiceOrAbsent
    BY <2>1, BuiltServiceType DEF ServiceOrAbsent
  <2>3. \/ /\ UNCHANGED serviceVars \/ PutService(built.name, built.body)
           /\ applied' = applied + 1
           /\ UNCHANGED <<queue, resync, pc, route, routeList, condemned>>
        \/ Fail /\ UNCHANGED serviceVars
    BY <1>8 DEF ApplyService
  <2>4. WorkerTypeOK'
    <3>1. CASE /\ applied' = applied + 1
               /\ UNCHANGED <<queue, resync, pc, route, routeList, condemned>>
      BY <2>1, <3>1 DEF TypeOK, WorkerTypeOK
    <3>2. CASE Fail
      BY <1>8, <3>2, FailType DEF ApplyService, TypeOK
    <3> QED BY <2>3, <3>1, <3>2
  <2>5. ClusterTypeOK'
    BY <1>8, <2>2, <2>3, PutServiceType DEF ApplyService, TypeOK, ClusterTypeOK
  <2> QED BY <2>4, <2>5 DEF TypeOK
<1>9. ASSUME NEW s \in ServiceNames, DeleteService(s)
      PROVE  TypeOK'
  <2>1. CASE /\ PutService(s, Absent)
             /\ condemned' = condemned \ {s}
             /\ UNCHANGED <<queue, resync, pc, route, routeList, applied>>
    BY <1>9, <2>1, PutServiceType
       DEF DeleteService, TypeOK, ClusterTypeOK, WorkerTypeOK, ServiceOrAbsent
  <2>2. CASE Fail /\ UNCHANGED serviceVars
    BY <1>9, <2>2, FailType DEF DeleteService, TypeOK, ClusterTypeOK
  <2> QED BY <1>9, <2>1, <2>2 DEF DeleteService
<1>10. CASE ApplyVirtualService
  <2>1. reconcileVirtualServices(routeList, "succeeded") /\ pc # "idle"
    BY <1>10 DEF ApplyVirtualService, ServicesDone
  <2>2. "succeeded" \in Steps \ {"idle"}
    BY DEF Steps
  <2> QED BY <1>10, <2>1, <2>2, ReconcileVirtualServicesType
          DEF ApplyVirtualService, TypeOK, ClusterTypeOK
<1>11. CASE ShrinkVirtualService
  <2>1. /\ reconcileVirtualServices(removeRouteFromRouteList(route, routeList),
                                    "removeFinalizer")
        /\ pc # "idle"
    BY <1>11 DEF ShrinkVirtualService, ServicesDone
  <2>2. "removeFinalizer" \in Steps \ {"idle"}
    BY DEF Steps
  <2> QED BY <1>11, <2>1, <2>2, ReconcileVirtualServicesType
          DEF ShrinkVirtualService, TypeOK, ClusterTypeOK
<1>12. CASE DeleteVirtualService
  <2> DEFINE n == VirtualServiceName(FQDN(route))
  <2>1. pc # "idle" /\ "removeFinalizer" \in Steps \ {"idle"}
    BY <1>12 DEF DeleteVirtualService, ServicesDone, Steps
  <2>2. WorkerTypeOK'
    BY <1>12, <2>1, FailType, GotoType DEF DeleteVirtualService, TypeOK
  <2>3. spent' \in [Events -> Nat]
    BY <1>12, SpendType DEF DeleteVirtualService, TypeOK, ClusterTypeOK, Events
  <2>4. UNCHANGED vsVars \/ PutVirtualService(n, Absent)
    BY <1>12 DEF DeleteVirtualService
  <2> QED BY <1>12, <2>2, <2>3, <2>4, PutVirtualServiceType
          DEF DeleteVirtualService, TypeOK, ClusterTypeOK
<1>13. CASE RemoveFinalizer
  <2>1. pc # "idle" /\ "finalized" \in Steps \ {"idle"}
    BY <1>13 DEF RemoveFinalizer, Steps
  <2>2. WorkerTypeOK'
    BY <1>13, <2>1, FailType, GotoType DEF RemoveFinalizer, TypeOK
  <2>3. UNCHANGED routeVars \/ PutRoute(route.name, Absent)
    BY <1>13 DEF RemoveFinalizer
  <2> QED BY <1>0, <1>13, <2>1, <2>2, <2>3, PutRouteType
          DEF RemoveFinalizer, TypeOK, ClusterTypeOK, RouteOrAbsent
<1>14. CASE Succeed
  BY <1>0, <1>14
     DEF Succeed, Idle, TypeOK, ClusterTypeOK, WorkerTypeOK, Steps, RouteOrAbsent
<1>15. CASE Finalized
  BY <1>15
     DEF Finalized, Idle, TypeOK, ClusterTypeOK, WorkerTypeOK, Steps, RouteOrAbsent
<1>16. CASE Abort
  <2>1. spent' \in [Events -> Nat]
    BY <1>16, SpendType DEF Abort, TypeOK, Events
  <2> QED BY <1>16, <2>1, FailType DEF Abort, TypeOK, ClusterTypeOK
<1>17. CASE Crash
  <2>1. spent' \in [Events -> Nat]
    BY <1>17, SpendType DEF Crash, TypeOK, Events
  <2>2. ClusterTypeOK'
    BY <1>17, <2>1 DEF Crash, Relist, TypeOK, ClusterTypeOK
  <2>3. WorkerTypeOK'
    BY <1>17 DEF Crash, Idle, WorkerTypeOK, Steps, RouteOrAbsent
  <2> QED BY <2>2, <2>3 DEF TypeOK
<1>18. ASSUME NEW k \in RouteNames, Redeliver(k)
       PROVE  TypeOK'
  <2>1. spent' \in [Events -> Nat]
    BY <1>18, SpendType DEF Redeliver, TypeOK, Events
  <2> QED BY <1>18, <2>1 DEF Redeliver, TypeOK, ClusterTypeOK, WorkerTypeOK
<1>19. CASE UNCHANGED vars
  BY <1>19 DEF vars, TypeOK, ClusterTypeOK, WorkerTypeOK
<1> QED BY <1>1, <1>2, <1>3, <1>4, <1>5, <1>6, <1>7, <1>8, <1>9, <1>10, <1>11,
          <1>12, <1>13, <1>14, <1>15, <1>16, <1>17, <1>18, <1>19 DEF Next, Reconcile

LEMMA TypeInit == Init => TypeOK
BY DEF Init, ClusterInit, TypeOK, ClusterTypeOK, WorkerTypeOK, Steps,
       RouteOrAbsent, ServiceOrAbsent, Events

(***************************************************************************)
(* The variables keep their types in every behaviour, whatever the number  *)
(* of routes, and Reconcile holds a Route exactly while it is busy.        *)
(***************************************************************************)
THEOREM TypeCorrect == Spec => []TypeOK
BY TypeInit, TypeStep, PTL DEF Spec

-----------------------------------------------------------------------------
(************************* The inductive invariant *************************)

(***************************************************************************)
(* What holds of every copy r of route k, however old, when the API has    *)
(* "stored" under that name and has given out "rev" resourceVersions: a    *)
(* route marked for deletion has the finalizer, and a finalizer once seen  *)
(* stays for as long as that incarnation is in the API.                    *)
(***************************************************************************)
Sound(k, r, stored, rev) ==
  r # Absent =>
    /\ r.name = k
    /\ r.uid <= rev
    /\ r.deleting => r.finalizer
    /\ r.finalizer /\ stored # Absent /\ stored.uid = r.uid => stored.finalizer

\* Every copy of a Route is sound: stored, cached, under way or held.
CopiesSound ==
  \A k \in RouteNames :
    /\ Sound(k, routes[k], routes[k], revision[k])
    /\ Sound(k, routeCache[k], routes[k], revision[k])
    /\ \A i \in 1..Len(routeEvents[k]) :
         Sound(k, routeEvents[k][i], routes[k], revision[k])

HeldSound ==
  route # Absent =>
    /\ Sound(route.name, route, routes[route.name], revision[route.name])
    /\ pc \in {"listServices", "services", "removeFinalizer"} => route.finalizer

\* The owner of a Service is an old incarnation, or carries the finalizer.
OwnerSound(owner, stored, rev) ==
  /\ owner.uid <= rev
  /\ stored # Absent /\ stored.uid = owner.uid => stored.finalizer

OwnersSound ==
  \A s \in ServiceNames :
    services[s] # Absent =>
      OwnerSound(services[s].owner, routes[services[s].owner.name],
                 revision[services[s].owner.name])

\* The cache is what the API has, or the last event under way will make it so.
WatchCoherent ==
  \A k \in RouteNames :
    IF routeEvents[k] = <<>> THEN routeCache[k] = routes[k]
    ELSE routeEvents[k][Len(routeEvents[k])] = routes[k]

\* Finalization returns without a timer: nothing of that name may need one.
FinalizedIsGone ==
  pc = "finalized" =>
    \/ routes[route.name] = Absent
    \/ routeEvents[route.name] # <<>>
    \/ route.name \in queue

Remembered == \A k \in RouteNames : routes[k] # Absent => WillBeReconciled(k)

\* What holds of a manager's caches, streams and worker even before it leads.
Consistent ==
  /\ TypeOK
  /\ CopiesSound
  /\ HeldSound
  /\ OwnersSound
  /\ WatchCoherent
  /\ FinalizedIsGone

IInv ==
  /\ TypeOK
  /\ CopiesSound
  /\ HeldSound
  /\ OwnersSound
  /\ WatchCoherent
  /\ FinalizedIsGone
  /\ ResyncInterval > 0 => Remembered

-----------------------------------------------------------------------------

\* What may be stored under a name where "old" was, as its next revision.
Admissible(k, new, old, rev) ==
  new # Absent =>
    /\ new.name = k
    /\ new.uid <= rev + 1
    /\ new.deleting => new.finalizer
    /\ \/ new.uid = rev + 1
       \/ new.finalizer
       \/ old # Absent /\ new.uid = old.uid /\ ~ old.finalizer

\* A sound copy stays sound when something admissible is stored.
LEMMA SoundAfterPut ==
  ASSUME NEW k, NEW q \in RouteOrAbsent, NEW old \in RouteOrAbsent,
         NEW new \in RouteOrAbsent, NEW rev \in Nat,
         Sound(k, q, old, rev), Admissible(k, new, old, rev)
  PROVE  Sound(k, q, new, rev + 1)
<1>1. q # Absent => q.uid \in Nat
  BY DEF RouteOrAbsent, Routes
<1> QED BY <1>1 DEF Sound, Admissible

LEMMA OwnerSoundAfterPut ==
  ASSUME NEW k, NEW owner \in OwnerRefs, NEW old \in RouteOrAbsent,
         NEW new \in RouteOrAbsent, NEW rev \in Nat,
         OwnerSound(owner, old, rev), Admissible(k, new, old, rev)
  PROVE  OwnerSound(owner, new, rev + 1)
<1>1. owner.uid \in Nat
  BY DEF OwnerRefs
<1> QED BY <1>1 DEF OwnerSound, Admissible

LEMMA SoundWhenStored ==
  ASSUME NEW k, NEW new \in RouteOrAbsent, NEW old, NEW rev \in Nat,
         Admissible(k, new, old, rev)
  PROVE  Sound(k, new, new, rev + 1)
BY DEF Sound, Admissible

(***************************************************************************)
(* A step that stores something admissible under one name keeps what the   *)
(* invariant says about Routes, events and Services.                       *)
(***************************************************************************)
LEMMA PutRouteSound ==
  ASSUME TypeOK, CopiesSound, OwnersSound, WatchCoherent,
         NEW k \in RouteNames, NEW r \in RouteOrAbsent, PutRoute(k, r),
         Admissible(k, r, routes[k], revision[k]), UNCHANGED serviceVars
  PROVE  /\ CopiesSound' /\ OwnersSound' /\ WatchCoherent'
         /\ \A j \in RouteNames, q \in RouteOrAbsent :
              Sound(j, q, routes[j], revision[j])
                => Sound(j, q, routes'[j], revision'[j])
<1> USE DEF PutRoute, TypeOK, ClusterTypeOK
<1>1. ASSUME NEW j \in RouteNames, NEW q \in RouteOrAbsent,
             Sound(j, q, routes[j], revision[j])
      PROVE  Sound(j, q, routes'[j], revision'[j])
  <2>1. CASE j = k
    BY <1>1, <2>1, SoundAfterPut
  <2>2. CASE j # k
    BY <1>1, <2>2
  <2> QED BY <2>1, <2>2
<1>2. Sound(k, r, routes'[k], revision'[k])
  BY SoundWhenStored
<1>3. CopiesSound'
  <2> SUFFICES ASSUME NEW j \in RouteNames
               PROVE  /\ Sound(j, routes'[j], routes'[j], revision'[j])
                      /\ Sound(j, routeCache'[j], routes'[j], revision'[j])
                      /\ \A i \in 1..Len(routeEvents'[j]) :
                           Sound(j, routeEvents'[j][i], routes'[j], revision'[j])
    BY DEF CopiesSound
  <2>1. Sound(j, routes'[j], routes'[j], revision'[j])
    <3>1. CASE j = k
      BY <1>2, <3>1
    <3>2. CASE j # k
      BY <3>2 DEF CopiesSound
    <3> QED BY <3>1, <3>2
  <2>2. Sound(j, routeCache'[j], routes'[j], revision'[j])
    BY <1>1 DEF CopiesSound
  <2>3. ASSUME NEW i \in 1..Len(routeEvents'[j])
        PROVE  Sound(j, routeEvents'[j][i], routes'[j], revision'[j])
    <3>1. CASE i \in 1..Len(routeEvents[j])
      <4>1. routeEvents'[j][i] = routeEvents[j][i]
        BY <3>1
      <4>2. routeEvents[j][i] \in RouteOrAbsent
        BY <3>1
      <4>3. Sound(j, routeEvents[j][i], routes[j], revision[j])
        BY <3>1 DEF CopiesSound
      <4> QED BY <4>1, <4>2, <4>3, <1>1
    <3>2. CASE i \notin 1..Len(routeEvents[j])
      <4>1. j = k /\ routeEvents'[j][i] = r
        BY <3>2
      <4> QED BY <4>1, <1>2
    <3> QED BY <3>1, <3>2
  <2> QED BY <2>1, <2>2, <2>3
<1>4. OwnersSound'
  <2> SUFFICES ASSUME NEW s \in ServiceNames, services'[s] # Absent
               PROVE  OwnerSound(services'[s].owner,
                                 routes'[services'[s].owner.name],
                                 revision'[services'[s].owner.name])
    BY DEF OwnersSound
  <2> DEFINE o == services[s].owner
  <2>1. services'[s] = services[s]
    BY DEF serviceVars
  <2>2. o \in OwnerRefs /\ o.name \in RouteNames
    BY <2>1 DEF ServiceOrAbsent, Services, OwnerRefs
  <2>3. OwnerSound(o, routes[o.name], revision[o.name])
    BY <2>1 DEF OwnersSound
  <2>4. CASE o.name = k
    <3>1. OwnerSound(o, r, revision[k] + 1)
      BY <2>2, <2>3, <2>4, OwnerSoundAfterPut
    <3> QED BY <2>1, <2>4, <3>1
  <2>5. CASE o.name # k
    BY <2>1, <2>2, <2>3, <2>5
  <2> QED BY <2>4, <2>5
<1>5. WatchCoherent'
  <2> SUFFICES ASSUME NEW j \in RouteNames
               PROVE  IF routeEvents'[j] = <<>> THEN routeCache'[j] = routes'[j]
                      ELSE routeEvents'[j][Len(routeEvents'[j])] = routes'[j]
    BY DEF WatchCoherent
  <2>1. CASE j = k
    <3>1. routeEvents'[k] = Append(routeEvents[k], r) /\ routes'[k] = r
      BY <2>1
    <3>2. /\ Append(routeEvents[k], r) # <<>>
          /\ Append(routeEvents[k], r)[Len(Append(routeEvents[k], r))] = r
      BY AppendNotEmpty
    <3> QED BY <2>1, <3>1, <3>2
  <2>2. CASE j # k
    BY <2>2 DEF WatchCoherent
  <2> QED BY <2>1, <2>2
<1> QED BY <1>1, <1>3, <1>4, <1>5

\* A step that writes no Route, and deletes at most a Service.
LEMMA NoRouteWriteSound ==
  ASSUME Consistent, UNCHANGED routeVars,
         \/ UNCHANGED serviceVars
         \/ \E s \in ServiceNames : PutService(s, Absent)
  PROVE  CopiesSound' /\ OwnersSound' /\ WatchCoherent'
<1> USE DEF Consistent, routeVars, serviceVars
<1>1. CopiesSound' /\ WatchCoherent'
  BY DEF CopiesSound, WatchCoherent
<1>2. ASSUME NEW s \in ServiceNames, services'[s] # Absent
      PROVE  services'[s] = services[s]
  BY <1>2 DEF PutService, TypeOK, ClusterTypeOK
<1>3. OwnersSound'
  BY <1>2 DEF OwnersSound
<1> QED BY <1>1, <1>3

\* What an error return keeps.
LEMMA FailSound ==
  ASSUME IInv, pc # "idle", Fail, UNCHANGED routeVars
  PROVE  /\ HeldSound'
         /\ FinalizedIsGone'
         /\ ResyncInterval > 0 => Remembered'
<1> USE DEF IInv, Fail, Idle, routeVars
<1>1. HeldSound' /\ FinalizedIsGone'
  BY DEF HeldSound, FinalizedIsGone
<1>2. ASSUME ResyncInterval > 0, NEW k \in RouteNames, routes'[k] # Absent
      PROVE  WillBeReconciled(k)'
  BY <1>2 DEF Remembered, WillBeReconciled
<1> QED BY <1>1, <1>2 DEF Remembered

\* What moving on with the same Route in hand keeps.
LEMMA OnwardSound ==
  ASSUME IInv, UNCHANGED <<routeVars, queue, resync, route>>, pc # "idle",
         pc' # "finalized",
         pc' \in {"listServices", "services", "removeFinalizer"} => route.finalizer
  PROVE  /\ HeldSound'
         /\ FinalizedIsGone'
         /\ ResyncInterval > 0 => Remembered'
<1> USE DEF IInv, routeVars
<1>1. HeldSound' /\ FinalizedIsGone'
  BY DEF HeldSound, FinalizedIsGone
<1>2. ASSUME ResyncInterval > 0, NEW k \in RouteNames, routes'[k] # Absent
      PROVE  WillBeReconciled(k)'
  BY <1>2 DEF Remembered, WillBeReconciled
<1> QED BY <1>1, <1>2 DEF Remembered

\* What the environment may do to a Route keeps the invariant.
LEMMA UserWriteSound ==
  ASSUME Consistent, NEW k \in RouteNames, NEW r \in RouteOrAbsent, PutRoute(k, r),
         Admissible(k, r, routes[k], revision[k]), UNCHANGED serviceVars, Unnoticed,
         TypeOK'
  PROVE  Consistent' /\ (Remembered => Remembered')
<1>1. /\ CopiesSound' /\ OwnersSound' /\ WatchCoherent'
      /\ \A j \in RouteNames, q \in RouteOrAbsent :
           Sound(j, q, routes[j], revision[j])
             => Sound(j, q, routes'[j], revision'[j])
  BY PutRouteSound DEF Consistent
<1>2. ASSUME NEW j \in RouteNames
      PROVE  \/ j = k /\ routeEvents'[j] # <<>>
             \/ routeEvents'[j] = routeEvents[j] /\ routes'[j] = routes[j]
  <2>1. Append(routeEvents[k], r) # <<>>
    <3>1. routeEvents[k] \in Seq(RouteOrAbsent)
      BY DEF Consistent, TypeOK, ClusterTypeOK
    <3> HIDE DEF RouteOrAbsent
    <3> QED BY ONLY <3>1, r \in RouteOrAbsent, AppendNotEmpty, SMT
  <2>2. /\ routes' = [routes EXCEPT ![k] = r]
        /\ routeEvents' = [routeEvents EXCEPT ![k] = Append(routeEvents[k], r)]
    BY DEF PutRoute
  <2>3. k \in DOMAIN routeEvents /\ j \in DOMAIN routeEvents /\ j \in DOMAIN routes
    BY DEF Consistent, TypeOK, ClusterTypeOK
  <2>4. CASE j = k
    BY <2>1, <2>2, <2>3, <2>4
  <2>5. CASE j # k
    BY <2>2, <2>3, <2>5
  <2> QED BY <2>4, <2>5
<1>3. UNCHANGED <<queue, resync, pc, route>>
  BY DEF Unnoticed, workerVars
<1>4. route # Absent => route \in RouteOrAbsent /\ route.name \in RouteNames
  BY DEF Consistent, TypeOK, WorkerTypeOK, RouteOrAbsent, Routes
<1>5. HeldSound'
  <2> SUFFICES ASSUME route # Absent
               PROVE  /\ Sound(route.name, route, routes'[route.name],
                               revision'[route.name])
                      /\ pc \in {"listServices", "services", "removeFinalizer"}
                           => route.finalizer
    BY <1>3 DEF HeldSound
  <2>1. /\ Sound(route.name, route, routes[route.name], revision[route.name])
        /\ pc \in {"listServices", "services", "removeFinalizer"}
             => route.finalizer
    BY DEF Consistent, HeldSound
  <2> QED BY <1>1, <1>4, <2>1
<1>6. FinalizedIsGone'
  <2>1. pc = "finalized" => route.name \in RouteNames
    BY <1>4 DEF Consistent, TypeOK, WorkerTypeOK
  <2> QED BY <1>2, <1>3, <2>1 DEF Consistent, FinalizedIsGone
<1>7. Remembered => Remembered'
  <2>1. ASSUME Remembered, NEW j \in RouteNames, routes'[j] # Absent
        PROVE  WillBeReconciled(j)'
    BY <1>2, <1>3, <2>1 DEF Remembered, WillBeReconciled
  <2> QED BY <2>1 DEF Remembered
<1> QED BY <1>1, <1>5, <1>6, <1>7 DEF Consistent

\* Whatever Cloud Controller writes may be stored where it is written.
LEMMA UserWriteAdmissible ==
  ASSUME Consistent, NEW k \in RouteNames,
         CreateRoute(k) \/ UpdateRoute(k) \/ DeleteRoute(k)
  PROVE  \E r \in RouteOrAbsent :
           PutRoute(k, r) /\ Admissible(k, r, routes[k], revision[k])
<1>1. CASE CreateRoute(k)
  <2>1. PICK spec \in SpecsOf[k] : PutRoute(k, NewRoute(k, spec))
    BY <1>1 DEF CreateRoute
  <2>2. revision[k] + 1 \in Nat
    BY DEF Consistent, TypeOK, ClusterTypeOK
  <2>3. NewRoute(k, spec) \in RouteOrAbsent
    BY <2>2 DEF NewRoute, Routes, RouteOrAbsent, Specs
  <2>4. Admissible(k, NewRoute(k, spec), routes[k], revision[k])
    BY <2>2 DEF Admissible, NewRoute
  <2> QED BY <2>1, <2>3, <2>4
<1>2. CASE UpdateRoute(k)
  <2>1. PICK spec \in SpecsOf[k] :
          PutRoute(k, Stamped(k, [routes[k] EXCEPT !.spec = spec]))
    BY <1>2 DEF UpdateRoute
  <2> DEFINE r == Stamped(k, [routes[k] EXCEPT !.spec = spec])
  <2>2. routes[k] \in Routes /\ spec \in Specs /\ revision[k] \in Nat
    BY <1>2 DEF UpdateRoute, Consistent, TypeOK, ClusterTypeOK, RouteOrAbsent, Specs
  <2>3. [routes[k] EXCEPT !.spec = spec] \in Routes
    BY <2>2 DEF Routes
  <2>4. r \in RouteOrAbsent
    BY <2>3, StampedType DEF Consistent, TypeOK, RouteOrAbsent
  <2>5. /\ r.name = routes[k].name
        /\ r.uid = routes[k].uid
        /\ r.finalizer = routes[k].finalizer
        /\ r.deleting = routes[k].deleting
    BY <2>2 DEF Stamped, Routes
  <2>6. Sound(k, routes[k], routes[k], revision[k]) /\ routes[k] # Absent
    BY <1>2 DEF Consistent, CopiesSound, UpdateRoute
  <2>7. Admissible(k, r, routes[k], revision[k])
    <3>1. routes[k].uid \in Nat
      BY <2>2 DEF Routes
    <3> QED BY <2>2, <2>5, <2>6, <3>1 DEF Admissible, Sound
  <2> QED BY <2>1, <2>4, <2>7
<1>3. CASE DeleteRoute(k)
  <2> DEFINE marked == Stamped(k, [routes[k] EXCEPT !.deleting = TRUE])
             r == IF routes[k].finalizer THEN marked ELSE Absent
  <2>1. routes[k] \in Routes /\ revision[k] \in Nat
    BY <1>3 DEF DeleteRoute, Consistent, TypeOK, ClusterTypeOK, RouteOrAbsent
  <2>2. [routes[k] EXCEPT !.deleting = TRUE] \in Routes
    BY <2>1 DEF Routes
  <2>3. r \in RouteOrAbsent
    BY <2>2, StampedType DEF Consistent, TypeOK, RouteOrAbsent
  <2>4. /\ marked.name = routes[k].name
        /\ marked.uid = routes[k].uid
        /\ marked.finalizer = routes[k].finalizer
    BY <2>1 DEF Stamped, Routes
  <2>5. Sound(k, routes[k], routes[k], revision[k]) /\ routes[k] # Absent
    BY <1>3 DEF Consistent, CopiesSound, DeleteRoute
  <2>6. Admissible(k, r, routes[k], revision[k])
    <3>1. routes[k].uid \in Nat
      BY <2>1 DEF Routes
    <3> QED BY <2>1, <2>4, <2>5, <3>1 DEF Admissible, Sound
  <2>7. PutRoute(k, r)
    BY <1>3 DEF DeleteRoute
  <2> QED BY <2>3, <2>6, <2>7
<1> QED BY <1>1, <1>2, <1>3

LEMMA EnvironmentSound ==
  ASSUME Consistent, Environment, TypeOK'
  PROVE  Consistent' /\ (Remembered => Remembered')
<1> USE DEF routeVars, serviceVars, vsVars
<1>0. Unnoticed
  BY DEF Environment
<1>1. ASSUME NEW k \in RouteNames,
             CreateRoute(k) \/ UpdateRoute(k) \/ DeleteRoute(k)
      PROVE  Consistent' /\ (Remembered => Remembered')
  <2>1. PICK r \in RouteOrAbsent :
          PutRoute(k, r) /\ Admissible(k, r, routes[k], revision[k])
    BY <1>1, UserWriteAdmissible
  <2>2. UNCHANGED serviceVars
    BY <1>1 DEF CreateRoute, UpdateRoute, DeleteRoute
  <2> QED BY <1>0, <2>1, <2>2, UserWriteSound
<1>2. ASSUME UNCHANGED routeVars,
             \/ UNCHANGED serviceVars
             \/ \E s \in ServiceNames : PutService(s, Absent)
             \/ \E s \in ServiceNames : ReceiveService(s)
      PROVE  Consistent' /\ (Remembered => Remembered')
  <2>1. CopiesSound' /\ OwnersSound' /\ WatchCoherent'
    <3>1. CASE \E s \in ServiceNames : ReceiveService(s)
      BY <1>2, <3>1 DEF ReceiveService, Consistent, CopiesSound, OwnersSound, WatchCoherent
    <3> QED BY <1>2, <3>1, NoRouteWriteSound
  <2>2. UNCHANGED <<queue, resync, pc, route>>
    BY <1>0 DEF Unnoticed, workerVars
  <2>3. HeldSound' /\ FinalizedIsGone'
    BY <1>2, <2>2 DEF Consistent, HeldSound, FinalizedIsGone
  <2>4. Remembered => Remembered'
    BY <1>2, <2>2 DEF Remembered, WillBeReconciled
  <2> QED BY <2>1, <2>3, <2>4 DEF Consistent
<1>3. ASSUME NEW s \in ServiceNames,
             EvictService(s) \/ CollectService(s) \/ ReceiveService(s)
      PROVE  Consistent' /\ (Remembered => Remembered')
  BY <1>2, <1>3 DEF EvictService, CollectService, ReceiveService
<1>4. ASSUME NEW n \in VirtualServiceNames,
             EvictVirtualService(n) \/ CollectVirtualService(n)
               \/ ReceiveVirtualService(n)
      PROVE  Consistent' /\ (Remembered => Remembered')
  BY <1>2, <1>4
     DEF EvictVirtualService, CollectVirtualService, ReceiveVirtualService
<1> QED BY <1>1, <1>3, <1>4 DEF Environment, ClusterNext

\* A delivery moves the oldest event of a name into the cache.
LEMMA ReceiveSound ==
  ASSUME Consistent, NEW k \in RouteNames, ReceiveRoute(k), UNCHANGED workerVars
  PROVE  CopiesSound' /\ WatchCoherent' /\ OwnersSound' /\ HeldSound'
<1> USE DEF ReceiveRoute, workerVars, serviceVars
<1> DEFINE e == routeEvents[k]
<1>1. e \in Seq(RouteOrAbsent) /\ e # <<>>
  BY DEF Consistent, TypeOK, ClusterTypeOK
<1>2. /\ Len(e) \in Nat \ {0}
      /\ Head(e) = e[1]
      /\ Len(Tail(e)) = Len(e) - 1
      /\ \A i \in 1..Len(Tail(e)) : Tail(e)[i] = e[i + 1]
  BY <1>1
<1>3. /\ routeEvents'[k] = Tail(e)
      /\ routeCache'[k] = e[1]
      /\ \A j \in RouteNames \ {k} : /\ routeEvents'[j] = routeEvents[j]
                                    /\ routeCache'[j] = routeCache[j]
      /\ UNCHANGED <<routes, revision, services>>
  BY <1>2 DEF Consistent, TypeOK, ClusterTypeOK
<1>4. CopiesSound'
  <2> SUFFICES ASSUME NEW j \in RouteNames
               PROVE  /\ Sound(j, routes[j], routes[j], revision[j])
                      /\ Sound(j, routeCache'[j], routes[j], revision[j])
                      /\ \A i \in 1..Len(routeEvents'[j]) :
                           Sound(j, routeEvents'[j][i], routes[j], revision[j])
    BY <1>3 DEF CopiesSound
  <2>1. /\ Sound(j, routes[j], routes[j], revision[j])
        /\ Sound(j, routeCache[j], routes[j], revision[j])
        /\ \A i \in 1..Len(routeEvents[j]) :
             Sound(j, routeEvents[j][i], routes[j], revision[j])
    BY DEF Consistent, CopiesSound
  <2>2. CASE j # k
    BY <1>3, <2>1, <2>2
  <2>3. CASE j = k
    <3>1. Sound(k, e[1], routes[k], revision[k])
      BY <1>2, <2>1, <2>3
    <3>2. ASSUME NEW i \in 1..Len(Tail(e))
          PROVE  Sound(k, Tail(e)[i], routes[k], revision[k])
      <4>1. i + 1 \in 1..Len(e) /\ Tail(e)[i] = e[i + 1]
        BY <1>2, <3>2
      <4> QED BY <2>1, <2>3, <4>1
    <3> QED BY <1>3, <2>1, <2>3, <3>1, <3>2
  <2> QED BY <2>2, <2>3
<1>5. WatchCoherent'
  <2> SUFFICES ASSUME NEW j \in RouteNames
               PROVE  IF routeEvents'[j] = <<>> THEN routeCache'[j] = routes[j]
                      ELSE routeEvents'[j][Len(routeEvents'[j])] = routes[j]
    BY <1>3 DEF WatchCoherent
  <2>1. CASE j # k
    BY <1>3, <2>1 DEF Consistent, WatchCoherent
  <2>2. CASE j = k
    <3>1. e[Len(e)] = routes[k]
      BY <1>1 DEF Consistent, WatchCoherent
    <3>2. CASE Tail(e) = <<>>
      <4>1. Len(e) = 1
        BY <1>1, <3>2, TailShape
      <4> QED BY <1>3, <2>2, <3>1, <3>2, <4>1
    <3>3. CASE Tail(e) # <<>>
      <4>1. Tail(e)[Len(Tail(e))] = e[Len(e)]
        BY <1>1, <3>3, TailShape
      <4> QED BY <1>3, <2>2, <3>1, <3>3, <4>1
    <3> QED BY <3>2, <3>3
  <2> QED BY <2>1, <2>2
<1>6. OwnersSound' /\ HeldSound'
  BY <1>3 DEF Consistent, OwnersSound, HeldSound
<1> QED BY <1>4, <1>5, <1>6

LEMMA DeliverSound ==
  ASSUME IInv, NEW k \in RouteNames, DeliverRoute(k), TypeOK'
  PROVE  IInv'
<1> USE DEF DeliverRoute, ReceiveRoute, workerVars
<1>1. CopiesSound' /\ WatchCoherent' /\ OwnersSound' /\ HeldSound'
  BY ReceiveSound DEF IInv, Consistent
<1>2. /\ k \in queue' /\ queue \subseteq queue'
      /\ UNCHANGED <<routes, resync, pc, route>>
      /\ \A j \in RouteNames \ {k} : routeEvents'[j] = routeEvents[j]
  BY DEF IInv, TypeOK, ClusterTypeOK
<1>3. FinalizedIsGone'
  <2>1. pc = "finalized" => route.name \in RouteNames
    BY DEF IInv, TypeOK, WorkerTypeOK, RouteOrAbsent, Routes
  <2> QED BY <1>2, <2>1 DEF IInv, FinalizedIsGone
<1>4. ResyncInterval > 0 => Remembered'
  <2>1. ASSUME ResyncInterval > 0, NEW j \in RouteNames, routes'[j] # Absent
        PROVE  WillBeReconciled(j)'
    BY <1>2, <2>1 DEF IInv, Remembered, WillBeReconciled
  <2> QED BY <2>1 DEF Remembered
<1> QED BY <1>1, <1>3, <1>4 DEF IInv

\* The worker takes a name: it holds the cached Route, or the route is gone.
LEMMA GetSound ==
  ASSUME IInv, NEW k \in RouteNames, Get(k), TypeOK'
  PROVE  IInv'
<1> USE DEF Get, clusterVars, routeVars, serviceVars
<1>1. CopiesSound' /\ OwnersSound' /\ WatchCoherent'
  BY NoRouteWriteSound DEF IInv, Consistent
<1>2. routeCache[k] # Absent => routeCache[k].name = k
  BY DEF IInv, CopiesSound, Sound
<1>3. HeldSound' /\ FinalizedIsGone'
  BY <1>2 DEF IInv, HeldSound, CopiesSound, FinalizedIsGone
<1>4. ResyncInterval > 0 => Remembered'
  <2>1. ASSUME ResyncInterval > 0, NEW j \in RouteNames, routes'[j] # Absent
        PROVE  WillBeReconciled(j)'
    <3>1. WillBeReconciled(j) /\ route = Absent
      BY <2>1 DEF IInv, Remembered, TypeOK, WorkerTypeOK
    <3>2. CASE j # k
      BY <3>1, <3>2 DEF WillBeReconciled
    <3>3. CASE j = k /\ routeCache[k] # Absent
      BY <1>2, <3>3 DEF WillBeReconciled
    <3>4. CASE j = k /\ routeCache[k] = Absent
      BY <2>1, <3>4 DEF IInv, WatchCoherent, WillBeReconciled
    <3> QED BY <3>2, <3>3, <3>4
  <2> QED BY <2>1 DEF Remembered
<1> QED BY <1>1, <1>3, <1>4 DEF IInv

\* The Route in hand may be stored with the finalizer added.
LEMMA FinalizerAdmissible ==
  ASSUME IInv, route \in Routes, route # Absent
  PROVE  Admissible(route.name, Stamped(route.name, [route EXCEPT !.finalizer = TRUE]),
                    routes[route.name], revision[route.name])
<1> DEFINE k == route.name
           r == Stamped(k, [route EXCEPT !.finalizer = TRUE])
<1>1. r.name = k /\ r.uid = route.uid /\ r.finalizer = TRUE
  BY DEF Stamped, Routes
<1>2. Sound(k, route, routes[k], revision[k])
  BY DEF IInv, HeldSound
<1>3. revision[k] \in Nat /\ route.uid \in Nat
  BY DEF IInv, TypeOK, ClusterTypeOK, Routes
<1> QED BY <1>1, <1>2, <1>3 DEF Admissible, Sound

\* The finalizer is stored, with the rest of the Route as the API has it.
LEMMA AddFinalizerSound ==
  ASSUME IInv, AddFinalizer, TypeOK'
  PROVE  IInv'
<1> DEFINE k == route.name
<1>0. pc = "addFinalizer" /\ route \in Routes /\ route # Absent /\ k \in RouteNames
  BY DEF AddFinalizer, IInv, TypeOK, WorkerTypeOK, RouteOrAbsent, Routes
<1>1. CASE /\ route' = Stamped(k, [route EXCEPT !.finalizer = TRUE])
           /\ PutRoute(k, route')
           /\ pc' = "listServices"
           /\ UNCHANGED <<queue, resync>>
  <2>1. /\ route'.name = k
        /\ route'.finalizer = TRUE
    BY <1>0, <1>1 DEF Stamped, Routes
  <2>2. route' \in RouteOrAbsent /\ route' # Absent
    BY <1>1 DEF TypeOK, WorkerTypeOK
  <2>5. Admissible(k, route', routes[k], revision[k])
    BY <1>0, <1>1, FinalizerAdmissible
  <2>6. CopiesSound' /\ OwnersSound' /\ WatchCoherent'
    BY <1>0, <1>1, <2>2, <2>5, PutRouteSound DEF AddFinalizer, IInv, TypeOK
  <2>7. /\ routes'[k] = route'
        /\ \A j \in RouteNames \ {k} : /\ routes'[j] = routes[j]
                                      /\ routeEvents'[j] = routeEvents[j]
    BY <1>0, <1>1 DEF PutRoute, IInv, TypeOK, ClusterTypeOK
  <2>8. HeldSound' /\ FinalizedIsGone'
    <3>1. Sound(k, routes'[k], routes'[k], revision'[k])
      BY <1>0, <2>6 DEF CopiesSound
    <3> QED BY <1>1, <2>1, <2>7, <3>1 DEF HeldSound, FinalizedIsGone
  <2>9. ResyncInterval > 0 => Remembered'
    <3>1. ASSUME ResyncInterval > 0, NEW j \in RouteNames, routes'[j] # Absent
          PROVE  WillBeReconciled(j)'
      <4>1. CASE j = k
        BY <2>1, <2>2, <4>1 DEF WillBeReconciled
      <4>2. CASE j # k
        BY <1>1, <2>7, <3>1, <4>2 DEF IInv, Remembered, WillBeReconciled
      <4> QED BY <4>1, <4>2
    <3> QED BY <3>1 DEF Remembered
  <2> QED BY <2>6, <2>8, <2>9 DEF IInv
<1>2. CASE Fail /\ UNCHANGED routeVars
  BY <1>0, <1>2, FailSound, NoRouteWriteSound
     DEF AddFinalizer, IInv, Consistent
<1> QED BY <1>1, <1>2 DEF AddFinalizer

\* The finalizer is removed, and with it the object.
LEMMA RemoveFinalizerSound ==
  ASSUME IInv, RemoveFinalizer, TypeOK'
  PROVE  IInv'
<1> DEFINE k == route.name
<1>0. pc = "removeFinalizer" /\ route \in Routes /\ route # Absent /\ k \in RouteNames
  BY DEF RemoveFinalizer, IInv, TypeOK, WorkerTypeOK, RouteOrAbsent, Routes
<1>1. CASE PutRoute(k, Absent) /\ Goto("finalized")
  <2>1. Admissible(k, Absent, routes[k], revision[k]) /\ Absent \in RouteOrAbsent
    BY DEF Admissible, RouteOrAbsent
  <2>2. /\ CopiesSound' /\ OwnersSound' /\ WatchCoherent'
        /\ \A j \in RouteNames, q \in RouteOrAbsent :
             Sound(j, q, routes[j], revision[j])
               => Sound(j, q, routes'[j], revision'[j])
    BY <1>0, <1>1, <2>1, PutRouteSound DEF RemoveFinalizer, IInv
  <2>3. UNCHANGED <<queue, resync, route>> /\ pc' = "finalized"
    BY <1>1 DEF Goto
  <2>4. /\ routes'[k] = Absent
        /\ \A j \in RouteNames \ {k} : /\ routes'[j] = routes[j]
                                      /\ routeEvents'[j] = routeEvents[j]
    BY <1>0, <1>1 DEF PutRoute, IInv, TypeOK, ClusterTypeOK
  <2>5. Sound(k, route, routes'[k], revision'[k])
    BY <1>0, <2>2 DEF IInv, HeldSound, RouteOrAbsent
  <2>6. HeldSound' /\ FinalizedIsGone'
    BY <2>3, <2>4, <2>5 DEF HeldSound, FinalizedIsGone
  <2>7. ResyncInterval > 0 => Remembered'
    <3>1. ASSUME ResyncInterval > 0, NEW j \in RouteNames, routes'[j] # Absent
          PROVE  WillBeReconciled(j)'
      BY <2>3, <2>4, <3>1 DEF IInv, Remembered, WillBeReconciled
    <3> QED BY <3>1 DEF Remembered
  <2> QED BY <2>2, <2>6, <2>7 DEF IInv
<1>2. CASE Fail /\ UNCHANGED routeVars
  BY <1>0, <1>2, FailSound, NoRouteWriteSound
     DEF RemoveFinalizer, IInv, Consistent
<1> QED BY <1>1, <1>2 DEF RemoveFinalizer

\* A Service is written for the Route in hand, whose finalizer is stored.
LEMMA ApplyServiceSound ==
  ASSUME IInv, ApplyService, TypeOK'
  PROVE  IInv'
<1> DEFINE built == BuildServices(route)[applied + 1]
<1>0. /\ pc = "services" /\ route \in Routes /\ route # Absent
      /\ route.name \in RouteNames /\ applied \in Nat
  BY DEF ApplyService, IInv, TypeOK, WorkerTypeOK, RouteOrAbsent, Routes
<1>1. CASE /\ UNCHANGED serviceVars \/ PutService(built.name, built.body)
           /\ UNCHANGED <<queue, resync, pc, route>>
  <2>1. CopiesSound' /\ WatchCoherent'
    BY DEF ApplyService, routeVars, IInv, CopiesSound, WatchCoherent
  <2>2. /\ built.name \in ServiceNames
        /\ built.body.owner = [name |-> route.name, uid |-> route.uid]
    <3>1. Len(route.spec.destinations) \in Nat
      BY <1>0, ClusterAssumption DEF Routes
    <3>2. applied + 1 \in 1..Len(route.spec.destinations)
      BY <1>0, <3>1 DEF ApplyService, ServicesPending
    <3> QED BY <1>0, <3>2, BuiltServiceType
  <2>3. OwnerSound([name |-> route.name, uid |-> route.uid],
                   routes[route.name], revision[route.name])
    BY <1>0 DEF IInv, HeldSound, Sound, OwnerSound
  <2>4. ASSUME NEW s \in ServiceNames, services'[s] # Absent
        PROVE  \/ services'[s] = services[s]
               \/ services'[s].owner = [name |-> route.name, uid |-> route.uid]
    BY <1>1, <2>2, <2>4 DEF PutService, serviceVars, IInv, TypeOK, ClusterTypeOK
  <2>5. OwnersSound'
    <3> SUFFICES ASSUME NEW s \in ServiceNames, services'[s] # Absent
                 PROVE  OwnerSound(services'[s].owner,
                                   routes[services'[s].owner.name],
                                   revision[services'[s].owner.name])
      BY DEF OwnersSound, ApplyService, routeVars
    <3> QED BY <2>3, <2>4 DEF IInv, OwnersSound
  <2>6. /\ HeldSound'
        /\ FinalizedIsGone'
        /\ ResyncInterval > 0 => Remembered'
    BY <1>0, <1>1, OnwardSound DEF ApplyService, IInv, HeldSound
  <2> QED BY <2>1, <2>5, <2>6 DEF IInv
<1>2. CASE Fail /\ UNCHANGED serviceVars
  BY <1>0, <1>2, FailSound, NoRouteWriteSound
     DEF ApplyService, IInv, Consistent
<1> QED BY <1>1, <1>2 DEF ApplyService

LEMMA InvariantStep ==
  ASSUME IInv, [Next]_vars
  PROVE  IInv'
<1> USE DEF clusterVars, workerVars
<1>0. TypeOK'
  BY TypeStep DEF IInv
<1>c. Consistent
  BY DEF IInv, Consistent
<1>1. ASSUME pc = "services"
      PROVE  /\ pc # "idle" /\ route # Absent /\ route.finalizer
             /\ "services" # "finalized"
  BY <1>1 DEF IInv, HeldSound, TypeOK, WorkerTypeOK
<1>2. ASSUME pc = "services", UNCHANGED <<routeVars, serviceVars>>,
             \/ Fail
             \/ Goto("succeeded")
             \/ Goto("removeFinalizer")
      PROVE  IInv'
  <2>1. CopiesSound' /\ OwnersSound' /\ WatchCoherent'
    BY <1>2, NoRouteWriteSound, <1>c
  <2>2. CASE Fail
    BY <1>0, <1>2, <2>1, <2>2, FailSound DEF IInv
  <2>3. CASE Goto("succeeded") \/ Goto("removeFinalizer")
    BY <1>0, <1>1, <1>2, <2>1, <2>3, OnwardSound DEF IInv, Goto
  <2> QED BY <1>2, <2>2, <2>3
<1>3. CASE Environment
  BY <1>0, <1>3, EnvironmentSound DEF IInv, Consistent
<1>4. ASSUME NEW k \in RouteNames, Get(k) PROVE IInv'
  BY <1>0, <1>4, GetSound
<1>5. ASSUME NEW k \in RouteNames, Resync(k) PROVE IInv'
  <2>1. CopiesSound' /\ OwnersSound' /\ WatchCoherent'
    BY <1>5, NoRouteWriteSound, <1>c DEF Resync
  <2>2. HeldSound' /\ FinalizedIsGone'
    BY <1>5 DEF Resync, routeVars, IInv, HeldSound, FinalizedIsGone
  <2>3. ResyncInterval > 0 => Remembered'
    BY <1>5 DEF Resync, routeVars, IInv, Remembered, WillBeReconciled
  <2> QED BY <1>0, <2>1, <2>2, <2>3 DEF IInv
<1>6. ASSUME NEW k \in RouteNames, DeliverRoute(k) PROVE IInv'
  BY <1>0, <1>6, DeliverSound
<1>7. CASE List
  <2>1. CopiesSound' /\ OwnersSound' /\ WatchCoherent'
    BY <1>7, NoRouteWriteSound, <1>c DEF List
  <2>2. route \in Routes /\ route # Absent /\ (route.deleting => route.finalizer)
    BY <1>7 DEF List, IInv, TypeOK, WorkerTypeOK, RouteOrAbsent, HeldSound, Sound
  <2>3. route.deleting \in BOOLEAN /\ route.finalizer \in BOOLEAN
    BY <2>2 DEF Routes
  <2>4. \/ pc' = "addFinalizer"
        \/ pc' = "listServices" /\ route.finalizer
    BY <1>7, <2>2, <2>3 DEF List, AfterList
  <2>5. /\ HeldSound'
        /\ FinalizedIsGone'
        /\ ResyncInterval > 0 => Remembered'
    BY <1>7, <2>4, OnwardSound DEF List
  <2> QED BY <1>0, <2>1, <2>5 DEF IInv
<1>8. CASE AddFinalizer
  BY <1>0, <1>8, AddFinalizerSound
<1>9. CASE ListServices \/ ListServicesToFinalize
  <2>1. CopiesSound' /\ OwnersSound' /\ WatchCoherent'
    BY <1>9, NoRouteWriteSound, <1>c DEF ListServices, ListServicesToFinalize
  <2>2. route.finalizer
    BY <1>9 DEF ListServices, ListServicesToFinalize, IInv, HeldSound, TypeOK, WorkerTypeOK
  <2>3. /\ HeldSound'
        /\ FinalizedIsGone'
        /\ ResyncInterval > 0 => Remembered'
    BY <1>9, <2>2, OnwardSound DEF ListServices, ListServicesToFinalize
  <2> QED BY <1>0, <2>1, <2>3 DEF IInv
<1>10. CASE ApplyService
  BY <1>0, <1>10, ApplyServiceSound
<1>11. ASSUME NEW s \in ServiceNames, DeleteService(s) PROVE IInv'
  <2>1. CopiesSound' /\ OwnersSound' /\ WatchCoherent'
    BY <1>11, NoRouteWriteSound, <1>c DEF DeleteService
  <2>2. CASE UNCHANGED <<queue, resync, pc, route>>
    BY <1>0, <1>1, <1>11, <2>1, <2>2, OnwardSound DEF DeleteService, IInv
  <2>3. CASE Fail
    BY <1>0, <1>11, <2>1, <2>3, FailSound DEF DeleteService, IInv
  <2> QED BY <1>11, <2>2, <2>3 DEF DeleteService
<1>12. CASE ApplyVirtualService
  BY <1>2, <1>12 DEF ApplyVirtualService, ServicesDone, reconcileVirtualServices
<1>13. CASE ShrinkVirtualService
  BY <1>2, <1>13 DEF ShrinkVirtualService, ServicesDone, reconcileVirtualServices
<1>14. CASE DeleteVirtualService
  BY <1>2, <1>14 DEF DeleteVirtualService, ServicesDone
<1>15. CASE RemoveFinalizer
  BY <1>0, <1>15, RemoveFinalizerSound
<1>16. CASE Succeed
  <2>1. CopiesSound' /\ OwnersSound' /\ WatchCoherent'
    BY <1>16, NoRouteWriteSound, <1>c DEF Succeed
  <2>2. HeldSound' /\ FinalizedIsGone'
    BY <1>16 DEF Succeed, Idle, HeldSound, FinalizedIsGone
  <2>3. ResyncInterval > 0 => Remembered'
    BY <1>16 DEF Succeed, Idle, routeVars, IInv, Remembered, WillBeReconciled
  <2> QED BY <1>0, <2>1, <2>2, <2>3 DEF IInv
<1>17. CASE Finalized
  <2>1. CopiesSound' /\ OwnersSound' /\ WatchCoherent'
    BY <1>17, NoRouteWriteSound, <1>c DEF Finalized
  <2>2. HeldSound' /\ FinalizedIsGone'
    BY <1>17 DEF Finalized, Idle, HeldSound, FinalizedIsGone
  <2>3. ResyncInterval > 0 => Remembered'
    BY <1>17 DEF Finalized, Idle, routeVars, IInv, FinalizedIsGone, Remembered,
                 WillBeReconciled
  <2> QED BY <1>0, <2>1, <2>2, <2>3 DEF IInv
<1>18. CASE Abort
  <2>1. CopiesSound' /\ OwnersSound' /\ WatchCoherent'
    BY <1>18, NoRouteWriteSound, <1>c DEF Abort
  <2> QED BY <1>0, <1>18, <2>1, FailSound DEF Abort, IInv
<1>19. CASE Crash
  <2>1. CopiesSound'
    BY <1>19 DEF Crash, Relist, IInv, CopiesSound
  <2>2. OwnersSound' /\ WatchCoherent'
    BY <1>19 DEF Crash, Relist, IInv, OwnersSound, WatchCoherent
  <2>3. HeldSound' /\ FinalizedIsGone' /\ Remembered'
    BY <1>19 DEF Crash, Relist, Idle, HeldSound, FinalizedIsGone, Remembered,
                 WillBeReconciled
  <2> QED BY <1>0, <2>1, <2>2, <2>3 DEF IInv
<1>20. ASSUME NEW k \in RouteNames, Redeliver(k) PROVE IInv'
  <2>1. CopiesSound' /\ OwnersSound' /\ WatchCoherent'
    BY <1>20, NoRouteWriteSound, <1>c DEF Redeliver
  <2>2. HeldSound' /\ FinalizedIsGone'
    BY <1>20 DEF Redeliver, routeVars, IInv, HeldSound, FinalizedIsGone
  <2>3. ResyncInterval > 0 => Remembered'
    BY <1>20 DEF Redeliver, routeVars, IInv, Remembered, WillBeReconciled
  <2> QED BY <1>0, <2>1, <2>2, <2>3 DEF IInv
<1>21. CASE UNCHANGED vars
  <2>1. CopiesSound' /\ OwnersSound' /\ WatchCoherent'
    BY <1>21, NoRouteWriteSound, <1>c DEF vars
  <2>2. HeldSound' /\ FinalizedIsGone'
    BY <1>21 DEF vars, routeVars, IInv, HeldSound, FinalizedIsGone
  <2>3. ResyncInterval > 0 => Remembered'
    BY <1>21 DEF vars, routeVars, IInv, Remembered, WillBeReconciled
  <2> QED BY <1>0, <2>1, <2>2, <2>3 DEF IInv
<1> QED BY <1>3, <1>4, <1>5, <1>6, <1>7, <1>8, <1>9, <1>10, <1>11, <1>12, <1>13,
          <1>14, <1>15, <1>16, <1>17, <1>18, <1>19, <1>20, <1>21 DEF Next, Reconcile

LEMMA InvariantInit == Init => IInv
<1> SUFFICES ASSUME Init PROVE IInv
  OBVIOUS
<1> USE DEF Init, ClusterInit
<1>1. TypeOK
  BY TypeInit
<1>2. CopiesSound
  <2>1. \A k \in RouteNames : routeEvents[k] = <<>> /\ Len(routeEvents[k]) = 0
    OBVIOUS
  <2> QED BY <2>1 DEF CopiesSound, Sound
<1>3. HeldSound /\ OwnersSound /\ WatchCoherent /\ FinalizedIsGone /\ Remembered
  BY DEF HeldSound, OwnersSound, WatchCoherent, FinalizedIsGone, Remembered
<1> QED BY <1>1, <1>2, <1>3 DEF IInv

LEMMA Invariance == Spec => []IInv
BY InvariantInit, InvariantStep, PTL DEF Spec

(***************************************************************************)
(* In every behaviour, a Service whose owner is in the API has an owner    *)
(* that carries the finalizer: reconcileServices never runs for a Route    *)
(* whose finalizer is not stored, however stale the cache.                 *)
(***************************************************************************)
THEOREM FinalizerGuards == Spec => []FinalizerGuardsServices
<1>1. IInv => FinalizerGuardsServices
  BY DEF IInv, OwnersSound, OwnerSound, FinalizerGuardsServices, Dangling
<1> QED BY <1>1, Invariance, PTL

(***************************************************************************)
(* In every behaviour with a positive ResyncInterval, each Route in the    *)
(* API is queued, timed, announced or in hand: no error path, early return *)
(* or crash of Reconcile loses one.                                        *)
(***************************************************************************)
THEOREM NothingForgotten == Spec => []NoRouteForgotten
<1>1. IInv => NoRouteForgotten
  BY DEF IInv, Remembered, NoRouteForgotten
<1> QED BY <1>1, Invariance, PTL

-----------------------------------------------------------------------------
(********************* What a second manager can observe *******************)

\* A step stores at most one Route, and one that may be stored there.
RouteWrite ==
  \/ UNCHANGED <<routes, revision>>
  \/ \E k \in RouteNames, r \in RouteOrAbsent :
       /\ routes' = [routes EXCEPT ![k] = r]
       /\ revision' = [revision EXCEPT ![k] = @ + 1]
       /\ Admissible(k, r, routes[k], revision[k])

LEMMA PutRouteIsWrite ==
  ASSUME NEW k \in RouteNames, NEW r \in RouteOrAbsent, PutRoute(k, r),
         Admissible(k, r, routes[k], revision[k])
  PROVE  RouteWrite
BY DEF RouteWrite, PutRoute

LEMMA StepIsRouteWrite ==
  ASSUME IInv, [Next]_vars
  PROVE  RouteWrite
<1> USE DEF clusterVars, routeVars
<1>1. ASSUME UNCHANGED <<routes, revision>> PROVE RouteWrite
  BY <1>1 DEF RouteWrite
<1>2. CASE Environment
  <2>1. ASSUME NEW k \in RouteNames,
               CreateRoute(k) \/ UpdateRoute(k) \/ DeleteRoute(k)
        PROVE  RouteWrite
    <3>1. PICK r \in RouteOrAbsent :
            PutRoute(k, r) /\ Admissible(k, r, routes[k], revision[k])
      BY <2>1, UserWriteAdmissible DEF IInv, Consistent
    <3> QED BY <3>1, PutRouteIsWrite
  <2>2. ASSUME NEW s \in ServiceNames,
               EvictService(s) \/ CollectService(s) \/ ReceiveService(s)
        PROVE  RouteWrite
    BY <1>1, <2>2 DEF EvictService, CollectService, ReceiveService
  <2>3. ASSUME NEW n \in VirtualServiceNames,
               EvictVirtualService(n) \/ CollectVirtualService(n)
                 \/ ReceiveVirtualService(n)
        PROVE  RouteWrite
    BY <1>1, <2>3
       DEF EvictVirtualService, CollectVirtualService, ReceiveVirtualService
  <2> QED BY <1>2, <2>1, <2>2, <2>3 DEF Environment, ClusterNext
<1>3. CASE AddFinalizer \/ RemoveFinalizer
  <2>1. route \in Routes /\ route # Absent /\ route.name \in RouteNames
    BY <1>3 DEF AddFinalizer, RemoveFinalizer, IInv, TypeOK, WorkerTypeOK,
                RouteOrAbsent, Routes
  <2> DEFINE k == route.name
             r == Stamped(k, [route EXCEPT !.finalizer = TRUE])
  <2>2. CASE PutRoute(k, r)
    <3>1. [route EXCEPT !.finalizer = TRUE] \in Routes
      BY <2>1 DEF Routes
    <3>2. r \in RouteOrAbsent
      BY <2>1, <3>1, StampedType DEF IInv, TypeOK, RouteOrAbsent
    <3> QED BY <2>1, <2>2, <3>2, FinalizerAdmissible, PutRouteIsWrite
  <2>3. CASE PutRoute(k, Absent)
    BY <2>1, <2>3, PutRouteIsWrite DEF Admissible, RouteOrAbsent
  <2> QED BY <1>1, <1>3, <2>2, <2>3 DEF AddFinalizer, RemoveFinalizer
<1>4. CASE \E k \in RouteNames : Get(k) \/ Resync(k) \/ Redeliver(k) \/ DeliverRoute(k)
  BY <1>1, <1>4 DEF Get, Resync, Redeliver, DeliverRoute, ReceiveRoute
<1>5. CASE List \/ ListServices \/ ListServicesToFinalize \/ Succeed \/ Finalized
  BY <1>1, <1>5 DEF List, ListServices, ListServicesToFinalize, Succeed, Finalized
<1>6. CASE ApplyService \/ \E s \in ServiceNames : DeleteService(s)
  BY <1>1, <1>6 DEF ApplyService, DeleteService
<1>7. CASE ApplyVirtualService \/ ShrinkVirtualService \/ DeleteVirtualService
  BY <1>1, <1>7 DEF ApplyVirtualService, ShrinkVirtualService, DeleteVirtualService
<1>8. CASE Abort \/ Crash \/ UNCHANGED vars
  BY <1>1, <1>8 DEF Abort, Crash, Relist, vars
<1> QED BY <1>2, <1>3, <1>4, <1>5, <1>6, <1>7, <1>8 DEF Next, Reconcile

\* A manager's watch of the Routes carries what a step of another one stores.
Observes ==
  routeEvents' = [k \in RouteNames |-> IF routes'[k] = routes[k] THEN routeEvents[k]
                                       ELSE Append(routeEvents[k], routes'[k])]

(***************************************************************************)
(* Nothing a manager relies on is disturbed by a write of somebody else,   *)
(* as long as the writer keeps the Services' owners sound: its own copies  *)
(* of the Route stay sound, and an event tells it of the change.           *)
(***************************************************************************)
LEMMA ObserverSound ==
  ASSUME Consistent, RouteWrite, Observes,
         UNCHANGED <<routeCache, queue, resync, workerVars>>,
         ClusterTypeOK', OwnersSound'
  PROVE  Consistent' /\ (Remembered => Remembered')
<1>0. UNCHANGED <<routeCache, queue, resync, pc, route, routeList, applied, condemned>>
  BY DEF workerVars
<1>1. TypeOK'
  BY <1>0 DEF Consistent, TypeOK, WorkerTypeOK
<1>2. ASSUME NEW j \in RouteNames
      PROVE  /\ routes[j] \in RouteOrAbsent /\ revision[j] \in Nat
             /\ routeEvents[j] \in Seq(RouteOrAbsent)
             /\ routeCache[j] \in RouteOrAbsent
             /\ routes'[j] \in RouteOrAbsent
  BY DEF Consistent, TypeOK, ClusterTypeOK
<1>3. ASSUME NEW j \in RouteNames
      PROVE  \/ routes'[j] = routes[j] /\ revision'[j] = revision[j]
             \/ /\ revision'[j] = revision[j] + 1
                /\ Admissible(j, routes'[j], routes[j], revision[j])
  <2>1. j \in DOMAIN routes /\ j \in DOMAIN revision
    BY DEF Consistent, TypeOK, ClusterTypeOK
  <2>2. CASE UNCHANGED <<routes, revision>>
    BY <2>2
  <2>3. ASSUME NEW k \in RouteNames, NEW r \in RouteOrAbsent,
               routes' = [routes EXCEPT ![k] = r],
               revision' = [revision EXCEPT ![k] = @ + 1],
               Admissible(k, r, routes[k], revision[k])
        PROVE  \/ routes'[j] = routes[j] /\ revision'[j] = revision[j]
               \/ /\ revision'[j] = revision[j] + 1
                  /\ Admissible(j, routes'[j], routes[j], revision[j])
    BY <2>1, <2>3
  <2> QED BY <2>2, <2>3 DEF RouteWrite
<1>4. ASSUME NEW j \in RouteNames, NEW q \in RouteOrAbsent,
             Sound(j, q, routes[j], revision[j])
      PROVE  Sound(j, q, routes'[j], revision'[j])
  BY <1>2, <1>3, <1>4, SoundAfterPut
<1>5. ASSUME NEW j \in RouteNames
      PROVE  Sound(j, routes'[j], routes'[j], revision'[j])
  <2>1. Sound(j, routes[j], routes[j], revision[j])
    BY DEF Consistent, CopiesSound
  <2> QED BY <1>2, <1>3, <2>1, SoundWhenStored
<1>6. ASSUME NEW j \in RouteNames
      PROVE  \/ routes'[j] = routes[j] /\ routeEvents'[j] = routeEvents[j]
             \/ routeEvents'[j] = Append(routeEvents[j], routes'[j])
  BY DEF Observes
<1>7. ASSUME NEW j \in RouteNames
      PROVE  /\ Append(routeEvents[j], routes'[j]) # <<>>
             /\ Append(routeEvents[j], routes'[j])[Len(Append(routeEvents[j], routes'[j]))]
                  = routes'[j]
  <2>1. routeEvents[j] \in Seq(RouteOrAbsent) /\ routes'[j] \in RouteOrAbsent
    BY <1>2
  <2> HIDE DEF RouteOrAbsent
  <2> QED BY ONLY <2>1, AppendNotEmpty, SMT
<1>8. CopiesSound'
  <2> SUFFICES ASSUME NEW j \in RouteNames
               PROVE  /\ Sound(j, routes'[j], routes'[j], revision'[j])
                      /\ Sound(j, routeCache'[j], routes'[j], revision'[j])
                      /\ \A i \in 1..Len(routeEvents'[j]) :
                           Sound(j, routeEvents'[j][i], routes'[j], revision'[j])
    BY DEF CopiesSound
  <2>1. Sound(j, routeCache'[j], routes'[j], revision'[j])
    BY <1>0, <1>2, <1>4 DEF Consistent, CopiesSound
  <2>2. ASSUME NEW i \in 1..Len(routeEvents'[j])
        PROVE  Sound(j, routeEvents'[j][i], routes'[j], revision'[j])
    <3>1. CASE i \in 1..Len(routeEvents[j])
      <4>1. routeEvents'[j][i] = routeEvents[j][i]
        BY <1>2, <1>6, <3>1
      <4>2. routeEvents[j][i] \in RouteOrAbsent
        BY <1>2, <3>1
      <4>3. Sound(j, routeEvents[j][i], routes[j], revision[j])
        BY <3>1 DEF Consistent, CopiesSound
      <4> QED BY <1>4, <4>1, <4>2, <4>3
    <3>2. CASE i \notin 1..Len(routeEvents[j])
      <4>1. routeEvents'[j][i] = routes'[j]
        BY <1>2, <1>6, <3>2
      <4> QED BY <1>5, <4>1
    <3> QED BY <3>1, <3>2
  <2> QED BY <1>5, <2>1, <2>2
<1>9. WatchCoherent'
  <2> SUFFICES ASSUME NEW j \in RouteNames
               PROVE  IF routeEvents'[j] = <<>> THEN routeCache'[j] = routes'[j]
                      ELSE routeEvents'[j][Len(routeEvents'[j])] = routes'[j]
    BY DEF WatchCoherent
  <2> QED BY <1>0, <1>6, <1>7 DEF Consistent, WatchCoherent
<1>10. route # Absent => route \in RouteOrAbsent /\ route.name \in RouteNames
  BY DEF Consistent, TypeOK, WorkerTypeOK, RouteOrAbsent, Routes
<1>11. HeldSound'
  <2> SUFFICES ASSUME route # Absent
               PROVE  Sound(route.name, route, routes'[route.name], revision'[route.name])
    BY <1>0 DEF Consistent, HeldSound
  <2>1. Sound(route.name, route, routes[route.name], revision[route.name])
    BY DEF Consistent, HeldSound
  <2> QED BY <1>4, <1>10, <2>1
<1>12. FinalizedIsGone'
  <2>1. pc = "finalized" => route.name \in RouteNames
    BY <1>10 DEF Consistent, TypeOK, WorkerTypeOK
  <2> QED BY <1>0, <1>6, <1>7, <2>1 DEF Consistent, FinalizedIsGone
<1>13. Remembered => Remembered'
  <2>1. ASSUME Remembered, NEW j \in RouteNames, routes'[j] # Absent
        PROVE  WillBeReconciled(j)'
    BY <1>0, <1>6, <1>7, <2>1 DEF Remembered, WillBeReconciled
  <2> QED BY <2>1 DEF Remembered
<1> QED BY <1>1, <1>8, <1>9, <1>11, <1>12, <1>13 DEF Consistent

LEMMA ConsistentStutter ==
  ASSUME Consistent, UNCHANGED vars
  PROVE  Consistent' /\ (Remembered => Remembered')
<1> USE DEF vars, clusterVars, routeVars, serviceVars, vsVars, workerVars
<1>1. TypeOK'
  BY DEF Consistent, TypeOK, ClusterTypeOK, WorkerTypeOK
<1>2. CopiesSound' /\ OwnersSound' /\ WatchCoherent'
  BY NoRouteWriteSound
<1>3. HeldSound' /\ FinalizedIsGone'
  BY DEF Consistent, HeldSound, FinalizedIsGone
<1>4. Remembered => Remembered'
  BY DEF Remembered, WillBeReconciled
<1> QED BY <1>1, <1>2, <1>3, <1>4 DEF Consistent

-----------------------------------------------------------------------------
(************************ The copies of a Route ****************************)

(***************************************************************************)
(* What the copies of a Route have to do with each other: the one in the   *)
(* API, those on their way to the cache, the cached one and the one in the *)
(* worker's hand.  ChildrenProofs builds on it.                            *)
(***************************************************************************)

\* The copies of route k that the manager has or will get: first the cached
\* one, then those of the watch stream; the last one is in the API.
Positions(k) == 0..Len(routeEvents[k])

View(k, i) == IF i = 0 THEN routeCache[k] ELSE routeEvents[k][i]

(***************************************************************************)
(* What holds of every copy c of route k, when the API has "stored" under  *)
(* that name and has given out "rev" resourceVersions: the same            *)
(* incarnation is still under the same FQDN, a deletion is not taken back, *)
(* and the same resourceVersion means the same object.                     *)
(***************************************************************************)
Past(k, c, stored, rev) ==
  c # Absent =>
    /\ c.spec \in SpecsOf[k]
    /\ c.version <= rev
    /\ stored # Absent /\ stored.uid = c.uid =>
         /\ FQDN(stored) = FQDN(c)
         /\ c.deleting => stored.deleting
    /\ stored # Absent /\ stored.version = c.version => c = stored

(***************************************************************************)
(* A copy with the finalizer and without a deletion is of a Route that is  *)
(* still in the API: to finalize it, the worker would have had to read a   *)
(* later copy, and it reads them in order.                                 *)
(***************************************************************************)
Alive(c, stored) ==
  c # Absent /\ c.finalizer /\ ~ c.deleting
    => stored # Absent /\ stored.uid = c.uid

\* A later copy d of the same incarnation is marked if an earlier one is.
Marked(c, d) ==
  c # Absent /\ d # Absent /\ c.uid = d.uid /\ c.deleting => d.deleting

\* After a copy of the incarnation in the API come only copies of that one.
Continues(c, d, stored) ==
  c # Absent /\ stored # Absent /\ stored.uid = c.uid
    => d # Absent /\ d.uid = c.uid

ViewsPast ==
  \A k \in RouteNames : \A i \in Positions(k) :
    /\ Past(k, View(k, i), routes[k], revision[k])
    /\ Alive(View(k, i), routes[k])

ViewsOrdered ==
  \A k \in RouteNames : \A i, j \in Positions(k) :
    i < j => /\ Marked(View(k, i), View(k, j))
             /\ Continues(View(k, i), View(k, j), routes[k])

HeldPast ==
  route # Absent =>
    /\ Past(route.name, route, routes[route.name], revision[route.name])
    /\ Alive(route, routes[route.name])
    /\ \A i \in Positions(route.name) : Marked(route, View(route.name, i))

\* What Reconcile has found out about the Route in hand on its way.
WayTaken ==
  /\ pc = "addFinalizer" => ~ route.deleting /\ ~ route.finalizer
  /\ pc = "removeFinalizer" => route.deleting

HInv ==
  /\ IInv
  /\ ViewsPast
  /\ ViewsOrdered
  /\ HeldPast
  /\ WayTaken

-----------------------------------------------------------------------------
(****************************** Copies and views ***************************)

LEMMA ViewType ==
  ASSUME TypeOK, NEW k \in RouteNames, NEW i \in Positions(k)
  PROVE  View(k, i) \in RouteOrAbsent
<1>1. /\ routeCache[k] \in RouteOrAbsent
      /\ routeEvents[k] \in Seq(RouteOrAbsent)
      /\ Len(routeEvents[k]) \in Nat
  BY DEF TypeOK, ClusterTypeOK
<1>2. i # 0 => i \in 1..Len(routeEvents[k])
  BY <1>1 DEF Positions
<1>3. i # 0 => routeEvents[k][i] \in RouteOrAbsent
  BY <1>1, <1>2
<1> QED BY <1>1, <1>3 DEF View

\* The last copy on its way is the one in the API.
LEMMA LastView ==
  ASSUME TypeOK, WatchCoherent, NEW k \in RouteNames
  PROVE  /\ Len(routeEvents[k]) \in Positions(k)
         /\ View(k, Len(routeEvents[k])) = routes[k]
<1>1. routeEvents[k] \in Seq(RouteOrAbsent) /\ Len(routeEvents[k]) \in Nat
  BY DEF TypeOK, ClusterTypeOK
<1>2. routeEvents[k] = <<>> <=> Len(routeEvents[k]) = 0
  BY <1>1, EmptySeq
<1> QED BY <1>1, <1>2 DEF WatchCoherent, View, Positions

LEMMA ViewSound ==
  ASSUME IInv, NEW k \in RouteNames, NEW i \in Positions(k)
  PROVE  Sound(k, View(k, i), routes[k], revision[k])
<1>1. Len(routeEvents[k]) \in Nat
  BY DEF IInv, TypeOK, ClusterTypeOK
<1>2. i = 0 \/ i \in 1..Len(routeEvents[k])
  BY <1>1 DEF Positions
<1> QED BY <1>2 DEF IInv, CopiesSound, View

\* A write appends one copy to the views of its name.
LEMMA PutViews ==
  ASSUME TypeOK, NEW k \in RouteNames, NEW r \in RouteOrAbsent, PutRoute(k, r)
  PROVE  /\ \A j \in RouteNames \ {k} :
              /\ routes'[j] = routes[j] /\ revision'[j] = revision[j]
              /\ Positions(j)' = Positions(j)
              /\ \A i \in Positions(j) : View(j, i)' = View(j, i)
         /\ routes'[k] = r /\ revision'[k] = revision[k] + 1
         /\ Positions(k) \subseteq Positions(k)'
         /\ \A i \in Positions(k) : View(k, i)' = View(k, i)
         /\ \A m \in Positions(k)' \ Positions(k) :
              View(k, m)' = r /\ \A i \in Positions(k)' : i <= m
<1> DEFINE e == routeEvents[k]
<1>1. /\ e \in Seq(RouteOrAbsent) /\ Len(e) \in Nat
      /\ routeEvents'[k] = Append(e, r)
      /\ routeCache' = routeCache
      /\ routes'[k] = r /\ revision'[k] = revision[k] + 1
      /\ \A j \in RouteNames \ {k} : /\ routeEvents'[j] = routeEvents[j]
                                    /\ routes'[j] = routes[j]
                                    /\ revision'[j] = revision[j]
  BY DEF TypeOK, ClusterTypeOK, PutRoute
<1>2. /\ Len(Append(e, r)) = Len(e) + 1
      /\ Append(e, r)[Len(e) + 1] = r
      /\ \A i \in 1..Len(e) : Append(e, r)[i] = e[i]
  BY <1>1
<1>3. ASSUME NEW j \in RouteNames \ {k}
      PROVE  /\ Positions(j)' = Positions(j)
             /\ \A i \in Positions(j) : View(j, i)' = View(j, i)
  BY <1>1 DEF Positions, View
<1>4. Positions(k) = 0..Len(e) /\ Positions(k)' = 0..(Len(e) + 1)
  BY <1>1, <1>2 DEF Positions
<1>5. ASSUME NEW i \in Positions(k)
      PROVE  View(k, i)' = View(k, i)
  <2>1. i = 0 \/ i \in 1..Len(e)
    BY <1>1 DEF Positions
  <2> QED BY <1>1, <1>2, <2>1 DEF View
<1>6. ASSUME NEW m \in Positions(k)' \ Positions(k)
      PROVE  View(k, m)' = r /\ \A i \in Positions(k)' : i <= m
  <2>1. m = Len(e) + 1
    BY <1>1, <1>4
  <2>2. View(k, m)' = Append(e, r)[m]
    BY <1>1, <2>1 DEF View
  <2> QED BY <1>1, <1>2, <1>4, <2>1, <2>2
<1> QED BY <1>1, <1>3, <1>4, <1>5, <1>6

\* A delivery moves the views of its name up by one.
LEMMA DeliverViews ==
  ASSUME TypeOK, NEW k \in RouteNames, ReceiveRoute(k)
  PROVE  /\ UNCHANGED <<routes, revision>>
         /\ \A j \in RouteNames \ {k} :
              /\ Positions(j)' = Positions(j)
              /\ \A i \in Positions(j) : View(j, i)' = View(j, i)
         /\ \A i \in Positions(k)' : /\ i + 1 \in Positions(k)
                                    /\ View(k, i)' = View(k, i + 1)
<1> DEFINE e == routeEvents[k]
<1>1. e \in Seq(RouteOrAbsent) /\ e # <<>>
  BY DEF TypeOK, ClusterTypeOK, ReceiveRoute
<1>2. /\ Len(e) \in Nat \ {0}
      /\ Head(e) = e[1]
      /\ Len(Tail(e)) = Len(e) - 1
      /\ \A i \in 1..Len(Tail(e)) : Tail(e)[i] = e[i + 1]
  BY <1>1
<1>3. /\ routeEvents'[k] = Tail(e)
      /\ routeCache'[k] = e[1]
      /\ \A j \in RouteNames \ {k} : /\ routeEvents'[j] = routeEvents[j]
                                    /\ routeCache'[j] = routeCache[j]
      /\ UNCHANGED <<routes, revision>>
  BY <1>2 DEF TypeOK, ClusterTypeOK, ReceiveRoute
<1>4. ASSUME NEW j \in RouteNames \ {k}
      PROVE  /\ Positions(j)' = Positions(j)
             /\ \A i \in Positions(j) : View(j, i)' = View(j, i)
  BY <1>3 DEF Positions, View
<1>5. ASSUME NEW i \in Positions(k)'
      PROVE  /\ i + 1 \in Positions(k)
             /\ View(k, i)' = View(k, i + 1)
  <2>1. i \in 0..(Len(e) - 1)
    BY <1>2, <1>3 DEF Positions
  <2>2. i = 0 \/ i \in 1..Len(Tail(e))
    BY <1>2, <2>1
  <2>3. View(k, i + 1) = e[i + 1]
    BY <2>1 DEF View
  <2>4. View(k, i)' = e[i + 1]
    BY <1>2, <1>3, <2>2 DEF View
  <2> QED BY <1>2, <2>1, <2>3, <2>4 DEF Positions
<1> QED BY <1>3, <1>4, <1>5

-----------------------------------------------------------------------------
(********************************* Writes **********************************)

\* What may be stored after "old": another state of the same incarnation, or
\* the first of a new one.
Succeeds(k, new, old, rev) ==
  new # Absent =>
    /\ new.spec \in SpecsOf[k]
    /\ new.version = rev + 1
    /\ \/ old = Absent /\ new.uid = rev + 1
       \/ /\ old # Absent
          /\ new.uid = old.uid
          /\ FQDN(new) = FQDN(old)
          /\ old.deleting => new.deleting

\* A copy that shows a route guarded and not marked.
Unmarked(c) == c # Absent /\ c.finalizer /\ ~ c.deleting

LEMMA PastAfterPut ==
  ASSUME NEW k, NEW c \in RouteOrAbsent, NEW old \in RouteOrAbsent,
         NEW new \in RouteOrAbsent, NEW rev \in Nat,
         Sound(k, c, old, rev), Past(k, c, old, rev), Succeeds(k, new, old, rev)
  PROVE  Past(k, c, new, rev + 1) /\ Marked(c, new)
<1>1. c # Absent => c.uid \in Nat /\ c.version \in Nat
  BY DEF RouteOrAbsent, Routes
<1> QED BY <1>1 DEF Sound, Past, Succeeds, Marked

LEMMA AliveAfterPut ==
  ASSUME NEW k, NEW c \in RouteOrAbsent, NEW old \in RouteOrAbsent,
         NEW new \in RouteOrAbsent, NEW rev,
         Alive(c, old), Succeeds(k, new, old, rev), new = Absent => ~ Unmarked(c)
  PROVE  Alive(c, new)
BY DEF Alive, Succeeds, Unmarked

LEMMA ContinuesAfterPut ==
  ASSUME NEW k, NEW c \in RouteOrAbsent, NEW d, NEW old \in RouteOrAbsent,
         NEW new \in RouteOrAbsent, NEW rev \in Nat,
         Sound(k, c, old, rev), Continues(c, d, old), Succeeds(k, new, old, rev)
  PROVE  Continues(c, d, new)
<1>1. c # Absent => c.uid \in Nat
  BY DEF RouteOrAbsent, Routes
<1> QED BY <1>1 DEF Sound, Continues, Succeeds

\* What is stored is itself a sound copy.
LEMMA StoredPast ==
  ASSUME NEW k, NEW old, NEW new \in RouteOrAbsent, NEW rev \in Nat,
         Succeeds(k, new, old, rev)
  PROVE  /\ Past(k, new, new, rev + 1)
         /\ Alive(new, new)
BY DEF Past, Alive, Succeeds

LEMMA PutRouteHistory ==
  ASSUME HInv, NEW k \in RouteNames, NEW r \in RouteOrAbsent, PutRoute(k, r),
         Succeeds(k, r, routes[k], revision[k]),
         r = Absent => \A i \in Positions(k) : ~ Unmarked(View(k, i))
  PROVE  ViewsPast' /\ ViewsOrdered'
<1>0. TypeOK /\ routes[k] \in RouteOrAbsent /\ revision[k] \in Nat
  BY DEF HInv, IInv, TypeOK, ClusterTypeOK
<1>1. /\ \A j \in RouteNames \ {k} :
           /\ routes'[j] = routes[j] /\ revision'[j] = revision[j]
           /\ Positions(j)' = Positions(j)
           /\ \A i \in Positions(j) : View(j, i)' = View(j, i)
      /\ routes'[k] = r /\ revision'[k] = revision[k] + 1
      /\ Positions(k) \subseteq Positions(k)'
      /\ \A i \in Positions(k) : View(k, i)' = View(k, i)
      /\ \A m \in Positions(k)' \ Positions(k) :
           View(k, m)' = r /\ \A i \in Positions(k)' : i <= m
  BY <1>0, PutViews
<1>2. ASSUME NEW i \in Positions(k)
      PROVE  /\ View(k, i) \in RouteOrAbsent
             /\ Sound(k, View(k, i), routes[k], revision[k])
             /\ Past(k, View(k, i), routes[k], revision[k])
             /\ Alive(View(k, i), routes[k])
  BY <1>0, ViewType, ViewSound DEF HInv, ViewsPast
<1>3. ASSUME NEW i \in Positions(k)
      PROVE  /\ Past(k, View(k, i), r, revision[k] + 1)
             /\ Marked(View(k, i), r)
             /\ Alive(View(k, i), r)
  BY <1>0, <1>2, PastAfterPut, AliveAfterPut
<1>4. Past(k, r, r, revision[k] + 1) /\ Alive(r, r)
  BY <1>0, StoredPast
<1>5. ViewsPast'
  <2> SUFFICES ASSUME NEW j \in RouteNames, NEW i \in Positions(j)'
               PROVE  /\ Past(j, View(j, i)', routes'[j], revision'[j])
                      /\ Alive(View(j, i)', routes'[j])
    BY DEF ViewsPast
  <2>1. CASE j # k
    BY <1>1, <2>1 DEF HInv, ViewsPast
  <2>2. CASE j = k /\ i \in Positions(k)
    BY <1>1, <1>3, <2>2
  <2>3. CASE j = k /\ i \notin Positions(k)
    BY <1>1, <1>4, <2>3
  <2> QED BY <1>1, <2>1, <2>2, <2>3
<1>6. ViewsOrdered'
  <2> SUFFICES ASSUME NEW j \in RouteNames, NEW i \in Positions(j)',
                      NEW m \in Positions(j)', i < m
               PROVE  /\ Marked(View(j, i)', View(j, m)')
                      /\ Continues(View(j, i)', View(j, m)', routes'[j])
    BY DEF ViewsOrdered
  <2>1. CASE j # k
    BY <1>1, <2>1 DEF HInv, ViewsOrdered
  <2>2. CASE j = k /\ m \in Positions(k)
    <3>1. i \in Positions(k)
      <4>1. i \in Nat /\ m \in Nat
        BY <2>2 DEF Positions
      <4>2. i \notin Positions(k) => m <= i
        BY <1>1, <2>2
      <4> QED BY <4>1, <4>2
    <3>2. /\ Marked(View(k, i), View(k, m))
          /\ Continues(View(k, i), View(k, m), routes[k])
      BY <2>2, <3>1 DEF HInv, ViewsOrdered
    <3>3. Continues(View(k, i), View(k, m), r)
      BY <1>0, <1>2, <3>1, <3>2, ContinuesAfterPut
    <3> QED BY <1>1, <2>2, <3>1, <3>2, <3>3
  <2>3. CASE j = k /\ m \notin Positions(k)
    <3>1. i \in Positions(k)
      <4>1. i \in Nat /\ m \in Nat
        BY <2>3 DEF Positions
      <4>2. i \notin Positions(k) => m <= i
        BY <1>1, <2>3
      <4> QED BY <4>1, <4>2
    <3>2. Continues(View(k, i), r, r)
      BY DEF Continues
    <3>3. View(k, i)' = View(k, i) /\ View(k, m)' = r
      BY <1>1, <2>3, <3>1
    <3> QED BY <1>1, <1>3, <2>3, <3>1, <3>2, <3>3
  <2> QED BY <1>1, <2>1, <2>2, <2>3
<1> QED BY <1>5, <1>6


\* What a write means for a Route in hand that the step leaves there.
LEMMA PutHeldHistory ==
  ASSUME HInv, NEW k \in RouteNames, NEW r \in RouteOrAbsent, PutRoute(k, r),
         Succeeds(k, r, routes[k], revision[k]), route' = route,
         r = Absent /\ route # Absent /\ route.name = k => ~ Unmarked(route)
  PROVE  HeldPast'
<1> SUFFICES ASSUME route # Absent
             PROVE  HeldPast'
  BY DEF HeldPast
<1> DEFINE h == route.name
<1>0. /\ TypeOK /\ route \in RouteOrAbsent /\ h \in RouteNames
      /\ routes[k] \in RouteOrAbsent /\ revision[k] \in Nat
  BY DEF HInv, IInv, TypeOK, ClusterTypeOK, WorkerTypeOK, RouteOrAbsent, Routes
<1>1. /\ Sound(h, route, routes[h], revision[h])
      /\ Past(h, route, routes[h], revision[h])
      /\ Alive(route, routes[h])
      /\ \A i \in Positions(h) : Marked(route, View(h, i))
  BY DEF HInv, IInv, HeldSound, HeldPast
<1>2. /\ \A j \in RouteNames \ {k} :
           /\ routes'[j] = routes[j] /\ revision'[j] = revision[j]
           /\ Positions(j)' = Positions(j)
           /\ \A i \in Positions(j) : View(j, i)' = View(j, i)
      /\ routes'[k] = r /\ revision'[k] = revision[k] + 1
      /\ Positions(k) \subseteq Positions(k)'
      /\ \A i \in Positions(k) : View(k, i)' = View(k, i)
      /\ \A m \in Positions(k)' \ Positions(k) :
           View(k, m)' = r /\ \A i \in Positions(k)' : i <= m
  BY <1>0, PutViews
<1> SUFFICES /\ Past(h, route, routes'[h], revision'[h])
             /\ Alive(route, routes'[h])
             /\ \A i \in Positions(h)' : Marked(route, View(h, i)')
  BY DEF HeldPast
<1>3. CASE h # k
  BY <1>0, <1>1, <1>2, <1>3
<1>4. CASE h = k
  <2>1. Past(k, route, r, revision[k] + 1) /\ Marked(route, r)
    BY <1>0, <1>1, <1>4, PastAfterPut
  <2>2. Alive(route, r)
    BY <1>0, <1>1, <1>4, AliveAfterPut
  <2>3. ASSUME NEW i \in Positions(k)'
        PROVE  Marked(route, View(k, i)')
    BY <1>1, <1>2, <1>4, <2>1
  <2> QED BY <1>2, <1>4, <2>1, <2>2, <2>3
<1> QED BY <1>3, <1>4

\* A step that neither writes a Route nor delivers one.
LEMMA QuietHistory ==
  ASSUME HInv, UNCHANGED routeVars
  PROVE  /\ ViewsPast' /\ ViewsOrdered'
         /\ route' = route \/ route' = Absent => HeldPast'
<1> USE DEF HInv, routeVars, Positions, View
<1>1. ViewsPast'
  BY DEF ViewsPast
<1>2. ViewsOrdered'
  BY DEF ViewsOrdered
<1>3. route' = route \/ route' = Absent => HeldPast'
  BY DEF HeldPast
<1> QED BY <1>1, <1>2, <1>3

\* Cloud Controller stores successors, and removes only what has no finalizer.
LEMMA UserWrite ==
  ASSUME HInv, NEW k \in RouteNames,
         CreateRoute(k) \/ UpdateRoute(k) \/ DeleteRoute(k)
  PROVE  \E r \in RouteOrAbsent :
           /\ PutRoute(k, r)
           /\ Succeeds(k, r, routes[k], revision[k])
           /\ r = Absent => routes[k] # Absent /\ ~ routes[k].finalizer
<1>0. /\ routes[k] \in RouteOrAbsent /\ revision[k] \in Nat
      /\ Past(k, routes[k], routes[k], revision[k])
      /\ TypeOK
  <2>1. Past(k, routes[k], routes[k], revision[k])
    BY LastView DEF HInv, IInv, ViewsPast
  <2> QED BY <2>1 DEF HInv, IInv, TypeOK, ClusterTypeOK
<1>1. CASE CreateRoute(k)
  <2>1. PICK spec \in SpecsOf[k] : PutRoute(k, NewRoute(k, spec))
    BY <1>1 DEF CreateRoute
  <2> DEFINE r == NewRoute(k, spec)
  <2>2. r \in RouteOrAbsent /\ r # Absent
    <3>1. revision[k] + 1 \in Nat
      BY <1>0
    <3>2. r \in Routes
      BY <3>1 DEF NewRoute, Routes, Specs
    <3> QED BY <3>2, AbsentIsNoObject DEF RouteOrAbsent
  <2>3. Succeeds(k, r, routes[k], revision[k])
    BY <1>1 DEF Succeeds, NewRoute, CreateRoute
  <2> HIDE DEF r
  <2> QED BY <2>1, <2>2, <2>3 DEF r
<1>2. CASE UpdateRoute(k)
  <2>1. PICK spec \in SpecsOf[k] :
          /\ HostName(spec) = FQDN(routes[k])
          /\ PutRoute(k, Stamped(k, [routes[k] EXCEPT !.spec = spec]))
    BY <1>2 DEF UpdateRoute
  <2> DEFINE r == Stamped(k, [routes[k] EXCEPT !.spec = spec])
  <2>2. routes[k] \in Routes /\ spec \in Specs /\ routes[k] # Absent
    BY <1>0, <1>2 DEF UpdateRoute, RouteOrAbsent, Specs
  <2>3. [routes[k] EXCEPT !.spec = spec] \in Routes
    BY <2>2 DEF Routes
  <2>4. r \in RouteOrAbsent /\ r # Absent
    BY <1>0, <2>3, StampedType, AbsentIsNoObject DEF TypeOK, RouteOrAbsent
  <2>5. /\ r.uid = routes[k].uid
        /\ r.spec = spec
        /\ r.version = revision[k] + 1
        /\ r.deleting = routes[k].deleting
    BY <2>2 DEF Stamped, Routes
  <2>6. Succeeds(k, r, routes[k], revision[k])
    BY <2>1, <2>2, <2>5 DEF Succeeds, FQDN, HostName
  <2> HIDE DEF r
  <2> QED BY <2>1, <2>4, <2>6 DEF r
<1>3. CASE DeleteRoute(k)
  <2> DEFINE marked == Stamped(k, [routes[k] EXCEPT !.deleting = TRUE])
             r == IF routes[k].finalizer THEN marked ELSE Absent
  <2>1. routes[k] \in Routes /\ routes[k] # Absent /\ PutRoute(k, r)
    BY <1>0, <1>3 DEF DeleteRoute, RouteOrAbsent
  <2>2. [routes[k] EXCEPT !.deleting = TRUE] \in Routes
    BY <2>1 DEF Routes
  <2>3. marked \in RouteOrAbsent /\ marked # Absent
    BY <1>0, <2>2, StampedType, AbsentIsNoObject DEF TypeOK, RouteOrAbsent
  <2>4. r \in RouteOrAbsent
    BY <2>3 DEF RouteOrAbsent
  <2>5. /\ marked.uid = routes[k].uid
        /\ marked.spec = routes[k].spec
        /\ marked.version = revision[k] + 1
        /\ marked.deleting
    BY <2>1 DEF Stamped, Routes
  <2>6. Succeeds(k, r, routes[k], revision[k])
    BY <1>0, <2>1, <2>5 DEF Succeeds, FQDN, Past
  <2>7. r = Absent => ~ routes[k].finalizer
    BY <2>3
  <2> HIDE DEF r
  <2> QED BY <2>1, <2>4, <2>6, <2>7
<1> QED BY <1>1, <1>2, <1>3

LEMMA UserHistory ==
  ASSUME HInv, NEW k \in RouteNames, UNCHANGED <<route, pc>>,
         CreateRoute(k) \/ UpdateRoute(k) \/ DeleteRoute(k)
  PROVE  ViewsPast' /\ ViewsOrdered' /\ HeldPast'
<1>1. PICK r \in RouteOrAbsent :
        /\ PutRoute(k, r)
        /\ Succeeds(k, r, routes[k], revision[k])
        /\ r = Absent => routes[k] # Absent /\ ~ routes[k].finalizer
  BY UserWrite
<1>2. ASSUME r = Absent, NEW c, Sound(k, c, routes[k], revision[k]),
             Alive(c, routes[k])
      PROVE  ~ Unmarked(c)
  BY <1>1, <1>2 DEF Sound, Alive, Unmarked
<1>3. r = Absent => \A i \in Positions(k) : ~ Unmarked(View(k, i))
  BY <1>2, ViewSound DEF HInv, ViewsPast
<1>4. r = Absent /\ route # Absent /\ route.name = k => ~ Unmarked(route)
  BY <1>2 DEF HInv, IInv, HeldSound, HeldPast
<1> QED BY <1>1, <1>3, <1>4, PutRouteHistory, PutHeldHistory


-----------------------------------------------------------------------------
(******************************* The worker ********************************)

\* A delivery takes the first copy out of the views and keeps their order.
LEMMA DeliverHistory ==
  ASSUME HInv, NEW k \in RouteNames, DeliverRoute(k)
  PROVE  ViewsPast' /\ ViewsOrdered' /\ HeldPast'
<1>0. TypeOK /\ ReceiveRoute(k) /\ route' = route
  BY DEF HInv, IInv, DeliverRoute, workerVars
<1>1. /\ UNCHANGED <<routes, revision>>
      /\ \A j \in RouteNames \ {k} :
           /\ Positions(j)' = Positions(j)
           /\ \A i \in Positions(j) : View(j, i)' = View(j, i)
      /\ \A i \in Positions(k)' : /\ i + 1 \in Positions(k)
                                 /\ View(k, i)' = View(k, i + 1)
  BY <1>0, DeliverViews
<1>2. ViewsPast'
  <2> SUFFICES ASSUME NEW j \in RouteNames, NEW i \in Positions(j)'
               PROVE  /\ Past(j, View(j, i)', routes[j], revision[j])
                      /\ Alive(View(j, i)', routes[j])
    BY <1>1 DEF ViewsPast
  <2>1. \E m \in Positions(j) : View(j, i)' = View(j, m)
    BY <1>1
  <2> QED BY <2>1 DEF HInv, ViewsPast
<1>3. ViewsOrdered'
  <2> SUFFICES ASSUME NEW j \in RouteNames, NEW i \in Positions(j)',
                      NEW m \in Positions(j)', i < m
               PROVE  /\ Marked(View(j, i)', View(j, m)')
                      /\ Continues(View(j, i)', View(j, m)', routes[j])
    BY <1>1 DEF ViewsOrdered
  <2>1. i \in Nat /\ m \in Nat
    BY DEF Positions
  <2>2. PICK p \in Positions(j), q \in Positions(j) :
          p < q /\ View(j, i)' = View(j, p) /\ View(j, m)' = View(j, q)
    <3>1. CASE j = k
      <4>1. i + 1 < m + 1
        BY <2>1
      <4> QED BY <1>1, <3>1, <4>1
    <3>2. CASE j # k
      BY <1>1, <3>2
    <3> QED BY <3>1, <3>2
  <2> QED BY <2>2 DEF HInv, ViewsOrdered
<1>4. HeldPast'
  <2> SUFFICES ASSUME route # Absent
               PROVE  HeldPast'
    BY <1>0 DEF HeldPast
  <2>1. PICK h \in RouteNames : h = route.name
    BY <1>0 DEF TypeOK, WorkerTypeOK, RouteOrAbsent, Routes
  <2>2. ASSUME NEW i \in Positions(h)'
        PROVE  \E m \in Positions(h) : View(h, i)' = View(h, m)
    BY <1>1
  <2>3. /\ Past(h, route, routes[h], revision[h])
        /\ Alive(route, routes[h])
        /\ \A i \in Positions(h)' : Marked(route, View(h, i)')
    BY <2>1, <2>2 DEF HInv, HeldPast
  <2> QED BY <1>0, <1>1, <2>1, <2>3 DEF HeldPast
<1> QED BY <1>2, <1>3, <1>4

\* What the worker takes into its hand is the first of the views.
LEMMA GetHistory ==
  ASSUME HInv, NEW k \in RouteNames, Get(k)
  PROVE  HeldPast'
<1>0. /\ UNCHANGED routeVars
      /\ route' = routeCache[k]
      /\ 0 \in Positions(k) /\ View(k, 0) = routeCache[k]
  <2>1. Len(routeEvents[k]) \in Nat
    BY DEF HInv, IInv, TypeOK, ClusterTypeOK
  <2> QED BY <2>1 DEF Get, clusterVars, Positions, View
<1> SUFFICES ASSUME routeCache[k] # Absent
             PROVE  HeldPast'
  BY <1>0 DEF HeldPast
<1>1. routeCache[k].name = k
  BY DEF HInv, IInv, CopiesSound, Sound
<1>2. /\ Past(k, routeCache[k], routes[k], revision[k])
      /\ Alive(routeCache[k], routes[k])
  BY <1>0 DEF HInv, ViewsPast
<1>3. ASSUME NEW i \in Positions(k)
      PROVE  Marked(routeCache[k], View(k, i))
  <2>1. CASE i = 0
    BY <1>0, <2>1 DEF Marked
  <2>2. CASE 0 < i
    BY <1>0, <2>2 DEF HInv, ViewsOrdered
  <2> QED BY <2>1, <2>2 DEF Positions
<1>4. /\ Positions(k)' = Positions(k)
      /\ \A i \in Positions(k) : View(k, i)' = View(k, i)
  BY <1>0 DEF routeVars, Positions, View
<1> QED BY <1>0, <1>1, <1>2, <1>3, <1>4 DEF HeldPast, routeVars

\* A current copy in hand is the Route in the API.
LEMMA CurrentIsStored ==
  ASSUME HInv, route # Absent, IsCurrent(route)
  PROVE  /\ route.name \in RouteNames
         /\ routes[route.name] = route
<1>1. route.name \in RouteNames
  BY DEF HInv, IInv, TypeOK, WorkerTypeOK, RouteOrAbsent, Routes
<1> QED BY <1>1 DEF HInv, HeldPast, Past, IsCurrent

\* The finalizer is added to the Route that is in the API, and to none else.
LEMMA AddFinalizerWrite ==
  ASSUME HInv, pc = "addFinalizer", IsCurrent(route),
         NEW r, r = Stamped(route.name, [route EXCEPT !.finalizer = TRUE])
  PROVE  /\ r \in RouteOrAbsent /\ r # Absent
         /\ routes[route.name] = route
         /\ Succeeds(route.name, r, route, revision[route.name])
         /\ r.name = route.name /\ r.uid = route.uid
         /\ r.finalizer /\ ~ r.deleting
<1> DEFINE k == route.name
<1>0. /\ TypeOK
      /\ route \in Routes /\ route # Absent /\ k \in RouteNames
      /\ ~ route.deleting
  BY DEF HInv, WayTaken, IInv, TypeOK, ClusterTypeOK, WorkerTypeOK,
         RouteOrAbsent, Routes
<1>1. routes[k] = route
  BY <1>0, CurrentIsStored
<1>2. [route EXCEPT !.finalizer = TRUE] \in Routes
  BY <1>0 DEF Routes
<1>3. r \in RouteOrAbsent /\ r # Absent
  BY <1>0, <1>2, StampedType, AbsentIsNoObject DEF TypeOK, RouteOrAbsent
<1>4. /\ r.name = k
      /\ r.uid = route.uid
      /\ r.spec = route.spec
      /\ r.version = revision[k] + 1
      /\ r.deleting = route.deleting
      /\ r.finalizer
  BY <1>0 DEF Stamped, Routes
<1>5. route.spec \in SpecsOf[k]
  BY <1>0 DEF HInv, HeldPast, Past
<1> QED BY <1>0, <1>1, <1>3, <1>4, <1>5 DEF Succeeds, FQDN

LEMMA AddFinalizerHistory ==
  ASSUME HInv, AddFinalizer
  PROVE  ViewsPast' /\ ViewsOrdered' /\ HeldPast'
<1>1. CASE /\ IsCurrent(route)
           /\ route' = Stamped(route.name, [route EXCEPT !.finalizer = TRUE])
           /\ PutRoute(route.name, route')
  <2>1. PICK k, r : k = route.name /\ r = Stamped(k, [route EXCEPT !.finalizer = TRUE])
    OBVIOUS
  <2>2. /\ r \in RouteOrAbsent /\ r # Absent
        /\ Succeeds(k, r, routes[k], revision[k])
        /\ r.name = k /\ ~ r.deleting
    BY <1>1, <2>1, AddFinalizerWrite DEF AddFinalizer
  <2>3. TypeOK /\ k \in RouteNames /\ revision[k] \in Nat
    BY <1>1, <2>1 DEF HInv, IInv, AddFinalizer, TypeOK, ClusterTypeOK, WorkerTypeOK,
                      RouteOrAbsent, Routes
  <2>4. ViewsPast' /\ ViewsOrdered'
    BY <1>1, <2>1, <2>2, <2>3, PutRouteHistory
  <2>5. routes'[k] = r /\ revision'[k] = revision[k] + 1
    BY <1>1, <2>1, <2>3 DEF PutRoute, TypeOK, ClusterTypeOK
  <2>6. Past(k, r, r, revision[k] + 1) /\ Alive(r, r)
    BY <2>2, <2>3, StoredPast
  <2>7. \A c : Marked(r, c)
    BY <2>2 DEF Marked
  <2>8. HeldPast'
    BY <1>1, <2>1, <2>2, <2>5, <2>6, <2>7 DEF HeldPast
  <2> QED BY <2>4, <2>8
<1>2. CASE Fail /\ UNCHANGED routeVars
  BY <1>2, QuietHistory DEF Fail, Idle
<1> QED BY <1>1, <1>2 DEF AddFinalizer

LEMMA RemoveFinalizerHistory ==
  ASSUME HInv, RemoveFinalizer
  PROVE  ViewsPast' /\ ViewsOrdered' /\ HeldPast'
<1> DEFINE k == route.name
<1>0. /\ pc = "removeFinalizer" /\ TypeOK
      /\ route \in Routes /\ route # Absent /\ k \in RouteNames /\ route.deleting
  BY DEF RemoveFinalizer, HInv, WayTaken, IInv, TypeOK, WorkerTypeOK,
         RouteOrAbsent, Routes
<1>1. CASE IsCurrent(route) /\ PutRoute(k, Absent) /\ Goto("finalized")
  <2>1. routes[k] = route
    BY <1>0, <1>1, CurrentIsStored
  <2>2. ASSUME NEW i \in Positions(k)
        PROVE  ~ Unmarked(View(k, i))
    <3>1. Alive(View(k, i), route) /\ Marked(route, View(k, i))
      BY <1>0, <2>1 DEF HInv, ViewsPast, HeldPast
    <3> QED BY <1>0, <3>1 DEF Alive, Marked, Unmarked
  <2>3. Succeeds(k, Absent, routes[k], revision[k]) /\ Absent \in RouteOrAbsent
    BY DEF Succeeds, RouteOrAbsent
  <2>4. ~ Unmarked(route) /\ route' = route
    BY <1>0, <1>1 DEF Unmarked, Goto
  <2> QED BY <1>0, <1>1, <2>2, <2>3, <2>4, PutRouteHistory, PutHeldHistory
<1>2. CASE Fail /\ UNCHANGED routeVars
  BY <1>2, QuietHistory DEF Fail, Idle
<1> QED BY <1>1, <1>2 DEF RemoveFinalizer

\* Every other step of Reconcile leaves the Routes alone.
LEMMA QuietStep ==
  ASSUME HInv, UNCHANGED routeVars, route' = route \/ route' = Absent, WayTaken',
         IInv'
  PROVE  HInv'
BY QuietHistory DEF HInv

LEMMA HistoryStep ==
  ASSUME HInv, [Next]_vars
  PROVE  HInv'
<1> USE DEF clusterVars, workerVars
<1>0. IInv'
  BY InvariantStep DEF HInv
<1>1. ASSUME Fail
      PROVE  route' = Absent /\ WayTaken'
  BY <1>1 DEF Fail, Idle, WayTaken
<1>2. ASSUME UNCHANGED <<pc, route>>
      PROVE  WayTaken'
  BY <1>2 DEF HInv, WayTaken
<1>3. CASE Environment
  <2>1. UNCHANGED <<pc, route>>
    BY <1>3 DEF Environment, Unnoticed
  <2>2. ASSUME NEW k \in RouteNames, CreateRoute(k) \/ UpdateRoute(k) \/ DeleteRoute(k)
        PROVE  HInv'
    BY <1>0, <1>2, <2>1, <2>2, UserHistory DEF HInv
  <2>3. CASE UNCHANGED routeVars
    BY <1>0, <1>2, <2>1, <2>3, QuietStep
  <2> QED BY <1>3, <2>2, <2>3
          DEF Environment, ClusterNext, EvictService, CollectService, ReceiveService,
              EvictVirtualService, CollectVirtualService, ReceiveVirtualService
<1>4. ASSUME NEW k \in RouteNames, Get(k) PROVE HInv'
  <2>1. WayTaken' /\ UNCHANGED routeVars
    BY <1>4 DEF Get, WayTaken
  <2> QED BY <1>0, <1>4, <2>1, GetHistory, QuietHistory DEF HInv
<1>5. ASSUME NEW k \in RouteNames, Resync(k) \/ Redeliver(k) PROVE HInv'
  BY <1>0, <1>2, <1>5, QuietStep DEF Resync, Redeliver
<1>6. ASSUME NEW k \in RouteNames, DeliverRoute(k) PROVE HInv'
  BY <1>0, <1>2, <1>6, DeliverHistory DEF DeliverRoute, HInv
<1>7. CASE List
  <2>1. route \in Routes
    BY <1>7 DEF List, HInv, IInv, TypeOK, WorkerTypeOK, RouteOrAbsent
  <2>2. route.deleting \in BOOLEAN /\ route.finalizer \in BOOLEAN
    BY <2>1 DEF Routes
  <2>3. WayTaken'
    BY <1>7, <2>2 DEF List, AfterList, WayTaken
  <2> QED BY <1>0, <1>7, <2>3, QuietStep DEF List
<1>8. CASE AddFinalizer
  <2>1. WayTaken'
    BY <1>1, <1>8 DEF AddFinalizer, WayTaken
  <2> QED BY <1>0, <1>8, <2>1, AddFinalizerHistory DEF HInv
<1>9. CASE ListServices \/ ListServicesToFinalize
  <2>1. WayTaken'
    BY <1>9 DEF ListServices, ListServicesToFinalize, WayTaken
  <2> QED BY <1>0, <1>9, <2>1, QuietStep DEF ListServices, ListServicesToFinalize
<1>10. CASE ApplyService
  <2>1. WayTaken' /\ (route' = route \/ route' = Absent)
    BY <1>1, <1>2, <1>10 DEF ApplyService
  <2> QED BY <1>0, <1>10, <2>1, QuietStep DEF ApplyService
<1>11. ASSUME NEW s \in ServiceNames, DeleteService(s) PROVE HInv'
  <2>1. WayTaken' /\ (route' = route \/ route' = Absent)
    BY <1>1, <1>2, <1>11 DEF DeleteService
  <2> QED BY <1>0, <1>11, <2>1, QuietStep DEF DeleteService
<1>12. ASSUME UNCHANGED routeVars,
              Fail \/ Goto("succeeded") \/ (Goto("removeFinalizer") /\ route.deleting)
       PROVE  HInv'
  <2>1. WayTaken' /\ (route' = route \/ route' = Absent)
    BY <1>1, <1>12 DEF Goto, WayTaken
  <2> QED BY <1>0, <1>12, <2>1, QuietStep
<1>13. CASE ApplyVirtualService
  BY <1>12, <1>13 DEF ApplyVirtualService, reconcileVirtualServices
<1>14. CASE ShrinkVirtualService
  BY <1>12, <1>14 DEF ShrinkVirtualService, reconcileVirtualServices
<1>15. CASE DeleteVirtualService
  BY <1>12, <1>15 DEF DeleteVirtualService
<1>16. CASE RemoveFinalizer
  <2>1. WayTaken'
    BY <1>1, <1>16 DEF RemoveFinalizer, Goto, WayTaken
  <2> QED BY <1>0, <1>16, <2>1, RemoveFinalizerHistory DEF HInv
<1>17. CASE Succeed \/ Finalized
  <2>1. WayTaken' /\ route' = Absent
    BY <1>17 DEF Succeed, Finalized, Idle, WayTaken
  <2> QED BY <1>0, <1>17, <2>1, QuietStep DEF Succeed, Finalized
<1>18. CASE Abort
  BY <1>0, <1>1, <1>18, QuietStep DEF Abort
<1>19. CASE Crash
  <2>1. WayTaken' /\ HeldPast'
    BY <1>19 DEF Crash, Idle, WayTaken, HeldPast
  <2>2. ASSUME NEW k \in RouteNames
        PROVE  Positions(k)' = {0} /\ View(k, 0)' = routes'[k]
    <3>1. routeEvents'[k] = <<>> /\ routeCache'[k] = routes'[k]
      BY <1>19 DEF Crash, Relist
    <3>2. Len(routeEvents'[k]) = 0
      BY <3>1
    <3> QED BY <3>1, <3>2 DEF Positions, View
  <2>3. ASSUME NEW k \in RouteNames
        PROVE  /\ Past(k, routes[k], routes[k], revision[k])
               /\ Alive(routes[k], routes[k])
    BY LastView DEF HInv, IInv, ViewsPast
  <2>4. UNCHANGED <<routes, revision>>
    BY <1>19 DEF Crash, Relist
  <2>5. ViewsPast'
    BY <2>2, <2>3, <2>4 DEF ViewsPast
  <2>6. ViewsOrdered'
    BY <2>2 DEF ViewsOrdered
  <2> QED BY <1>0, <2>1, <2>5, <2>6 DEF HInv
<1>20. CASE UNCHANGED vars
  BY <1>0, <1>2, <1>20, QuietStep DEF vars
<1> QED BY <1>3, <1>4, <1>5, <1>6, <1>7, <1>8, <1>9, <1>10, <1>11, <1>13, <1>14,
          <1>15, <1>16, <1>17, <1>18, <1>19, <1>20 DEF Next, Reconcile

\* The four ways in which a step may treat the Routes.
LEMMA RouteStep ==
  ASSUME HInv, [Next]_vars
  PROVE  \/ UNCHANGED routeVars
         \/ \E k \in RouteNames, r \in RouteOrAbsent :
              PutRoute(k, r) /\ Succeeds(k, r, routes[k], revision[k])
         \/ \E k \in RouteNames : ReceiveRoute(k)
         \/ Relist
<1> USE DEF clusterVars
<1>1. CASE Environment
  <2>1. ASSUME NEW k \in RouteNames, CreateRoute(k) \/ UpdateRoute(k) \/ DeleteRoute(k)
        PROVE  \E r \in RouteOrAbsent :
                 PutRoute(k, r) /\ Succeeds(k, r, routes[k], revision[k])
    BY <2>1, UserWrite
  <2> QED BY <1>1, <2>1
          DEF Environment, ClusterNext, EvictService, CollectService, ReceiveService,
              EvictVirtualService, CollectVirtualService, ReceiveVirtualService
<1>2. CASE AddFinalizer
  <2>1. CASE /\ IsCurrent(route)
             /\ route' = Stamped(route.name, [route EXCEPT !.finalizer = TRUE])
             /\ PutRoute(route.name, route')
    <3>1. route.name \in RouteNames
      BY <1>2 DEF HInv, IInv, AddFinalizer, TypeOK, WorkerTypeOK, RouteOrAbsent, Routes
    <3> QED BY <1>2, <2>1, <3>1, AddFinalizerWrite DEF AddFinalizer
  <2> QED BY <1>2, <2>1 DEF AddFinalizer
<1>3. CASE RemoveFinalizer
  <2>1. route.name \in RouteNames /\ Absent \in RouteOrAbsent
    BY <1>3 DEF HInv, IInv, RemoveFinalizer, TypeOK, WorkerTypeOK, RouteOrAbsent, Routes
  <2>2. \A k : Succeeds(k, Absent, routes[k], revision[k])
    BY DEF Succeeds
  <2> QED BY <1>3, <2>1, <2>2 DEF RemoveFinalizer
<1>4. ASSUME NEW k \in RouteNames, Get(k) \/ Resync(k) \/ Redeliver(k) \/ DeliverRoute(k)
      PROVE  UNCHANGED routeVars \/ ReceiveRoute(k)
  BY <1>4 DEF Get, Resync, Redeliver, DeliverRoute
<1>5. CASE Crash
  BY <1>5 DEF Crash
<1>6. CASE Reconcile /\ ~ AddFinalizer /\ ~ RemoveFinalizer
  BY <1>6 DEF Reconcile, List, ListServices, ListServicesToFinalize, ApplyService,
              DeleteService, ApplyVirtualService, ShrinkVirtualService,
              DeleteVirtualService, Succeed, Finalized
<1>7. CASE Abort \/ UNCHANGED vars
  BY <1>7 DEF Abort, vars
<1> QED BY <1>1, <1>2, <1>3, <1>4, <1>5, <1>6, <1>7 DEF Next

LEMMA HistoryInit == Init => HInv
<1> SUFFICES ASSUME Init PROVE HInv
  OBVIOUS
<1>1. IInv
  BY InvariantInit
<1>2. ASSUME NEW k \in RouteNames
      PROVE  Positions(k) = {0} /\ View(k, 0) = Absent
  <2>1. routeEvents[k] = <<>> /\ routeCache[k] = Absent
    BY DEF Init, ClusterInit
  <2>2. Len(routeEvents[k]) = 0
    BY <2>1
  <2> QED BY <2>1, <2>2 DEF Positions, View
<1>3. ViewsPast
  BY <1>2 DEF ViewsPast, Past, Alive
<1>4. ViewsOrdered
  BY <1>2 DEF ViewsOrdered
<1>5. HeldPast /\ WayTaken
  BY DEF Init, HeldPast, WayTaken
<1> QED BY <1>1, <1>3, <1>4, <1>5 DEF HInv

LEMMA History == Spec => []HInv
BY HistoryInit, HistoryStep, PTL DEF Spec

=============================================================================
