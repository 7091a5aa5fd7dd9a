--------------------------- MODULE ChildrenProofs ---------------------------
(***************************************************************************)
(* Who may take Services and VirtualServices away, and what they may be    *)
(* built for: the action properties of RouteController, proved for all     *)
(* values of its constants, from an invariant about owner references, and  *)
(* with it that RouteController implements RouteLifecycle.                 *)
(***************************************************************************)
EXTENDS RouteControllerProofs

\* The owner is gone, or the manager's cache has this incarnation of it.
Known(ref) ==
  \/ Dangling(ref)
  \/ /\ routeCache[ref.name] # Absent
     /\ routeCache[ref.name].uid = ref.uid

\* A reference to an incarnation that is or was in the API, and is known.
SoundRef(ref) ==
  /\ ref \in OwnerRefs
  /\ ref.uid <= revision[ref.name]
  /\ Known(ref)

\* The owner is gone, or its FQDN is the one VirtualService n stands for.
Serves(ref, n) ==
  Dangling(ref) \/ VirtualServiceName(FQDN(routes[ref.name])) = n

ServiceOwnersKnown ==
  \A s \in ServiceNames : services[s] # Absent => SoundRef(services[s].owner)

VirtualServiceOwnersKnown ==
  \A n \in VirtualServiceNames : virtualServices[n] # Absent =>
    /\ "owners" \in DOMAIN virtualServices[n]
    /\ \A ref \in virtualServices[n].owners : SoundRef(ref) /\ Serves(ref, n)

\* From here on the worker's next write to the children is still to come.
Working == pc \in {"list", "addFinalizer", "listServices", "services"}

\* A child of the name in hand is of the incarnation in hand or an older one.
SameIncarnation(ref) ==
  ref.name = route.name => Dangling(ref) \/ ref.uid = route.uid

\* Holds because the cache is ahead of every child when the worker reads it.
HeldKnown ==
  /\ route # Absent => SoundRef(routeToOwnerRef(route))
  /\ Working =>
       /\ \A s \in ServiceNames : services[s] # Absent => SameIncarnation(services[s].owner)
       /\ \A n \in VirtualServiceNames : virtualServices[n] # Absent =>
            \A ref \in virtualServices[n].owners : SameIncarnation(ref)

(***************************************************************************)
(* The worker's list has every Route that its FQDN's VirtualService lists  *)
(* and that is still in the API.                                           *)
(***************************************************************************)
ListedKnown ==
  pc \in {"addFinalizer", "listServices", "services"} =>
    /\ \A q \in routeList :
         /\ FQDN(q) = FQDN(route)
         /\ SoundRef(routeToOwnerRef(q))
         /\ Serves(routeToOwnerRef(q), VirtualServiceName(FQDN(route)))
    /\ \A n \in VirtualServiceNames :
         virtualServices[n] # Absent /\ n = VirtualServiceName(FQDN(route)) =>
           \A ref \in virtualServices[n].owners :
             Dangling(ref) \/ \E q \in routeList : ref = routeToOwnerRef(q)

\* A Service has a name that its owner may ask for.
NamedFor(v, s) == v # Absent => s \in ServiceNamesOf(v.owner.name)

ServicesNamed ==
  \A s \in ServiceNames :
    /\ NamedFor(services[s], s)
    /\ NamedFor(serviceCache[s], s)
    /\ \A i \in 1..Len(serviceEvents[s]) : NamedFor(serviceEvents[s][i], s)

\* What the worker is about to delete is of its own route, and unwanted.
CondemnedOwned ==
  pc = "services" =>
    \A s \in condemned :
      /\ s \in ServiceNamesOf(route.name)
      /\ \/ route.deleting
         \/ \A i \in DOMAIN route.spec.destinations :
              serviceName(route.spec.destinations[i]) # s

CInv ==
  /\ HInv
  /\ ServiceOwnersKnown
  /\ VirtualServiceOwnersKnown
  /\ HeldKnown
  /\ ListedKnown
  /\ ServicesNamed
  /\ CondemnedOwned

-----------------------------------------------------------------------------
(*************************** What the builder builds ***********************)

LEMMA NameIsInjective ==
  ASSUME NEW f, NEW g, VirtualServiceName(f) = VirtualServiceName(g)
  PROVE  f = g
BY DEF VirtualServiceName

LEMMA BuiltRecord ==
  ASSUME NEW f, NEW list
  PROVE  /\ "owners" \in DOMAIN fqdnToVirtualService(f, list)
         /\ fqdnToVirtualService(f, list).owners = {routeToOwnerRef(q) : q \in list}
BY DEF fqdnToVirtualService

\* A VirtualService is owned by the listed routes of its FQDN, all of them.
LEMMA BuiltOwners ==
  ASSUME NEW list, NEW n \in DOMAIN BuildVirtualServices(list)
  PROVE  /\ \E q \in list : VirtualServiceName(FQDN(q)) = n
         /\ "owners" \in DOMAIN BuildVirtualServices(list)[n]
         /\ BuildVirtualServices(list)[n].owners =
              {routeToOwnerRef(q) : q \in {p \in list : VirtualServiceName(FQDN(p)) = n}}
<1> DEFINE byFQDN == groupByFQDN(list)
           named == CHOOSE f \in DOMAIN byFQDN : VirtualServiceName(f) = n
<1>1. DOMAIN byFQDN = {FQDN(q) : q \in list}
  BY DEF groupByFQDN
<1>2. DOMAIN BuildVirtualServices(list) = {VirtualServiceName(f) : f \in DOMAIN byFQDN}
  BY DEF BuildVirtualServices
<1>3. PICK f \in DOMAIN byFQDN : VirtualServiceName(f) = n
  BY <1>2
<1>4. named \in DOMAIN byFQDN /\ VirtualServiceName(named) = n
  BY <1>3
<1>5. BuildVirtualServices(list)[n] = fqdnToVirtualService(named, byFQDN[named])
  BY <1>2 DEF BuildVirtualServices
<1>6. byFQDN[named] = {p \in list : VirtualServiceName(FQDN(p)) = n}
  <2>1. byFQDN[named] = {p \in list : FQDN(p) = named}
    BY <1>1, <1>4 DEF groupByFQDN
  <2>2. \A p \in list : FQDN(p) = named <=> VirtualServiceName(FQDN(p)) = n
    BY <1>4, NameIsInjective
  <2> QED BY <2>1, <2>2
<1>7. \E q \in list : VirtualServiceName(FQDN(q)) = n
  BY <1>1, <1>3
<1> HIDE DEF named
<1> QED BY <1>5, <1>6, <1>7, BuiltRecord

-----------------------------------------------------------------------------
(**************************** Owner references *****************************)

\* What a step may do to the incarnation that a reference names.
LEMMA RefsKept ==
  ASSUME HInv, [Next]_vars, NEW ref, SoundRef(ref)
  PROVE  /\ SoundRef(ref)'
         /\ Dangling(ref) => Dangling(ref)'
         /\ \A n : Serves(ref, n) => Serves(ref, n)'
<1>0. PICK j \in RouteNames : j = ref.name
  BY DEF SoundRef, OwnerRefs
<1>1. /\ ref \in OwnerRefs /\ ref.uid \in Nat
      /\ revision[j] \in Nat /\ ref.uid <= revision[j]
      /\ routes[j] \in RouteOrAbsent
      /\ TypeOK
  BY <1>0 DEF SoundRef, OwnerRefs, HInv, IInv, TypeOK, ClusterTypeOK
<1>2. CASE UNCHANGED routeVars
  BY <1>2 DEF routeVars, SoundRef, Known, Dangling, Serves
<1>3. ASSUME NEW k \in RouteNames, NEW r \in RouteOrAbsent,
             PutRoute(k, r), Succeeds(k, r, routes[k], revision[k])
      PROVE  /\ SoundRef(ref)'
             /\ Dangling(ref) => Dangling(ref)'
             /\ \A n : Serves(ref, n) => Serves(ref, n)'
  <2>1. /\ routeCache' = routeCache
        /\ routes'[j] = IF j = k THEN r ELSE routes[j]
        /\ revision'[j] = IF j = k THEN revision[j] + 1 ELSE revision[j]
    BY <1>1, <1>3 DEF PutRoute, TypeOK, ClusterTypeOK
  <2>2. ref.uid <= revision'[j]
    BY <1>1, <2>1
  <2>3. CASE routes'[j] = routes[j]
    BY <1>0, <1>1, <2>1, <2>2, <2>3 DEF SoundRef, Known, Dangling, Serves
  <2>4. CASE j = k
    <3>1. routes'[j] # Absent /\ routes'[j].uid = ref.uid
            => /\ routes[j] # Absent /\ routes[j].uid = ref.uid
               /\ FQDN(routes'[j]) = FQDN(routes[j])
      BY <1>1, <1>3, <2>1, <2>4 DEF Succeeds
    <3> QED BY <1>0, <1>1, <2>1, <2>2, <3>1 DEF SoundRef, Known, Dangling, Serves
  <2> QED BY <2>1, <2>3, <2>4
<1>4. ASSUME NEW k \in RouteNames, ReceiveRoute(k)
      PROVE  /\ SoundRef(ref)'
             /\ Dangling(ref) => Dangling(ref)'
             /\ \A n : Serves(ref, n) => Serves(ref, n)'
  <2>1. UNCHANGED <<routes, revision>>
    BY <1>4 DEF ReceiveRoute
  <2>2. CASE routeCache'[j] = routeCache[j]
    BY <1>0, <2>1, <2>2 DEF SoundRef, Known, Dangling, Serves
  <2>3. CASE j = k
    <3>1. 0 \in Positions(k)' /\ 0 \in Positions(k)
          /\ View(k, 0)' = routeCache'[k] /\ View(k, 0) = routeCache[k]
      <4>1. TypeOK'
        BY HistoryStep DEF HInv, IInv
      <4>2. Len(routeEvents[k]) \in Nat /\ Len(routeEvents'[k]) \in Nat
        BY <1>1, <4>1 DEF TypeOK, ClusterTypeOK
      <4> QED BY <4>2 DEF Positions, View
    <3>2. 0 + 1 \in Positions(k) /\ View(k, 0)' = View(k, 0 + 1)
      BY <1>1, <1>4, <3>1, DeliverViews
    <3>3. Continues(View(k, 0), View(k, 0 + 1), routes[k])
      BY <3>1, <3>2 DEF HInv, ViewsOrdered
    <3>4. Continues(routeCache[k], routeCache'[k], routes[k])
      BY <3>1, <3>2, <3>3
    <3> QED BY <1>0, <2>1, <2>3, <3>4 DEF Continues, SoundRef, Known, Dangling, Serves
  <2>4. j # k => routeCache'[j] = routeCache[j]
    BY <1>1, <1>4 DEF ReceiveRoute, TypeOK, ClusterTypeOK
  <2> QED BY <2>2, <2>3, <2>4
<1>5. CASE Relist
  BY <1>0, <1>5 DEF Relist, SoundRef, Known, Dangling, Serves
<1> QED BY <1>2, <1>3, <1>4, <1>5, RouteStep

-----------------------------------------------------------------------------
(*************************** What a step may do ****************************)

\* How the Route in hand, the list and the condemned Services may change.
LEMMA WorkerStep ==
  ASSUME HInv, [Next]_vars
  PROVE  \/ route' = Absent /\ ~ Working'
         \/ \E k \in RouteNames : Get(k)
         \/ List
         \/ ListServices \/ ListServicesToFinalize
         \/ /\ pc = "addFinalizer" /\ pc' = "listServices"
            /\ UNCHANGED <<serviceVars, vsVars, routeList>>
            /\ routeToOwnerRef(route') = routeToOwnerRef(route)
            /\ route'.name = route.name /\ route'.uid = route.uid
            /\ FQDN(route') = FQDN(route)
         \/ /\ UNCHANGED <<route, routeList>>
            /\ condemned' \subseteq condemned
            /\ pc' = pc \/ ~ Working'
<1> USE DEF clusterVars, workerVars
<1> DEFINE Dropped == route' = Absent /\ ~ Working'
           Kept == /\ UNCHANGED <<route, routeList>>
                   /\ condemned' \subseteq condemned
                   /\ pc' = pc \/ ~ Working'
<1>1. ASSUME Idle PROVE Dropped
  BY <1>1 DEF Idle, Working
<1>2. ASSUME Fail PROVE Dropped
  BY <1>1, <1>2 DEF Fail
<1>3. ASSUME NEW step \in {"succeeded", "removeFinalizer", "finalized"}, Goto(step)
      PROVE  Kept
  BY <1>3 DEF Goto, Working
<1>4. CASE AddFinalizer
  <2>1. CASE /\ IsCurrent(route)
             /\ route' = Stamped(route.name, [route EXCEPT !.finalizer = TRUE])
             /\ pc' = "listServices"
             /\ UNCHANGED routeList
    <3>1. /\ routes[route.name] = route
          /\ Succeeds(route.name, route', route, revision[route.name])
          /\ route' # Absent
          /\ route'.name = route.name /\ route'.uid = route.uid
      BY <1>4, <2>1, AddFinalizerWrite DEF AddFinalizer
    <3>2. FQDN(route') = FQDN(route) /\ routeToOwnerRef(route') = routeToOwnerRef(route)
      BY <1>4, <2>1, <3>1 DEF Succeeds, IsCurrent, routeToOwnerRef
    <3> QED BY <1>4, <2>1, <3>1, <3>2 DEF AddFinalizer
  <2> QED BY <1>2, <1>4, <2>1 DEF AddFinalizer
<1>5. CASE ApplyService
  BY <1>2, <1>5 DEF ApplyService
<1>6. ASSUME NEW s \in ServiceNames, DeleteService(s) PROVE Dropped \/ Kept
  BY <1>2, <1>6 DEF DeleteService
<1>7. CASE ApplyVirtualService \/ ShrinkVirtualService
  BY <1>2, <1>3, <1>7
     DEF ApplyVirtualService, ShrinkVirtualService, reconcileVirtualServices
<1>8. CASE DeleteVirtualService
  BY <1>2, <1>3, <1>8 DEF DeleteVirtualService
<1>9. CASE RemoveFinalizer
  BY <1>2, <1>3, <1>9 DEF RemoveFinalizer
<1>10. CASE Succeed \/ Finalized \/ Abort \/ Crash
  BY <1>1, <1>2, <1>10 DEF Succeed, Finalized, Abort, Crash
<1>11. ASSUME UNCHANGED workerVars PROVE Kept
  BY <1>11
<1>12. CASE Environment \/ UNCHANGED vars
  BY <1>11, <1>12 DEF Environment, Unnoticed, vars
<1>13. ASSUME NEW k \in RouteNames, Get(k) \/ Resync(k) \/ Redeliver(k) \/ DeliverRoute(k)
       PROVE  Get(k) \/ Kept
  BY <1>11, <1>13 DEF Resync, Redeliver, DeliverRoute
<1> QED BY <1>4, <1>5, <1>6, <1>7, <1>8, <1>9, <1>10, <1>12, <1>13 DEF Next, Reconcile

\* Why a Service may change.
LEMMA ServicesStep ==
  ASSUME HInv, [Next]_vars, NEW s \in ServiceNames, services'[s] # services[s]
  PROVE  \/ /\ services[s] # Absent /\ services'[s] = Absent
            /\ \/ Evicted
               \/ Dangling(services[s].owner)
               \/ pc = "services" /\ s \in condemned
         \/ /\ pc = "services" /\ pc' = pc /\ UNCHANGED route
            /\ UNCHANGED routeVars
            /\ ~ route.deleting
            /\ services'[s] # Absent
            /\ services'[s].owner = routeToOwnerRef(route)
            /\ s \in ServiceNamesOf(route.name)
<1> USE DEF clusterVars, serviceVars
<1>0. /\ services \in [ServiceNames -> ServiceOrAbsent]
      /\ spent["evict"] \in Nat /\ DOMAIN spent = Events
      /\ route \in RouteOrAbsent
      /\ (pc = "idle") <=> (route = Absent)
  BY DEF HInv, IInv, TypeOK, ClusterTypeOK, WorkerTypeOK, Events
<1>1. ASSUME NEW t \in ServiceNames, NEW v, PutService(t, v)
      PROVE  t = s /\ services'[s] = v
  BY <1>0, <1>1 DEF PutService
<1>2. ASSUME NEW t \in ServiceNames, EvictService(t)
      PROVE  services[s] # Absent /\ services'[s] = Absent /\ Evicted
  <2>1. spent'["evict"] = spent["evict"] + 1
    BY <1>0, <1>2 DEF EvictService, Spend, Events
  <2> QED BY <1>0, <1>1, <1>2, <2>1 DEF EvictService, Evicted
<1>3. ASSUME NEW t \in ServiceNames, CollectService(t)
      PROVE  /\ services[s] # Absent /\ services'[s] = Absent
             /\ Dangling(services[s].owner)
  BY <1>1, <1>3 DEF CollectService
<1>4. CASE Environment
  BY <1>2, <1>3, <1>4
     DEF Environment, ClusterNext, CreateRoute, UpdateRoute, DeleteRoute,
         ReceiveService, EvictVirtualService, CollectVirtualService,
         ReceiveVirtualService
<1>5. CASE ApplyService
  <2> DEFINE t == BuildServices(route)[applied + 1].name
             body == BuildServices(route)[applied + 1].body
  <2>1. PutService(t, body) /\ UNCHANGED <<pc, route, routeVars>>
    BY <1>5 DEF ApplyService
  <2>2. route \in Routes /\ applied \in Nat /\ applied < Len(route.spec.destinations)
        /\ ~ route.deleting /\ pc = "services" /\ route # Absent
    BY <1>0, <1>5 DEF ApplyService, ServicesPending, RouteOrAbsent, HInv, IInv, TypeOK,
                      WorkerTypeOK
  <2>3. Len(route.spec.destinations) \in Nat
    BY <2>2, ClusterAssumption DEF Routes
  <2>4. applied + 1 \in 1..Len(route.spec.destinations)
    BY <2>2, <2>3
  <2>5. /\ t \in ServiceNames
        /\ body \in Services
        /\ body.owner = routeToOwnerRef(route)
    BY <2>2, <2>4, BuiltServiceType DEF routeToOwnerRef
  <2>6. t \in ServiceNamesOf(route.name)
    <3>1. applied + 1 \in DOMAIN route.spec.destinations
      BY <2>2, <2>4, ClusterAssumption DEF Routes
    <3>2. t = serviceName(route.spec.destinations[applied + 1])
      BY <3>1 DEF BuildServices
    <3>3. route.spec \in SpecsOf[route.name]
      BY <2>2 DEF HInv, HeldPast, Past
    <3> QED BY <3>1, <3>2, <3>3 DEF ServiceNamesOf
  <2> HIDE DEF t, body
  <2> QED BY <1>1, <2>1, <2>2, <2>5, <2>6, AbsentIsNoObject
<1>6. ASSUME NEW t \in ServiceNames, DeleteService(t)
      PROVE  /\ services[s] # Absent /\ services'[s] = Absent
             /\ pc = "services" /\ s \in condemned
  BY <1>1, <1>6 DEF DeleteService
<1>7. CASE Crash \/ UNCHANGED vars
  BY <1>7 DEF Crash, Relist, vars
<1>8. ASSUME NEW k \in RouteNames, Get(k) \/ Resync(k) \/ Redeliver(k) \/ DeliverRoute(k)
      PROVE  FALSE
  BY <1>8 DEF Get, Resync, Redeliver, DeliverRoute, ReceiveRoute
<1>9. CASE Abort \/ List \/ AddFinalizer \/ ListServices \/ ListServicesToFinalize
           \/ ApplyVirtualService \/ ShrinkVirtualService \/ DeleteVirtualService
           \/ RemoveFinalizer \/ Succeed \/ Finalized
  BY <1>9 DEF Abort, List, AddFinalizer, ListServices, ListServicesToFinalize,
              ApplyVirtualService, ShrinkVirtualService, DeleteVirtualService,
              RemoveFinalizer, Succeed, Finalized
<1> QED BY <1>4, <1>5, <1>6, <1>7, <1>8, <1>9 DEF Next, Reconcile

\* The VirtualService a listed Route's reconciliation writes, if it writes one.
LEMMA Published ==
  ASSUME HInv, ListedKnown, pc = "services", NEW list \in SUBSET routeList, NEW next,
         next \in {"succeeded", "removeFinalizer"},
         reconcileVirtualServices(list, next),
         NEW n \in VirtualServiceNames, virtualServices'[n] # virtualServices[n]
  PROVE  /\ ~ Working'
         /\ n = VirtualServiceName(FQDN(route))
         /\ "owners" \in DOMAIN virtualServices'[n]
         /\ virtualServices'[n].owners = {routeToOwnerRef(q) : q \in list}
<1> DEFINE built == BuildVirtualServices(list)
<1>0. DOMAIN virtualServices = VirtualServiceNames
  BY DEF HInv, IInv, TypeOK, ClusterTypeOK
<1>1. PICK m \in DOMAIN built : PutVirtualService(m, built[m]) /\ Goto(next)
  BY DEF reconcileVirtualServices, vsVars
<1>2. m = n /\ virtualServices'[n] = built[n]
  BY <1>0, <1>1 DEF PutVirtualService
<1>3. \A q \in list : FQDN(q) = FQDN(route)
  BY DEF ListedKnown
<1>4. /\ \E q \in list : VirtualServiceName(FQDN(q)) = n
      /\ "owners" \in DOMAIN built[n]
      /\ built[n].owners =
           {routeToOwnerRef(q) : q \in {p \in list : VirtualServiceName(FQDN(p)) = n}}
  BY <1>1, <1>2, BuiltOwners
<1>5. n = VirtualServiceName(FQDN(route))
  BY <1>3, <1>4
<1>6. {p \in list : VirtualServiceName(FQDN(p)) = n} = list
  BY <1>3, <1>5
<1>7. ~ Working'
  BY <1>1 DEF Goto, Working
<1> QED BY <1>2, <1>4, <1>5, <1>6, <1>7

\* Why a VirtualService may change.
LEMMA VirtualServicesStep ==
  ASSUME HInv, ListedKnown, VirtualServiceOwnersKnown, [Next]_vars,
         NEW n \in VirtualServiceNames, virtualServices'[n] # virtualServices[n]
  PROVE  \/ /\ virtualServices[n] # Absent /\ virtualServices'[n] = Absent
            /\ \/ Evicted
               \/ \A ref \in virtualServices[n].owners : Dangling(ref)
               \/ /\ pc = "services" /\ route.deleting /\ ~ Working'
                  /\ n = VirtualServiceName(FQDN(route))
                  /\ removeRouteFromRouteList(route, routeList) = {}
         \/ /\ virtualServices[n] # Absent
            /\ "owners" \in DOMAIN virtualServices'[n]
            /\ virtualServices'[n].owners =
                 {ref \in virtualServices[n].owners : ~ Dangling(ref)}
         \/ /\ pc = "services" /\ ~ Working'
            /\ n = VirtualServiceName(FQDN(route))
            /\ "owners" \in DOMAIN virtualServices'[n]
            /\ \E list \in {routeList, removeRouteFromRouteList(route, routeList)} :
                 /\ virtualServices'[n].owners = {routeToOwnerRef(q) : q \in list}
                 /\ list # routeList => route.deleting
<1> USE DEF clusterVars, vsVars
<1>0. /\ DOMAIN virtualServices = VirtualServiceNames
      /\ spent["evict"] \in Nat /\ DOMAIN spent = Events
  BY DEF HInv, IInv, TypeOK, ClusterTypeOK, Events
<1>1. ASSUME NEW t \in VirtualServiceNames, NEW v, PutVirtualService(t, v)
      PROVE  t = n /\ virtualServices'[n] = v
  BY <1>0, <1>1 DEF PutVirtualService
<1>2. ASSUME NEW t \in VirtualServiceNames, EvictVirtualService(t)
      PROVE  virtualServices[n] # Absent /\ virtualServices'[n] = Absent /\ Evicted
  <2>1. spent'["evict"] = spent["evict"] + 1
    BY <1>0, <1>2 DEF EvictVirtualService, Spend, Events
  <2> QED BY <1>0, <1>1, <1>2, <2>1 DEF EvictVirtualService, Evicted
<1>3. ASSUME NEW t \in VirtualServiceNames, CollectVirtualService(t)
      PROVE  /\ virtualServices[n] # Absent
             /\ \/ /\ virtualServices'[n] = Absent
                   /\ \A ref \in virtualServices[n].owners : Dangling(ref)
                \/ /\ "owners" \in DOMAIN virtualServices'[n]
                   /\ virtualServices'[n].owners =
                        {ref \in virtualServices[n].owners : ~ Dangling(ref)}
  <2> DEFINE solid == {ref \in virtualServices[t].owners : ~ Dangling(ref)}
             shrunk == [virtualServices[t] EXCEPT !.owners = solid]
  <2>1. /\ virtualServices[t] # Absent
        /\ PutVirtualService(t, IF solid = {} THEN Absent ELSE shrunk)
    BY <1>3 DEF CollectVirtualService
  <2>2. "owners" \in DOMAIN virtualServices[t]
    BY <2>1 DEF VirtualServiceOwnersKnown
  <2>3. "owners" \in DOMAIN shrunk /\ shrunk.owners = solid
    BY <2>2
  <2> QED BY <1>1, <2>1, <2>3
<1>4. CASE Environment
  BY <1>2, <1>3, <1>4
     DEF Environment, ClusterNext, CreateRoute, UpdateRoute, DeleteRoute,
         ReceiveService, EvictService, CollectService, ReceiveVirtualService
<1>5. CASE ApplyVirtualService
  BY <1>5, Published DEF ApplyVirtualService, ServicesDone
<1>6. CASE ShrinkVirtualService
  <2>1. removeRouteFromRouteList(route, routeList) \in SUBSET routeList
    BY DEF removeRouteFromRouteList
  <2> QED BY <1>6, <2>1, Published DEF ShrinkVirtualService, ServicesDone
<1>7. CASE DeleteVirtualService
  <2> DEFINE t == VirtualServiceName(FQDN(route))
  <2>1. /\ virtualServices[t] # Absent /\ PutVirtualService(t, Absent)
        /\ Goto("removeFinalizer")
    BY <1>7 DEF DeleteVirtualService
  <2>2. t = n /\ virtualServices'[n] = Absent
    BY <1>0, <2>1 DEF PutVirtualService
  <2>3. ~ Working'
    BY <2>1 DEF Goto, Working
  <2> QED BY <1>7, <2>1, <2>2, <2>3 DEF DeleteVirtualService, ServicesDone
<1>8. CASE Crash \/ UNCHANGED vars
  BY <1>8 DEF Crash, Relist, vars
<1>9. ASSUME NEW k \in RouteNames, Get(k) \/ Resync(k) \/ Redeliver(k) \/ DeliverRoute(k)
      PROVE  FALSE
  BY <1>9 DEF Get, Resync, Redeliver, DeliverRoute, ReceiveRoute
<1>10. ASSUME NEW s \in ServiceNames, DeleteService(s)
       PROVE  FALSE
  BY <1>10 DEF DeleteService
<1>11. CASE Abort \/ List \/ AddFinalizer \/ ListServices \/ ListServicesToFinalize
            \/ ApplyService \/ RemoveFinalizer \/ Succeed \/ Finalized
  BY <1>11 DEF Abort, List, AddFinalizer, ListServices, ListServicesToFinalize,
               ApplyService, RemoveFinalizer, Succeed, Finalized
<1> QED BY <1>4, <1>5, <1>6, <1>7, <1>8, <1>9, <1>10, <1>11 DEF Next, Reconcile

-----------------------------------------------------------------------------
(******************************* Invariance ********************************)

\* What the cache holds is a sound reference, and serves the copy's own FQDN.
LEMMA CachedRef ==
  ASSUME HInv, NEW k \in RouteNames, routeCache[k] # Absent
  PROVE  /\ routeCache[k].name = k
         /\ routeCache[k].uid \in Nat
         /\ SoundRef(routeToOwnerRef(routeCache[k]))
         /\ Serves(routeToOwnerRef(routeCache[k]), VirtualServiceName(FQDN(routeCache[k])))
<1> DEFINE c == routeCache[k]
<1>1. c \in Routes /\ c.uid \in Nat
  BY DEF HInv, IInv, TypeOK, ClusterTypeOK, RouteOrAbsent, Routes
<1>2. c.name = k /\ c.uid <= revision[k]
  BY DEF HInv, IInv, CopiesSound, Sound
<1>3. Past(k, c, routes[k], revision[k])
  <2>1. 0 \in Positions(k) /\ View(k, 0) = c
    <3>1. Len(routeEvents[k]) \in Nat
      BY DEF HInv, IInv, TypeOK, ClusterTypeOK
    <3> QED BY <3>1 DEF Positions, View
  <2> QED BY <2>1 DEF HInv, ViewsPast
<1> QED BY <1>1, <1>2, <1>3
        DEF SoundRef, Known, Serves, Dangling, routeToOwnerRef, OwnerRefs, Past

LEMMA ServiceOwnersKnownStep ==
  ASSUME CInv, [Next]_vars
  PROVE  ServiceOwnersKnown'
<1> SUFFICES ASSUME NEW s \in ServiceNames, services'[s] # Absent
             PROVE  SoundRef(services[s].owner)'
  BY DEF ServiceOwnersKnown
<1>1. PICK o : o = services'[s].owner
  OBVIOUS
<1>2. SoundRef(o)
  <2>1. CASE services'[s] = services[s]
    BY <1>1, <2>1 DEF CInv, ServiceOwnersKnown
  <2>2. CASE services'[s] # services[s]
    <3>1. o = routeToOwnerRef(route) /\ pc = "services"
      BY <1>1, <2>2, ServicesStep DEF CInv
    <3>2. route # Absent
      BY <3>1 DEF CInv, HInv, IInv, TypeOK, WorkerTypeOK
    <3> QED BY <3>1, <3>2 DEF CInv, HeldKnown
  <2> QED BY <2>1, <2>2
<1>3. SoundRef(o)'
  BY <1>2, RefsKept DEF CInv
<1> QED BY <1>1, <1>3 DEF SoundRef, Known, Dangling

LEMMA VirtualServiceOwnersKnownStep ==
  ASSUME CInv, [Next]_vars
  PROVE  VirtualServiceOwnersKnown'
<1> SUFFICES ASSUME NEW n \in VirtualServiceNames, virtualServices'[n] # Absent
             PROVE  /\ "owners" \in DOMAIN virtualServices'[n]
                    /\ \A ref \in virtualServices'[n].owners :
                         SoundRef(ref)' /\ Serves(ref, n)'
  BY DEF VirtualServiceOwnersKnown
<1>1. /\ "owners" \in DOMAIN virtualServices'[n]
      /\ \A ref \in virtualServices'[n].owners : SoundRef(ref) /\ Serves(ref, n)
  <2>1. CASE virtualServices'[n] = virtualServices[n]
    BY <2>1 DEF CInv, VirtualServiceOwnersKnown
  <2>2. CASE virtualServices'[n] # virtualServices[n]
    <3>1. CASE /\ virtualServices[n] # Absent
               /\ "owners" \in DOMAIN virtualServices'[n]
               /\ virtualServices'[n].owners =
                    {ref \in virtualServices[n].owners : ~ Dangling(ref)}
      BY <3>1 DEF CInv, VirtualServiceOwnersKnown
    <3>2. ASSUME NEW list \in {routeList, removeRouteFromRouteList(route, routeList)},
                 pc = "services", n = VirtualServiceName(FQDN(route)),
                 virtualServices'[n].owners = {routeToOwnerRef(q) : q \in list}
          PROVE  \A ref \in virtualServices'[n].owners : SoundRef(ref) /\ Serves(ref, n)
      <4>1. list \subseteq routeList
        BY DEF removeRouteFromRouteList
      <4>2. \A q \in routeList : /\ SoundRef(routeToOwnerRef(q))
                                /\ Serves(routeToOwnerRef(q), n)
        BY <3>2 DEF CInv, ListedKnown
      <4> QED BY <3>2, <4>1, <4>2
    <3> QED BY <2>2, <3>1, <3>2, VirtualServicesStep DEF CInv
  <2> QED BY <2>1, <2>2
<1> QED BY <1>1, RefsKept DEF CInv

\* The children of a busy worker stay of the incarnation it holds.
LEMMA SameIncarnationKept ==
  ASSUME CInv, [Next]_vars, NEW ref, SoundRef(ref), Working',
         Working => SameIncarnation(ref)
  PROVE  SameIncarnation(ref)'
<1>1. Dangling(ref) => Dangling(ref)'
  BY RefsKept DEF CInv
<1>2. ASSUME NEW k \in RouteNames, Get(k)
      PROVE  SameIncarnation(ref)'
  <2>1. /\ route' = routeCache[k] /\ UNCHANGED routes
        /\ routeCache[k] # Absent
    BY <1>2 DEF Get, clusterVars, routeVars, Working
  <2>2. routeCache[k].name = k
    BY <2>1, CachedRef DEF CInv
  <2> QED BY <2>1, <2>2 DEF SameIncarnation, SoundRef, Known, Dangling
<1>3. ASSUME UNCHANGED route, Working
      PROVE  SameIncarnation(ref)'
  BY <1>1, <1>3 DEF SameIncarnation
<1>4. CASE route'.name = route.name /\ route'.uid = route.uid /\ pc = "addFinalizer"
  BY <1>1, <1>4 DEF SameIncarnation, Working
<1>5. CASE List \/ ListServices \/ ListServicesToFinalize
  BY <1>3, <1>5 DEF List, ListServices, ListServicesToFinalize, Working
<1>6. CASE UNCHANGED route /\ pc' = pc
  BY <1>3, <1>6 DEF Working
<1> QED BY <1>2, <1>4, <1>5, <1>6, WorkerStep DEF CInv

LEMMA HeldKnownStep ==
  ASSUME CInv, [Next]_vars
  PROVE  HeldKnown'
<1>1. route' # Absent => SoundRef(routeToOwnerRef(route))'
  <2> SUFFICES ASSUME route' # Absent
               PROVE  SoundRef(routeToOwnerRef(route))'
    OBVIOUS
  <2>1. PICK o : o = routeToOwnerRef(route')
    OBVIOUS
  <2>2. ASSUME o = routeToOwnerRef(route), route # Absent
        PROVE  SoundRef(o)
    BY <2>2 DEF CInv, HeldKnown
  <2>3. ASSUME NEW k \in RouteNames, Get(k)
        PROVE  SoundRef(o)
    BY <2>1, <2>3, CachedRef DEF CInv, Get
  <2>4. SoundRef(o)
    <3>1. CASE pc = "addFinalizer" /\ o = routeToOwnerRef(route)
      BY <2>2, <3>1 DEF CInv, HInv, IInv, TypeOK, WorkerTypeOK
    <3>2. CASE UNCHANGED route
      BY <2>1, <2>2, <3>2
    <3> QED BY <2>1, <2>3, <3>1, <3>2, WorkerStep
            DEF CInv, List, ListServices, ListServicesToFinalize
  <2>5. SoundRef(o)'
    BY <2>4, RefsKept DEF CInv
  <2> QED BY <2>1, <2>5 DEF SoundRef, Known, Dangling
<1>2. ASSUME Working', NEW s \in ServiceNames, services'[s] # Absent
      PROVE  SameIncarnation(services[s].owner)'
  <2>1. PICK o : o = services'[s].owner
    OBVIOUS
  <2>2. SameIncarnation(o)'
    <3>1. CASE services'[s] = services[s]
      <4>1. SoundRef(o) /\ (Working => SameIncarnation(o))
        BY <1>2, <2>1, <3>1 DEF CInv, ServiceOwnersKnown, HeldKnown
      <4> QED BY <1>2, <4>1, SameIncarnationKept
    <3>2. CASE services'[s] # services[s]
      <4>1. o = routeToOwnerRef(route) /\ UNCHANGED route
        BY <1>2, <2>1, <3>2, ServicesStep DEF CInv
      <4> QED BY <4>1 DEF SameIncarnation, routeToOwnerRef
    <3> QED BY <3>1, <3>2
  <2> QED BY <2>1, <2>2 DEF SameIncarnation, Dangling
<1>3. ASSUME Working', NEW n \in VirtualServiceNames, virtualServices'[n] # Absent,
             NEW ref \in virtualServices'[n].owners
      PROVE  SameIncarnation(ref)'
  <2>1. virtualServices[n] # Absent /\ ref \in virtualServices[n].owners
    <3>1. CASE virtualServices'[n] = virtualServices[n]
      BY <1>3, <3>1
    <3>2. CASE virtualServices'[n] # virtualServices[n]
      BY <1>3, <3>2, VirtualServicesStep DEF CInv
    <3> QED BY <3>1, <3>2
  <2>2. SoundRef(ref) /\ (Working => SameIncarnation(ref))
    BY <2>1 DEF CInv, VirtualServiceOwnersKnown, HeldKnown
  <2> QED BY <1>3, <2>2, SameIncarnationKept
<1> QED BY <1>1, <1>2, <1>3 DEF HeldKnown

LEMMA ListedKnownStep ==
  ASSUME CInv, [Next]_vars
  PROVE  ListedKnown'
<1> USE DEF clusterVars
<1> DEFINE Listing(p) == p \in {"addFinalizer", "listServices", "services"}
<1> SUFFICES ASSUME Listing(pc')
             PROVE  ListedKnown'
  BY DEF ListedKnown
<1>1. Working'
  BY DEF Working
<1>2. ASSUME Listing(pc), UNCHANGED routeList, FQDN(route') = FQDN(route)
      PROVE  ListedKnown'
  <2>1. ASSUME NEW q \in routeList
        PROVE  /\ FQDN(q) = FQDN(route')
               /\ SoundRef(routeToOwnerRef(q))'
               /\ Serves(routeToOwnerRef(q), VirtualServiceName(FQDN(route)))'
    <3>1. PICK o, n : o = routeToOwnerRef(q) /\ n = VirtualServiceName(FQDN(route))
      OBVIOUS
    <3>2. SoundRef(o) /\ Serves(o, n)
      BY <1>2, <2>1, <3>1 DEF CInv, ListedKnown
    <3>3. SoundRef(o)' /\ Serves(o, n)'
      BY <3>2, RefsKept DEF CInv
    <3>4. FQDN(q) = FQDN(route')
      BY <1>2 DEF CInv, ListedKnown
    <3> QED BY <1>2, <3>1, <3>3, <3>4 DEF SoundRef, Known, Dangling, Serves
  <2>2. ASSUME NEW n \in VirtualServiceNames, virtualServices'[n] # Absent,
               n = VirtualServiceName(FQDN(route')),
               NEW ref \in virtualServices'[n].owners
        PROVE  Dangling(ref)' \/ \E q \in routeList : ref = routeToOwnerRef(q)
    <3>1. virtualServices[n] # Absent /\ ref \in virtualServices[n].owners
      <4>1. CASE virtualServices'[n] = virtualServices[n]
        BY <2>2, <4>1
      <4>2. CASE virtualServices'[n] # virtualServices[n]
        BY <1>1, <2>2, <4>2, VirtualServicesStep DEF CInv
      <4> QED BY <4>1, <4>2
    <3>2. SoundRef(ref)
      BY <3>1 DEF CInv, VirtualServiceOwnersKnown
    <3>3. Dangling(ref) \/ \E q \in routeList : ref = routeToOwnerRef(q)
      BY <1>2, <2>2, <3>1 DEF CInv, ListedKnown
    <3> QED BY <3>2, <3>3, RefsKept DEF CInv
  <2> QED BY <1>2, <2>1, <2>2 DEF ListedKnown
<1>3. CASE List
  <2>1. /\ UNCHANGED <<route, routes, routeCache, revision, virtualServices>>
        /\ routeList' = {r \in {routeCache[k] : k \in RouteNames} \ {Absent} :
                           FQDN(r) = FQDN(route)}
    BY <1>3 DEF List, routeVars, vsVars
  <2>2. ASSUME NEW q \in routeList'
        PROVE  /\ FQDN(q) = FQDN(route)
               /\ SoundRef(routeToOwnerRef(q))
               /\ Serves(routeToOwnerRef(q), VirtualServiceName(FQDN(route)))
    <3>1. PICK k \in RouteNames : q = routeCache[k] /\ q # Absent /\ FQDN(q) = FQDN(route)
      BY <2>1
    <3>2. /\ SoundRef(routeToOwnerRef(routeCache[k]))
          /\ Serves(routeToOwnerRef(routeCache[k]), VirtualServiceName(FQDN(routeCache[k])))
      BY <3>1, CachedRef DEF CInv
    <3> QED BY <3>1, <3>2
  <2>3. ASSUME NEW n \in VirtualServiceNames, virtualServices[n] # Absent,
               n = VirtualServiceName(FQDN(route)),
               NEW ref \in virtualServices[n].owners, ~ Dangling(ref)
        PROVE  \E q \in routeList' : ref = routeToOwnerRef(q)
    <3>1. SoundRef(ref) /\ Serves(ref, n)
      BY <2>3 DEF CInv, VirtualServiceOwnersKnown
    <3>2. PICK k \in RouteNames : k = ref.name
      BY <3>1 DEF SoundRef, OwnerRefs
    <3> DEFINE q == routeCache[k]
    <3>3. q # Absent /\ q.uid = ref.uid
      BY <2>3, <3>1, <3>2 DEF SoundRef, Known
    <3>4. q.name = k /\ Serves(routeToOwnerRef(q), VirtualServiceName(FQDN(q)))
      BY <3>3, CachedRef DEF CInv
    <3>5. ref = routeToOwnerRef(q)
      BY <3>1, <3>2, <3>3, <3>4 DEF SoundRef, OwnerRefs, routeToOwnerRef
    <3>6. VirtualServiceName(FQDN(q)) = VirtualServiceName(FQDN(route))
      BY <2>3, <3>1, <3>4, <3>5 DEF Serves
    <3>7. FQDN(q) = FQDN(route)
      BY <3>6, NameIsInjective
    <3> QED BY <2>1, <3>3, <3>5, <3>7
  <2> QED BY <2>1, <2>2, <2>3 DEF ListedKnown, SoundRef, Known, Dangling, Serves
<1>4. CASE ListServices \/ ListServicesToFinalize
  BY <1>2, <1>4 DEF ListServices, ListServicesToFinalize
<1>5. ASSUME NEW k \in RouteNames, Get(k)
      PROVE  FALSE
  BY <1>5 DEF Get
<1>6. CASE UNCHANGED <<route, routeList>> /\ pc' = pc
  BY <1>2, <1>6
<1>7. CASE pc = "addFinalizer" /\ UNCHANGED routeList /\ FQDN(route') = FQDN(route)
  BY <1>2, <1>7
<1> QED BY <1>1, <1>3, <1>4, <1>5, <1>6, <1>7, WorkerStep DEF CInv

\* Writes and deliveries of Services, seen as changes of a value, a stream and
\* a cached copy.
LEMMA ServicesNamedStep ==
  ASSUME CInv, [Next]_vars
  PROVE  ServicesNamed'
<1> USE DEF clusterVars, serviceVars
<1>0. /\ services \in [ServiceNames -> ServiceOrAbsent]
      /\ serviceEvents \in [ServiceNames -> Seq(ServiceOrAbsent)]
      /\ serviceCache \in [ServiceNames -> ServiceOrAbsent]
  BY DEF CInv, HInv, IInv, TypeOK, ClusterTypeOK
<1>1. ASSUME NEW t \in ServiceNames, NEW v \in ServiceOrAbsent, PutService(t, v),
             NamedFor(v, t)
      PROVE  ServicesNamed'
  <2> SUFFICES ASSUME NEW s \in ServiceNames
               PROVE  /\ NamedFor(services'[s], s)
                      /\ NamedFor(serviceCache'[s], s)
                      /\ \A i \in 1..Len(serviceEvents'[s]) :
                           NamedFor(serviceEvents'[s][i], s)
    BY DEF ServicesNamed
  <2>1. CASE s # t
    BY <1>0, <1>1, <2>1 DEF PutService, CInv, ServicesNamed
  <2>2. CASE s = t
    <3>1. /\ serviceEvents'[s] = Append(serviceEvents[s], v)
          /\ services'[s] = v /\ serviceCache' = serviceCache
      BY <1>0, <1>1, <2>2 DEF PutService
    <3>2. \A i \in 1..Len(Append(serviceEvents[s], v)) :
            \/ Append(serviceEvents[s], v)[i] = v
            \/ /\ i \in 1..Len(serviceEvents[s])
               /\ Append(serviceEvents[s], v)[i] = serviceEvents[s][i]
      BY <1>0
    <3> QED BY <1>1, <2>2, <3>1, <3>2 DEF CInv, ServicesNamed
  <2> QED BY <2>1, <2>2
<1>2. ASSUME UNCHANGED serviceVars PROVE ServicesNamed'
  BY <1>2 DEF CInv, ServicesNamed
<1>3. ASSUME NEW t \in ServiceNames, ReceiveService(t)
      PROVE  ServicesNamed'
  <2> SUFFICES ASSUME NEW s \in ServiceNames
               PROVE  /\ NamedFor(services'[s], s)
                      /\ NamedFor(serviceCache'[s], s)
                      /\ \A i \in 1..Len(serviceEvents'[s]) :
                           NamedFor(serviceEvents'[s][i], s)
    BY DEF ServicesNamed
  <2>1. CASE s # t
    BY <1>0, <1>3, <2>1 DEF ReceiveService, CInv, ServicesNamed
  <2>2. CASE s = t
    <3> DEFINE e == serviceEvents[s]
    <3>1. /\ e \in Seq(ServiceOrAbsent) /\ e # <<>>
          /\ services' = services
          /\ serviceCache'[s] = Head(e) /\ serviceEvents'[s] = Tail(e)
      BY <1>0, <1>3, <2>2 DEF ReceiveService
    <3>2. /\ 1 \in 1..Len(e) /\ Head(e) = e[1]
          /\ \A i \in 1..Len(Tail(e)) : i + 1 \in 1..Len(e) /\ Tail(e)[i] = e[i + 1]
      BY <3>1
    <3> QED BY <3>1, <3>2 DEF CInv, ServicesNamed
  <2> QED BY <2>1, <2>2
<1>4. CASE Crash
  <2>1. /\ UNCHANGED services /\ serviceCache' = services
        /\ \A s \in ServiceNames : serviceEvents'[s] = <<>>
    BY <1>4 DEF Crash, Relist
  <2> QED BY <2>1 DEF CInv, ServicesNamed
<1>5. Absent \in ServiceOrAbsent /\ \A s : NamedFor(Absent, s)
  BY DEF ServiceOrAbsent, NamedFor
<1>6. CASE Environment
  BY <1>1, <1>2, <1>3, <1>5, <1>6
     DEF Environment, ClusterNext, CreateRoute, UpdateRoute, DeleteRoute,
         EvictService, CollectService, EvictVirtualService, CollectVirtualService,
         ReceiveVirtualService
<1>7. CASE ApplyService
  <2> DEFINE t == BuildServices(route)[applied + 1].name
             body == BuildServices(route)[applied + 1].body
  <2>1. CASE PutService(t, body) /\ services[t] # body
    <3>1. route \in Routes /\ applied \in Nat /\ applied < Len(route.spec.destinations)
      BY <1>7 DEF ApplyService, ServicesPending, RouteOrAbsent, CInv, HInv, IInv,
                  TypeOK, WorkerTypeOK
    <3>2. Len(route.spec.destinations) \in Nat
      BY <3>1, ClusterAssumption DEF Routes
    <3>3. applied + 1 \in 1..Len(route.spec.destinations)
      BY <3>1, <3>2
    <3>4. t \in ServiceNames /\ body \in Services
      BY <3>1, <3>3, BuiltServiceType
    <3> HIDE DEF t, body
    <3>5. services'[t] = body /\ services'[t] # services[t]
      BY <1>0, <2>1, <3>4 DEF PutService
    <3>6. body.owner.name = route.name /\ t \in ServiceNamesOf(route.name)
      BY <3>4, <3>5, ServicesStep, AbsentIsNoObject DEF CInv, routeToOwnerRef
    <3> QED BY <1>1, <2>1, <3>4, <3>6 DEF ServiceOrAbsent, NamedFor
  <2> QED BY <1>2, <1>7, <2>1 DEF ApplyService
<1>8. ASSUME NEW s \in ServiceNames, DeleteService(s)
      PROVE  ServicesNamed'
  BY <1>1, <1>2, <1>5, <1>8 DEF DeleteService
<1>9. ASSUME NEW k \in RouteNames, Get(k) \/ Resync(k) \/ Redeliver(k) \/ DeliverRoute(k)
      PROVE  ServicesNamed'
  BY <1>2, <1>9 DEF Get, Resync, Redeliver, DeliverRoute, ReceiveRoute
<1>10. CASE \/ Abort \/ List \/ AddFinalizer \/ ListServices \/ ListServicesToFinalize
            \/ ApplyVirtualService \/ ShrinkVirtualService \/ DeleteVirtualService
            \/ RemoveFinalizer \/ Succeed \/ Finalized \/ UNCHANGED vars
  BY <1>2, <1>10
     DEF Abort, List, AddFinalizer, ListServices, ListServicesToFinalize,
         ApplyVirtualService, ShrinkVirtualService, DeleteVirtualService,
         RemoveFinalizer, Succeed, Finalized, vars
<1> QED BY <1>4, <1>6, <1>7, <1>8, <1>9, <1>10 DEF Next, Reconcile

LEMMA CondemnedOwnedStep ==
  ASSUME CInv, [Next]_vars
  PROVE  CondemnedOwned'
<1> SUFFICES ASSUME pc' = "services", NEW s \in condemned'
             PROVE  /\ s \in ServiceNamesOf(route'.name)
                    /\ \/ route'.deleting
                       \/ \A i \in DOMAIN route'.spec.destinations :
                            serviceName(route'.spec.destinations[i]) # s
  BY DEF CondemnedOwned
<1>1. ASSUME s \in OwnedServices
      PROVE  s \in ServiceNamesOf(route.name)
  BY <1>1 DEF OwnedServices, CInv, ServicesNamed, NamedFor, routeToOwnerRef
<1>2. CASE ListServicesToFinalize
  BY <1>1, <1>2 DEF ListServicesToFinalize
<1>3. CASE ListServices
  <2>1. UNCHANGED route
        /\ s \in OwnedServices
        /\ s \notin {BuildServices(route)[i].name : i \in DOMAIN BuildServices(route)}
    BY <1>3 DEF ListServices, findServicesForDeletion
  <2>2. /\ DOMAIN BuildServices(route) = DOMAIN route.spec.destinations
        /\ \A i \in DOMAIN route.spec.destinations :
             BuildServices(route)[i].name = serviceName(route.spec.destinations[i])
    BY DEF BuildServices
  <2> QED BY <1>1, <2>1, <2>2
<1>4. CASE UNCHANGED route /\ condemned' \subseteq condemned /\ pc' = pc
  BY <1>4 DEF CInv, CondemnedOwned
<1>5. Working'
  BY DEF Working
<1>6. CASE List
  BY <1>6 DEF List, AfterList
<1> QED BY <1>2, <1>3, <1>4, <1>5, <1>6, WorkerStep DEF CInv, Get

LEMMA ChildrenStep ==
  ASSUME CInv, [Next]_vars
  PROVE  CInv'
<1>1. HInv'
  BY HistoryStep DEF CInv
<1> QED BY <1>1, ServiceOwnersKnownStep, VirtualServiceOwnersKnownStep, HeldKnownStep,
           ListedKnownStep, ServicesNamedStep, CondemnedOwnedStep
        DEF CInv

LEMMA ChildrenInit == Init => CInv
<1> SUFFICES ASSUME Init PROVE CInv
  OBVIOUS
<1>1. /\ \A s \in ServiceNames : /\ services[s] = Absent
                                /\ serviceCache[s] = Absent
                                /\ serviceEvents[s] = <<>>
      /\ \A n \in VirtualServiceNames : virtualServices[n] = Absent
      /\ route = Absent /\ pc = "idle"
  BY DEF Init, ClusterInit
<1>2. HInv
  BY HistoryInit
<1> QED BY <1>1, <1>2
        DEF CInv, ServiceOwnersKnown, VirtualServiceOwnersKnown, HeldKnown, ListedKnown,
            ServicesNamed, NamedFor, CondemnedOwned, Working

LEMMA ChildrenInvariance == Spec => []CInv
BY ChildrenInit, ChildrenStep, PTL DEF Spec

-----------------------------------------------------------------------------
(******************************** Theorems *********************************)

(***************************************************************************)
(* deleteServiceList deletes by name what a list from the cache named, yet *)
(* it takes no Service away from a Route in the API but the worker's own,  *)
(* and from that one only what it does not want.                           *)
(***************************************************************************)
THEOREM OnlyOwnersDelete == Spec => OnlyOwnersDeleteServices
<1>1. ASSUME CInv, [Next]_vars
      PROVE  DeletesServicesOfOwner
  <2> SUFFICES ASSUME NEW s \in ServiceNames,
                      services[s] # Absent, services'[s] = Absent,
                      ~ Dangling(services[s].owner), ~ Evicted
               PROVE  /\ route # Absent
                      /\ services[s].owner = routeToOwnerRef(route)
                      /\ \/ route.deleting
                         \/ \A i \in DOMAIN route.spec.destinations :
                              serviceName(route.spec.destinations[i]) # s
    BY DEF DeletesServicesOfOwner
  <2>1. pc = "services" /\ s \in condemned
    BY <1>1, ServicesStep DEF CInv
  <2>2. route \in Routes /\ route # Absent /\ route.name \in RouteNames
    BY <1>1, <2>1
       DEF CInv, HInv, IInv, TypeOK, WorkerTypeOK, RouteOrAbsent, Routes
  <2>3. PICK o : o = services[s].owner
    OBVIOUS
  <2>4. SoundRef(o) /\ s \in ServiceNamesOf(o.name) /\ SameIncarnation(o)
    BY <1>1, <2>1, <2>3
       DEF CInv, ServiceOwnersKnown, ServicesNamed, NamedFor, HeldKnown, Working
  <2>5. /\ s \in ServiceNamesOf(route.name)
        /\ \/ route.deleting
           \/ \A i \in DOMAIN route.spec.destinations :
                serviceName(route.spec.destinations[i]) # s
    BY <1>1, <2>1 DEF CInv, CondemnedOwned
  <2>6. o \in OwnerRefs /\ o.name \in RouteNames
    BY <2>4 DEF SoundRef, OwnerRefs
  <2>7. o.name = route.name
    BY <2>2, <2>4, <2>5, <2>6, DestinationAssumption
  <2>8. o = routeToOwnerRef(route)
    BY <2>3, <2>4, <2>6, <2>7 DEF SameIncarnation, OwnerRefs, routeToOwnerRef
  <2> QED BY <2>2, <2>3, <2>5, <2>8
<1> QED BY <1>1, ChildrenInvariance, PTL DEF Spec, OnlyOwnersDeleteServices

(***************************************************************************)
(* finalizeRouteForDeletion deletes the VirtualService when its list, read *)
(* from a cache that lags, has no other Route; no Route in the API that    *)
(* the VirtualService lists is overlooked by that.                         *)
(***************************************************************************)
THEOREM VirtualServiceOutlives == Spec => VirtualServiceOutlivesItsRoutes
<1>1. ASSUME CInv, [Next]_vars
      PROVE  DeletesUnusedVirtualServices
  <2> SUFFICES ASSUME NEW n \in VirtualServiceNames,
                      virtualServices[n] # Absent, virtualServices'[n] = Absent,
                      ~ Evicted,
                      NEW ref \in virtualServices[n].owners, ~ Dangling(ref)
               PROVE  route # Absent /\ route.deleting /\ ref = routeToOwnerRef(route)
    BY DEF DeletesUnusedVirtualServices
  <2>1. "owners" \notin DOMAIN Absent
    BY DEF Absent
  <2>2. /\ pc = "services" /\ route.deleting
        /\ n = VirtualServiceName(FQDN(route))
        /\ removeRouteFromRouteList(route, routeList) = {}
    BY <1>1, <2>1, VirtualServicesStep DEF CInv
  <2>3. route # Absent
    BY <1>1, <2>2 DEF CInv, HInv, IInv, TypeOK, WorkerTypeOK
  <2>4. PICK q \in routeList : ref = routeToOwnerRef(q)
    BY <1>1, <2>2 DEF CInv, ListedKnown
  <2>5. ref.name = route.name
    BY <2>2, <2>4 DEF removeRouteFromRouteList, routeToOwnerRef
  <2>6. SameIncarnation(ref)
    BY <1>1, <2>2 DEF CInv, HeldKnown, Working
  <2> QED BY <2>2, <2>3, <2>4, <2>5, <2>6 DEF SameIncarnation, routeToOwnerRef
<1> QED BY <1>1, ChildrenInvariance, PTL DEF Spec, VirtualServiceOutlivesItsRoutes

-----------------------------------------------------------------------------
(************************* The abstract specification **********************)

(***************************************************************************)
(* RouteController implements RouteLifecycle: its initial states map to    *)
(* the initial state of the abstract specification, and each of its steps  *)
(* to a step of it or to none.                                             *)
(***************************************************************************)

\* What a step that does not concern the Routes leaves of the abstract state.
StagesKept == \A k \in RouteNames : StageOf(k)' = StageOf(k)

ProvidersKept ==
  \A s \in ServiceNames : /\ (services[s] = Absent)' = (services[s] = Absent)
                         /\ ProvidersOf(s)' = ProvidersOf(s)

ListsKept == \A n \in VirtualServiceNames : ListedIn(n)' = ListedIn(n)

LossesKept == spent'["evict"] = spent["evict"]

-----------------------------------------------------------------------------
(************************** Abstract steps, by point ***********************)

LEMMA Stutter ==
  ASSUME StagesKept, ProvidersKept, ListsKept, LossesKept
  PROVE  UNCHANGED Lifecycle!vars
BY DEF StagesKept, ProvidersKept, ListsKept, LossesKept, Lifecycle!vars,
       Lifecycle!serviceVars

\* Route k moves from one stage to the next and nothing else happens.
LEMMA MoveStep ==
  ASSUME NEW k \in RouteNames, NEW from, NEW to,
         StageOf(k) = from, StageOf(k)' = to,
         \A j \in RouteNames \ {k} : StageOf(j)' = StageOf(j)
  PROVE  Lifecycle!Move(k, from, to)
BY DEF Lifecycle!Move

LEMMA ServicesStay ==
  ASSUME ProvidersKept
  PROVE  UNCHANGED Lifecycle!serviceVars
BY DEF ProvidersKept, Lifecycle!serviceVars

LEMMA ProvideStep ==
  ASSUME NEW s \in ServiceNames, NEW k \in RouteNames,
         StageOf(k) \in {"guarded", "leaving"},
         services'[s] # Absent, ProvidersOf(s)' = {k},
         \A t \in ServiceNames \ {s} : /\ services'[t] = services[t]
                                      /\ ProvidersOf(t)' = ProvidersOf(t),
         StagesKept, ListsKept, LossesKept
  PROVE  Lifecycle!Provide(s, k)
BY DEF Lifecycle!Provide, StagesKept, ListsKept, LossesKept

LEMMA RemoveStep ==
  ASSUME NEW s \in ServiceNames, services'[s] = Absent,
         \A t \in ServiceNames \ {s} : /\ services'[t] = services[t]
                                      /\ ProvidersOf(t)' = ProvidersOf(t)
  PROVE  Lifecycle!Remove(s)
<1>1. ProvidersOf(s)' = {}
  BY DEF ProvidersOf
<1> QED BY <1>1 DEF Lifecycle!Remove

LEMMA PublishStep ==
  ASSUME NEW n \in VirtualServiceNames, NEW S, S = ListedIn(n)',
         \A k \in S : StageOf(k) # "absent", S \in SUBSET RouteNames,
         \A k \in ListedIn(n) \ S : k \in RouteNames /\ StageOf(k) = "leaving",
         \A m \in VirtualServiceNames \ {n} : ListedIn(m)' = ListedIn(m),
         StagesKept, ProvidersKept, LossesKept
  PROVE  Lifecycle!Publish(n, S)
BY ServicesStay DEF Lifecycle!Publish, StagesKept, LossesKept

LEMMA VanishStep ==
  ASSUME NEW k \in RouteNames,
         StageOf(k) \in {"open", "leaving"}, StageOf(k)' = "absent",
         \A j \in RouteNames \ {k} : StageOf(j)' = StageOf(j),
         UNCHANGED services,
         \A s \in ServiceNames : ProvidersOf(s)' = ProvidersOf(s) \ {k},
         \A n \in VirtualServiceNames : ListedIn(n)' = ListedIn(n) \ {k},
         LossesKept
  PROVE  Lifecycle!Vanish(k)
<1>1. Lifecycle!Move(k, "open", "absent") \/ Lifecycle!Move(k, "leaving", "absent")
  BY MoveStep
<1> QED BY <1>1 DEF Lifecycle!Vanish, LossesKept

-----------------------------------------------------------------------------
(*************************** Steps of the Routes ***************************)

LEMMA RoutesStay ==
  ASSUME UNCHANGED routes
  PROVE  /\ StagesKept
         /\ UNCHANGED services => ProvidersKept
         /\ UNCHANGED virtualServices => ListsKept
         /\ \A s \in ServiceNames :
              services'[s] = services[s] => ProvidersOf(s)' = ProvidersOf(s)
         /\ \A n \in VirtualServiceNames :
              virtualServices'[n] = virtualServices[n] => ListedIn(n)' = ListedIn(n)
BY DEF StagesKept, ProvidersKept, ListsKept, StageOf, ProvidersOf, ListedIn, Dangling

\* A reference dangles after a write if it did before or its owner is removed.
LEMMA PutDangling ==
  ASSUME CInv, NEW k \in RouteNames, NEW r \in RouteOrAbsent, PutRoute(k, r),
         Succeeds(k, r, routes[k], revision[k]), NEW ref, SoundRef(ref)
  PROVE  Dangling(ref)' <=> Dangling(ref) \/ (ref.name = k /\ r = Absent)
<1>1. /\ routes'[k] = r
      /\ \A j \in RouteNames \ {k} : routes'[j] = routes[j]
      /\ revision[k] \in Nat /\ routes[k] \in RouteOrAbsent
  BY DEF PutRoute, CInv, HInv, IInv, TypeOK, ClusterTypeOK
<1>2. ref.name \in RouteNames /\ ref.uid \in Nat /\ ref.uid <= revision[ref.name]
  BY DEF SoundRef, OwnerRefs
<1> QED BY <1>1, <1>2 DEF Succeeds, Dangling

LEMMA PutRoutePoints ==
  ASSUME CInv, NEW k \in RouteNames, NEW r \in RouteOrAbsent, PutRoute(k, r),
         Succeeds(k, r, routes[k], revision[k]), UNCHANGED <<services, virtualServices>>
  PROVE  /\ routes'[k] = r
         /\ \A j \in RouteNames \ {k} : StageOf(j)' = StageOf(j)
         /\ r # Absent => ProvidersKept /\ ListsKept
         /\ r = Absent =>
              /\ \A s \in ServiceNames : ProvidersOf(s)' = ProvidersOf(s) \ {k}
              /\ \A n \in VirtualServiceNames : ListedIn(n)' = ListedIn(n) \ {k}
<1>1. /\ routes'[k] = r
      /\ \A j \in RouteNames \ {k} : routes'[j] = routes[j]
  BY DEF PutRoute, CInv, HInv, IInv, TypeOK, ClusterTypeOK
<1>2. \A j \in RouteNames \ {k} : StageOf(j)' = StageOf(j)
  BY <1>1 DEF StageOf
<1>3. ASSUME NEW s \in ServiceNames
      PROVE  ProvidersOf(s)' = IF r = Absent THEN ProvidersOf(s) \ {k} ELSE ProvidersOf(s)
  <2>1. CASE services[s] = Absent
    BY <2>1 DEF ProvidersOf
  <2>2. CASE services[s] # Absent
    <3>1. PICK o : o = services[s].owner /\ o = services'[s].owner
      OBVIOUS
    <3>2. SoundRef(o)
      BY <2>2, <3>1 DEF CInv, ServiceOwnersKnown
    <3>3. Dangling(o)' <=> Dangling(o) \/ (o.name = k /\ r = Absent)
      BY <3>2, PutDangling
    <3>4. ProvidersOf(s) = IF Dangling(o) THEN {} ELSE {o.name}
      BY <2>2, <3>1 DEF ProvidersOf
    <3>5. ProvidersOf(s)' = IF Dangling(o)' THEN {} ELSE {o.name}
      BY <2>2, <3>1 DEF ProvidersOf, Dangling
    <3> QED BY <3>3, <3>4, <3>5
  <2> QED BY <2>1, <2>2
<1>4. ASSUME NEW n \in VirtualServiceNames
      PROVE  ListedIn(n)' = IF r = Absent THEN ListedIn(n) \ {k} ELSE ListedIn(n)
  <2>1. CASE virtualServices[n] = Absent
    BY <2>1 DEF ListedIn
  <2>2. CASE virtualServices[n] # Absent
    <3>1. PICK owners : owners = virtualServices[n].owners
      OBVIOUS
    <3>2. \A o \in owners :
            Dangling(o)' <=> Dangling(o) \/ (o.name = k /\ r = Absent)
      BY <2>2, <3>1, PutDangling DEF CInv, VirtualServiceOwnersKnown
    <3>3. ListedIn(n) = {ref.name : ref \in {o \in owners : ~ Dangling(o)}}
      BY <2>2, <3>1 DEF ListedIn
    <3>4. ListedIn(n)' = {ref.name : ref \in {o \in owners : ~ Dangling(o)'}}
      BY <2>2, <3>1 DEF ListedIn
    <3> QED BY <3>2, <3>3, <3>4
  <2> QED BY <2>1, <2>2
<1>5. r # Absent => ProvidersKept /\ ListsKept
  BY <1>3, <1>4 DEF ProvidersKept, ListsKept
<1> QED BY <1>1, <1>2, <1>3, <1>4, <1>5

\* A fault, a crash or a user's event is not a loss.
LEMMA OtherSpending ==
  ASSUME TypeOK, NEW e \in Events \ {"evict"}, Spend(e)
  PROVE  LossesKept
BY DEF TypeOK, ClusterTypeOK, Spend, LossesKept, Events

LEMMA UserImplements ==
  ASSUME CInv, NEW k \in RouteNames,
         CreateRoute(k) \/ UpdateRoute(k) \/ DeleteRoute(k)
  PROVE  [Lifecycle!Next]_(Lifecycle!vars)
<1> USE DEF serviceVars, vsVars
<1>0. /\ TypeOK /\ routes[k] \in RouteOrAbsent
      /\ LossesKept /\ UNCHANGED <<services, virtualServices>>
  BY OtherSpending
     DEF CInv, HInv, IInv, TypeOK, ClusterTypeOK, CreateRoute, UpdateRoute, DeleteRoute,
         Events
<1>1. PICK r \in RouteOrAbsent :
        /\ PutRoute(k, r)
        /\ Succeeds(k, r, routes[k], revision[k])
        /\ r = Absent => routes[k] # Absent /\ ~ routes[k].finalizer
  BY UserWrite DEF CInv
<1>2. /\ routes'[k] = r
      /\ \A j \in RouteNames \ {k} : StageOf(j)' = StageOf(j)
      /\ r # Absent => ProvidersKept /\ ListsKept
      /\ r = Absent =>
           /\ \A s \in ServiceNames : ProvidersOf(s)' = ProvidersOf(s) \ {k}
           /\ \A n \in VirtualServiceNames : ListedIn(n)' = ListedIn(n) \ {k}
  BY <1>0, <1>1, PutRoutePoints
<1>3. ASSUME r # Absent, StageOf(k)' = StageOf(k)
      PROVE  UNCHANGED Lifecycle!vars
  BY <1>0, <1>2, <1>3, Stutter DEF StagesKept
<1>4. ASSUME r # Absent, NEW from, NEW to, StageOf(k) = from, StageOf(k)' = to
      PROVE  /\ Lifecycle!Move(k, from, to)
             /\ UNCHANGED <<Lifecycle!serviceVars, [n \in VirtualServiceNames |-> ListedIn(n)],
                            spent["evict"]>>
  BY <1>0, <1>2, <1>4, MoveStep, ServicesStay DEF LossesKept, ListsKept
<1>5. CASE CreateRoute(k)
  <2>1. routes[k] = Absent /\ r # Absent
    BY <1>1, <1>5 DEF CreateRoute
  <2>2. PICK spec \in SpecsOf[k] : routes'[k] = NewRoute(k, spec)
    BY <1>0, <1>5 DEF CreateRoute, PutRoute, TypeOK, ClusterTypeOK
  <2>3. ~ r.finalizer /\ ~ r.deleting
    BY <1>2, <2>2 DEF NewRoute
  <2>4. StageOf(k) = "absent" /\ StageOf(k)' = "open"
    BY <1>2, <2>1, <2>3 DEF StageOf
  <2>5. Lifecycle!Create(k)
    BY <1>4, <2>1, <2>4 DEF Lifecycle!Create
  <2> QED BY <2>5 DEF Lifecycle!Next
<1>6. CASE UpdateRoute(k)
  <2>1. PICK spec \in SpecsOf[k] :
          routes'[k] = Stamped(k, [routes[k] EXCEPT !.spec = spec])
    BY <1>0, <1>6 DEF UpdateRoute, PutRoute, TypeOK, ClusterTypeOK
  <2>2. routes[k] \in Routes /\ routes[k] # Absent
    BY <1>0, <1>6 DEF UpdateRoute, RouteOrAbsent
  <2>3. r.finalizer = routes[k].finalizer /\ r.deleting = routes[k].deleting
    BY <1>2, <2>1, <2>2 DEF Stamped, Routes
  <2>4. r # Absent
    <3>1. "name" \in DOMAIN r
      BY <1>2, <2>1, <2>2 DEF Stamped, Routes
    <3>2. "name" \notin DOMAIN Absent
      BY DEF Absent
    <3> QED BY <3>1, <3>2
  <2>5. StageOf(k)' = StageOf(k)
    BY <1>2, <2>2, <2>3, <2>4 DEF StageOf
  <2> QED BY <1>3, <2>4, <2>5
<1>7. CASE DeleteRoute(k)
  <2>1. /\ routes[k] \in Routes /\ routes[k] # Absent /\ ~ routes[k].deleting
        /\ routes'[k] = IF routes[k].finalizer
                        THEN Stamped(k, [routes[k] EXCEPT !.deleting = TRUE])
                        ELSE Absent
    BY <1>0, <1>7 DEF DeleteRoute, RouteOrAbsent, PutRoute, TypeOK, ClusterTypeOK
  <2>2. CASE routes[k].finalizer
    <3>1. r.deleting /\ "name" \in DOMAIN r
      BY <1>2, <2>1, <2>2 DEF Stamped, Routes
    <3>2. "name" \notin DOMAIN Absent
      BY DEF Absent
    <3>3. r # Absent
      BY <3>1, <3>2
    <3>4. StageOf(k) = "guarded" /\ StageOf(k)' = "leaving"
      BY <1>2, <2>1, <2>2, <3>1, <3>3 DEF StageOf
    <3>5. Lifecycle!Condemn(k)
      BY <1>4, <3>3, <3>4 DEF Lifecycle!Condemn
    <3> QED BY <3>5 DEF Lifecycle!Next
  <2>3. CASE ~ routes[k].finalizer
    <3>1. r = Absent /\ StageOf(k) = "open" /\ StageOf(k)' = "absent"
      BY <1>2, <2>1, <2>3 DEF StageOf
    <3>2. Lifecycle!Vanish(k)
      BY <1>0, <1>2, <3>1, VanishStep
    <3> QED BY <3>2 DEF Lifecycle!Next
  <2> QED BY <2>2, <2>3
<1> QED BY <1>5, <1>6, <1>7

LEMMA AddFinalizerImplements ==
  ASSUME CInv, AddFinalizer
  PROVE  [Lifecycle!Next]_(Lifecycle!vars)
<1> USE DEF serviceVars, vsVars
<1>0. /\ TypeOK /\ route \in Routes /\ route # Absent
      /\ ~ route.deleting /\ ~ route.finalizer
      /\ LossesKept /\ UNCHANGED <<services, virtualServices>>
  BY DEF AddFinalizer, LossesKept, CInv, HInv, WayTaken, IInv, TypeOK, WorkerTypeOK,
         RouteOrAbsent
<1>1. CASE /\ IsCurrent(route)
           /\ route' = Stamped(route.name, [route EXCEPT !.finalizer = TRUE])
           /\ PutRoute(route.name, route')
  <2>1. PICK k, r : /\ k = route.name
                    /\ r = Stamped(k, [route EXCEPT !.finalizer = TRUE])
    OBVIOUS
  <2>2. /\ r \in RouteOrAbsent /\ r # Absent
        /\ routes[k] = route
        /\ Succeeds(k, r, routes[k], revision[k])
        /\ r.finalizer /\ ~ r.deleting
    BY <1>1, <2>1, AddFinalizerWrite DEF CInv, AddFinalizer
  <2>3. k \in RouteNames
    BY <1>0, <2>1 DEF Routes
  <2>4. /\ routes'[k] = r
        /\ \A j \in RouteNames \ {k} : StageOf(j)' = StageOf(j)
        /\ ProvidersKept /\ ListsKept
    BY <1>0, <1>1, <2>1, <2>2, <2>3, PutRoutePoints
  <2>5. StageOf(k) = "open" /\ StageOf(k)' = "guarded"
    BY <1>0, <2>2, <2>4 DEF StageOf
  <2>6. Lifecycle!Guard(k)
    BY <1>0, <2>3, <2>4, <2>5, MoveStep, ServicesStay
       DEF Lifecycle!Guard, LossesKept, ListsKept
  <2> QED BY <2>3, <2>6 DEF Lifecycle!Next
<1>2. CASE UNCHANGED routeVars
  BY <1>0, <1>2, RoutesStay, Stutter DEF routeVars
<1> QED BY <1>1, <1>2 DEF AddFinalizer

LEMMA RemoveFinalizerImplements ==
  ASSUME CInv, RemoveFinalizer
  PROVE  [Lifecycle!Next]_(Lifecycle!vars)
<1> USE DEF serviceVars, vsVars
<1>0. /\ TypeOK /\ route \in Routes /\ route # Absent /\ route.deleting
      /\ LossesKept /\ UNCHANGED <<services, virtualServices>>
  BY DEF RemoveFinalizer, LossesKept, CInv, HInv, WayTaken, IInv, TypeOK, WorkerTypeOK,
         RouteOrAbsent
<1>1. CASE IsCurrent(route) /\ PutRoute(route.name, Absent)
  <2>1. PICK k \in RouteNames : k = route.name /\ routes[k] = route
    BY <1>0, <1>1, CurrentIsStored DEF CInv
  <2>2. Succeeds(k, Absent, routes[k], revision[k]) /\ Absent \in RouteOrAbsent
    BY DEF Succeeds, RouteOrAbsent
  <2>3. /\ routes'[k] = Absent
        /\ \A j \in RouteNames \ {k} : StageOf(j)' = StageOf(j)
        /\ \A s \in ServiceNames : ProvidersOf(s)' = ProvidersOf(s) \ {k}
        /\ \A n \in VirtualServiceNames : ListedIn(n)' = ListedIn(n) \ {k}
    BY <1>0, <1>1, <2>1, <2>2, PutRoutePoints
  <2>4. StageOf(k) = "leaving" /\ StageOf(k)' = "absent"
    BY <1>0, <2>1, <2>3 DEF StageOf
  <2>5. Lifecycle!Vanish(k)
    BY <1>0, <2>3, <2>4, VanishStep
  <2> QED BY <2>5 DEF Lifecycle!Next
<1>2. CASE UNCHANGED routeVars
  BY <1>0, <1>2, RoutesStay, Stutter DEF routeVars
<1> QED BY <1>1, <1>2 DEF RemoveFinalizer

-----------------------------------------------------------------------------
(************************** Steps of the children **************************)

\* The stage of the incarnation that a reference to the Route in hand names.
LEMMA HeldStage ==
  ASSUME CInv, route # Absent, ~ Dangling(routeToOwnerRef(route))
  PROVE  /\ route.name \in RouteNames
         /\ route.deleting => StageOf(route.name) = "leaving"
         /\ route.finalizer => StageOf(route.name) \in {"guarded", "leaving"}
<1>1. route.name \in RouteNames
  BY DEF CInv, HInv, IInv, TypeOK, WorkerTypeOK, RouteOrAbsent, Routes
<1>2. routes[route.name] # Absent /\ routes[route.name].uid = route.uid
  BY DEF Dangling, routeToOwnerRef
<1>3. /\ route.deleting => routes[route.name].deleting
      /\ route.finalizer => routes[route.name].finalizer
  BY <1>2 DEF CInv, HInv, IInv, HeldPast, Past, HeldSound, Sound
<1> QED BY <1>1, <1>2, <1>3 DEF StageOf

\* A step that changes Services only: one is provided or one is retracted.
LEMMA ServiceImplements ==
  ASSUME CInv, [Next]_vars, UNCHANGED <<routes, virtualServices>>,
         NEW s \in ServiceNames, NEW v, PutService(s, v), v = Absent => services[s] # Absent
  PROVE  LossesKept => [Lifecycle!Next]_(Lifecycle!vars)
<1>0. services \in [ServiceNames -> ServiceOrAbsent]
  BY DEF CInv, HInv, IInv, TypeOK, ClusterTypeOK
<1>1. /\ services'[s] = v
      /\ \A t \in ServiceNames \ {s} : services'[t] = services[t]
  BY <1>0 DEF PutService
<1>2. /\ StagesKept /\ ListsKept
      /\ \A t \in ServiceNames \ {s} : ProvidersOf(t)' = ProvidersOf(t)
  BY <1>1, RoutesStay
<1>3. CASE v = Absent
  <2>1. Lifecycle!Remove(s)
    BY <1>1, <1>2, <1>3, RemoveStep
  <2>2. LossesKept => Lifecycle!Retract(s)
    BY <1>2, <2>1 DEF Lifecycle!Retract, StagesKept, ListsKept, LossesKept
  <2> QED BY <2>2 DEF Lifecycle!Next
<1>4. CASE v = services[s]
  <2>1. UNCHANGED services
    BY <1>0, <1>4 DEF PutService
  <2> QED BY <1>2, <2>1, RoutesStay, Stutter
<1>5. CASE v # Absent /\ v # services[s]
  <2>1. /\ pc = "services" /\ ~ route.deleting
        /\ services'[s].owner = routeToOwnerRef(route)
    BY <1>1, <1>5, ServicesStep DEF CInv
  <2>2. PICK k, o : k = route.name /\ o = routeToOwnerRef(route)
    OBVIOUS
  <2>3. /\ route # Absent /\ k \in RouteNames /\ route.finalizer
        /\ o.name = k /\ o.uid = route.uid
    BY <2>1, <2>2 DEF CInv, HInv, IInv, TypeOK, WorkerTypeOK, RouteOrAbsent, Routes,
                      HeldSound, routeToOwnerRef
  <2>4. routes[k] # Absent /\ routes[k].uid = route.uid
    BY <2>1, <2>2, <2>3 DEF CInv, HInv, HeldPast, Alive
  <2>5. ~ Dangling(o)
    BY <2>3, <2>4 DEF Dangling
  <2>6. StageOf(k) \in {"guarded", "leaving"}
    BY <2>2, <2>3, <2>5, HeldStage
  <2>7. ProvidersOf(s)' = {k}
    BY <1>1, <1>5, <2>1, <2>2, <2>3, <2>4 DEF ProvidersOf, Dangling
  <2>8. LossesKept => Lifecycle!Provide(s, k)
    BY <1>1, <1>2, <1>5, <2>3, <2>6, <2>7, ProvideStep
  <2> QED BY <2>3, <2>8 DEF Lifecycle!Next
<1> QED BY <1>3, <1>4, <1>5

\* A step that changes VirtualServices only and is not a loss.
LEMMA VirtualServiceImplements ==
  ASSUME CInv, [Next]_vars, UNCHANGED <<routes, services>>, LossesKept,
         NEW n \in VirtualServiceNames, NEW v, PutVirtualService(n, v)
  PROVE  [Lifecycle!Next]_(Lifecycle!vars)
<1>0. /\ DOMAIN virtualServices = VirtualServiceNames
      /\ CInv'
  BY ChildrenStep DEF CInv, HInv, IInv, TypeOK, ClusterTypeOK
<1>1. \A m \in VirtualServiceNames \ {n} : virtualServices'[m] = virtualServices[m]
  BY <1>0 DEF PutVirtualService
<1>2. /\ StagesKept /\ ProvidersKept
      /\ \A m \in VirtualServiceNames \ {n} : ListedIn(m)' = ListedIn(m)
  BY <1>1, RoutesStay
<1>3. PICK S : S = ListedIn(n)'
  OBVIOUS
<1>4. ASSUME NEW k \in S
      PROVE  k \in RouteNames /\ StageOf(k) # "absent"
  <2>1. /\ virtualServices'[n] # Absent
        /\ \E o \in virtualServices'[n].owners : o.name = k /\ ~ Dangling(o)'
    BY <1>3 DEF ListedIn
  <2>2. PICK o \in virtualServices'[n].owners : o.name = k /\ ~ Dangling(o)'
    BY <2>1
  <2>3. SoundRef(o)'
    BY <1>0, <2>1 DEF CInv, VirtualServiceOwnersKnown
  <2> QED BY <2>2, <2>3 DEF SoundRef, OwnerRefs, Dangling, StageOf
<1>5. CASE virtualServices'[n] = virtualServices[n]
  <2>1. ListsKept
    BY <1>2, <1>5, RoutesStay DEF ListsKept
  <2> QED BY <1>2, <2>1, Stutter
<1>6. ASSUME virtualServices'[n] # virtualServices[n], NEW k \in ListedIn(n) \ S
      PROVE  k \in RouteNames /\ StageOf(k) = "leaving"
  <2>1. /\ virtualServices[n] # Absent
        /\ \E o \in virtualServices[n].owners : o.name = k /\ ~ Dangling(o)
    BY <1>6 DEF ListedIn
  <2>2. PICK o \in virtualServices[n].owners : o.name = k /\ ~ Dangling(o)
    BY <2>1
  <2>3. virtualServices'[n] # Absent => o \notin virtualServices'[n].owners
    BY <1>3, <1>6, <2>2 DEF ListedIn, Dangling
  <2>4. ~ Evicted
    BY DEF LossesKept, Evicted
  <2>5. "owners" \notin DOMAIN Absent
    BY DEF Absent
  <2>6. /\ pc = "services" /\ n = VirtualServiceName(FQDN(route)) /\ route.deleting
        /\ \A q \in routeList : o = routeToOwnerRef(q) => q.name = route.name
    <3>1. CASE /\ virtualServices[n] # Absent /\ virtualServices'[n] = Absent
               /\ pc = "services" /\ route.deleting
               /\ n = VirtualServiceName(FQDN(route))
               /\ removeRouteFromRouteList(route, routeList) = {}
      BY <3>1 DEF removeRouteFromRouteList
    <3>2. ASSUME pc = "services", n = VirtualServiceName(FQDN(route)),
                 "owners" \in DOMAIN virtualServices'[n],
                 NEW list \in {routeList, removeRouteFromRouteList(route, routeList)},
                 virtualServices'[n].owners = {routeToOwnerRef(q) : q \in list},
                 list # routeList => route.deleting
          PROVE  /\ route.deleting
                 /\ \A q \in routeList : o = routeToOwnerRef(q) => q.name = route.name
      <4>1. o \notin {routeToOwnerRef(q) : q \in list}
        BY <2>3, <2>5, <3>2
      <4>2. \E q \in routeList : o = routeToOwnerRef(q)
        BY <2>1, <2>2, <3>2 DEF CInv, ListedKnown
      <4> QED BY <3>2, <4>1, <4>2 DEF removeRouteFromRouteList
    <3> QED BY <1>6, <2>2, <2>3, <2>4, <2>5, <3>1, <3>2, VirtualServicesStep DEF CInv
  <2>7. \E q \in routeList : o = routeToOwnerRef(q)
    BY <2>1, <2>2, <2>6 DEF CInv, ListedKnown
  <2>8. o.name = route.name /\ route # Absent
    BY <2>6, <2>7 DEF routeToOwnerRef, CInv, HInv, IInv, TypeOK, WorkerTypeOK
  <2>9. o = routeToOwnerRef(route)
    <3>1. SameIncarnation(o)
      BY <2>1, <2>6 DEF CInv, HeldKnown, Working
    <3> QED BY <2>2, <2>7, <2>8, <3>1 DEF SameIncarnation, routeToOwnerRef
  <2> QED BY <2>2, <2>6, <2>8, <2>9, HeldStage
<1>7. CASE virtualServices'[n] # virtualServices[n]
  <2>1. Lifecycle!Publish(n, S)
    BY <1>2, <1>3, <1>4, <1>6, <1>7, PublishStep
  <2>2. S \in SUBSET RouteNames
    BY <1>4
  <2> QED BY <2>1, <2>2 DEF Lifecycle!Next
<1> QED BY <1>5, <1>7

-----------------------------------------------------------------------------
(******************************** Theorem **********************************)

LEMMA EvictionImplements ==
  ASSUME CInv, \/ \E s \in ServiceNames : EvictService(s)
               \/ \E n \in VirtualServiceNames : EvictVirtualService(n)
  PROVE  Lifecycle!Lose
<1>0. /\ services \in [ServiceNames -> ServiceOrAbsent]
      /\ DOMAIN virtualServices = VirtualServiceNames
      /\ DOMAIN spent = Events
  BY DEF CInv, HInv, IInv, TypeOK, ClusterTypeOK
<1>1. spent'["evict"] = spent["evict"] + 1
  BY <1>0 DEF EvictService, EvictVirtualService, Spend, Events
<1>2. UNCHANGED routes
  BY DEF EvictService, EvictVirtualService, routeVars
<1>3. StagesKept
  BY <1>2, RoutesStay
<1>4. ASSUME NEW s \in ServiceNames, EvictService(s)
      PROVE  Lifecycle!Remove(s) /\ ListsKept
  <2>1. /\ services'[s] = Absent /\ UNCHANGED virtualServices
        /\ \A t \in ServiceNames \ {s} : services'[t] = services[t]
    BY <1>0, <1>4 DEF EvictService, PutService, vsVars
  <2> QED BY <1>2, <2>1, RoutesStay, RemoveStep
<1>5. ASSUME NEW n \in VirtualServiceNames, EvictVirtualService(n)
      PROVE  /\ ProvidersKept /\ ListedIn(n)' = {}
             /\ \A m \in VirtualServiceNames \ {n} : ListedIn(m)' = ListedIn(m)
  <2>1. /\ virtualServices'[n] = Absent /\ UNCHANGED services
        /\ \A m \in VirtualServiceNames \ {n} : virtualServices'[m] = virtualServices[m]
    BY <1>0, <1>5 DEF EvictVirtualService, PutVirtualService, serviceVars
  <2>2. ListedIn(n)' = {}
    BY <2>1 DEF ListedIn
  <2> QED BY <1>2, <2>1, <2>2, RoutesStay
<1>6. CASE \E s \in ServiceNames : EvictService(s)
  BY <1>1, <1>3, <1>4, <1>6 DEF Lifecycle!Lose, StagesKept, ListsKept
<1>7. CASE \E n \in VirtualServiceNames : EvictVirtualService(n)
  <2>1. PICK n \in VirtualServiceNames : EvictVirtualService(n)
    BY <1>7
  <2>2. UNCHANGED Lifecycle!serviceVars
    BY <1>5, <2>1, ServicesStay
  <2> QED BY <1>1, <1>3, <1>5, <2>1, <2>2 DEF Lifecycle!Lose, StagesKept
<1> QED BY <1>6, <1>7

LEMMA StepImplements ==
  ASSUME CInv, [Next]_vars
  PROVE  [Lifecycle!Next]_(Lifecycle!vars)
<1> USE DEF clusterVars, routeVars, serviceVars, vsVars
<1>0. /\ TypeOK /\ VirtualServiceNames = DOMAIN virtualServices
      /\ services \in [ServiceNames -> ServiceOrAbsent]
  BY DEF CInv, HInv, IInv, TypeOK, ClusterTypeOK
<1>1. ASSUME UNCHANGED <<routes, services, virtualServices>>, LossesKept
      PROVE  UNCHANGED Lifecycle!vars
  BY <1>1, RoutesStay, Stutter
<1>2. CASE Environment
  <2>1. ASSUME NEW s \in ServiceNames, CollectService(s)
        PROVE  [Lifecycle!Next]_(Lifecycle!vars)
    BY <2>1, ServiceImplements DEF CollectService, LossesKept
  <2>2. ASSUME NEW n \in VirtualServiceNames, CollectVirtualService(n)
        PROVE  [Lifecycle!Next]_(Lifecycle!vars)
    BY <2>2, VirtualServiceImplements DEF CollectVirtualService, LossesKept
  <2>3. ASSUME \/ \E s \in ServiceNames : EvictService(s)
               \/ \E n \in VirtualServiceNames : EvictVirtualService(n)
        PROVE  Lifecycle!Next
    BY <2>3, EvictionImplements DEF Lifecycle!Next
  <2>4. ASSUME \/ \E s \in ServiceNames : ReceiveService(s)
               \/ \E n \in VirtualServiceNames : ReceiveVirtualService(n)
        PROVE  UNCHANGED Lifecycle!vars
    BY <1>1, <2>4 DEF ReceiveService, ReceiveVirtualService, LossesKept
  <2> QED BY <1>2, <2>1, <2>2, <2>3, <2>4, UserImplements DEF Environment, ClusterNext
<1>3. ASSUME NEW k \in RouteNames, Get(k) \/ Resync(k) \/ DeliverRoute(k)
      PROVE  UNCHANGED Lifecycle!vars
  BY <1>1, <1>3 DEF Get, Resync, DeliverRoute, ReceiveRoute, LossesKept
<1>4. CASE ApplyService
  <2>1. CASE UNCHANGED serviceVars
    BY <1>1, <1>4, <2>1 DEF ApplyService, LossesKept
  <2> DEFINE s == BuildServices(route)[applied + 1].name
             body == BuildServices(route)[applied + 1].body
  <2>2. CASE PutService(s, body)
    <3>1. route \in Routes /\ applied \in Nat /\ applied < Len(route.spec.destinations)
      BY <1>4 DEF ApplyService, ServicesPending, RouteOrAbsent, CInv, HInv, IInv,
                  TypeOK, WorkerTypeOK
    <3>2. Len(route.spec.destinations) \in Nat
      BY <3>1, ClusterAssumption DEF Routes
    <3>3. applied + 1 \in 1..Len(route.spec.destinations)
      BY <3>1, <3>2
    <3>4. s \in ServiceNames /\ body # Absent
      BY <3>1, <3>3, BuiltServiceType, AbsentIsNoObject
    <3> HIDE DEF s, body
    <3> QED BY <1>4, <2>2, <3>4, ServiceImplements DEF ApplyService, LossesKept
  <2> QED BY <1>4, <2>1, <2>2 DEF ApplyService
<1>5. ASSUME NEW s \in ServiceNames, DeleteService(s)
      PROVE  [Lifecycle!Next]_(Lifecycle!vars)
  <2>1. CASE UNCHANGED serviceVars
    BY <1>1, <1>5, <2>1 DEF DeleteService, LossesKept
  <2> QED BY <1>5, <2>1, ServiceImplements DEF DeleteService, LossesKept
<1>6. ASSUME UNCHANGED <<routes, services, spent>>, NEW n, NEW v, PutVirtualService(n, v)
      PROVE  [Lifecycle!Next]_(Lifecycle!vars)
  <2>1. CASE n \in VirtualServiceNames
    BY <1>6, <2>1, VirtualServiceImplements DEF LossesKept
  <2>2. CASE n \notin VirtualServiceNames
    <3>1. \A m \in VirtualServiceNames : virtualServices'[m] = virtualServices[m]
      BY <1>0, <1>6, <2>2 DEF PutVirtualService
    <3>2. ListsKept
      BY <1>6, <3>1, RoutesStay DEF ListsKept
    <3> QED BY <1>6, <3>2, RoutesStay, Stutter DEF LossesKept
  <2> QED BY <2>1, <2>2
<1>7. CASE ApplyVirtualService \/ ShrinkVirtualService
  <2>1. /\ UNCHANGED <<routes, services, spent>>
        /\ UNCHANGED virtualServices \/ \E n, v : PutVirtualService(n, v)
    BY <1>7 DEF ApplyVirtualService, ShrinkVirtualService, reconcileVirtualServices
  <2> QED BY <1>1, <1>6, <2>1 DEF LossesKept
<1>8. CASE DeleteVirtualService
  <2>1. CASE UNCHANGED <<vsVars, spent>>
    BY <1>1, <1>8, <2>1 DEF DeleteVirtualService, LossesKept
  <2>2. CASE UNCHANGED vsVars /\ Spend("fault")
    BY <1>0, <1>1, <1>8, <2>2, OtherSpending DEF DeleteVirtualService, Events
  <2>3. CASE UNCHANGED spent /\ \E n : PutVirtualService(n, Absent)
    BY <1>6, <1>8, <2>3 DEF DeleteVirtualService
  <2> QED BY <1>8, <2>1, <2>2, <2>3 DEF DeleteVirtualService
<1>9. CASE Abort
  BY <1>0, <1>1, <1>9, OtherSpending DEF Abort, Events
<1>10. CASE Crash
  BY <1>0, <1>1, <1>10, OtherSpending DEF Crash, Relist, Events
<1>11. CASE List \/ ListServices \/ ListServicesToFinalize \/ Succeed \/ Finalized
            \/ UNCHANGED vars
  BY <1>1, <1>11 DEF List, ListServices, ListServicesToFinalize, Succeed, Finalized,
                     vars, LossesKept
<1>12. ASSUME NEW k \in RouteNames, Redeliver(k)
       PROVE  UNCHANGED Lifecycle!vars
  BY <1>0, <1>1, <1>12, OtherSpending DEF Redeliver, Events
<1> QED BY <1>2, <1>3, <1>4, <1>5, <1>7, <1>8, <1>9, <1>10, <1>11, <1>12,
           AddFinalizerImplements, RemoveFinalizerImplements
        DEF Next, Reconcile

LEMMA InitImplements == Init => Lifecycle!Init
<1> SUFFICES ASSUME Init PROVE Lifecycle!Init
  OBVIOUS
<1>1. /\ \A k \in RouteNames : StageOf(k) = "absent"
      /\ \A s \in ServiceNames : services[s] = Absent /\ ProvidersOf(s) = {}
      /\ \A n \in VirtualServiceNames : ListedIn(n) = {}
      /\ spent["evict"] = 0
  BY DEF Init, ClusterInit, StageOf, ProvidersOf, ListedIn, Events
<1> QED BY <1>1 DEF Lifecycle!Init

(***************************************************************************)
(* The controller implements RouteLifecycle for any set of Routes and any  *)
(* number of faults: it provides Services only for a stored incarnation    *)
(* with a stored finalizer, and drops only Routes that are being deleted   *)
(* from the VirtualService that lists them.                                *)
(***************************************************************************)
THEOREM ControllerImplementsLifecycle == Spec => ImplementsLifecycle
BY InitImplements, StepImplements, ChildrenInvariance, PTL
   DEF Spec, ImplementsLifecycle, Lifecycle!Spec

=============================================================================
