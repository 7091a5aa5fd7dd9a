------------------------------ MODULE Cluster -------------------------------
(***************************************************************************)
(* What surrounds the route controller, modelled from how                  *)
(* route_controller.go uses it: the Kubernetes API server with the Routes, *)
(* Services and VirtualServices of one namespace, the watch streams that   *)
(* fill the manager's caches, the garbage collector, Cloud Controller (the *)
(* writer of Routes) and whatever else may delete a child resource.        *)
(*                                                                         *)
(* Every write appends the new value to the watch stream of its key; a     *)
(* delivery moves it into the cache.  The informer's queue is keyed, so    *)
(* events of one key keep their order and those of different keys may not. *)
(* A key whose stream holds MaxLag events takes no further write; without  *)
(* that bound a stalled watch lets the controller recreate, and the        *)
(* garbage collector remove, the same child any number of times.           *)
(* An object in the cache has the API's resourceVersion exactly when its   *)
(* stream is empty, which is how an Update with a stale copy conflicts.    *)
(***************************************************************************)
EXTENDS ResourceBuilders

CONSTANTS
  RouteNames,  \* names of Route resources
  SpecsOf,     \* SpecsOf[k]: the specs Cloud Controller may give route k
  Namespace,   \* the namespace of all workloads
  Limits,      \* on what the environment does, by kind of event: it keeps one
  MaxLag       \* bound on the undelivered events of one key

\* The value of a key with no object; no object of the API looks like it.
Absent == [absent |-> TRUE]

Events == {"user", "evict", "fault", "crash", "sync"}

Specs == UNION {SpecsOf[k] : k \in RouteNames}

HostName(spec) == spec.host \o spec.domain

\* The Services that route k may ever ask for.
ServiceNamesOf(k) ==
  UNION {{serviceName(spec.destinations[i]) : i \in DOMAIN spec.destinations} :
           spec \in SpecsOf[k]}

ServiceNames == UNION {ServiceNamesOf(k) : k \in RouteNames}

VirtualServiceNames == {VirtualServiceName(HostName(spec)) : spec \in Specs}

OwnerRefs == [name : RouteNames, uid : Nat]

Routes == [name : RouteNames, uid : Nat, version : Nat, namespace : {Namespace},
           spec : Specs, finalizer : BOOLEAN, deleting : BOOLEAN]

Apps == UNION {{spec.destinations[i].app : i \in DOMAIN spec.destinations} :
                 spec \in Specs}

Services == [owner : OwnerRefs, fqdn : {HostName(spec) : spec \in Specs},
             app : Apps]

ASSUME ClusterAssumption ==
  /\ \A spec \in Specs :
       spec.destinations \in Seq({spec.destinations[i] : i \in DOMAIN spec.destinations})
  /\ Limits \subseteq [Events -> Nat]
  /\ MaxLag \in Nat \ {0}

\* The GUID of a destination belongs to one route.
ASSUME DestinationAssumption ==
  \A j, k \in RouteNames : j # k => ServiceNamesOf(j) \cap ServiceNamesOf(k) = {}

VARIABLES
  routes, routeEvents, routeCache,
  services, serviceEvents, serviceCache,
  virtualServices, vsEvents, vsCache,
  revision,   \* per route name, the last resourceVersion given out
  spent       \* how many environment events of each kind have happened

routeVars   == <<routes, routeEvents, routeCache, revision>>
serviceVars == <<services, serviceEvents, serviceCache>>
vsVars      == <<virtualServices, vsEvents, vsCache>>
clusterVars == <<routeVars, serviceVars, vsVars, spent>>

ClusterInit ==
  /\ routes = [k \in RouteNames |-> Absent]
  /\ routeEvents = [k \in RouteNames |-> <<>>]
  /\ routeCache = routes
  /\ services = [s \in ServiceNames |-> Absent]
  /\ serviceEvents = [s \in ServiceNames |-> <<>>]
  /\ serviceCache = services
  /\ virtualServices = [n \in VirtualServiceNames |-> Absent]
  /\ vsEvents = [n \in VirtualServiceNames |-> <<>>]
  /\ vsCache = virtualServices
  /\ revision = [k \in RouteNames |-> 0]
  /\ spent = [e \in Events |-> 0]

RouteOrAbsent == Routes \cup {Absent}
ServiceOrAbsent == Services \cup {Absent}

\* What a VirtualService contains is left to the builders.
ClusterTypeOK ==
  /\ routes \in [RouteNames -> RouteOrAbsent]
  /\ routeEvents \in [RouteNames -> Seq(RouteOrAbsent)]
  /\ routeCache \in [RouteNames -> RouteOrAbsent]
  /\ services \in [ServiceNames -> ServiceOrAbsent]
  /\ serviceEvents \in [ServiceNames -> Seq(ServiceOrAbsent)]
  /\ serviceCache \in [ServiceNames -> ServiceOrAbsent]
  /\ DOMAIN virtualServices = VirtualServiceNames
  /\ DOMAIN vsEvents = VirtualServiceNames
  /\ DOMAIN vsCache = VirtualServiceNames
  /\ revision \in [RouteNames -> Nat]
  /\ spent \in [Events -> Nat]

Spend(e) ==
  /\ spent' = [spent EXCEPT ![e] = @ + 1]
  /\ \E limit \in Limits : \A kind \in Events : spent'[kind] <= limit[kind]

-----------------------------------------------------------------------------
(****************************** API writes *********************************)

\* A Route is stored with a new resourceVersion, or removed when r is Absent.
PutRoute(k, r) ==
  /\ Len(routeEvents[k]) < MaxLag
  /\ routes' = [routes EXCEPT ![k] = r]
  /\ routeEvents' = [routeEvents EXCEPT ![k] = Append(@, r)]
  /\ revision' = [revision EXCEPT ![k] = @ + 1]
  /\ UNCHANGED routeCache

Stamped(k, r) == [r EXCEPT !.version = revision[k] + 1]

PutService(s, v) ==
  /\ Len(serviceEvents[s]) < MaxLag
  /\ services' = [services EXCEPT ![s] = v]
  /\ serviceEvents' = [serviceEvents EXCEPT ![s] = Append(@, v)]
  /\ UNCHANGED serviceCache

PutVirtualService(n, v) ==
  /\ Len(vsEvents[n]) < MaxLag
  /\ virtualServices' = [virtualServices EXCEPT ![n] = v]
  /\ vsEvents' = [vsEvents EXCEPT ![n] = Append(@, v)]
  /\ UNCHANGED vsCache

-----------------------------------------------------------------------------
(************************* Cloud Controller's Routes ***********************)

NewRoute(k, spec) ==
  [name |-> k, uid |-> revision[k] + 1, version |-> revision[k] + 1,
   namespace |-> Namespace, spec |-> spec, finalizer |-> FALSE,
   deleting |-> FALSE]

CreateRoute(k) ==
  /\ Spend("user")
  /\ routes[k] = Absent
  /\ \E spec \in SpecsOf[k] : PutRoute(k, NewRoute(k, spec))
  /\ UNCHANGED <<serviceVars, vsVars>>

\* A route keeps its host and domain for life; the rest of it may change.
UpdateRoute(k) ==
  /\ Spend("user")
  /\ routes[k] # Absent
  /\ \E spec \in SpecsOf[k] \ {routes[k].spec} :
       /\ HostName(spec) = FQDN(routes[k])
       /\ PutRoute(k, Stamped(k, [routes[k] EXCEPT !.spec = spec]))
  /\ UNCHANGED <<serviceVars, vsVars>>

\* With a finalizer the object stays, marked; without one it is gone at once.
DeleteRoute(k) ==
  /\ Spend("user")
  /\ routes[k] # Absent
  /\ ~ routes[k].deleting
  /\ PutRoute(k, IF routes[k].finalizer
                 THEN Stamped(k, [routes[k] EXCEPT !.deleting = TRUE])
                 ELSE Absent)
  /\ UNCHANGED <<serviceVars, vsVars>>

-----------------------------------------------------------------------------
(******************** Losses and the garbage collector *********************)

EvictService(s) ==
  /\ Spend("evict")
  /\ services[s] # Absent
  /\ PutService(s, Absent)
  /\ UNCHANGED <<routeVars, vsVars>>

EvictVirtualService(n) ==
  /\ Spend("evict")
  /\ virtualServices[n] # Absent
  /\ PutVirtualService(n, Absent)
  /\ UNCHANGED <<routeVars, serviceVars>>

\* The owner is no longer in the API; a namesake has another UID.
Dangling(ref) == routes[ref.name] # Absent => routes[ref.name].uid # ref.uid

CollectService(s) ==
  /\ services[s] # Absent
  /\ Dangling(services[s].owner)
  /\ PutService(s, Absent)
  /\ UNCHANGED <<routeVars, vsVars, spent>>

\* A dependent loses its dangling references, and goes with the last one.
CollectVirtualService(n) ==
  /\ virtualServices[n] # Absent
  /\ \E ref \in virtualServices[n].owners : Dangling(ref)
  /\ LET solid == {ref \in virtualServices[n].owners : ~ Dangling(ref)}
     IN  PutVirtualService(n, IF solid = {} THEN Absent
                              ELSE [virtualServices[n] EXCEPT !.owners = solid])
  /\ UNCHANGED <<routeVars, serviceVars, spent>>

-----------------------------------------------------------------------------
(******************************* Deliveries ********************************)

ReceiveRoute(k) ==
  /\ routeEvents[k] # <<>>
  /\ routeCache' = [routeCache EXCEPT ![k] = Head(routeEvents[k])]
  /\ routeEvents' = [routeEvents EXCEPT ![k] = Tail(@)]
  /\ UNCHANGED <<routes, revision, serviceVars, vsVars, spent>>

ReceiveService(s) ==
  /\ serviceEvents[s] # <<>>
  /\ serviceCache' = [serviceCache EXCEPT ![s] = Head(serviceEvents[s])]
  /\ serviceEvents' = [serviceEvents EXCEPT ![s] = Tail(@)]
  /\ UNCHANGED <<services, routeVars, vsVars, spent>>

ReceiveVirtualService(n) ==
  /\ vsEvents[n] # <<>>
  /\ vsCache' = [vsCache EXCEPT ![n] = Head(vsEvents[n])]
  /\ vsEvents' = [vsEvents EXCEPT ![n] = Tail(@)]
  /\ UNCHANGED <<virtualServices, routeVars, serviceVars, spent>>

\* A new process lists everything before it starts to watch.
Relist ==
  /\ routeCache' = routes
  /\ serviceCache' = services
  /\ vsCache' = virtualServices
  /\ routeEvents' = [k \in RouteNames |-> <<>>]
  /\ serviceEvents' = [s \in ServiceNames |-> <<>>]
  /\ vsEvents' = [n \in VirtualServiceNames |-> <<>>]
  /\ UNCHANGED <<routes, services, virtualServices, revision>>

ClusterNext ==
  \/ \E k \in RouteNames : CreateRoute(k) \/ UpdateRoute(k) \/ DeleteRoute(k)
  \/ \E s \in ServiceNames : EvictService(s) \/ CollectService(s) \/ ReceiveService(s)
  \/ \E n \in VirtualServiceNames :
       \/ EvictVirtualService(n)
       \/ CollectVirtualService(n)
       \/ ReceiveVirtualService(n)

=============================================================================
