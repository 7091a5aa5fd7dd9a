------------------------- MODULE MCResourceBuilders -------------------------
(***************************************************************************)
(* The builders run once on every RouteList of a bounded set: the initial  *)
(* states are the inputs, the one step is VirtualServiceBuilder.Build, and *)
(* its result is compared with reference definitions of what the routes    *)
(* mean.                                                                   *)
(***************************************************************************)
EXTENDS ResourceBuilders

CONSTANTS
  RouteLists,   \* the inputs of the run
  RequestPaths  \* the paths of the requests that Istio dispatches

\* Cloud Controller never stores the same URL twice.
DistinctUrls(rs) == \A r, q \in rs : Url(r) = Url(q) => r = q

\* It never stores a negative weight either (virtual_service_builder.go:252).
ASSUME RouteListsAssumption ==
  \A rs \in RouteLists :
    /\ IsFiniteSet(rs)
    /\ DistinctUrls(rs)
    /\ \A r \in rs :
         LET dests == r.spec.destinations
         IN  /\ r.spec.path \in Seq(Nat)
             /\ r.spec.internal \in BOOLEAN
             /\ dests \in Seq(Range(dests))
             /\ \A d \in Range(dests) : d.weight \in Nat \cup {NoWeight}

ASSUME RequestPathsAssumption == RequestPaths \subseteq Seq(Nat)

VARIABLES
  routeList,  \* the argument of Build, as a set of routes
  outcome,    \* "pending", "error" or "ok"
  built       \* the VirtualServices returned, by name

vars == <<routeList, outcome, built>>

Init ==
  /\ routeList \in RouteLists
  /\ outcome = "pending"
  /\ built = <<>>

Build ==
  /\ outcome = "pending"
  /\ IF BuildFails(routeList)
     THEN outcome' = "error" /\ UNCHANGED built
     ELSE outcome' = "ok" /\ built' = BuildVirtualServices(routeList)
  /\ UNCHANGED routeList

Spec == Init /\ [][Build]_vars

Succeeded == outcome = "ok"

-----------------------------------------------------------------------------
(********************************* Inputs **********************************)

MCGateways == <<"cf-workloads/istio-ingressgateway">>

Route(name, ns, spec) == [name |-> name, uid |-> 1, namespace |-> ns,
                          spec |-> spec]

Dests(name, weights) ==
  [i \in DOMAIN weights |-> [guid |-> <<name, i>>, app |-> name,
                             weight |-> weights[i]]]

(***************************************************************************)
(* Up to three valid routes whose paths are nested, siblings or empty, on  *)
(* two FQDNs, one of them written as host + domain in two ways.            *)
(***************************************************************************)
Names == {"a", "b", "c"}
HostDomains == {<< <<"h">>, <<"d">> >>, << <<>>, <<"h", "d">> >>,
                << <<>>, <<"d">> >>}
Paths == {<<>>, <<1>>, <<1, 2>>, <<1, 2, 1>>, <<2>>}
ValidWeights == {<<>>, <<NoWeight>>, <<80, 20>>, <<NoWeight, NoWeight, NoWeight>>}

ValidRoutes(name) ==
  {Route(name, "ns", [host |-> hd[1], domain |-> hd[2], path |-> p,
                      internal |-> FALSE, destinations |-> Dests(name, w)]) :
     hd \in HostDomains, p \in Paths, w \in ValidWeights}

RoutingLists ==
  {{r} : r \in ValidRoutes("a")}
  \cup {rs \in {{r, q} : r \in ValidRoutes("a"), q \in ValidRoutes("b")} :
          DistinctUrls(rs)}
  \cup {rs \in {{r, q, s} : r \in {v \in ValidRoutes("a") : v.spec.host = <<"h">>},
                            q \in {v \in ValidRoutes("b") : v.spec.host = <<>>},
                            s \in {v \in ValidRoutes("c") :
                                     /\ v.spec.host = <<"h">>
                                     /\ Len(v.spec.destinations) = 1}} :
          DistinctUrls(rs)}

(***************************************************************************)
(* Lists with the errors the builder must refuse: mixed or wrong weights,  *)
(* a domain both internal and external, an FQDN in two namespaces.         *)
(***************************************************************************)
AnyWeights == {<<>>, <<NoWeight>>, <<100>>, <<60, 60>>, <<100, NoWeight>>}

AnyRoutes(name) ==
  {Route(name, ns, [host |-> <<h>>, domain |-> <<"d">>, path |-> p,
                    internal |-> i, destinations |-> Dests(name, w)]) :
     ns \in {"ns", "other"}, h \in {"h", "g"}, p \in {<<>>, <<1>>},
     i \in BOOLEAN, w \in AnyWeights}

ValidationLists ==
  {rs \in {{r, q} : r \in AnyRoutes("a"), q \in AnyRoutes("b")} : DistinctUrls(rs)}

MCRouteLists == RoutingLists \cup ValidationLists

-----------------------------------------------------------------------------
(******************************* Properties ********************************)

\* How Istio picks the destinations of a request: the first entry that matches.
Dispatch(vs, path) ==
  LET i == SelectInSeq(vs.http, LAMBDA h : IsPrefix(h.match, path))
  IN  IF i = 0 THEN <<>> ELSE vs.http[i].route

HostsOf(route) == [i \in DOMAIN route |-> route[i].host]

\* What the routes mean: the longest path with destinations wins.
Meaning(routes, path) ==
  LET live == {r \in routes : /\ r.spec.destinations # <<>>
                              /\ IsPrefix(r.spec.path, path)}
      best == CHOOSE r \in live :
                \A q \in live : Len(q.spec.path) <= Len(r.spec.path)
  IN  IF live = {} THEN <<>>
      ELSE [i \in DOMAIN best.spec.destinations |->
              serviceName(best.spec.destinations[i])]

(***************************************************************************)
(* A request reaches exactly the destinations of the most specific route   *)
(* that has any: Istio takes the first matching entry, so this rests on    *)
(* sortRoutes putting every path before its own prefixes, and on skipped   *)
(* routes leaving no entry behind.  A lone route without destinations      *)
(* answers with the placeholder.                                           *)
(***************************************************************************)
MostSpecificRouteWins ==
  Succeeded =>
    \A f \in DOMAIN groupByFQDN(routeList), path \in RequestPaths :
      LET rs  == groupByFQDN(routeList)[f]
          got == HostsOf(Dispatch(built[VirtualServiceName(f)], path))
      IN  \/ got = Meaning(rs, path)
          \/ /\ got = <<Placeholder>>
             /\ Cardinality(rs) = 1
             /\ \A r \in rs : r.spec.destinations = <<>>

(***************************************************************************)
(* The weights of every entry with real destinations sum to 100, as Istio  *)
(* demands, and none is negative: the integer division of                  *)
(* destinationsToHttpRouteDestinations loses nothing.                      *)
(***************************************************************************)
TrafficIsSplitCompletely ==
  Succeeded =>
    \A n \in DOMAIN built : \A i \in DOMAIN built[n].http :
      LET route == built[n].http[i].route
      IN  HostsOf(route) # <<Placeholder>> =>
            /\ SumOfWeights(route) = IstioExpectedWeight
            /\ \A j \in DOMAIN route : route[j].weight >= 0

(***************************************************************************)
(* Every host a VirtualService names is a Service that ServiceBuilder      *)
(* builds for one of the VirtualService's owners: the two builders, run by *)
(* different reconcile steps, agree on names.                              *)
(***************************************************************************)
HostsAreServicesOfOwners ==
  Succeeded =>
    \A n \in DOMAIN built : \A i \in DOMAIN built[n].http :
      \A j \in DOMAIN built[n].http[i].route :
        LET host == built[n].http[i].route[j].host
        IN  \/ host = Placeholder
            \/ \E r \in routeList :
                 /\ routeToOwnerRef(r) \in built[n].owners
                 /\ host \in {s.name : s \in Range(BuildServices(r))}

(***************************************************************************)
(* The VirtualService of an FQDN depends on the routes of that FQDN only:  *)
(* Reconcile may list just those (route_controller.go:67) and write what a *)
(* build of all routes would have written.                                 *)
(***************************************************************************)
BuildIsLocal ==
  Succeeded =>
    \A f \in {FQDN(r) : r \in routeList} :
      LET n == VirtualServiceName(f)
      IN  built[n] = BuildVirtualServices({r \in routeList : FQDN(r) = f})[n]

(***************************************************************************)
(* A VirtualService never mixes what must stay apart: whatever route the   *)
(* list happens to begin with, the gateways (mesh or ingress) and the      *)
(* namespace fit every route of the FQDN.                                  *)
(***************************************************************************)
RoutesOfFQDNAgree ==
  Succeeded =>
    \A r \in routeList :
      LET vs == built[VirtualServiceName(FQDN(r))]
      IN  /\ vs.namespace = r.namespace
          /\ (vs.gateways = <<MeshInternalGateway>>) <=> r.spec.internal

=============================================================================
