-------------------------- MODULE ResourceBuilders --------------------------
(***************************************************************************)
(* The pure part of the route controller: how a list of Route custom       *)
(* resources becomes the Kubernetes Services and the Istio VirtualServices *)
(* that carry its traffic (routecontroller/resourcebuilders).              *)
(*                                                                         *)
(* Data.  A host name is the sequence of its DNS labels, so joining host   *)
(* and domain with a dot is concatenation; a URL path is the sequence of   *)
(* its characters (natural numbers, ordered as bytes are).  A RouteList is *)
(* the set of its items: the cache returns them in no particular order and *)
(* nothing the builders compute depends on it, as long as URLs differ      *)
(* (Cloud Controller guarantees that).  The labels, ports and headers      *)
(* copied from a destination are one value, its "app".                     *)
(***************************************************************************)
EXTENDS Integers, FiniteSets, Sequences, SequencesExt

CONSTANTS
  IstioGateways,  \* the gateways of routes on external domains
  NoWeight        \* a destination's nil Weight

ASSUME NoWeightAssumption == NoWeight \notin Int

MeshInternalGateway == "mesh"

\* The configured gateway is "<namespace>/<name>" (routecontroller-configmap.yaml:17).
ASSUME GatewayAssumption == IstioGateways # <<MeshInternalGateway>>

IstioExpectedWeight == 100

Placeholder == <<"no-destinations">>

-----------------------------------------------------------------------------
(***************************** Route accessors *****************************)

\* Route.FQDN: host and domain joined, or the domain when the host is empty.
FQDN(route) == route.spec.host \o route.spec.domain

(***************************************************************************)
(* Spec.Url as Cloud Controller fills it in: the FQDN followed by the      *)
(* path.  Routes are only compared within one FQDN, so the path decides.   *)
(***************************************************************************)
Url(route) == <<FQDN(route), route.spec.path>>

\* The string order s > t of Go: byte by byte, a proper prefix is smaller.
StringGreater(s, t) ==
  \E i \in 1..Len(s) : /\ \A j \in 1..(i - 1) : j <= Len(t) /\ s[j] = t[j]
                       /\ i <= Len(t) + 1
                       /\ i <= Len(t) => s[i] > t[i]

\* sha256 taken as injective: one name per FQDN.
VirtualServiceName(fqdn) == <<"vs", fqdn>>

serviceName(dest) == <<"s", dest.guid>>

routeToOwnerRef(route) == [name |-> route.name, uid |-> route.uid]

-----------------------------------------------------------------------------
(***************************** ServiceBuilder ******************************)

(***************************************************************************)
(* ServiceBuilder.Build: one Service per destination, in order, owned by   *)
(* the route.                                                              *)
(***************************************************************************)
BuildServices(route) ==
  [i \in DOMAIN route.spec.destinations |->
     LET dest == route.spec.destinations[i]
     IN  [name |-> serviceName(dest),
          body |-> [owner |-> routeToOwnerRef(route),
                    fqdn  |-> FQDN(route),
                    app   |-> dest.app]]]

-----------------------------------------------------------------------------
(************************** VirtualServiceBuilder **************************)

Total(weights) ==
  LET sum[i \in 0..Len(weights)] == IF i = 0 THEN 0 ELSE sum[i - 1] + weights[i]
  IN  sum[Len(weights)]

SumOfWeights(dests) == Total([i \in DOMAIN dests |-> dests[i].weight])

validateWeights(dests) ==
  \/ \A i \in DOMAIN dests : dests[i].weight = NoWeight
  \/ /\ \A i \in DOMAIN dests : dests[i].weight # NoWeight
     /\ SumOfWeights(dests) = IstioExpectedWeight

\* Mutant: the remainder of the division is lost.
InferredWeightUnpadded(i, n) == IstioExpectedWeight \div n

\* The equal share of the n-th part, its remainder padded onto the first.
InferredWeight(i, n) ==
  LET weight == IstioExpectedWeight \div n
  IN  IF i = 1 THEN weight + (IstioExpectedWeight - n * weight) ELSE weight

\* Mutant: the VirtualService points at the app instead of its Service.
destinationsNamedByApp(dests) ==
  [i \in DOMAIN dests |->
     [host   |-> <<"s", dests[i].app>>,
      app    |-> dests[i].app,
      weight |-> IF dests[1].weight = NoWeight
                 THEN InferredWeight(i, Len(dests))
                 ELSE dests[i].weight]]

\* The destinations of a route whose weights are valid.
destinationsToHttpRouteDestinations(dests) ==
  [i \in DOMAIN dests |->
     [host   |-> serviceName(dests[i]),
      app    |-> dests[i].app,
      weight |-> IF dests[1].weight = NoWeight
                 THEN InferredWeight(i, Len(dests))
                 ELSE dests[i].weight]]

httpRouteDestinationPlaceholder ==
  << [host |-> Placeholder, app |-> "", weight |-> 0] >>

\* Mutant: ascending order, the least specific path first.
sortRoutesAscending(routes) ==
  CHOOSE s \in SetToSeqs(routes) : \A i, j \in DOMAIN s :
    i < j => ~ StringGreater(s[i].spec.path, s[j].spec.path)

\* Most specific path first: descending by URL.
sortRoutes(routes) ==
  CHOOSE s \in SetToSeqs(routes) : \A i, j \in DOMAIN s :
    i < j => ~ StringGreater(s[j].spec.path, s[i].spec.path)

\* Mutant: the namespaces are not compared.
validateInternalOnly(routes) ==
  \A r, q \in routes : r.spec.internal = q.spec.internal

\* validateRoutesForFQDN returns no error.
validateRoutesForFQDN(routes) ==
  \A r, q \in routes : /\ r.spec.internal = q.spec.internal
                       /\ r.namespace = q.namespace

\* fqdnToVirtualService returns no error: an error of any route is one of all.
ValidForFQDN(routes) ==
  /\ validateRoutesForFQDN(routes)
  /\ \A r \in routes : validateWeights(r.spec.destinations)

(***************************************************************************)
(* The HTTPRoute of one route; the empty match of an empty path stands for *)
(* no Match at all.  Only a route alone on its FQDN gets the placeholder.  *)
(***************************************************************************)
HttpRoute(route) ==
  [match |-> route.spec.path,
   route |-> IF route.spec.destinations # <<>>
             THEN destinationsToHttpRouteDestinations(route.spec.destinations)
             ELSE httpRouteDestinationPlaceholder]

(***************************************************************************)
(* Routes without destinations are skipped, unless there is no other.  The *)
(* code sorts first and skips while it walks the result: the others come   *)
(* in the same order.                                                      *)
(***************************************************************************)
ServedRoutes(routes) ==
  sortRoutes({r \in routes : \/ r.spec.destinations # <<>>
                             \/ Cardinality(routes) = 1})

(***************************************************************************)
(* Every route becomes an owner.  The owner references are a set: their    *)
(* order follows that of the routes and means nothing to Kubernetes.       *)
(***************************************************************************)
fqdnToVirtualService(fqdn, routes) ==
  LET served == ServedRoutes(routes)
      first  == CHOOSE r \in routes : TRUE
  IN  [owners    |-> {routeToOwnerRef(r) : r \in routes},
       namespace |-> first.namespace,
       hosts     |-> <<fqdn>>,
       gateways  |-> IF first.spec.internal THEN <<MeshInternalGateway>>
                     ELSE IstioGateways,
       http      |-> [i \in DOMAIN served |-> HttpRoute(served[i])]]

\* Mutant: hosts of one domain share a group.
groupByDomain(routes) ==
  [f \in {FQDN(r) : r \in routes} |->
     {r \in routes : \E q \in routes : /\ FQDN(q) = f
                                      /\ q.spec.domain = r.spec.domain}]

groupByFQDN(routes) ==
  [f \in {FQDN(r) : r \in routes} |-> {r \in routes : FQDN(r) = f}]

\* Build returns an error: one bad group fails them all.
BuildFails(routes) ==
  \E f \in DOMAIN groupByFQDN(routes) : ~ ValidForFQDN(groupByFQDN(routes)[f])

\* The VirtualServices of a Build that does not fail, by name.
BuildVirtualServices(routes) ==
  LET byFQDN == groupByFQDN(routes)
      named(n) == CHOOSE f \in DOMAIN byFQDN : VirtualServiceName(f) = n
  IN  [n \in {VirtualServiceName(f) : f \in DOMAIN byFQDN} |->
         fqdnToVirtualService(named(n), byFQDN[named(n)])]

=============================================================================
