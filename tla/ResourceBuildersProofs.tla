----------------------- MODULE ResourceBuildersProofs -----------------------
(***************************************************************************)
(* TLAPS proofs about the builders, for every set of RouteLists that Cloud *)
(* Controller can store and every request path.                            *)
(***************************************************************************)
EXTENDS MCResourceBuilders, FiniteSetTheorems, WellFoundedInduction, TLAPS

-----------------------------------------------------------------------------
(**************************** The order of paths ***************************)

\* Every set of natural numbers with an element has a least one.
LEMMA LeastElement ==
  ASSUME NEW I \in SUBSET Nat, I # {}
  PROVE  \E i \in I : \A j \in I : i <= j
<1>1. PICK i \in I : \A j \in I : ~ (<<j, i>> \in OpToRel(<, Nat))
  BY NatLessThanWellFounded, WFMin, Zenon
<1>2. \A j \in I : ~ (j < i)
  BY <1>1 DEF OpToRel
<1> QED BY <1>2

\* A string is a prefix of another when they agree as far as it goes.
LEMMA PrefixAgrees ==
  ASSUME NEW s \in Seq(Nat), NEW t \in Seq(Nat)
  PROVE  IsPrefix(s, t) <=> /\ Len(s) <= Len(t)
                            /\ \A i \in 1..Len(s) : s[i] = t[i]
<1>1. ASSUME IsPrefix(s, t), NEW i \in 1..Len(s)
      PROVE  s[i] = t[i]
  <2>1. SubSeq(s, 1, Len(s))[i] = s[i] /\ SubSeq(t, 1, Len(s))[i] = t[i]
    BY <1>1 DEF IsPrefix
  <2> QED BY <1>1, <2>1 DEF IsPrefix
<1>2. ASSUME Len(s) <= Len(t), \A i \in 1..Len(s) : s[i] = t[i]
      PROVE  SubSeq(s, 1, Len(s)) = SubSeq(t, 1, Len(s))
  BY <1>2
<1> QED BY <1>1, <1>2 DEF IsPrefix

LEMMA GreaterChain ==
  ASSUME NEW a \in Nat, NEW b \in Nat, NEW c \in Nat, a > b, b > c
  PROVE  a > c
OBVIOUS

LEMMA CharacterType ==
  ASSUME NEW s \in Seq(Nat), NEW i \in 1..Len(s)
  PROVE  s[i] \in Nat
OBVIOUS

LEMMA SameCharacters ==
  ASSUME NEW s \in Seq(Nat), NEW t \in Seq(Nat), Len(s) = Len(t),
         \A i \in 1..Len(s) : s[i] = t[i]
  PROVE  s = t
OBVIOUS

\* What a witness of the order is.
LEMMA GreaterAt ==
  ASSUME NEW s, NEW t, NEW i \in 1..Len(s),
         \A j \in 1..(i - 1) : j <= Len(t) /\ s[j] = t[j],
         i <= Len(t) + 1, i <= Len(t) => s[i] > t[i]
  PROVE  StringGreater(s, t)
BY Zenon DEF StringGreater

\* No string is greater than itself, and none greater than one above it.
LEMMA GreaterIsAnOrder ==
  ASSUME NEW s \in Seq(Nat), NEW t \in Seq(Nat), NEW u \in Seq(Nat)
  PROVE  /\ ~ StringGreater(s, s)
         /\ StringGreater(s, t) /\ StringGreater(t, u) => StringGreater(s, u)
<1>1. ~ StringGreater(s, s)
  BY DEF StringGreater
<1>2. ASSUME StringGreater(s, t), StringGreater(t, u)
      PROVE  StringGreater(s, u)
  <2>1. PICK i \in 1..Len(s) : /\ \A k \in 1..(i - 1) : k <= Len(t) /\ s[k] = t[k]
                               /\ i <= Len(t) + 1
                               /\ i <= Len(t) => s[i] > t[i]
    BY <1>2 DEF StringGreater
  <2>2. PICK j \in 1..Len(t) : /\ \A k \in 1..(j - 1) : k <= Len(u) /\ t[k] = u[k]
                               /\ j <= Len(u) + 1
                               /\ j <= Len(u) => t[j] > u[j]
    BY <1>2 DEF StringGreater
  <2>3. CASE i <= j
    <3>1. ASSUME NEW k \in 1..(i - 1) PROVE k <= Len(u) /\ s[k] = u[k]
      <4>1. k \in 1..(j - 1)
        BY <2>3
      <4> QED BY <2>1, <2>2, <4>1
    <3>2. i <= Len(u) + 1 /\ i <= Len(t)
      BY <2>2, <2>3
    <3>3. ASSUME i <= Len(u) PROVE s[i] > u[i]
      <4>1. s[i] > t[i]
        BY <2>1, <3>2
      <4>2. i \in 1..Len(t) /\ i \in 1..Len(u)
        BY <3>2, <3>3
      <4>3. s[i] \in Nat /\ t[i] \in Nat /\ u[i] \in Nat
        BY <4>2, CharacterType
      <4>4. CASE i < j
        <5>1. t[i] = u[i]
          BY <2>2, <4>4
        <5> QED BY <4>1, <5>1
      <4>5. CASE i = j
        <5>1. t[i] > u[i]
          BY <2>2, <3>3, <4>5
        <5> QED BY <4>1, <4>3, <5>1, GreaterChain
      <4> QED BY <2>3, <4>4, <4>5
    <3> QED BY <3>1, <3>2, <3>3, GreaterAt
  <2>4. CASE j < i
    <3>1. j \in 1..Len(s) /\ s[j] = t[j]
      BY <2>1, <2>4
    <3>2. ASSUME NEW k \in 1..(j - 1) PROVE k <= Len(u) /\ s[k] = u[k]
      <4>1. k \in 1..(i - 1)
        BY <2>4
      <4> QED BY <2>1, <2>2, <4>1
    <3>3. j <= Len(u) => s[j] > u[j]
      BY <2>2, <3>1
    <3> QED BY <2>2, <3>1, <3>2, <3>3, GreaterAt
  <2> QED BY <2>3, <2>4
<1> QED BY <1>1, <1>2

\* A string is smaller than every other it is a prefix of.
LEMMA PrefixIsSmaller ==
  ASSUME NEW s \in Seq(Nat), NEW t \in Seq(Nat), IsPrefix(s, t), Len(s) < Len(t)
  PROVE  StringGreater(t, s)
<1>1. Len(s) + 1 \in 1..Len(t)
  OBVIOUS
<1>2. \A j \in 1..Len(s) : t[j] = s[j]
  BY PrefixAgrees
<1> DEFINE i == Len(s) + 1
<1>3. \A j \in 1..(i - 1) : j <= Len(s) /\ t[j] = s[j]
  BY <1>2
<1>4. i <= Len(s) + 1 /\ ~ (i <= Len(s))
  OBVIOUS
<1> HIDE DEF i
<1> QED BY <1>1, <1>3, <1>4, GreaterAt DEF i

\* Of two different strings one is greater.
LEMMA GreaterIsTotal ==
  ASSUME NEW s \in Seq(Nat), NEW t \in Seq(Nat), s # t
  PROVE  StringGreater(s, t) \/ StringGreater(t, s)
<1> DEFINE D == {i \in Nat : i \in 1..Len(s) /\ i \in 1..Len(t) /\ s[i] # t[i]}
<1>1. CASE D = {}
  <2>1. \A i \in 1..Len(s) : i <= Len(t) => s[i] = t[i]
    BY <1>1
  <2>2. CASE Len(s) = Len(t)
    <3>1. \A i \in 1..Len(s) : s[i] = t[i]
      BY <2>1, <2>2
    <3> QED BY <2>2, <3>1, SameCharacters
  <2>3. CASE Len(s) < Len(t)
    BY <2>1, <2>3, PrefixAgrees, PrefixIsSmaller
  <2>4. CASE Len(t) < Len(s)
    <3>1. \A i \in 1..Len(t) : t[i] = s[i]
      BY <2>1, <2>4
    <3> QED BY <3>1, <2>4, PrefixAgrees, PrefixIsSmaller
  <2> QED BY <2>2, <2>3, <2>4
<1>2. CASE D # {}
  <2>1. PICK i \in D : \A j \in D : i <= j
    BY <1>2, LeastElement
  <2>2. \A j \in 1..(i - 1) : j <= Len(s) /\ j <= Len(t) /\ s[j] = t[j]
    BY <2>1
  <2>3. s[i] \in Nat /\ t[i] \in Nat /\ s[i] # t[i]
    BY <2>1
  <2>4. s[i] > t[i] => StringGreater(s, t)
    BY <2>1, <2>2, GreaterAt
  <2>5. t[i] > s[i] => StringGreater(t, s)
    BY <2>1, <2>2, GreaterAt
  <2> QED BY <2>3, <2>4, <2>5
<1> QED BY <1>1, <1>2

-----------------------------------------------------------------------------
(******************************* The sort **********************************)

\* Finitely many routes with paths that are all different.
Sortable(routes) ==
  /\ IsFiniteSet(routes)
  /\ \A r \in routes : r.spec.path \in Seq(Nat)
  /\ \A r, q \in routes : r.spec.path = q.spec.path => r = q

Above(routes, r) == {q \in routes : StringGreater(q.spec.path, r.spec.path)}

\* The place of a route in the sorted list: one more than the routes above it.
Rank(routes) == [r \in routes |-> Cardinality(Above(routes, r)) + 1]

\* The routes above another are finitely many, and more the smaller its path.
LEMMA RankFalls ==
  ASSUME NEW routes, Sortable(routes), NEW r \in routes, NEW q \in routes,
         StringGreater(r.spec.path, q.spec.path)
  PROVE  /\ Rank(routes)[r] \in Nat /\ Rank(routes)[q] \in Nat
         /\ Rank(routes)[r] < Rank(routes)[q]
<1>1. Above(routes, r) \in SUBSET Above(routes, q)
  BY GreaterIsAnOrder DEF Above, Sortable
<1>2. r \in Above(routes, q) /\ r \notin Above(routes, r)
  BY GreaterIsAnOrder DEF Above, Sortable
<1>3. IsFiniteSet(Above(routes, q))
  <2>1. Above(routes, q) \in SUBSET routes
    BY DEF Above
  <2> QED BY <2>1, FS_Subset DEF Sortable
<1>4. IsFiniteSet(Above(routes, r))
  BY <1>1, <1>3, FS_Subset
<1>5. /\ Cardinality(Above(routes, r)) \in Nat
      /\ Cardinality(Above(routes, q)) \in Nat
  BY <1>3, <1>4, FS_CardinalityType
<1>6. /\ Cardinality(Above(routes, r)) <= Cardinality(Above(routes, q))
      /\ Cardinality(Above(routes, r)) # Cardinality(Above(routes, q))
  BY <1>1, <1>2, <1>3, FS_Subset
<1> QED BY <1>5, <1>6 DEF Rank

\* The ranks number the routes: no two are equal and none is missing.
LEMMA RankNumbers ==
  ASSUME NEW routes, Sortable(routes)
  PROVE  /\ Cardinality(routes) \in Nat
         /\ Rank(routes) \in Injection(routes, 1..Cardinality(routes))
         /\ Rank(routes) \in Surjection(routes, 1..Cardinality(routes))
<1> DEFINE n == Cardinality(routes)
<1>1. n \in Nat
  BY FS_CardinalityType DEF Sortable
<1>2. ASSUME NEW r \in routes
      PROVE  Rank(routes)[r] \in 1..n
  <2>1. Above(routes, r) \in SUBSET (routes \ {r})
    BY GreaterIsAnOrder DEF Above, Sortable
  <2>2. IsFiniteSet(routes \ {r}) /\ Cardinality(routes \ {r}) = n - 1
    BY FS_RemoveElement DEF Sortable
  <2>3. IsFiniteSet(Above(routes, r)) /\ Cardinality(Above(routes, r)) <= n - 1
    BY <2>1, <2>2, FS_Subset
  <2>4. Cardinality(Above(routes, r)) \in Nat
    BY <2>3, FS_CardinalityType
  <2> QED BY <1>1, <2>3, <2>4 DEF Rank
<1>3. ASSUME NEW r \in routes, NEW q \in routes, r # q
      PROVE  Rank(routes)[r] # Rank(routes)[q]
  <2>1. \/ StringGreater(r.spec.path, q.spec.path)
        \/ StringGreater(q.spec.path, r.spec.path)
    BY <1>3, GreaterIsTotal DEF Sortable
  <2> QED BY <2>1, RankFalls
<1>4. Rank(routes) \in Injection(routes, 1..n)
  BY <1>2, <1>3 DEF Injection, IsInjective, Rank
<1>5. IsFiniteSet(1..n) /\ Cardinality(1..n) = n
  BY <1>1, FS_Interval
<1>6. Rank(routes) \in Surjection(routes, 1..n)
  BY <1>4, <1>5, FS_Injection
<1> QED BY <1>1, <1>4, <1>6

(***************************************************************************)
(* sortRoutes lists every route once, each before those with a smaller     *)
(* path: the order by rank is such a list, so CHOOSE finds one.            *)
(***************************************************************************)
LEMMA SortedDescending ==
  ASSUME NEW routes, Sortable(routes)
  PROVE  LET s == sortRoutes(routes)
         IN  /\ Cardinality(routes) \in Nat
             /\ s \in [1..Cardinality(routes) -> routes]
             /\ \A r \in routes : \E i \in DOMAIN s : s[i] = r
             /\ \A i, j \in DOMAIN s :
                  i < j => StringGreater(s[i].spec.path, s[j].spec.path)
<1> DEFINE n == Cardinality(routes)
           rank == Rank(routes)
           byRank == [i \in 1..n |-> CHOOSE r \in routes : rank[r] = i]
           s == sortRoutes(routes)
<1>1. n \in Nat /\ rank \in Injection(routes, 1..n) /\ rank \in Surjection(routes, 1..n)
  BY RankNumbers
<1>2. \A i \in 1..n : \E r \in routes : rank[r] = i
  BY <1>1 DEF Surjection
<1>3. \A i \in 1..n : byRank[i] \in routes /\ rank[byRank[i]] = i
  BY <1>2
<1>4. byRank \in SetToSeqs(routes)
  BY <1>3 DEF SetToSeqs
<1>5. ASSUME NEW i \in 1..n, NEW j \in 1..n, i < j
      PROVE  ~ StringGreater(byRank[j].spec.path, byRank[i].spec.path)
  <2>1. /\ byRank[i] \in routes /\ rank[byRank[i]] = i
        /\ byRank[j] \in routes /\ rank[byRank[j]] = j
    BY <1>3
  <2> HIDE DEF byRank
  <2>2. StringGreater(byRank[j].spec.path, byRank[i].spec.path) => j < i
    BY <2>1, RankFalls
  <2> QED BY <1>5, <2>2
<1>6. /\ s \in SetToSeqs(routes)
      /\ \A i, j \in DOMAIN s :
           i < j => ~ StringGreater(s[j].spec.path, s[i].spec.path)
  <2>1. DOMAIN byRank = 1..n
    OBVIOUS
  <2> HIDE DEF byRank
  <2> QED BY <1>4, <1>5, <2>1 DEF sortRoutes
<1>7. /\ s \in [1..n -> routes]
      /\ \A i, j \in 1..n : i # j => s[i] # s[j]
  BY <1>6 DEF SetToSeqs
<1>8. \A r \in routes : \E i \in DOMAIN s : s[i] = r
  <2>1. s \in Injection(1..n, routes)
    BY <1>7 DEF Injection, IsInjective
  <2>2. Cardinality(1..n) = n /\ IsFiniteSet(routes)
    BY <1>1, FS_Interval DEF Sortable
  <2>3. s \in Surjection(1..n, routes)
    BY <2>1, <2>2, FS_Injection
  <2> QED BY <1>7, <2>3 DEF Surjection
<1>9. ASSUME NEW i \in DOMAIN s, NEW j \in DOMAIN s, i < j
      PROVE  StringGreater(s[i].spec.path, s[j].spec.path)
  <2>1. i \in 1..n /\ j \in 1..n /\ i # j
    BY <1>1, <1>7, <1>9
  <2>2. s[i] \in routes /\ s[j] \in routes /\ s[i] # s[j]
    BY <2>1, <1>7
  <2>3. s[i].spec.path # s[j].spec.path
    BY <2>2 DEF Sortable
  <2> QED BY <1>6, <1>9, <2>2, <2>3, GreaterIsTotal DEF Sortable
<1> QED BY <1>1, <1>7, <1>8, <1>9

-----------------------------------------------------------------------------
(***************************** What Build returns **************************)

(***************************************************************************)
(* The inductive invariant of the run: a result stays that of its input.   *)
(***************************************************************************)
BuilderInv ==
  /\ routeList \in RouteLists
  /\ Succeeded => /\ ~ BuildFails(routeList)
                  /\ built = BuildVirtualServices(routeList)

LEMMA BuilderInvariance == Spec => []BuilderInv
<1>1. Init => BuilderInv
  BY DEF Init, BuilderInv, Succeeded
<1>2. BuilderInv /\ [Build]_vars => BuilderInv'
  BY DEF BuilderInv, Build, vars, Succeeded
<1> QED BY <1>1, <1>2, PTL DEF Spec

\* The VirtualService of an FQDN is that of its group: names tell FQDNs apart.
LEMMA BuiltFromGroup ==
  ASSUME NEW routes, NEW f \in DOMAIN groupByFQDN(routes)
  PROVE  BuildVirtualServices(routes)[VirtualServiceName(f)] =
           fqdnToVirtualService(f, groupByFQDN(routes)[f])
<1> DEFINE byFQDN == groupByFQDN(routes)
           named == CHOOSE g \in DOMAIN byFQDN :
                      VirtualServiceName(g) = VirtualServiceName(f)
<1>1. named = f
  BY DEF VirtualServiceName
<1>2. VirtualServiceName(f) \in {VirtualServiceName(g) : g \in DOMAIN byFQDN}
  OBVIOUS
<1>3. BuildVirtualServices(routes)[VirtualServiceName(f)] =
        fqdnToVirtualService(named, byFQDN[named])
  BY <1>2 DEF BuildVirtualServices
<1> QED BY <1>1, <1>3

\* A group holds the routes of its FQDN, of which there is one.
LEMMA GroupMembers ==
  ASSUME NEW routes
  PROVE  /\ DOMAIN groupByFQDN(routes) = {FQDN(r) : r \in routes}
         /\ \A f \in DOMAIN groupByFQDN(routes) :
              /\ groupByFQDN(routes)[f] = {r \in routes : FQDN(r) = f}
              /\ groupByFQDN(routes)[f] # {}
BY DEF groupByFQDN

LEMMA GroupWithin ==
  ASSUME NEW routes, NEW f \in DOMAIN groupByFQDN(routes)
  PROVE  groupByFQDN(routes)[f] \subseteq routes
BY DEF groupByFQDN

\* Every name built is that of an FQDN with its group.
LEMMA BuiltNames ==
  ASSUME NEW routes, NEW n \in DOMAIN BuildVirtualServices(routes)
  PROVE  \E f \in DOMAIN groupByFQDN(routes) : n = VirtualServiceName(f)
BY DEF BuildVirtualServices

(***************************************************************************)
(* Whatever route the list begins with, the VirtualService has a gateway   *)
(* and a namespace that fit every route of the FQDN: the routes of a valid *)
(* group agree with the one chosen.                                        *)
(***************************************************************************)
THEOREM RoutesAgree == Spec => []RoutesOfFQDNAgree
<1>1. BuilderInv => RoutesOfFQDNAgree
  <2> SUFFICES ASSUME BuilderInv, Succeeded, NEW r \in routeList
               PROVE  LET vs == built[VirtualServiceName(FQDN(r))]
                      IN  /\ vs.namespace = r.namespace
                          /\ (vs.gateways = <<MeshInternalGateway>>) <=> r.spec.internal
    BY DEF RoutesOfFQDNAgree
  <2> DEFINE f == FQDN(r)
             rs == groupByFQDN(routeList)[f]
             first == CHOOSE q \in rs : TRUE
  <2>1. f \in DOMAIN groupByFQDN(routeList) /\ r \in rs
    BY DEF groupByFQDN
  <2>2. built[VirtualServiceName(f)] = fqdnToVirtualService(f, rs)
    BY <2>1, BuiltFromGroup DEF BuilderInv
  <2>3. first \in rs
    BY <2>1
  <2>4. first.namespace = r.namespace /\ first.spec.internal = r.spec.internal
    BY <2>1, <2>3 DEF BuilderInv, BuildFails, ValidForFQDN, validateRoutesForFQDN
  <2>5. r.spec.internal \in BOOLEAN
    BY RouteListsAssumption DEF BuilderInv
  <2>6. built[VirtualServiceName(f)].namespace = first.namespace
    BY <2>2 DEF fqdnToVirtualService
  <2>7. built[VirtualServiceName(f)].gateways =
          IF first.spec.internal THEN <<MeshInternalGateway>> ELSE IstioGateways
    BY <2>2 DEF fqdnToVirtualService
  <2> HIDE DEF f, rs, first
  <2> QED BY <2>4, <2>5, <2>6, <2>7, GatewayAssumption DEF f
<1> QED BY <1>1, BuilderInvariance, PTL

(***************************************************************************)
(* Reconcile may build from the routes of one FQDN only: what it writes is *)
(* what a build of every route would have written, since a group is the    *)
(* same in both lists.                                                     *)
(***************************************************************************)
THEOREM LocalBuild == Spec => []BuildIsLocal
<1>1. BuilderInv => BuildIsLocal
  <2> SUFFICES ASSUME BuilderInv, Succeeded, NEW f \in {FQDN(r) : r \in routeList}
               PROVE  built[VirtualServiceName(f)] =
                        BuildVirtualServices({r \in routeList : FQDN(r) = f})
                          [VirtualServiceName(f)]
    BY DEF BuildIsLocal
  <2> DEFINE own == {r \in routeList : FQDN(r) = f}
  <2>1. f \in DOMAIN groupByFQDN(routeList) /\ groupByFQDN(routeList)[f] = own
    BY GroupMembers
  <2>2. f \in DOMAIN groupByFQDN(own) /\ groupByFQDN(own)[f] = own
    BY DEF groupByFQDN
  <2> HIDE DEF own
  <2>3. built[VirtualServiceName(f)] = fqdnToVirtualService(f, own)
    BY <2>1, BuiltFromGroup DEF BuilderInv
  <2>4. BuildVirtualServices(own)[VirtualServiceName(f)] = fqdnToVirtualService(f, own)
    BY <2>2, BuiltFromGroup
  <2> QED BY <2>3, <2>4 DEF own
<1> QED BY <1>1, BuilderInvariance, PTL

-----------------------------------------------------------------------------
(****************************** Its entries ********************************)

\* The routes of a group that get an entry.
Served(rs) == {r \in rs : r.spec.destinations # <<>> \/ Cardinality(rs) = 1}

\* The URLs of a list differ, so the paths of one FQDN do.
LEMMA GroupSortable ==
  ASSUME NEW routes \in RouteLists, NEW f \in DOMAIN groupByFQDN(routes)
  PROVE  Sortable(Served(groupByFQDN(routes)[f]))
<1> DEFINE rs == groupByFQDN(routes)[f]
<1>1. rs = {r \in routes : FQDN(r) = f}
  BY GroupMembers
<1>2. Served(rs) \in SUBSET routes
  BY <1>1 DEF Served
<1>3. IsFiniteSet(Served(rs))
  BY <1>2, FS_Subset, RouteListsAssumption
<1>4. \A r \in Served(rs) : r.spec.path \in Seq(Nat)
  BY <1>2, RouteListsAssumption
<1>5. ASSUME NEW r \in Served(rs), NEW q \in Served(rs), r.spec.path = q.spec.path
      PROVE  r = q
  <2>1. r \in routes /\ q \in routes /\ FQDN(r) = FQDN(q)
    BY <1>1 DEF Served
  <2>2. Url(r) = Url(q)
    BY <1>5, <2>1 DEF Url
  <2> QED BY <2>1, <2>2, RouteListsAssumption DEF DistinctUrls
<1> QED BY <1>3, <1>4, <1>5 DEF Sortable

LEMMA PlaceholderHost ==
  /\ HostsOf(httpRouteDestinationPlaceholder) = <<Placeholder>>
  /\ \A j \in DOMAIN httpRouteDestinationPlaceholder :
       httpRouteDestinationPlaceholder[j].host = Placeholder
<1> DEFINE entry == [host |-> Placeholder, app |-> "", weight |-> 0]
<1>1. httpRouteDestinationPlaceholder = <<entry>> /\ entry.host = Placeholder
  BY DEF httpRouteDestinationPlaceholder
<1> HIDE DEF entry
<1> QED BY <1>1 DEF HostsOf

\* A VirtualService has one entry for every route served, in sorted order.
LEMMA EntriesOf ==
  ASSUME NEW f, NEW rs
  PROVE  LET s == sortRoutes(Served(rs))
         IN  /\ fqdnToVirtualService(f, rs).http = [i \in DOMAIN s |-> HttpRoute(s[i])]
             /\ fqdnToVirtualService(f, rs).owners = {routeToOwnerRef(r) : r \in rs}
BY DEF fqdnToVirtualService, ServedRoutes, Served

(***************************************************************************)
(* Every host a VirtualService names is that of a Service ServiceBuilder   *)
(* builds for one of the routes that own it, or the placeholder: an entry  *)
(* comes from a route of the group, and both builders name it alike.       *)
(***************************************************************************)
THEOREM HostsExist == Spec => []HostsAreServicesOfOwners
<1>1. BuilderInv => HostsAreServicesOfOwners
  <2> SUFFICES ASSUME BuilderInv, Succeeded, NEW n \in DOMAIN built,
                      NEW i \in DOMAIN built[n].http,
                      NEW j \in DOMAIN built[n].http[i].route
               PROVE  LET host == built[n].http[i].route[j].host
                      IN  \/ host = Placeholder
                          \/ \E r \in routeList :
                               /\ routeToOwnerRef(r) \in built[n].owners
                               /\ host \in {s.name : s \in Range(BuildServices(r))}
    BY DEF HostsAreServicesOfOwners
  <2>1. PICK f \in DOMAIN groupByFQDN(routeList) : n = VirtualServiceName(f)
    BY BuiltNames DEF BuilderInv
  <2> DEFINE rs == groupByFQDN(routeList)[f]
             s == sortRoutes(Served(rs))
             r == s[i]
             dests == r.spec.destinations
  <2>2. built[n] = fqdnToVirtualService(f, rs)
    BY <2>1, BuiltFromGroup DEF BuilderInv
  <2>3. /\ i \in DOMAIN s
        /\ built[n].http[i] = HttpRoute(r)
        /\ built[n].owners = {routeToOwnerRef(q) : q \in rs}
    <3>1. /\ built[n].http = [k \in DOMAIN s |-> HttpRoute(s[k])]
          /\ built[n].owners = {routeToOwnerRef(q) : q \in rs}
      BY <2>2, EntriesOf
    <3> HIDE DEF s, rs
    <3> QED BY <3>1
  <2>4. r \in Served(rs)
    <3>1. Sortable(Served(rs))
      BY GroupSortable DEF BuilderInv
    <3> QED BY <2>3, <3>1, SortedDescending
  <2>5. r \in routeList /\ routeToOwnerRef(r) \in built[n].owners
    <3>1. rs \subseteq routeList
      BY GroupWithin
    <3>2. r \in rs
      BY <2>4 DEF Served
    <3> HIDE DEF rs, r
    <3> QED BY <2>3, <3>1, <3>2
  <2> HIDE DEF rs, s, r
  <2>6. CASE dests # <<>>
    <3>1. /\ built[n].http[i].route = destinationsToHttpRouteDestinations(dests)
          /\ j \in DOMAIN dests
      BY <2>3, <2>6 DEF HttpRoute, destinationsToHttpRouteDestinations
    <3>2. built[n].http[i].route[j].host = serviceName(dests[j])
      BY <3>1 DEF destinationsToHttpRouteDestinations
    <3>3. BuildServices(r)[j].name = serviceName(dests[j]) /\ j \in DOMAIN BuildServices(r)
      BY <3>1 DEF BuildServices
    <3>4. BuildServices(r)[j] \in Range(BuildServices(r))
      BY <3>3 DEF Range
    <3> QED BY <2>5, <3>2, <3>3, <3>4
  <2>7. CASE dests = <<>>
    <3>1. built[n].http[i].route = httpRouteDestinationPlaceholder
      BY <2>3, <2>7 DEF HttpRoute
    <3> QED BY <3>1, PlaceholderHost
  <2> QED BY <2>6, <2>7
<1> QED BY <1>1, BuilderInvariance, PTL

(***************************************************************************)
(* Of routes sorted by sortRoutes, the first entry that matches a request  *)
(* is that of the longest path that is a prefix of it.                     *)
(***************************************************************************)
LEMMA FirstMatchIsLongest ==
  ASSUME NEW S, Sortable(S), NEW path \in Seq(Nat), NEW vs,
         vs.http = [i \in DOMAIN sortRoutes(S) |-> HttpRoute(sortRoutes(S)[i])]
  PROVE  \/ /\ \A q \in S : ~ IsPrefix(q.spec.path, path)
            /\ Dispatch(vs, path) = <<>>
         \/ \E r \in S :
              /\ IsPrefix(r.spec.path, path)
              /\ Dispatch(vs, path) = HttpRoute(r).route
              /\ \A q \in S : /\ IsPrefix(q.spec.path, path)
                              /\ q # r
                              => Len(q.spec.path) < Len(r.spec.path)
<1> DEFINE n == Cardinality(S)
           s == sortRoutes(S)
           I == {i \in 1..Len(vs.http) : IsPrefix(vs.http[i].match, path)}
<1>1. /\ n \in Nat /\ s \in [1..n -> S]
      /\ \A r \in S : \E i \in DOMAIN s : s[i] = r
      /\ \A i, j \in DOMAIN s :
           i < j => StringGreater(s[i].spec.path, s[j].spec.path)
  BY SortedDescending
<1> HIDE DEF s, n
<1>2. Len(vs.http) = n
  BY <1>1 DEF s
<1>3. \A i \in 1..n : /\ vs.http[i] = HttpRoute(s[i])
                      /\ vs.http[i].match = s[i].spec.path
  BY <1>1 DEF s, HttpRoute
<1>4. /\ I \in SUBSET Nat
      /\ \A i \in 1..n : i \in I <=> IsPrefix(s[i].spec.path, path)
      /\ I \subseteq 1..n
  BY <1>1, <1>2, <1>3
<1>5. Dispatch(vs, path) =
        LET i == IF I # {} THEN Min(I) ELSE 0
        IN  IF i = 0 THEN <<>> ELSE vs.http[i].route
  BY DEF Dispatch, SelectInSeq
<1> HIDE DEF I
<1>6. CASE I = {}
  <2>1. ASSUME NEW q \in S PROVE ~ IsPrefix(q.spec.path, path)
    BY <1>1, <1>4, <1>6
  <2>2. Dispatch(vs, path) = <<>>
    BY <1>5, <1>6
  <2> QED BY <2>1, <2>2
<1>7. CASE I # {}
  <2> DEFINE k == Min(I)
             r == s[k]
  <2>1. k \in I /\ \A j \in I : k <= j
    BY <1>4, <1>7, LeastElement DEF Min
  <2> HIDE DEF k
  <2>2. k \in 1..n /\ r \in S /\ IsPrefix(r.spec.path, path)
    BY <1>1, <1>4, <2>1
  <2>3. Dispatch(vs, path) = HttpRoute(r).route
    <3>1. k # 0
      BY <1>1, <2>2
    <3>2. Dispatch(vs, path) = vs.http[k].route
      BY <1>5, <1>7, <3>1 DEF k
    <3> QED BY <1>3, <2>2, <3>2
  <2>4. ASSUME NEW q \in S, IsPrefix(q.spec.path, path), q # r
        PROVE  Len(q.spec.path) < Len(r.spec.path)
    <3>1. PICK j \in 1..n : s[j] = q
      BY <1>1
    <3>2. k < j
      BY <1>1, <1>4, <2>1, <2>2, <2>4, <3>1
    <3>3. StringGreater(r.spec.path, q.spec.path)
      BY <1>1, <2>2, <3>1, <3>2
    <3> DEFINE rp == r.spec.path
               qp == q.spec.path
    <3>4. rp \in Seq(Nat) /\ qp \in Seq(Nat) /\ rp # qp
      BY <2>2, <2>4 DEF Sortable
    <3>5. IsPrefix(rp, path) /\ IsPrefix(qp, path) /\ StringGreater(rp, qp)
      BY <2>2, <2>4, <3>3
    <3> HIDE DEF rp, qp
    <3>6. /\ Len(rp) <= Len(path) /\ Len(qp) <= Len(path)
          /\ \A i \in 1..Len(rp) : rp[i] = path[i]
          /\ \A i \in 1..Len(qp) : qp[i] = path[i]
      BY <3>4, <3>5, PrefixAgrees
    <3>7. ASSUME Len(rp) <= Len(qp) PROVE IsPrefix(rp, qp)
      <4>1. \A i \in 1..Len(rp) : rp[i] = qp[i]
        BY <3>4, <3>6, <3>7
      <4> QED BY <3>4, <3>7, <4>1, PrefixAgrees
    <3>8. ASSUME Len(rp) = Len(qp) PROVE FALSE
      <4>1. \A i \in 1..Len(rp) : rp[i] = qp[i]
        BY <3>6, <3>8
      <4>2. rp = qp
        BY <3>4, <3>8, <4>1, SameCharacters
      <4> QED BY <3>4, <4>2
    <3>9. ASSUME Len(rp) < Len(qp) PROVE FALSE
      <4>1. StringGreater(qp, rp)
        BY <3>4, <3>7, <3>9, PrefixIsSmaller
      <4> QED BY <3>4, <3>5, <4>1, GreaterIsAnOrder
    <3>10. Len(rp) \in Nat /\ Len(qp) \in Nat
      BY <3>4
    <3>11. Len(qp) < Len(rp)
      BY <3>8, <3>9, <3>10
    <3> QED BY <3>11 DEF rp, qp
  <2> QED BY <2>2, <2>3, <2>4
<1> QED BY <1>6, <1>7

\* What a request means when one route matches it with a longer path than the others.
LEMMA MeaningOfLongest ==
  ASSUME NEW rs, NEW path, NEW r \in rs,
         \A q \in rs : q.spec.path \in Seq(Nat),
         r.spec.destinations # <<>>, IsPrefix(r.spec.path, path),
         \A q \in rs : /\ q.spec.destinations # <<>>
                       /\ IsPrefix(q.spec.path, path)
                       /\ q # r
                       => Len(q.spec.path) < Len(r.spec.path)
  PROVE  Meaning(rs, path) = [i \in DOMAIN r.spec.destinations |->
                                serviceName(r.spec.destinations[i])]
<1> DEFINE live == {q \in rs : /\ q.spec.destinations # <<>>
                               /\ IsPrefix(q.spec.path, path)}
           best == CHOOSE b \in live :
                     \A q \in live : Len(q.spec.path) <= Len(b.spec.path)
<1>1. r \in live
  OBVIOUS
<1>2. \A q \in live : Len(q.spec.path) \in Nat
  OBVIOUS
<1>3. \A q \in live : q # r => Len(q.spec.path) < Len(r.spec.path)
  OBVIOUS
<1>4. Meaning(rs, path) =
        IF live = {} THEN <<>>
        ELSE [i \in DOMAIN best.spec.destinations |->
                serviceName(best.spec.destinations[i])]
  BY DEF Meaning
<1> HIDE DEF live
<1>5. \A q \in live : Len(q.spec.path) <= Len(r.spec.path)
  BY <1>1, <1>2, <1>3
<1>6. /\ best \in live
      /\ \A q \in live : Len(q.spec.path) <= Len(best.spec.path)
  BY <1>1, <1>5
<1>7. best = r
  <2> HIDE DEF best
  <2> QED BY <1>1, <1>2, <1>3, <1>6
<1> QED BY <1>1, <1>4, <1>7

(***************************************************************************)
(* A request reaches the destinations of the most specific route that has  *)
(* any, whatever the routes and the request: the entries are the routes    *)
(* with destinations in descending order, so the first that matches is the *)
(* longest.  Only a route alone on its FQDN answers with the placeholder.  *)
(***************************************************************************)
THEOREM MostSpecificWins == Spec => []MostSpecificRouteWins
<1>1. BuilderInv => MostSpecificRouteWins
  <2> SUFFICES ASSUME BuilderInv, Succeeded, NEW f \in DOMAIN groupByFQDN(routeList),
                      NEW path \in RequestPaths
               PROVE  LET rs  == groupByFQDN(routeList)[f]
                          got == HostsOf(Dispatch(built[VirtualServiceName(f)], path))
                      IN  \/ got = Meaning(rs, path)
                          \/ /\ got = <<Placeholder>>
                             /\ Cardinality(rs) = 1
                             /\ \A r \in rs : r.spec.destinations = <<>>
    BY DEF MostSpecificRouteWins
  <2> DEFINE rs == groupByFQDN(routeList)[f]
             vs == built[VirtualServiceName(f)]
             S  == Served(rs)
             s  == sortRoutes(S)
             got == HostsOf(Dispatch(vs, path))
  <2>1. rs \subseteq routeList
    BY GroupWithin
  <2>2. \A r \in rs : r.spec.path \in Seq(Nat)
    BY <2>1, RouteListsAssumption DEF BuilderInv
  <2>3. Sortable(S) /\ path \in Seq(Nat)
    BY GroupSortable, RequestPathsAssumption DEF BuilderInv
  <2>4. vs.http = [i \in DOMAIN s |-> HttpRoute(s[i])]
    BY BuiltFromGroup, EntriesOf DEF BuilderInv
  <2> HIDE DEF rs, vs
  <2>5. \/ /\ \A q \in S : ~ IsPrefix(q.spec.path, path)
           /\ Dispatch(vs, path) = <<>>
        \/ \E r \in S :
             /\ IsPrefix(r.spec.path, path)
             /\ Dispatch(vs, path) = HttpRoute(r).route
             /\ \A q \in S : /\ IsPrefix(q.spec.path, path)
                             /\ q # r
                             => Len(q.spec.path) < Len(r.spec.path)
    BY <2>3, <2>4, FirstMatchIsLongest
  <2>6. ASSUME \A q \in S : ~ IsPrefix(q.spec.path, path),
               Dispatch(vs, path) = <<>>
        PROVE  got = Meaning(rs, path)
    <3>1. got = <<>>
      BY <2>6 DEF HostsOf
    <3>2. Meaning(rs, path) = <<>>
      <4>1. {r \in rs : /\ r.spec.destinations # <<>>
                        /\ IsPrefix(r.spec.path, path)} = {}
        BY <2>6 DEF Served
      <4> QED BY <4>1 DEF Meaning
    <3> QED BY <3>1, <3>2
  <2>7. ASSUME NEW r \in S, IsPrefix(r.spec.path, path),
               Dispatch(vs, path) = HttpRoute(r).route,
               \A q \in S : /\ IsPrefix(q.spec.path, path)
                            /\ q # r
                            => Len(q.spec.path) < Len(r.spec.path)
        PROVE  \/ got = Meaning(rs, path)
               \/ /\ got = <<Placeholder>>
                  /\ Cardinality(rs) = 1
                  /\ \A q \in rs : q.spec.destinations = <<>>
    <3>1. CASE r.spec.destinations # <<>>
      <4>1. Dispatch(vs, path) = destinationsToHttpRouteDestinations(r.spec.destinations)
        BY <2>7, <3>1 DEF HttpRoute
      <4>2. got = [i \in DOMAIN r.spec.destinations |->
                     serviceName(r.spec.destinations[i])]
        BY <4>1 DEF HostsOf, destinationsToHttpRouteDestinations
      <4>3. \A q \in rs : q.spec.destinations # <<>> => q \in S
        BY DEF Served
      <4>4. Meaning(rs, path) = [i \in DOMAIN r.spec.destinations |->
                                   serviceName(r.spec.destinations[i])]
        <5>1. r \in rs
          BY DEF Served
        <5> HIDE DEF S
        <5> QED BY <2>2, <2>7, <3>1, <4>3, <5>1, MeaningOfLongest
      <4> QED BY <4>2, <4>4
    <3>2. CASE r.spec.destinations = <<>>
      <4>1. got = <<Placeholder>>
        BY <2>7, <3>2, PlaceholderHost DEF HttpRoute
      <4>2. r \in rs /\ Cardinality(rs) = 1
        BY <3>2 DEF Served
      <4>3. IsFiniteSet(rs)
        BY <2>1, FS_Subset, RouteListsAssumption DEF BuilderInv
      <4>4. rs = {r}
        BY <4>2, <4>3, FS_Singleton
      <4> QED BY <3>2, <4>1, <4>2, <4>4
    <3> QED BY <3>1, <3>2
  <2>8. \/ got = Meaning(rs, path)
        \/ /\ got = <<Placeholder>>
           /\ Cardinality(rs) = 1
           /\ \A r \in rs : r.spec.destinations = <<>>
    <3> HIDE DEF S, got
    <3> QED BY <2>5, <2>6, <2>7
  <2> QED BY <2>8 DEF rs, vs
<1> QED BY <1>1, BuilderInvariance, PTL

-----------------------------------------------------------------------------
(******************************* The weights *******************************)

\* A sum is what any function that adds up the weights one by one says it is.
LEMMA TotalIs ==
  ASSUME NEW n \in Nat, NEW weights, Len(weights) = n,
         NEW g, g[0] = 0, \A i \in 1..n : g[i] = g[i - 1] + weights[i]
  PROVE  Total(weights) = g[n]
<1> DEFINE Sum(f) == [i \in 0..Len(weights) |->
                        IF i = 0 THEN 0 ELSE f[i - 1] + weights[i]]
           sum == CHOOSE f : f = Sum(f)
           upTo == [i \in 0..n |-> g[i]]
<1>1. upTo = Sum(upTo)
  <2>1. ASSUME NEW i \in 0..n
        PROVE  upTo[i] = IF i = 0 THEN 0 ELSE upTo[i - 1] + weights[i]
    OBVIOUS
  <2>2. Sum(upTo) = [i \in 0..n |-> IF i = 0 THEN 0 ELSE upTo[i - 1] + weights[i]]
    OBVIOUS
  <2> HIDE DEF Sum
  <2> QED BY <2>1, <2>2
<1>2. sum = Sum(sum)
  BY <1>1
<1>3. Total(weights) = sum[n]
  BY DEF Total
<1> HIDE DEF sum
<1>4. \A i \in 0..n : sum[i] = IF i = 0 THEN 0 ELSE sum[i - 1] + weights[i]
  BY <1>2
<1> DEFINE D == {i \in 0..n : sum[i] # g[i]}
<1>5. D = {}
  <2> SUFFICES ASSUME D # {} PROVE FALSE
    OBVIOUS
  <2>1. PICK i \in D : \A j \in D : i <= j
    <3>1. D \in SUBSET Nat
      OBVIOUS
    <3> HIDE DEF D
    <3> QED BY <3>1, LeastElement
  <2>2. i \in 1..n /\ sum[i] = sum[i - 1] + weights[i]
    BY <1>4, <2>1
  <2>3. i - 1 \in 0..n /\ i - 1 \notin D
    BY <2>1, <2>2
  <2> QED BY <2>1, <2>2, <2>3
<1> QED BY <1>3, <1>5

\* The equal shares of n parts, the first with the remainder, are 100 together.
LEMMA InferredWeightsAddUp ==
  ASSUME NEW n \in Nat \ {0}
  PROVE  /\ \A i \in 1..n : InferredWeight(i, n) \in Nat
         /\ Total([i \in 1..n |-> InferredWeight(i, n)]) = IstioExpectedWeight
<1> DEFINE q == 100 \div n
           rest == 100 - n * q
           weights == [i \in 1..n |-> InferredWeight(i, n)]
           g == [i \in 0..n |-> IF i = 0 THEN 0 ELSE i * q + rest]
<1>1. q \in Nat /\ n * q <= 100
  OBVIOUS
<1> HIDE DEF q
<1>2. rest \in Nat
  BY <1>1
<1>3. \A i \in 1..n : weights[i] = IF i = 1 THEN q + rest ELSE q
  BY DEF InferredWeight, IstioExpectedWeight, q
<1> HIDE DEF rest
<1>4. g[0] = 0 /\ Len(weights) = n
  OBVIOUS
<1>5. ASSUME NEW i \in 1..n PROVE g[i] = g[i - 1] + weights[i]
  <2>1. CASE i = 1
    BY <1>1, <1>2, <1>3, <2>1
  <2>2. CASE i # 1
    <3>1. i * q = (i - 1) * q + q
      BY <1>1
    <3>2. g[i] = i * q + rest /\ g[i - 1] = (i - 1) * q + rest
      BY <2>2
    <3>3. (i - 1) * q \in Int
      BY <1>1
    <3> QED BY <1>1, <1>2, <1>3, <2>2, <3>1, <3>2, <3>3
  <2> QED BY <2>1, <2>2
<1>6. g[n] = 100
  BY <1>1 DEF rest
<1> HIDE DEF g, weights
<1>7. Total(weights) = 100
  BY <1>4, <1>5, <1>6, TotalIs
<1>8. \A i \in 1..n : InferredWeight(i, n) \in Nat
  BY <1>1, <1>2, <1>3 DEF weights
<1> QED BY <1>7, <1>8 DEF weights, IstioExpectedWeight

\* Valid weights of a route with destinations become weights that sum to 100.
LEMMA ValidWeightsAddUp ==
  ASSUME NEW dests, dests \in Seq(Range(dests)), dests # <<>>, validateWeights(dests),
         \A d \in Range(dests) : d.weight \in Nat \cup {NoWeight}
  PROVE  LET route == destinationsToHttpRouteDestinations(dests)
         IN  /\ SumOfWeights(route) = IstioExpectedWeight
             /\ \A j \in DOMAIN route : route[j].weight >= 0
<1> DEFINE n == Len(dests)
           route == destinationsToHttpRouteDestinations(dests)
           inferred == dests[1].weight = NoWeight
<1>1. n \in Nat \ {0} /\ DOMAIN dests = 1..n
  OBVIOUS
<1>2. \A i \in 1..n : dests[i].weight \in Nat \cup {NoWeight}
  BY <1>1 DEF Range
<1>3. /\ DOMAIN route = 1..n
      /\ \A i \in 1..n : route[i].weight = IF inferred THEN InferredWeight(i, n)
                                           ELSE dests[i].weight
  BY <1>1 DEF destinationsToHttpRouteDestinations
<1>4. CASE inferred
  <2>1. [i \in DOMAIN route |-> route[i].weight] = [i \in 1..n |-> InferredWeight(i, n)]
    BY <1>3, <1>4
  <2>2. SumOfWeights(route) = IstioExpectedWeight
    BY <1>1, <2>1, InferredWeightsAddUp DEF SumOfWeights
  <2>3. \A j \in DOMAIN route : route[j].weight >= 0
    <3>1. \A j \in 1..n : InferredWeight(j, n) \in Nat
      BY <1>1, InferredWeightsAddUp
    <3> HIDE DEF route, inferred
    <3> QED BY <1>3, <1>4, <3>1
  <2> QED BY <2>2, <2>3
<1>5. CASE ~ inferred
  <2>1. /\ \A i \in 1..n : dests[i].weight # NoWeight
        /\ SumOfWeights(dests) = IstioExpectedWeight
    BY <1>1, <1>5 DEF validateWeights
  <2>2. [i \in DOMAIN route |-> route[i].weight] = [i \in DOMAIN dests |-> dests[i].weight]
    BY <1>1, <1>3, <1>5
  <2>3. SumOfWeights(route) = IstioExpectedWeight
    BY <2>1, <2>2 DEF SumOfWeights
  <2>4. \A j \in DOMAIN route : route[j].weight >= 0
    BY <1>2, <1>3, <1>5, <2>1
  <2> QED BY <2>3, <2>4
<1> QED BY <1>4, <1>5

(***************************************************************************)
(* The weights of every entry with real destinations sum to 100 and none   *)
(* is negative, however many destinations share them: given weights are    *)
(* validated and copied, inferred ones lose nothing to the division.       *)
(***************************************************************************)
THEOREM TrafficSplit == Spec => []TrafficIsSplitCompletely
<1>1. BuilderInv => TrafficIsSplitCompletely
  <2> SUFFICES ASSUME BuilderInv, Succeeded, NEW n \in DOMAIN built,
                      NEW i \in DOMAIN built[n].http,
                      HostsOf(built[n].http[i].route) # <<Placeholder>>
               PROVE  LET route == built[n].http[i].route
                      IN  /\ SumOfWeights(route) = IstioExpectedWeight
                          /\ \A j \in DOMAIN route : route[j].weight >= 0
    BY DEF TrafficIsSplitCompletely
  <2>1. PICK f \in DOMAIN groupByFQDN(routeList) : n = VirtualServiceName(f)
    BY BuiltNames DEF BuilderInv
  <2> DEFINE rs == groupByFQDN(routeList)[f]
             s == sortRoutes(Served(rs))
             r == s[i]
             dests == r.spec.destinations
  <2>2. built[n] = fqdnToVirtualService(f, rs)
    BY <2>1, BuiltFromGroup DEF BuilderInv
  <2>3. i \in DOMAIN s /\ built[n].http[i] = HttpRoute(r)
    <3>1. built[n].http = [k \in DOMAIN s |-> HttpRoute(s[k])]
      BY <2>2, EntriesOf
    <3> HIDE DEF s, rs
    <3> QED BY <3>1
  <2>4. r \in Served(rs)
    <3>1. Sortable(Served(rs))
      BY GroupSortable DEF BuilderInv
    <3> QED BY <2>3, <3>1, SortedDescending
  <2>5. r \in rs /\ rs \subseteq routeList
    <3>1. rs \subseteq routeList
      BY GroupWithin
    <3>2. r \in rs
      BY <2>4 DEF Served
    <3> QED BY <3>1, <3>2
  <2>6. validateWeights(dests)
    <3>1. ValidForFQDN(rs)
      BY DEF BuilderInv, BuildFails
    <3> HIDE DEF rs, r
    <3> QED BY <2>5, <3>1 DEF ValidForFQDN
  <2>7. /\ dests \in Seq(Range(dests))
        /\ \A d \in Range(dests) : d.weight \in Nat \cup {NoWeight}
    <3> HIDE DEF rs, r
    <3> QED BY <2>5, RouteListsAssumption DEF BuilderInv
  <2> HIDE DEF rs, s, r
  <2>8. dests # <<>>
    BY <2>3, PlaceholderHost DEF HttpRoute
  <2>9. built[n].http[i].route = destinationsToHttpRouteDestinations(dests)
    BY <2>3, <2>8 DEF HttpRoute
  <2> HIDE DEF dests
  <2> QED BY <2>6, <2>7, <2>8, <2>9, ValidWeightsAddUp
<1> QED BY <1>1, BuilderInvariance, PTL

=============================================================================
