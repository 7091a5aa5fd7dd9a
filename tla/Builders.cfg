CONSTANTS
  NoWeight = NoWeight
  IstioGateways <- MCGateways
  RouteLists <- MCRouteLists
  RequestPaths <- Paths
SPECIFICATION Spec
INVARIANTS
  MostSpecificRouteWins
  TrafficIsSplitCompletely
  HostsAreServicesOfOwners
  BuildIsLocal
  RoutesOfFQDNAgree
CHECK_DEADLOCK FALSE
