CONSTANTS
  NoWeight = NoWeight
  IstioGateways <- MCGateways
  RouteNames = {"a", "b"}
  SpecsOf <- MixedFQDNs
  Namespace = "cf-workloads"
  MaxLag = 2
  Limits <- ThreeChanges
  ResyncInterval = 30
SPECIFICATION FairSpec
PROPERTIES
  Convergence
  DeletedRoutesLoseServices
CHECK_DEADLOCK FALSE
