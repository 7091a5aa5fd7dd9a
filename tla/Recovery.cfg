CONSTANTS
  NoWeight = NoWeight
  IstioGateways <- MCGateways
  RouteNames = {"a", "b"}
  SpecsOf <- SharedFQDN
  Namespace = "cf-workloads"
  MaxLag = 2
  Limits <- TwoChangesAnything
  ResyncInterval = 30
SPECIFICATION FairSpec
PROPERTIES
  Convergence
CHECK_DEADLOCK FALSE
