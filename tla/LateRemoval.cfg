CONSTANTS
  NoWeight = NoWeight
  IstioGateways <- MCGateways
  RouteNames = {"a", "b"}
  SpecsOf <- SharedFQDN
  Namespace = "cf-workloads"
  MaxLag = 2
  Limits <- ThreeChanges
  ResyncInterval = 30
SPECIFICATION Spec
INVARIANT RemovalNeedsNoTimer
CHECK_DEADLOCK FALSE
