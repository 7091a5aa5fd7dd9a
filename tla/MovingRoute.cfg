CONSTANTS
  NoWeight = NoWeight
  IstioGateways <- MCGateways
  RouteNames = {"a"}
  SpecsOf <- MovingRoute
  Namespace = "cf-workloads"
  MaxLag = 2
  Limits <- ThreeChangesFault
  ResyncInterval = 30
SPECIFICATION FairSpec
PROPERTIES
  Convergence
  OnlyOwnersDeleteServices
CHECK_DEADLOCK FALSE
