CONSTANTS
  NoWeight = NoWeight
  IstioGateways <- MCGateways
  RouteNames = {"a", "b"}
  SpecsOf <- InvalidSibling
  Namespace = "cf-workloads"
  MaxLag = 2
  Limits <- ThreeChanges
  ResyncInterval = 30
SPECIFICATION FairSpec
PROPERTY DeletedRoutesGoAway
CHECK_DEADLOCK FALSE
