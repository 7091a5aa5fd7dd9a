CONSTANTS
  NoWeight = NoWeight
  IstioGateways <- MCGateways
  RouteNames = {"a", "b"}
  SpecsOf <- SharedFQDN
  Namespace = "cf-workloads"
  MaxLag = 2
  Limits <- ThreeChangesAnyFault
  ResyncInterval = 30
SPECIFICATION Spec
INVARIANTS
  TypeOK
  FinalizerGuardsServices
  NoRouteForgotten
PROPERTIES
  VirtualServiceOutlivesItsRoutes
  ImplementsLifecycle
CHECK_DEADLOCK FALSE
