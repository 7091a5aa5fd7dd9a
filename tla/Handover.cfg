CONSTANTS
  NoWeight = NoWeight
  IstioGateways <- MCGateways
  RouteNames = {"a"}
  SpecsOf <- LoneRoute
  Namespace = "cf-workloads"
  MaxLag = 1
  Limits <- TwoChangesOrTrouble
  ResyncInterval = 30
  Overdue = FALSE
SPECIFICATION FairHandover
INVARIANTS
  FinalizerGuardsServices
  NoRouteLostInHandover
PROPERTY Convergence
CHECK_DEADLOCK FALSE
