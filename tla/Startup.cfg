CONSTANTS
  Unset = Unset
  Environments <- MCEnvironments
  MaxDuration = 999999999
  MaxFaults = 2
SPECIFICATION Spec
INVARIANTS
  IntervalIsAsConfigured
  RunsOnlyWhenSetUp
PROPERTY ComesUp
CHECK_DEADLOCK FALSE
