CONSTANTS
  Routes = {"r1", "r2"}
  Attempts = 3
  MaxLatency = 1
SPECIFICATION Spec
INVARIANTS
  PassMeansAllMapped
  MeasuredOnce
PROPERTY TestEnds
CHECK_DEADLOCK FALSE
