CONSTANTS
  Changes = {"old", "new"}
  NoName = ""
  Nil = Nil
  MaxRoutes = 2
  MaxRequests = 2
  AvailabilityPercentage = 95
  SLOPercentage = 95
SPECIFICATION Spec
INVARIANTS
  EverySampleCountsOnce
  VerdictMatchesSamples
  MeasuresToTheEnd
PROPERTY TestEnds
CHECK_DEADLOCK FALSE
