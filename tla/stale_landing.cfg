\* The comment that telemetry verifies the landing, refuted.
SPECIFICATION Spec
CONSTANTS
  Legs = 2
  MaxQueue = 1
INVARIANT ConfirmedMeansLanded
CHECK_DEADLOCK FALSE
