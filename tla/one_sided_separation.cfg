\* Separation whichever vehicle comes first, refuted.
SPECIFICATION Spec
CONSTANTS
  NoTime = NoTime
  Cases <- MCCases
  waypoints <- MCwaypoints
  MaxStart = 1
  MaxTime = 2
  MaxSamples = 3
PROPERTY SeparationIsMutual
CHECK_DEADLOCK FALSE
