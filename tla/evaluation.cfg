\* Up to four samples over two time units; each assertion alone, landed with
\* tilt, and separation in fleets of one to three vehicles.
SPECIFICATION Spec
CONSTANTS
  NoTime = NoTime
  Cases <- MCCases
  waypoints <- MCwaypoints
  MaxStart = 1
  MaxTime = 2
  MaxSamples = 4
INVARIANTS
  ReportBacksVerdicts
  DocumentsAgree
  OtherSystemsNeverTooClose
PROPERTIES
  VerdictMatchesMeaning
  VerdictsChangeOneWay
  SeparationPassMeansApart
\* A run ends.
CHECK_DEADLOCK FALSE
