\* A mission of two waypoints, with two messages waiting for the controller.
SPECIFICATION FairSpec
CONSTANTS
  Legs = 2
  MaxQueue = 2
INVARIANTS
  TypeOK
  CommandsInOrder
  TasksFollowFlight
PROPERTIES
  WritesTargetsInOrder
  MissionEnds
\* The mission ends.
CHECK_DEADLOCK FALSE
