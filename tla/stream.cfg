\* The setpoint task beside a mission of three waypoints.
SPECIFICATION FairSpec
CONSTANT Legs = 3
INVARIANT
  AtMostOneLateSetpoint
PROPERTIES
  NeverLeadsBack
  TargetIsStreamed
  StreamStops
\* The mission is over and the task has ended.
CHECK_DEADLOCK FALSE
