\* The test plan's claim about an expired phase, refuted.
SPECIFICATION Spec
CONSTANTS
  Capacity = 3
  Profiles <- SmallProfiles
  MaxPackets = 5
  MaxTime = 3
  MaxStall = 1
PROPERTY CleanProfileForwards
CHECK_DEADLOCK FALSE
