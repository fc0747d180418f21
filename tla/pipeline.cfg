\* The fault pipeline: four configurations, five packets, a buffer of three.
SPECIFICATION Spec
CONSTANTS
  Capacity = 3
  Profiles <- SmallProfiles
  MaxPackets = 5
  MaxTime = 3
  MaxStall = 1
INVARIANTS
  TypeOK
  StatsAddUp
  BurstCoverage
  BurstsDisjoint
  BufferIsRecentPast
PROPERTY ReplayIsOldestAndStale
\* The bounds on packets and time end every behaviour.
CHECK_DEADLOCK FALSE
