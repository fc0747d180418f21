\* Two threads on logs of capacity 0, 1 and 2.
SPECIFICATION LogSpec
CONSTANTS
  Thread = {"main", "proxy"}
  Capacities = {0, 1, 2}
  MaxTime = 2
  MaxRecords = 2
INVARIANTS
  NewestKept
  OnlyOverlapsInverted
  OnlyCapacityZeroPanics
\* Every call has returned.
CHECK_DEADLOCK FALSE
