\* The proxy with a scenario's faults, two datagrams one way and one the other.
SPECIFICATION FairSpec
CONSTANTS
  px4 = px4
  other = other
  client = client
  NoAddress = NoAddress
  Addresses <- SmallAddresses
  Profiles <- SmallProfiles
  Capacity = 2
  MaxSends <- SmallSends
  MaxTime = 1
INVARIANTS
  TypeOK
  OnlyOneSideIgnored
  NothingUnaccounted
  TargetsAreKept
PROPERTIES
  IsDatagramLink
  EverySendDone
\* The bounds on sends and time end every behaviour.
CHECK_DEADLOCK FALSE
