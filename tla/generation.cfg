\* Searches of up to five results beside every kind of batch.
SPECIFICATION FairSpec
CONSTANTS
  Configs <- MCConfigs
  Limits <- MCLimits
  Flaky = Flaky
  Idle = Idle
  MaxStrays = 1
  Unit <- MCUnit
  Requests <- MCRequests
  NoRequest = NoRequest
  Draw <- MCDraw
  NoRange = NoRange
  SeedModulus = 8
INVARIANTS
  Bracket
  GeneratedProfilesLoad
  SweepsCover
  FuzzRepeats
PROPERTIES
  SearchIsOver
\* A batch has been generated, or the search has ended.
CHECK_DEADLOCK FALSE
