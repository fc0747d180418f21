\* Runs of up to two scenarios out of three, one of them malformed.
SPECIFICATION FairSpec
CONSTANTS
  Scenarios = {"a", "b", "bad"}
  Malformed = {"bad"}
  Requested = {{}, {"json", "junit"}, {"markdown", "event_log"}}
  MaxLength = 2
INVARIANTS
  TypeOK
  ExitZeroMeansAllPassed
  NothingStartsUnlessAllLoad
  OnlyFirstScenarioRuns
PROPERTIES
  DecisionReached
\* The process exits, or waits for its receive thread.
CHECK_DEADLOCK FALSE
