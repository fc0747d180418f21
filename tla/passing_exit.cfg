\* The test plan's exit code of a passing run, refuted.
SPECIFICATION FairSpec
CONSTANTS
  Scenarios = {"a", "b", "bad"}
  Malformed = {"bad"}
  Requested = {{}, {"json", "junit"}, {"markdown", "event_log"}}
  MaxLength = 2
PROPERTY PassingRunExits
CHECK_DEADLOCK FALSE
