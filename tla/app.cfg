SPECIFICATION FairSpec
CONSTANTS
  Goroutines = {"g1", "g2"}
  Configs <- MCConfigs
  Options <- MCOptions
  DefaultIdle = 30
  Serves <- MCServes
  Plans <- MCPlans
  RetryConfigs <- MCRetryConfigs
CHECK_DEADLOCK FALSE
INVARIANTS
  TypeOK
  NameLeadsToItsEntry
  ClosedForAll
  NilMeansDone
  PausesBounded
PROPERTIES
  KeepsContract
  RetryEnds
