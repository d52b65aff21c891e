SPECIFICATION FairSpec
CONSTANTS
  Calls = {c1, c2, c3}
  Endpoints = {e1}
  None = None
  HalfOpenMax = 2
  Interval = 2
  Timeout = 1
  DefaultTimeout = 3
  FailureNum = 3
  FailureDen = 5
  MaxWindow = 4
INVARIANTS
  TypeOK
  SharedBreaker
  Accounting
  Shielded
  NeverWedged
PROPERTIES
  OpenIsProbed
  TrialEnds
