SPECIFICATION Spec
CONSTANTS
  Requests = {"r1", "r2"}
  Sends <- MCSends
  Listings <- MCListings
  TimeoutsMs = {0, 1}
  DefaultCallTimeout = 1
  NoEndpoint = NoEndpoint
  WeightMod = 4
  CounterMod = 1
  Endpoints = {"n1"}
  None = None
  HalfOpenMax = 1
  Interval = 1
  Timeout = 1
  DefaultTimeout = 1
  FailureNum = 3
  FailureDen = 5
  MaxWindow = 3
  RetryCount = 1
INVARIANTS
  SuccessWasDone
