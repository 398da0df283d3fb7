\* One managed loop that does not stop in mid-flight, and two deliveries.
CONSTANTS
  Endpoints = {e1, e2}
  Deliveries = {d1, d2}
  Loops = {loop1}
  Publishers = {}
  Emitters = {emit1}
  Clients = {}
  None = None
  MaxRetryAttempts = 2
  RetryDelay = 1
  MaxCrashes = 0
  MaxOutages = 1
  MaxReplays = 0
  MaxStalls = 1
  MaxVersion = 20
SPECIFICATION FairSpec
PROPERTIES SettledUnlessStalled BackoffRespected
INVARIANT AttemptsBounded
CHECK_DEADLOCK FALSE
