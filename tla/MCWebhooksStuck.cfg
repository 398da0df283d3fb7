\* The managed loop stops in mid-flight once.
CONSTANTS
  Endpoints = {e1}
  Deliveries = {d1}
  Loops = {loop1}
  Publishers = {}
  Emitters = {emit1}
  Clients = {}
  None = None
  MaxRetryAttempts = 2
  RetryDelay = 1
  MaxCrashes = 1
  MaxOutages = 0
  MaxReplays = 0
  MaxStalls = 0
  MaxVersion = 10
SPECIFICATION FairSpec
PROPERTY AtLeastOnce
CHECK_DEADLOCK FALSE
