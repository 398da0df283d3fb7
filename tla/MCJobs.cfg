\* One managed loop and one JobWorker slot compete for one job; a client retries it.
CONSTANTS
  JobIds = {j1}
  Loops = {loop1}
  Slots = {slot1}
  Callers = {client1}
  NoJob = NoJob
  MaxAttempts = 2
  LeaseDuration = 1
  RetryDelay = 1
  MaxRunAt = 1
  MaxCrashes = 1
  MaxOutages = 1
  MaxResets = 1
  MaxVersion = 9
SPECIFICATION Spec
INVARIANTS Inv AttemptsAccounted LeaseExclusive
PROPERTIES SettledByHolder ImplementsLifecycle
CHECK_DEADLOCK FALSE
