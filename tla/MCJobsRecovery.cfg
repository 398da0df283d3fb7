\* One managed loop, restarted after every crash, and two jobs.
CONSTANTS
  JobIds = {j1, j2}
  Loops = {loop1}
  Slots = {}
  Callers = {client1}
  NoJob = NoJob
  MaxAttempts = 2
  LeaseDuration = 1
  RetryDelay = 1
  MaxRunAt = 1
  MaxCrashes = 2
  MaxOutages = 1
  MaxResets = 1
  MaxVersion = 20
SPECIFICATION FairSpec
PROPERTIES EventuallySettled CompletedIsFinal
INVARIANT AttemptsBounded
CHECK_DEADLOCK FALSE
