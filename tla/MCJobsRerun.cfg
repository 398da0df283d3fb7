\* Two executors whose due lists overlap; no crash, no manual retry.
CONSTANTS
  JobIds = {j1}
  Loops = {loop1}
  Slots = {slot1}
  Callers = {}
  NoJob = NoJob
  MaxAttempts = 2
  LeaseDuration = 1
  RetryDelay = 1
  MaxRunAt = 0
  MaxCrashes = 0
  MaxOutages = 0
  MaxResets = 0
  MaxVersion = 7
SPECIFICATION Spec
PROPERTY CompletedIsFinal
CHECK_DEADLOCK FALSE
