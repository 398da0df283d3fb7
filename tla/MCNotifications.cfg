\* Two channels, two processes, one stop or failing call.
CONSTANTS
  Channels = {a, b}
  Unavailable = {b}
  Procs = {p1, p2}
  MaxAttempts = 2
  MaxTries = 3
  Lease = 1
  Backoff = 1
  Lifetime = 1
  MaxNotifies = 1
  MaxOps = 1
  MaxFaults = 1
  Setups = {"inline", "queued", "jobless"}
SPECIFICATION Spec
INVARIANTS NotificationSound
PROPERTIES DeliveriesHold
SYMMETRY Symmetry
CHECK_DEADLOCK FALSE
