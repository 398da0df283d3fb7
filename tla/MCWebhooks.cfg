\* The managed loop and a publish compete; a client replays.
CONSTANTS
  Endpoints = {e1}
  Deliveries = {d1}
  Loops = {loop1}
  Publishers = {pub1}
  Emitters = {}
  Clients = {client1}
  None = None
  MaxRetryAttempts = 2
  RetryDelay = 1
  MaxCrashes = 1
  MaxOutages = 1
  MaxReplays = 1
  MaxStalls = 1
  MaxVersion = 9
SPECIFICATION Spec
INVARIANTS DeliveriesSound NoOverlap
PROPERTY ImplementsDelivery
CHECK_DEADLOCK FALSE
