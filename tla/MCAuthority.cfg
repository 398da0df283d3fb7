\* Two requests of either kind, and two transactions that may use the same context.
CONSTANTS
  Requests = {r1, r2}
  Txs = {t1, t2}
  ContextLife = 1
  MaxFaults = 2
  MaxCrashes = 1
SPECIFICATION FairSpec
INVARIANTS RecordsSound PromisedRuns TransactionsSound
PROPERTIES CallsEnd ImplementsAudit
CHECK_DEADLOCK FALSE
