SPECIFICATION ServicesSpec
CONSTANTS
  Calls = {c1, c2}
  Names = {n}
  Refs = {r, s}
  Writable = {r}
  Initial = i
  None = None
  MaxFaults = 1
  Imports = {c1, c2}
  Documents <- Exports
  Present = ca
  Fresh = cb
  NoItem = NoItem
  MaxEdits = 1
  Destinations = {d1, d2}
  Required = {d1}
  Credentials = {r}
  Editors = {c1, c2, c3}
  Nothing = Nothing
  FileIds = {f1}
  FileCalls = {c1, c2, c3}
  FileFields = {"name", "size"}
  FileValues = {0, 1}
  Events = {e1}
  Receipts = {c1, c2}
  Tolerance = 1
  MaxInboundTime = 2
  AppCalls = {a1, a2, a3}
  Streams = {s1}
  MaxHistory = 2
  MaxEvents = 3
  CountLimit = 1
  MaxRows = 2
  Clicks = {c1, c2}
  MaxChanges = 2
  Runs = {c1, c2}
  Selections = {{"api"}, {"jobs"}}
  Clients = {c1, c2}
INVARIANTS ConfigurationSound RerunIsUnchanged NothingTwice NotCarriedOver FilesSound InboundSound LifecycleSound StreamSound
INVARIANTS ReportSound PageSound ContractSound HostSound
PROPERTIES ImportKeeps LateNeverUndoes
SYMMETRY Symmetry
CHECK_DEADLOCK FALSE
