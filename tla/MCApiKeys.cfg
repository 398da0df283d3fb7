\* One restricted key, and two more that can be issued.
CONSTANTS
  k1 = k1
  Keys = {k1, k2, k3}
  Calls = {c1, c2}
  Host = Host
  NoKey = NoKey
  Ceilings <- MCCeilings
  Wanted = {"narrow", "broad"}
  Edits = {{"restrictions"}, {"expires"}}
  Operations <- MCOperations
  MaxLife = 1
  Overlaps = {0, 1}
  MaxTries = 2
  MaxFaults = 1
  InitialKeys <- MCInitialKeys
  LocalMode = TRUE
SPECIFICATION FairSpec
INVARIANTS KeysSound
PROPERTIES KeysOnlyNarrow CallsEnd
CHECK_DEADLOCK FALSE
