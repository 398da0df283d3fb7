SPECIFICATION IntelligenceSpec
CONSTANTS
  Destinations = {d1, d2}
  Required = {d1}
  Credentials = {r}
  Editors = {e1, e2, e3}
  Nothing = Nothing
INVARIANTS HandedAsChosen
CHECK_DEADLOCK FALSE
