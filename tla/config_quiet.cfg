CONSTANTS
  k1 = k1  k2 = k2  k3 = k3  loop = loop  caller = caller  None = None
  Keys = {k1, k2, k3}
  Loop = loop
  Callers = {}
  Markers = {"none", "day", "sequence"}
  Lookback = 0
  Lag = 0
  YearDays = 2
  MaxDay = 0
  MaxTime = 0
  MaxFaults = 1
  ExitKnown = TRUE
  Careful = TRUE
  EditPk = TRUE
  InReference = FALSE
SPECIFICATION AdminSpec
SYMMETRY Symmetry
INVARIANTS AdminTypeOK NoRowSkippedByEdit
PROPERTIES ClearedConfigStays ManualKeyStays
