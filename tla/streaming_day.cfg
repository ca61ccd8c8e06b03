CONSTANTS
  k1 = k1  k2 = k2  k3 = k3  loop = loop  caller = caller  None = None
  Keys = {k1, k2, k3}
  Loop = loop
  Callers = {}
  Markers = {"day", "sequence"}
  Lookback = 1
  Lag = 1
  YearDays = 2
  MaxDay = 2
  MaxTime = 0
  MaxFaults = 1
  ExitKnown = TRUE
SPECIFICATION Spec
SYMMETRY Symmetry
INVARIANTS NoMissedRow
PROPERTIES CursorNeverRegresses ReplicaSafety
