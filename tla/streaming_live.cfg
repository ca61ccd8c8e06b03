CONSTANTS
  k1 = k1  k2 = k2  k3 = k3  loop = loop  caller = caller  None = None
  Keys = {k1, k2}
  Loop = loop
  Callers = {}
  Markers = {"timestamp", "sequence"}
  Lookback = 0
  Lag = 0
  YearDays = 2
  MaxDay = 1
  MaxTime = 1
  MaxFaults = 1
  ExitKnown = TRUE
SPECIFICATION FairSpec
INVARIANTS NoMissedRow
PROPERTIES CaughtUp
