CONSTANTS
  k1 = k1  k2 = k2  k3 = k3  loop = loop  caller = caller  None = None
  Keys = {k1, k2}
  Loop = loop
  Callers = {caller}
  Markers = {"none", "day", "sequence"}
  Lookback = 0
  Lag = 0
  YearDays = 2
  MaxDay = 0
  MaxTime = 0
  MaxFaults = 1
  ExitKnown = FALSE
SPECIFICATION FreshSpec
INVARIANTS TypeOK 
