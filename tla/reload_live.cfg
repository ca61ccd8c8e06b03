CONSTANTS
  r1 = r1  r2 = r2  loop = loop  caller = caller  x1 = x1  x2 = x2  x3 = x3  None = None
  Rows = {r1, r2}
  Reloaders = {loop}
  Execs = {x1, x2, x3}
  Keyed = FALSE
  ExitKnown = FALSE
  MaxFaults = 1
  MaxUncounted = 0
SPECIFICATION FairSpec
INVARIANTS TypeOK LiveWhole NoLeftover
PROPERTIES NeverEmptied Refreshed
