CONSTANTS
  r1 = r1  r2 = r2  loop = loop  caller = caller  x1 = x1  x2 = x2  x3 = x3  None = None
  Rows = {r1, r2}
  Reloaders = {loop, caller}
  Execs = {x1, x2, x3}
  Keyed = TRUE
  ExitKnown = TRUE
  MaxFaults = 0
  MaxUncounted = 0
SPECIFICATION Spec
SYMMETRY Symmetry
PROPERTIES NeverMissing
