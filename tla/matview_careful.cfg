CONSTANTS
  m1 = m1  m2 = m2  a = a  b = b  c1 = c1  c2 = c2  admin = admin  other = other  loop = loop  None = None
  Models = {m1, m2}
  Names = {a, b}
  Defs = {{c1}, {c1, c2}}
  Fanout = {{c1}}
  Timed = {m1, m2}
  Admins = {admin}
  Loop = loop
  Swapped = FALSE
  Careful = TRUE
  MaxVer = 0
  MaxFaults = 1
SPECIFICATION Spec
SYMMETRY Symmetry
INVARIANTS TypeOK AlwaysAnswers OkIsCurrent NoOrphan KeysUnique
PROPERTIES RefreshKeepsServing
