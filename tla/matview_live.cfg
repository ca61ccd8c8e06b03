CONSTANTS
  m1 = m1  m2 = m2  a = a  b = b  c1 = c1  c2 = c2  admin = admin  other = other  loop = loop  None = None
  Models = {m1}
  Names = {a, b}
  Defs = {{c1}, {c1, c2}}
  Fanout = {{c1}}
  Timed = {m1}
  Admins = {admin}
  Loop = loop
  Swapped = FALSE
  Careful = TRUE
  MaxVer = 1
  MaxFaults = 1
SPECIFICATION FairSpec
PROPERTIES Converges
