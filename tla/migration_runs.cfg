CONSTANTS
  r1 = r1  r2 = r2  r3 = r3  a1 = a1  a2 = a2  None = None
  Rows = {r1, r2}
  Late = {r1, r2}
  TextLate = {r1}
  Admins = {a1}
  MaxRuns = 2
  Keyed = TRUE
  ExitKnown = FALSE
  Estimates = {None}
  Troubles = {"fail", "lost", "crash", "raise", "persist"}
  MaxTroubles = 1
SPECIFICATION FairSpec
INVARIANTS TypeOK OneWriter RepairedWhole NoTwice
PROPERTIES EndIsFinal RunsEnd
CHECK_DEADLOCK FALSE
