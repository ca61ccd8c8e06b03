CONSTANTS
  c1 = c1  c2 = c2  ad1 = ad1  ad2 = ad2  m1 = m1  m2 = m2  a = a  b = b  k1 = k1  x = x  y = y  s1 = s1  s2 = s2
  None = None  Gone = Gone
  Calls = {c1, c2}
  Earlier = {c2}
  First <- MCFirst
  Admins = {ad1, ad2}
  Models = {m1, m2}
  Names = {a, b}
  Keys = {k1}
  Attrs = {x, y}
  TypeOf <- MCTypeOf
  Required = {x}
  Definitions <- MCDefinitions
  Scopes <- MCScopes
  Payloads <- MCPayloads
  MaxChanges = 3
  Shifters = {s1, s2}
  Hours = {1, 2}
SPECIFICATION TzSpec
INVARIANTS RowsAreLogged AttributesHaveColumns NeverShiftedTwice
SYMMETRY MCSymmetry
CHECK_DEADLOCK FALSE
