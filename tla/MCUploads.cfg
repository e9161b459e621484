\* Two requests at a time for one path, two contents, one restart.
CONSTANTS
  x1 = x1
  x2 = x2
  u1 = u1
  u2 = u2
  c1 = c1
  c2 = c2
  NoOne = NoOne
  Garbled = Garbled
  Contents = {x1, x2}
  Parts = {1, 2}
  Uploads = {u1, u2}
  Calls = {c1, c2}
  MaxFaults = 1
SPECIFICATION Spec
INVARIANTS
  TypeOK
  CompletedIsRegistered
  AssembledBytesSurvive
PROPERTIES
  ImplementsContract
SYMMETRY Symmetry
CHECK_DEADLOCK FALSE
