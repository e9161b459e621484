\* Review, redaction, erasure and publication of one session.
CONSTANTS
  s1 = s1
  s2 = s2
  v1 = v1
  v2 = v2
  w1 = w1
  w2 = w2
  p1 = p1
  p2 = p2
  r1 = r1
  c1 = c1
  c2 = c2
  g1 = g1
  n1 = n1
  n2 = n2
  MaxEffort = 3
  NoOne = NoOne
  Sessions = {s1, s2}
  Reviewable = {s1}
  Reviewers = {v1, v2}
  Workers = {w1, w2}
  Plans = {p1, p2}
  Segments = {g1}
  Requests = {r1}
  Calls = {c1, c2}
  Names = {n1, n2}
  MaxAttempts = 2
  MaxFaults = 2
  MaxRequeues = 1
SPECIFICATION Spec
INVARIANTS
  TypeOK
  RedactionExcludesErasure
  DecidedOnce
  CompletedIsComplete
  ErasureIsComplete
  PublishedAsReviewed
  PublishedOnce
  ReleaseIsWhole
PROPERTIES
  OvertakenWorkerIsInert
  ImplementsContract
CONSTRAINT WithinBudget
SYMMETRY Symmetry
CHECK_DEADLOCK FALSE
