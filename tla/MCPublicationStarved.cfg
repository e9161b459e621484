\* One worker, no faults: a redaction job of a published session stays due.
CONSTANTS
  s1 = s1
  s2 = s2
  v1 = v1
  v2 = v2
  w1 = w1
  w2 = w2
  p1 = p1
  p2 = p2
  r1 = r1
  c1 = c1
  c2 = c2
  g1 = g1
  n1 = n1
  n2 = n2
  MaxEffort = 3
  NoOne = NoOne
  Sessions = {s1, s2}
  Reviewable = {s1, s2}
  Reviewers = {v1}
  Workers = {w1}
  Plans = {p1}
  Segments = {g1}
  Requests = {r1}
  Calls = {c1}
  Names = {n1}
  MaxAttempts = 1
  MaxFaults = 0
  MaxRequeues = 0
SPECIFICATION FairSpec
PROPERTY
  ErasureSettles
CHECK_DEADLOCK FALSE
