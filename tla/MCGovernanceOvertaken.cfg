\* A hold placed while an overtaken worker still purges.
CONSTANTS
  s1 = s1
  j1 = j1
  w1 = w1
  w2 = w2
  r1 = r1
  r2 = r2
  NoOne = NoOne
  Sessions = {s1}
  Jobs = {j1}
  Workers = {w1, w2}
  Requests = {r1}
  Sound = {s1}
  ClientTargets <- CollectorTargets
  RawNames = {"capture"}
  MaxAttempts = 1
  MaxFaults = 1
  MaxRequeues = 1
  MaxPolicies = 1
SPECIFICATION GovSpec
PROPERTY HoldStopsRetention
CHECK_DEADLOCK FALSE
