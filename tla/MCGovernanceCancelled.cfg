\* A retention purge that is cancelled when it is claimed again.
CONSTANTS
  s1 = s1
  j1 = j1
  w1 = w1
  w2 = w2
  r1 = r1
  r2 = r2
  NoOne = NoOne
  Sessions = {s1}
  Jobs = {j1}
  Workers = {w1}
  Requests = {r1}
  Sound = {s1}
  ClientTargets <- CollectorTargets
  RawNames = {"capture"}
  MaxAttempts = 1
  MaxFaults = 2
  MaxRequeues = 1
  MaxPolicies = 1
SPECIFICATION GovSpec
PROPERTY OnlyLeasedPurges
CHECK_DEADLOCK FALSE
