\* Erasure and retention of the same session under a changing policy, and progress of erasure.
CONSTANTS
  s1 = s1
  j1 = j1
  w1 = w1
  w2 = w2
  r1 = r1
  r2 = r2
  NoOne = NoOne
  Sessions = {s1}
  Jobs = {j1}
  Workers = {w1}
  Requests = {r1, r2}
  Sound = {}
  ClientTargets <- CollectorTargets
  RawNames = {"capture"}
  MaxAttempts = 1
  MaxFaults = 1
  MaxRequeues = 1
  MaxPolicies = 2
SPECIFICATION GovFairSpec
INVARIANTS
  DeletedStaysErased
  TombstoneMeansGone
PROPERTY DeletionSettles
CHECK_DEADLOCK FALSE
