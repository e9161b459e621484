\* Leases that keep running out under slow workers.
CONSTANTS
  s1 = s1
  s2 = s2
  j1 = j1
  j2 = j2
  w1 = w1
  w2 = w2
  NoOne = NoOne
  Sessions = {s1}
  Jobs = {j1}
  Workers <- WorkersMC
  Sound = {s1}
  ClientTargets <- CollectorTargets
  RawNames = {"capture"}
  MaxAttempts = 2
  MaxFaults = 0
  MaxRequeues = 1
SPECIFICATION FairSpec
PROPERTY SubmissionDecided
CHECK_DEADLOCK FALSE
