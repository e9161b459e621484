\* Safety of the validation pipeline: two sessions, one sound and one not,
\* two overlapping workers.
CONSTANTS
  s1 = s1
  s2 = s2
  j1 = j1
  j2 = j2
  w1 = w1
  w2 = w2
  NoOne = NoOne
  Sessions <- SessionsMC
  Jobs <- JobsMC
  Workers <- WorkersMC
  Sound <- SoundMC
  ClientTargets <- CollectorTargets
  RawNames = {"capture"}
  MaxAttempts = 2
  MaxFaults = 1
  MaxRequeues = 1
SPECIFICATION FairSpec
INVARIANTS
  TypeOK
  ActiveJobsMatchSessions
  ReviewableHasEvidence
  FailureIsExplained
  CapturedWithConsent
PROPERTIES
  StaleWorkerIsInert
  ImplementsContract
  DecidedIfLeasesSuffice
CHECK_DEADLOCK FALSE
