SPECIFICATION FairSpec
CONSTANTS
  N = 2
  Local = {1}
  Sessions = {s1, s2}
  Supervisor = sup
  MaxEpochs = 2
  Faults = {"loss", "late", "start", "stop", "death", "rankRestart", "headRestart"}
  MaxFaults = 1
INVARIANT TypeOK
INVARIANT StartedWithConsent
INVARIANT FailedLeavesNothing
PROPERTY LaunchIsAgreed
PROPERTY StaleAbortReleasesNothing
PROPERTY BrokenIsDropped
CHECK_DEADLOCK FALSE
