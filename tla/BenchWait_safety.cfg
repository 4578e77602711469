SPECIFICATION FairSpec
CONSTANTS
  MaxRun = 3
  Stall = 2
  Grace = 1
  MaxTail = 1
  MaxLines = 2
  MaxRestarts = 1
INVARIANT WaitIsSound
INVARIANT StallIsSilence
PROPERTY WaitReturns
CHECK_DEADLOCK FALSE
