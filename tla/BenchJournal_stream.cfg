SPECIFICATION FairSpec
CONSTANTS
  MaxEvents = 3
  MaxDrops = 1
  MaxCrashes = 1
  MaxTears = 1
  MaxLosses = 1
  FromSeqs = {1, 2, 4}
INVARIANT JournalIsSound
INVARIANT EndedSawDone
PROPERTY StreamIsReliable
PROPERTY FollowerEnds
CHECK_DEADLOCK FALSE
