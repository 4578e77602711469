SPECIFICATION Spec
CONSTANTS
    Peers = {p1, p2}
    Conns = {c1, c2}
    MaxAttempts = 2
    MaxMints = 2
    MaxCalls = 3
    MaxEdits = 1
INVARIANTS CodesAreSpent WinnerNotEvicted TrustNeedsProof
PROPERTIES InvitationsAreKept
SYMMETRY Symmetry
CHECK_DEADLOCK FALSE
