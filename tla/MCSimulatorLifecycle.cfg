CONSTANT Signals = {s1, s2}

SPECIFICATION FairSpec
INVARIANTS TypeOK QuietAtExit DeathNeedsOverlap DeafServerNeedsEarlyStop CircleNeedsHandler
PROPERTIES ImplementsLoop StopGetsThrough ExitAfterSigterm
CHECK_DEADLOCK FALSE
