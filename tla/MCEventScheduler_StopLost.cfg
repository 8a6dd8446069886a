CONSTANTS
    trigger = trigger
    child = child
    other = other
    Events <- MCEvents
    Sub <- MCSub
    Delays <- MCNow
    MaxTime = 1
    NoEvent = NoEvent
    StopCalls = {s1}

SPECIFICATION FairSpec
PROPERTY StopEndsRun
CHECK_DEADLOCK FALSE
