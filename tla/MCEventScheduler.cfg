CONSTANTS
    trigger = trigger
    child = child
    other = other
    Events <- MCEvents
    Sub <- MCSub
    Delays <- MCDelays
    MaxTime = 2
    NoEvent = NoEvent
    StopCalls = {s1}

SPECIFICATION FairSpec
INVARIANTS TypeOK NoEventSleptOver StopLostByRaceOnly
PROPERTIES ImplementsAgenda ImplementsLoop QueuedIsServed StopWithWorkExits
CHECK_DEADLOCK FALSE
