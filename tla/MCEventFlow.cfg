CONSTANTS
    scene = scene
    late = late
    nested = nested
    bad = bad
    last = last
    early = early
    message = message
    Events <- MCEvents
    Subs <- MCSubs
    Item <- MCItem
    Broken <- MCBroken
    EventTypes <- MCEventTypes
    Ids <- MCIds
    Models <- MCModels
    HandlerTypes <- MCHandlerTypes
    Topics <- MCTopics
    Delays <- MCDelays
    Absent = Absent
    NoId = NoId
    NoEvent = NoEvent
    MaxTime = 0

SPECIFICATION FairSpec
INVARIANTS TypeOK SiblingsInOrder DelaysAdd PrefixScheduled BrokerNeverTriggers DropHasReason
PROPERTY AllProcessed
CHECK_DEADLOCK FALSE
