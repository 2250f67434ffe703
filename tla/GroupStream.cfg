SPECIFICATION FairSpec
CONSTANTS
    Events = {e1}
    Callers = {k1}
    Capacity = 1
    MaxStreams = 2
    MaxDeliveries = 2
    MaxAcks = 2
    MaxFaults = 1
    NoEvent = NoEvent
INVARIANTS
    AckedIsSettled
    CopiesCanBeSettled
    NoMemberOutlives
PROPERTIES
    SubscriptionEnds
CHECK_DEADLOCK FALSE
