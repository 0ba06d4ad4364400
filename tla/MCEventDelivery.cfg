SPECIFICATION DeliverySpec
CONSTANTS
    EventCapacity = 3
    MaxPushes = 9
INVARIANTS
    Accounted
    OnlyOldEventsLost
CHECK_DEADLOCK FALSE
