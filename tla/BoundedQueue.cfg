CONSTANTS
    Producers = {p1, p2, p3}
    Consumers = {c1, c2}
    Capacity = 2
    MaxPublish = 2
SPECIFICATION Spec
INVARIANTS NoStrandedSleeper
PROPERTIES ImplementsFifo CloseDrains EveryItemDelivered
CHECK_DEADLOCK FALSE
