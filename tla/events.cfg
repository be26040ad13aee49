SPECIFICATION Spec
CONSTANTS
    Attachable <- SomeEvents
    MaxEscapes = 2
    MaxHops = 3
    MaxAttached = 2
CHECK_DEADLOCK FALSE
INVARIANTS
    OneEvent
    TemporalIsExact
    LastOneDelivered
