\* One connection that may pipeline its three frames.
CONSTANTS
    Conns = {c1}
    MaxFrames = 3
    Null = Null
SPECIFICATION Spec
INVARIANTS
    TypeOK
    NoLostWrite
    NoLostWakeup
PROPERTIES
    QueueDrains
    WireDrains
    LoopReturns
CHECK_DEADLOCK FALSE
