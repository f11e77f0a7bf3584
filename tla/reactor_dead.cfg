\* One connection that sends two frames and is gone.
CONSTANTS
    Conns = {c1}
    MaxFrames = 2
    Null = Null
SPECIFICATION Spec
INVARIANTS
    LoopSurvives
CHECK_DEADLOCK FALSE
