\* One connection that is told to go.
CONSTANTS
    Conns = {c1}
    MaxFrames = 2
    Null = Null
SPECIFICATION Spec
PROPERTIES
    TerminatedCloses
CHECK_DEADLOCK FALSE
