\* One connection is enough: it subscribes, and its next frame is rejected.
CONSTANTS
    Conns = {c1}
    Users = {u1}
    Passcodes = {p1}
    Channels = {ch1}
    SubIds = {s1}
    Null = Null
SPECIFICATION Spec
INVARIANT DisconnectLeavesChannels
CHECK_DEADLOCK FALSE
