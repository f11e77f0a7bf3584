\* Two users join and leave one channel.
CONSTANTS
    Conns = {c1, c2}
    Users = {u1, u2}
    Passcodes = {p1}
    Channels = {ch1}
    Null = Null
SPECIFICATION Spec
INVARIANT ListedWhenLeaving
CHECK_DEADLOCK FALSE
