\* Two users who share a channel, or one user on two connections.
CONSTANTS
    Conns = {c1, c2}
    Users = {u1, u2}
    Passcodes = {p1, p2}
    Channels = {ch1}
    Null = Null
SPECIFICATION Spec
INVARIANTS
    TypeOK
    ListedOnce
    NamedUsersExist
    ListedHasId
    LogoutLeavesChannels
PROPERTIES
    SettledIsMarked
    HandlersEnd
CHECK_DEADLOCK FALSE
