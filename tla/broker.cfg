\* Two users, two channels and two ids: sessions can switch user, share a
\* channel and reuse an id.
CONSTANTS
    Conns = {c1, c2}
    Users = {u1, u2}
    Passcodes = {p1, p2}
    Channels = {ch1, ch2}
    SubIds = {s1, s2}
    Null = Null
SPECIFICATION Spec
SYMMETRY Symmetry
INVARIANTS
    TypeOK
    SessionAgreement
    LiveSubscriptions
    LoggedOutIsClean
    ChannelLists
PROPERTIES
    Isolation
    PasswordKept
    CleanLogout
CHECK_DEADLOCK FALSE
