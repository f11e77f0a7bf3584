\* One user sends to a channel while another joins it or leaves it.
CONSTANTS
    Conns = {c1, c2}
    Users = {u1, u2}
    Passcodes = {p1}
    Channels = {ch1}
    Null = Null
SPECIFICATION Spec
PROPERTY SendReachesEveryone
CHECK_DEADLOCK FALSE
