\* main() and two more logins, up to four frames on their way.
CONSTANTS
    MaxLogins = 2
    MaxFlight = 4
    Null = Null
SPECIFICATION Spec
INVARIANTS
    TypeOK
    LoginFindsSocketClosed
PROPERTIES
    LogoutCloses
    ErrorLogsOut
CHECK_DEADLOCK FALSE
