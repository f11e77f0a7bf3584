SPECIFICATION Spec
CONSTANTS
    Clients = {a, b}
    Names <- MCNames
    lower <- MClower
    Keys <- MCKeys
    Values <- MCValues
    Files <- MCFiles
    Words <- MCWords
    MaxReports = 2
INVARIANTS
    TypeOK
    SummariesAddUp
    FollowersAgree
PROPERTY
    EveryEventArrives
CHECK_DEADLOCK FALSE
