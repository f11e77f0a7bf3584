\* main() and one more login, which does not wait for its answer.
CONSTANTS
    MaxLogins = 1
    MaxFlight = 4
    Null = Null
SPECIFICATION Spec
INVARIANT LoginWaitsForCONNECTED
CHECK_DEADLOCK FALSE
