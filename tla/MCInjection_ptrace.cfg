SPECIFICATION Spec
CONSTANTS
    VMAs = {v1, v2}
    MaxCalls = 5
    MaxSignals = 2
CHECK_DEADLOCK FALSE
INVARIANTS LeftAsFound NoForgottenUffd TrackerFd
PROPERTIES Released
