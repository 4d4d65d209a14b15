SPECIFICATION Spec
CONSTANTS
    VMAs = {v1}
    MaxCalls = 3
    MaxSignals = 0
CHECK_DEADLOCK FALSE
INVARIANT RestoredAndDetached
