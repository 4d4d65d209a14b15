SPECIFICATION FairSpec
CONSTANT MaxCalls = 1
CHECK_DEADLOCK FALSE
PROPERTY SuccessStillRuns
