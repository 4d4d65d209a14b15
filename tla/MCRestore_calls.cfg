SPECIFICATION FairSpec
CONSTANT MaxCalls = 2
CHECK_DEADLOCK FALSE
INVARIANTS TypeOK NoFreezeWhileLazy NsFdHeld
PROPERTIES CriuReaped DumpsResume
