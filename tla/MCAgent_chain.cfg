SPECIFICATION Spec
CONSTANTS
    Pages = {p1, p2}
    MaxDepth = 2
    MaxDumps = 3
    MaxFaults = 1
SYMMETRY PageSymmetry
CHECK_DEADLOCK FALSE
INVARIANTS TypeOK NoOutdatedPage LastDumpCovers ChainBounded NoUffdInDump
