SPECIFICATION FairSpec
CONSTANTS
    MaxRetries = 2
    PreDumpQuiesce = TRUE
    DebugPreserve = TRUE
    LoadPods = {l1}
    MaxPods = 3
    MaxTriggers = 1
    MaxTrouble = 1
PROPERTIES MigrationEnds
