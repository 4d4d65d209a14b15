SPECIFICATION Spec
CONSTANTS
    MaxRetries = 1
    PreDumpQuiesce = FALSE
    DebugPreserve = FALSE
    LoadPods = {}
    MaxPods = 4
    MaxTriggers = 2
    MaxTrouble = 0
PROPERTY RestoredPodKept
