SPECIFICATION Spec
CONSTANTS
    MaxRetries = 1
    PreDumpQuiesce = FALSE
    DebugPreserve = FALSE
    LoadPods = {}
    MaxPods = 4
    MaxTriggers = 2
    MaxTrouble = 1
INVARIANTS TypeOK CheckpointUploaded MigratingIsInFlight AttemptsBounded OneRecordPerOutcome SingleWorkload NeverDumpTwice OneTargetAtATime
PROPERTIES ImplementsLifecycle
