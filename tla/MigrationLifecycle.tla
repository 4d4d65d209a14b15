------------------------- MODULE MigrationLifecycle -------------------------
(***************************************************************************)
(* What the status of a MigratableApp promises its readers (kubectl, the   *)
(* scheduler, users): the stages of a migration and the only ways between  *)
(* them, as docs/migration_fsm_plan.md and the comments of MigrationStage  *)
(* describe them.  No caches, no pods, no conflicts: one step per          *)
(* transition a reader of the stored object can observe.                   *)
(***************************************************************************)
EXTENDS Naturals

CONSTANTS MaxRetries, \* retries of a restore
          Dumps,      \* names of checkpoints
          NoDump

VARIABLES stage,      \* Status.Migration.Stage
          retry,      \* Status.Migration.RetryCount
          dump,       \* Status.Migration.UploadedDumpID
          ok, bad,    \* success and failure records in MigrationHistory
          requested,  \* annotation migration.io/retry is set
          resets      \* terminal stages left so far

lifecycleVars == <<stage, retry, dump, ok, bad, requested, resets>>

TerminalStages == {"FinalDumpFailed", "Failed"}

Init ==
    /\ stage = "Idle" /\ retry = 0 /\ dump = NoDump
    /\ ok = 0 /\ bad = 0
    /\ requested = FALSE /\ resets = 0

Start ==
    /\ stage = "Idle"
    /\ stage' \in {"Quiescing", "Dumping"}
    /\ retry' = 0 /\ dump' = NoDump
    /\ UNCHANGED <<ok, bad, requested, resets>>

Quiesced ==
    /\ stage = "Quiescing" /\ stage' = "Dumping"
    /\ UNCHANGED <<retry, dump, ok, bad, requested, resets>>

Dumped ==
    /\ stage = "Dumping" /\ stage' = "Uploaded"
    /\ dump' \in Dumps
    /\ UNCHANGED <<retry, ok, bad, requested, resets>>

DumpFailed ==
    /\ stage = "Dumping" /\ stage' = "FinalDumpFailed"
    /\ bad' = bad + 1
    /\ UNCHANGED <<retry, dump, ok, requested, resets>>

TargetPlaced ==
    /\ stage = "Uploaded" /\ stage' = "Restoring"
    /\ UNCHANGED <<retry, dump, ok, bad, requested, resets>>

AttemptFailed ==
    /\ stage \in {"Uploaded", "Restoring"} /\ stage' = "RestoreFailed"
    /\ UNCHANGED <<retry, dump, ok, bad, requested, resets>>

\* The next attempt starts from the uploaded checkpoint, never from the dump.
Retry ==
    /\ stage = "RestoreFailed" /\ stage' = "Uploaded"
    /\ retry < MaxRetries /\ retry' = retry + 1
    /\ UNCHANGED <<dump, ok, bad, requested, resets>>

GiveUp ==
    /\ stage = "RestoreFailed" /\ stage' = "Failed"
    /\ retry = MaxRetries
    /\ bad' = bad + 1
    /\ UNCHANGED <<retry, dump, ok, requested, resets>>

Complete ==
    /\ stage = "Restoring" /\ stage' = "Idle"
    /\ retry' = 0 /\ dump' = NoDump /\ ok' = ok + 1
    /\ UNCHANGED <<bad, requested, resets>>

Request ==
    /\ ~requested /\ requested' = TRUE
    /\ UNCHANGED <<stage, retry, dump, ok, bad, resets>>

Reset ==
    /\ stage \in TerminalStages /\ requested
    /\ stage' = "Idle" /\ retry' = 0 /\ dump' = NoDump
    /\ resets' = resets + 1
    /\ UNCHANGED <<ok, bad, requested>>

RequestDone ==
    /\ requested /\ requested' = FALSE
    /\ UNCHANGED <<stage, retry, dump, ok, bad, resets>>

Next ==
    \/ Start \/ Quiesced \/ Dumped \/ DumpFailed
    \/ TargetPlaced \/ AttemptFailed \/ Retry \/ GiveUp \/ Complete
    \/ Request \/ Reset \/ RequestDone

Spec == Init /\ [][Next]_lifecycleVars
=============================================================================
