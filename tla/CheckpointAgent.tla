-------------------------- MODULE CheckpointAgent --------------------------
(***************************************************************************)
(* The agent beside one running workload, and what it dumps of it:         *)
(* pkg/agent/server.go, checkpoint.go and deadline_scheduler.go, the       *)
(* life of the write profiler (pkg/profiler/profiler.go) and the           *)
(* controller's fixed-interval pre-checkpoints (reconciler.go).            *)
(*                                                                         *)
(* The kernel tracks which pages were written since CRIU last reset the    *)
(* soft-dirty bits, whatever image that dump wrote; the image named as the *)
(* parent of the next dump is chosen by the controller (from the status of *)
(* the MigratableApp) or by the agent's scheduler (from its own memory).   *)
(* An image is correct only if the two agree.                              *)
(*                                                                         *)
(* A page holds a value no earlier version of it had, so an image is       *)
(* described by two sets: has[d], the pages that are found when d is       *)
(* restored, in d or through its parents, and cur[d], those found with the *)
(* value they have in memory now.  Dumps are numbered in order; 0 is no    *)
(* dump and Foreign one that an earlier pod made, on another disk.         *)
(*                                                                         *)
(* The uploads to S3 are in CheckpointTransfer; what holds back dumps of a *)
(* pod that is still being restored is in RestoreAgent.                    *)
(***************************************************************************)
EXTENDS Naturals, FiniteSets

CONSTANTS
    Pages,     \* pages of the workload's writable memory
    MaxDepth,  \* checkpointPolicy.maxCheckpointChainDepth; 0: no limit
    MaxDumps,  \* bound: dumps of this pod
    MaxFaults  \* bound: kinds of faults in one behaviour

ASSUME AgentAssumptions ==
    MaxDepth \in Nat /\ MaxDumps \in Nat /\ MaxFaults \in Nat

VARIABLES
    auto,      \* checkpointPolicy.autoAdjust: the agent's scheduler decides
    alive,     \* the workload runs
    dirty,     \* pages whose soft-dirty bit is set
    dumps,     \* number of dumps taken
    has, cur,  \* dump -> pages, see above
    excl,      \* dump -> pages it was told to exclude
    stale,     \* dumps that took an outdated page from their parent
    len,       \* dump -> number of images on its chain
    final,     \* the dump FinalDump answered with, 0 before
    uffd,      \* the target process holds the profiler's userfaultfd
    loop,      \* the profiler's sampling loop runs
    hot,       \* the hot regions the profiler reports
    profiler,  \* a.profilerInst: "on", or nil: "new" before its start, else "nil"
    prevExcludeSet, \* regions excluded from the previous pre-dump
    shrunk,    \* pages a region that stayed hot gave up, not written by a pre-dump since
    lastCheckpointID, \* of the agent's CheckpointManager
    status,    \* CheckpointStatus of the MigratableApp: last, depth
    cached,    \* what the controller's cache holds of it
    rpc, args,        \* step of the RPC handler, and its CRIU arguments
    sched, schedArgs, \* the same of the scheduler's goroutine
    faults     \* kinds of faults that have happened

images   == <<dumps, has, cur, excl, stale, len>>
profVars == <<uffd, loop, hot, profiler>>
exclusions == <<prevExcludeSet, shrunk>>
vars     == <<auto, alive, dirty, images, final, profVars,
              exclusions, lastCheckpointID, status, cached, rpc, args,
              sched, schedArgs, faults>>

-----------------------------------------------------------------------------
Dumps == 1..MaxDumps
NoDump == 0
Foreign == MaxDumps + 1
DumpIDs == 0..MaxDumps + 1

\* CRIUExcludeArgs and the parent.
Args == [parent : DumpIDs, exclude : SUBSET Pages, noParent : SUBSET Pages]
NoArgs == [parent |-> NoDump, exclude |-> {}, noParent |-> {}]

\* A region is a chunk of a VMA, known by its start; where it ends follows the end
\* of the VMA, which may grow, or be cut or split.
Regions == {r \in [start : Pages, pages : SUBSET Pages] : r.start \in r.pages}

pagesOf(regions) == UNION {r.pages : r \in regions}

FaultKinds == {"preDump", "record", "conflict", "lag", "finalDump", "upload",
               "ptrace", "stopProfiling"}

Fault(kind) ==
    /\ faults' = faults \cup {kind}
    /\ Cardinality(faults \cup {kind}) <= MaxFaults

-----------------------------------------------------------------------------
(***************************************************************************)
(* CRIU.  --prev-images-dir is only passed if the parent's directory is    *)
(* on this pod's disk.                                                     *)
(***************************************************************************)
ParentDir(a) == IF a.parent \in 1..dumps THEN a.parent ELSE NoDump

\* Pages that a pre-dump writes: all but the excluded ones without a parent,
\* else the dirty ones and the ranges that are to have no parent.
PreDumped(a) ==
    (IF ParentDir(a) = NoDump THEN Pages ELSE dirty \cup a.noParent) \ a.exclude

\* In the final dump --exclude-range means has_parent=false: written in full.
FinalDumped(a) ==
    IF ParentDir(a) = NoDump THEN Pages ELSE dirty \cup a.exclude \cup a.noParent

\* The image of a dump that writes the pages own, leaves out the pages skip
\* and refers to the parent for the others.
TakeDump(a, own, skip) ==
    LET d    == dumps + 1
        par  == ParentDir(a)
        refs == Pages \ (own \cup skip)
        phas == IF par = NoDump THEN {} ELSE has[par]
        pcur == IF par = NoDump THEN {} ELSE cur[par]
    IN  /\ dumps < MaxDumps
        /\ dumps' = d
        /\ has' = [has EXCEPT ![d] = own \cup (refs \cap phas)]
        /\ cur' = [cur EXCEPT ![d] = own \cup (refs \cap pcur)]
        /\ excl' = [excl EXCEPT ![d] = skip]
        /\ stale' = IF refs \cap phas \subseteq pcur THEN stale
                    ELSE stale \cup {d}
        /\ len' = [len EXCEPT ![d] = IF par = NoDump THEN 1 ELSE len[par] + 1]

\* CheckpointManager.PreCheckpoint: dump and remember it as the last.
PreCheckpointDone(a) ==
    /\ alive
    /\ TakeDump(a, PreDumped(a), a.exclude)
    /\ dirty' = {}
    /\ lastCheckpointID' = dumps + 1

\* MUTANT of PreCheckpointFailed: the dump is remembered before CRIU has run.
rememberedFirst ==
    /\ lastCheckpointID' = dumps + 1
    /\ UNCHANGED <<dirty, images>>

\* It fails, before or after CRIU has reset the soft-dirty bits.
PreCheckpointFailed ==
    /\ dirty' \in (IF alive THEN {dirty, {}} ELSE {dirty})
    /\ UNCHANGED <<images, lastCheckpointID>>

-----------------------------------------------------------------------------
(***************************************************************************)
(* The write profiler.                                                     *)
(***************************************************************************)
\* Start: userfaultfd injected by ptrace, loop started.
ProfilerStarted ==
    /\ alive
    /\ uffd' = TRUE /\ loop' = TRUE /\ hot' = {} /\ profiler' = "on"

\* MUTANT of CleanupBeforeCRIU: the loop ends, the userfaultfd stays open.
loopStopped == loop' = FALSE /\ UNCHANGED <<uffd, faults>>

\* CleanupBeforeCRIU; an error of the ptrace injection is only logged.  The
\* hot regions stay readable.
CleanupBeforeCRIU ==
    /\ loop' = FALSE
    /\ \/ uffd' = FALSE /\ UNCHANGED faults
       \/ uffd /\ Fault("ptrace") /\ UNCHANGED uffd

\* ReinitAfterCRIU; its error is only logged.
ReinitAfterCRIU ==
    \/ alive /\ uffd' = TRUE /\ loop' = TRUE /\ UNCHANGED faults
    \/ ~alive /\ UNCHANGED <<uffd, loop, faults>>
    \/ alive /\ Fault("ptrace") /\ UNCHANGED <<uffd, loop>>

\* One sample of the memory as it is mapped now: any disjoint regions may be
\* found hot (a chunk is hot as a whole, so an unwritten page of it too).
collectSample ==
    /\ loop /\ alive
    /\ hot' \in {h \in SUBSET Regions :
                  \A r, s \in h : r # s => r.pages \cap s.pages = {}}
    /\ UNCHANGED <<auto, alive, dirty, images, final, uffd, loop,
                   profiler, exclusions, lastCheckpointID, status, cached, rpc, args,
                   sched, schedArgs, faults>>

\* autoStartProfiler without autoAdjust: a goroutine, some time after the start
\* of the workload.
autoStartProfiler ==
    /\ ~auto /\ profiler = "new"
    /\ ProfilerStarted
    /\ UNCHANGED <<auto, alive, dirty, images, final,
                   exclusions, lastCheckpointID, status, cached, rpc, args, sched,
                   schedArgs, faults>>

\* The StopProfiling RPC: Close leaves the userfaultfd in the target.
StopProfiling ==
    /\ profiler = "on" /\ rpc = "idle"
    /\ Fault("stopProfiling")
    /\ loop' = FALSE /\ profiler' = "nil" /\ prevExcludeSet' = {}
    /\ UNCHANGED <<auto, alive, dirty, images, final, uffd, hot, shrunk,
                   lastCheckpointID, status, cached, rpc, args, sched, schedArgs>>

-----------------------------------------------------------------------------
(***************************************************************************)
(* Pre-checkpoints at a fixed interval (autoAdjust off): performPreCheck-  *)
(* point of the controller and the PreCheckpoint RPC it calls.             *)
(***************************************************************************)
\* MUTANT of chainFull: one image too many.
chainOverfull == MaxDepth > 0 /\ cached.depth > MaxDepth

chainFull == MaxDepth > 0 /\ cached.depth >= MaxDepth

\* MUTANT of noParentRanges: the transitions from hot to cold are forgotten.
noTransitions == {}

\* Regions that were excluded from the previous pre-dump and whose start is not
\* the start of a region excluded now.  Only the starts are compared.
noParentRanges == {r \in prevExcludeSet : \A s \in hot : s.start # r.start}

\* What a region excluded then and now, under the same start, has lost since.
givenUp ==
    UNION {r.pages \ pagesOf(hot) :
             r \in {q \in prevExcludeSet : \E s \in hot : s.start = q.start}}

\* The interval may be over at any time.
shouldPerformCheckpoint == ~auto

\* The RPC up to the CRIU call.
PreCheckpoint ==
    /\ shouldPerformCheckpoint /\ rpc = "idle" /\ alive
    /\ LET parent == IF chainFull THEN NoDump ELSE cached.last
       IN  \/ /\ profiler = "on"
              /\ CleanupBeforeCRIU
              /\ args' = [parent |-> parent, exclude |-> pagesOf(hot),
                          noParent |-> pagesOf(noParentRanges)]
              /\ prevExcludeSet' = hot
              /\ shrunk' = shrunk \cup givenUp
           \/ /\ profiler # "on"
              /\ args' = [NoArgs EXCEPT !.parent = parent]
              /\ UNCHANGED <<uffd, loop, exclusions, faults>>
    /\ rpc' = "preDump"
    /\ UNCHANGED <<auto, alive, dirty, images, final, hot, profiler,
                   lastCheckpointID, status, cached, sched, schedArgs>>

\* CRIU, successful or not.
PreCheckpointDump ==
    /\ rpc = "preDump"
    /\ \/ /\ PreCheckpointDone(args) /\ rpc' = "preOK"
          /\ shrunk' = shrunk \ PreDumped(args)
          /\ UNCHANGED faults
       \/ /\ PreCheckpointFailed /\ rpc' = "preFailed" /\ Fault("preDump")
          /\ UNCHANGED shrunk
    /\ UNCHANGED <<auto, alive, final, profVars, prevExcludeSet, status, cached, args,
                   sched, schedArgs>>

\* The profiler starts again and the RPC answers.
PreCheckpointReinit ==
    /\ rpc \in {"preOK", "preFailed"}
    /\ \/ profiler = "on" /\ ReinitAfterCRIU
       \/ profiler # "on" /\ UNCHANGED <<uffd, loop, faults>>
    /\ \/ rpc = "preOK" /\ rpc' = "record" /\ UNCHANGED args
       \/ rpc = "preFailed" /\ rpc' = "idle" /\ args' = NoArgs
    /\ UNCHANGED <<auto, alive, dirty, images, final, hot, profiler,
                   exclusions, lastCheckpointID, status, cached, sched, schedArgs>>

\* MUTANT of recordedDump: the root of the chain is stored as the last dump.
recordedChainRoot ==
    IF args.parent = NoDump THEN [last |-> dumps, depth |-> 1]
    ELSE [cached EXCEPT !.depth = @ + 1]

\* The status after a pre-dump: a chain that starts anew, or one more image.
recordedDump ==
    [last |-> dumps, depth |-> IF args.parent = NoDump THEN 1 ELSE cached.depth + 1]

\* The controller stores the dump in the status.  After a conflict, certain if
\* its copy came from an outdated cache, it stores the new last dump over the
\* status re-read from the cache, without the depth; it may also fail, or give
\* up after three conflicts.  The cache may not show the new status in time.
recordPreCheckpoint ==
    /\ rpc = "record"
    /\ \/ cached = status /\ status' = recordedDump /\ UNCHANGED faults
       \/ cached = status /\ status' = recordedDump /\ Fault("lag")
       \/ /\ \/ cached # status /\ UNCHANGED faults
             \/ Fault("conflict")
          /\ status' = [status EXCEPT !.last = dumps]
       \/ /\ \/ cached # status /\ UNCHANGED faults
             \/ Fault("record")
          /\ UNCHANGED status
    /\ \/ cached' = status'
       \/ "lag" \in faults' /\ UNCHANGED cached
    /\ rpc' = "idle" /\ args' = NoArgs
    /\ UNCHANGED <<auto, alive, dirty, images, final, profVars,
                   exclusions, lastCheckpointID, sched, schedArgs>>

\* The cache catches up.  (A reconcile works on the copy it began with.)
CacheSync ==
    /\ rpc = "idle" /\ cached # status
    /\ cached' = status
    /\ UNCHANGED <<auto, alive, dirty, images, final, profVars, exclusions,
                   lastCheckpointID, status, rpc, args, sched, schedArgs, faults>>

-----------------------------------------------------------------------------
(***************************************************************************)
(* The agent's invariant scheduler (autoAdjust on), a goroutine.           *)
(***************************************************************************)
\* performInitialPreDump: all of the memory; failing, no profiler is started.
initialPreDump ==
    /\ sched = "init"
    /\ \/ PreCheckpointDone(NoArgs) /\ sched' = "start" /\ UNCHANGED faults
       \/ PreCheckpointFailed /\ ~alive /\ sched' = "loop" /\ UNCHANGED faults
       \/ PreCheckpointFailed /\ Fault("preDump") /\ sched' = "loop"
    /\ UNCHANGED <<auto, alive, final, profVars, exclusions, status, cached, rpc,
                   args, schedArgs>>

\* The rest of performInitialPreDump.
schedStartProfiler ==
    /\ sched = "start" /\ sched' = "loop"
    /\ \/ ProfilerStarted /\ UNCHANGED faults
       \/ ~alive /\ UNCHANGED <<profVars, faults>>
       \/ Fault("ptrace") /\ UNCHANGED profVars
    /\ UNCHANGED <<auto, alive, dirty, images, final, exclusions,
                   lastCheckpointID, status, cached, rpc, args, schedArgs>>

\* T_remain may be found beyond the deadline at any tick, except without a
\* profiler.
evaluateInvariant == profiler # "new"

\* A tick of the loop, up to the CRIU call.
triggerPreDump ==
    /\ sched = "loop" /\ evaluateInvariant
    /\ schedArgs' = [parent |-> lastCheckpointID, exclude |-> pagesOf(hot),
                     noParent |-> {}]
    /\ CleanupBeforeCRIU
    /\ sched' = "dump"
    /\ UNCHANGED <<auto, alive, dirty, images, final, hot, profiler,
                   exclusions, lastCheckpointID, status, cached, rpc, args>>

\* CRIU; after a failure the profiler stays off.
schedDump ==
    /\ sched = "dump" /\ schedArgs' = NoArgs
    /\ \/ PreCheckpointDone(schedArgs) /\ sched' = "reinit" /\ UNCHANGED faults
       \/ PreCheckpointFailed /\ ~alive /\ sched' = "loop" /\ UNCHANGED faults
       \/ PreCheckpointFailed /\ Fault("preDump") /\ sched' = "loop"
    /\ UNCHANGED <<auto, alive, final, profVars, exclusions, status, cached, rpc,
                   args>>

schedReinit ==
    /\ sched = "reinit" /\ sched' = "loop"
    /\ ReinitAfterCRIU
    /\ UNCHANGED <<auto, alive, dirty, images, final, hot, profiler,
                   exclusions, lastCheckpointID, status, cached, rpc, args, schedArgs>>

-----------------------------------------------------------------------------
(***************************************************************************)
(* The FinalDump RPC.                                                      *)
(***************************************************************************)
\* The stage Dumping was stored over the newest status, so the copy that has it
\* names the last dump recorded.
\* Stop sends without blocking: only a goroutine that waits receives it.
FinalDump ==
    /\ rpc = "idle" /\ alive
    /\ sched' = IF sched = "loop" THEN "stopped" ELSE sched
    /\ args' = [NoArgs EXCEPT !.parent = status.last]
    /\ rpc' = "finalClean"
    /\ UNCHANGED <<auto, alive, dirty, images, final, profVars,
                   exclusions, lastCheckpointID, status, cached, schedArgs, faults>>

\* Read the hot regions, then clean up and close the profiler.
FinalDumpCleanup ==
    /\ rpc = "finalClean" /\ rpc' = "finalDump"
    /\ \/ /\ profiler = "on"
          /\ CleanupBeforeCRIU
          /\ args' = [args EXCEPT !.exclude = pagesOf(hot)]
          /\ profiler' = "nil"
       \/ /\ profiler # "on"
          /\ UNCHANGED <<uffd, loop, args, profiler, faults>>
    /\ UNCHANGED <<auto, alive, dirty, images, final, hot,
                   exclusions, lastCheckpointID, status, cached, sched, schedArgs>>

\* CRIU refuses to dump a process that holds a userfaultfd.  Otherwise the
\* process ends with its dump, and the image is uploaded before the answer.
FinalDumpRun ==
    /\ rpc = "finalDump" /\ rpc' = "done" /\ args' = NoArgs
    /\ \/ /\ ~uffd /\ alive
          /\ TakeDump(args, FinalDumped(args), {})
          /\ dirty' = {} /\ alive' = FALSE /\ loop' = FALSE
          /\ \/ final' = dumps + 1 /\ UNCHANGED faults
             \/ Fault("upload") /\ UNCHANGED final
       \/ /\ \/ uffd /\ UNCHANGED faults
             \/ Fault("finalDump")
          /\ UNCHANGED <<images, dirty, alive, loop, final>>
    /\ UNCHANGED <<auto, uffd, hot, profiler, exclusions,
                   lastCheckpointID, status, cached, sched, schedArgs>>

-----------------------------------------------------------------------------
(***************************************************************************)
(* The workload.                                                           *)
(***************************************************************************)
Write(p) ==
    /\ alive
    /\ dirty' = dirty \cup {p}
    /\ cur' = [d \in Dumps |-> cur[d] \ {p}]
    /\ UNCHANGED <<auto, alive, dumps, has, excl, stale, len,
                   final, profVars, exclusions, lastCheckpointID, status, cached, rpc,
                   args, sched, schedArgs, faults>>

-----------------------------------------------------------------------------
\* The workload has just started.  The status may name a dump of an earlier
\* pod, on whose disk it is.  No goroutine starts a profiler in a pod that was
\* restored, or with DISABLE_AUTO_PROFILER.
Init ==
    /\ auto \in BOOLEAN /\ alive = TRUE /\ dirty = Pages
    /\ dumps = 0
    /\ has = [d \in Dumps |-> {}] /\ cur = has /\ excl = has
    /\ stale = {}
    /\ len = [d \in Dumps |-> 0]
    /\ final = NoDump
    /\ uffd = FALSE /\ loop = FALSE /\ hot = {} /\ profiler \in {"new", "nil"}
    /\ prevExcludeSet = {} /\ shrunk = {} /\ lastCheckpointID = NoDump
    /\ status \in {[last |-> NoDump, depth |-> 0], [last |-> Foreign, depth |-> 1],
                   [last |-> Foreign, depth |-> MaxDepth]}
    /\ cached = status
    /\ rpc = "idle" /\ args = NoArgs
    /\ sched = (IF auto /\ profiler = "new" THEN "init" ELSE "none")
    /\ schedArgs = NoArgs
    /\ faults = {}

Next ==
    \/ collectSample \/ autoStartProfiler \/ StopProfiling
    \/ PreCheckpoint \/ PreCheckpointDump \/ PreCheckpointReinit
    \/ recordPreCheckpoint \/ CacheSync
    \/ initialPreDump \/ schedStartProfiler \/ triggerPreDump \/ schedDump
    \/ schedReinit
    \/ FinalDump \/ FinalDumpCleanup \/ FinalDumpRun
    \/ \E p \in Pages : Write(p)

Spec == Init /\ [][Next]_vars

-----------------------------------------------------------------------------
(***************************************************************************)
(* Properties.                                                             *)
(***************************************************************************)
\* Every variable holds a value of the code's type for it.
TypeOK ==
    /\ auto \in BOOLEAN /\ alive \in BOOLEAN /\ dirty \subseteq Pages
    /\ dumps \in 0..MaxDumps
    /\ has \in [Dumps -> SUBSET Pages] /\ cur \in [Dumps -> SUBSET Pages]
    /\ excl \in [Dumps -> SUBSET Pages]
    /\ stale \subseteq Dumps
    /\ len \in [Dumps -> Nat]
    /\ final \in 0..MaxDumps
    /\ uffd \in BOOLEAN /\ loop \in BOOLEAN /\ hot \subseteq Regions
    /\ profiler \in {"new", "on", "nil"}
    /\ prevExcludeSet \subseteq Regions /\ shrunk \subseteq Pages
    /\ lastCheckpointID \in 0..dumps
    /\ status \in [last : DumpIDs, depth : Nat]
    /\ cached \in [last : DumpIDs, depth : Nat]
    /\ rpc \in {"idle", "preDump", "preOK", "preFailed", "record", "finalClean",
                "finalDump", "done"}
    /\ args \in Args /\ schedArgs \in Args
    /\ sched \in {"none", "init", "start", "loop", "dump", "reinit", "stopped"}
    /\ faults \subseteq FaultKinds

\* No image ever takes an outdated page from its parent, unless a pre-dump failed,
\* its record in the status was lost or the cache did not show it before the next
\* one: the parent named by the controller or the scheduler is the dump the
\* soft-dirty bits count from.
NoOutdatedPage == faults \cap {"preDump", "record", "lag"} = {} => stale = {}

\* With fixed-interval pre-checkpoints, while the workload runs and unless a
\* pre-dump failed, a record was lost or late, or profiling was stopped: every page is
\* either in the last pre-dump as it is now, or dirty, or in a region that dump
\* was told to exclude - whatever regions turned hot and cold, moved, merged or
\* grew in between - or a region that stayed hot has given it up, and no pre-dump
\* has written it since.
LastDumpCovers ==
    ~auto /\ alive /\ lastCheckpointID # NoDump
      /\ faults \cap {"preDump", "record", "lag", "stopProfiling"} = {} =>
        Pages \subseteq cur[lastCheckpointID] \cup dirty \cup excl[lastCheckpointID]
                        \cup shrunk

\* configuration-reference.md:36 - no chain of fixed-interval pre-checkpoints
\* is longer than maxCheckpointChainDepth, and the final dump adds one image to
\* it, unless a conflict lost the depth or the cache lagged behind.
ChainBounded ==
    ~auto /\ MaxDepth > 0 /\ faults \cap {"conflict", "lag"} = {} =>
      \A d \in 1..dumps : len[d] <= IF alive THEN MaxDepth ELSE MaxDepth + 1

\* write_profiler.md:474 - a region that turned cold since it was excluded has
\* to be dumped in full: the image of the final dump holds the whole memory.
FinalImageComplete == final # NoDump => cur[final] = Pages

\* server.go:274 - CRIU finds no userfaultfd of the profiler in the process, in a
\* dump of the scheduler or in the final one, unless the injection failed or
\* profiling was stopped - and, in the final dump, if the scheduler got its stop
\* signal, which it misses when it is in the middle of a dump.
NoUffdInDump ==
    auto /\ faults \cap {"ptrace", "stopProfiling"} = {} =>
      ((sched = "dump" \/ (rpc = "finalDump" /\ sched = "stopped")) => ~uffd)
=============================================================================
