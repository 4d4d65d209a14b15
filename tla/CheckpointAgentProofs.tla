----------------------- MODULE CheckpointAgentProofs -----------------------
(***************************************************************************)
(* For every set of pages, number of dumps and depth: CheckpointAgent      *)
(* keeps its types, takes no outdated page from a parent, forgets no page  *)
(* in a pre-dump and bounds its chains.                                    *)
(*                                                                         *)
(* None of the three is inductive.  That a page found in the parent is     *)
(* current needs the parent to be the dump the soft-dirty bits count from  *)
(* (Parents), at each step between the choice of the parent and the call   *)
(* of CRIU; that no page is forgotten needs the agent's prevExcludeSet to  *)
(* hold what the last dump left out, and every region of it to be hot, in  *)
(* a no-parent range or shrunk (Covers); that chains are bounded           *)
(* needs the depth in the status to count the images (Depths).             *)
(***************************************************************************)
EXTENDS CheckpointAgent, TLAPS

Intact(kinds) == faults \cap kinds = {}

\* Steps of the RPC handler that depend on the mode, and who is where.
Modes ==
    /\ auto => rpc \notin {"preDump", "preOK", "preFailed", "record"}
    /\ ~auto => sched = "none"
    /\ rpc # "done" => alive
    /\ alive => lastCheckpointID = dumps

\* Whatever parent is named while CRIU may still be called with it: the last
\* dump, or none on this disk.
Parents ==
    /\ status.last \in 0..dumps \cup {Foreign}
    /\ cached.last \in 0..dumps \cup {Foreign}
    /\ Intact({"lag"}) => cached = status
    /\ auto => status.last \notin Dumps
    /\ auto /\ rpc \in {"finalClean", "finalDump"} => args.parent \notin Dumps
    /\ Intact({"record", "lag"}) =>
         /\ rpc \notin {"preOK", "record", "done"} /\ status.last \in Dumps
              => status.last = dumps
         /\ rpc \in {"preDump", "finalClean", "finalDump"} /\ args.parent \in Dumps
              => args.parent = dumps
    /\ sched = "dump" /\ alive => schedArgs.parent = dumps

\* A page found in the last dump is found as it is now, unless it is dirty.
Current ==
    Intact({"preDump", "record", "lag"}) =>
      /\ stale = {}
      /\ alive /\ dumps > 0 => has[dumps] \ dirty \subseteq cur[dumps]

\* The pages the last dump left out are in regions the agent remembers; while a
\* dump is under way it writes or leaves them out again, or they are given up.
Covers ==
    ~auto /\ alive /\ Intact({"preDump", "record", "lag", "stopProfiling"}) =>
      /\ rpc \notin {"finalDump", "done"} /\ profiler # "on" => prevExcludeSet = {}
      /\ rpc = "preDump" => args.exclude \subseteq pagesOf(prevExcludeSet)
      /\ dumps > 0 =>
           /\ IF rpc = "preDump"
              THEN excl[dumps] \subseteq args.exclude \cup args.noParent \cup shrunk
              ELSE excl[dumps] \subseteq pagesOf(prevExcludeSet)
           /\ Pages \subseteq cur[dumps] \cup dirty \cup excl[dumps] \cup shrunk

\* The depth in the status counts at least the images of the chain it names.
Depths ==
    ~auto /\ Intact({"conflict", "lag"}) =>
      /\ status.last \in Dumps => len[status.last] <= status.depth
      /\ rpc = "preDump" =>
           /\ args.parent \in {NoDump, status.last}
           /\ MaxDepth > 0 /\ args.parent # NoDump => status.depth < MaxDepth
      /\ rpc \in {"preOK", "record"} =>
           /\ dumps > 0
           /\ len[dumps] <= IF args.parent = NoDump THEN 1 ELSE status.depth + 1
      /\ ChainBounded

AgentInv == TypeOK /\ Modes /\ Parents /\ Current /\ Covers /\ Depths

-----------------------------------------------------------------------------
USE AgentAssumptions

\* A call without a parent and without ranges is well formed.
LEMMA NoArgsType == NoArgs \in Args
  BY DEF NoArgs, Args, DumpIDs, NoDump

\* Regions are made of pages.
LEMMA PagesOfType ==
    ASSUME NEW rs \in SUBSET Regions PROVE pagesOf(rs) \in SUBSET Pages
  BY DEF pagesOf, Regions

LEMMA PagesOfNone == pagesOf({}) = {}
  BY DEF pagesOf

\* What was excluded is excluded now, in a no-parent range, or given up.
LEMMA RangesCover ==
    ASSUME TypeOK
    PROVE  /\ pagesOf(prevExcludeSet) \subseteq
                pagesOf(hot) \cup pagesOf(noParentRanges) \cup givenUp
           /\ pagesOf(hot) \in SUBSET Pages /\ pagesOf(prevExcludeSet) \in SUBSET Pages
           /\ pagesOf(noParentRanges) \in SUBSET Pages /\ givenUp \in SUBSET Pages
<1>1. /\ hot \in SUBSET Regions /\ prevExcludeSet \in SUBSET Regions
      /\ noParentRanges \in SUBSET Regions
  BY DEF TypeOK, noParentRanges
<1>2. givenUp \in SUBSET Pages
  BY <1>1 DEF givenUp, Regions
<1>3. ASSUME NEW p \in pagesOf(prevExcludeSet)
      PROVE  p \in pagesOf(hot) \cup pagesOf(noParentRanges) \cup givenUp
  <2>1. PICK r \in prevExcludeSet : p \in r.pages
    BY <1>3 DEF pagesOf
  <2>2. CASE r \in noParentRanges
    BY <2>1, <2>2 DEF pagesOf
  <2>3. CASE r \notin noParentRanges
    BY <2>1, <2>3 DEF givenUp, noParentRanges
  <2> QED  BY <2>2, <2>3
<1> QED  BY <1>1, <1>2, <1>3, PagesOfType

\* Faults are only added.
LEMMA FaultGrows ==
    ASSUME TypeOK, NEW k \in FaultKinds, Fault(k)
    PROVE  /\ faults \subseteq faults' /\ faults' \subseteq FaultKinds
           /\ k \in faults'
  BY DEF TypeOK, Fault

\* Naming another parent keeps the type of the arguments.
LEMMA WithParent ==
    ASSUME NEW a \in Args, NEW d \in DumpIDs
    PROVE  [a EXCEPT !.parent = d] \in Args
  BY DEF Args

\* Naming another last dump keeps the type of the status.
LEMMA WithLast ==
    ASSUME NEW s \in [last : DumpIDs, depth : Nat], NEW d \in DumpIDs
    PROVE  [s EXCEPT !.last = d] \in [last : DumpIDs, depth : Nat]
  OBVIOUS

\* Before the first dump there is nothing to keep.
LEMMA InitInv == Init => AgentInv
<1> SUFFICES ASSUME Init PROVE AgentInv  OBVIOUS
<1> USE DEF Init, Dumps, DumpIDs, NoDump, Foreign
<1>1. TypeOK
  <2>1. /\ has \in [Dumps -> SUBSET Pages] /\ len \in [Dumps -> Nat]
        /\ cur \in [Dumps -> SUBSET Pages] /\ excl \in [Dumps -> SUBSET Pages]
    OBVIOUS
  <2>2. status \in [last : DumpIDs, depth : Nat]
    OBVIOUS
  <2>3. sched \in {"none", "init"} /\ args \in Args /\ schedArgs \in Args
    BY NoArgsType
  <2>4. /\ dirty \subseteq Pages /\ dumps \in 0..MaxDumps /\ final \in 0..MaxDumps
        /\ lastCheckpointID \in 0..dumps
    OBVIOUS
  <2> HIDE DEF Dumps, DumpIDs, NoDump
  <2> QED  BY <2>1, <2>2, <2>3, <2>4 DEF TypeOK
<1>2. Modes /\ Parents
  BY DEF Modes, Parents, Intact, NoArgs
<1>3. Current /\ Covers
  BY DEF Current, Covers, Intact
<1>4. Depths
  BY DEF Depths, ChainBounded
<1> QED  BY <1>1, <1>2, <1>3, <1>4 DEF AgentInv

\* A sample changes the hot regions only.
LEMMA collectSampleInv == AgentInv /\ collectSample => AgentInv'
<1> SUFFICES ASSUME AgentInv, collectSample PROVE AgentInv'  OBVIOUS
<1> USE DEF AgentInv, Intact, collectSample, images, profVars, exclusions, Dumps, DumpIDs,
        NoDump, Foreign, Args, NoArgs
<1>1. TypeOK'  BY DEF TypeOK, FaultKinds
<1>2. Modes'  BY DEF TypeOK, Modes
<1>3. Parents'  BY DEF TypeOK, Modes, Parents
<1>4. Current'  BY DEF TypeOK, Modes, Current
<1>5. Covers'  BY DEF TypeOK, Modes, Covers
<1>6. Depths'  BY DEF TypeOK, Modes, Depths, ChainBounded
<1> QED  BY <1>1, <1>2, <1>3, <1>4, <1>5, <1>6

\* The profiler starts with nothing remembered as excluded.
LEMMA autoStartProfilerInv == AgentInv /\ autoStartProfiler => AgentInv'
<1> SUFFICES ASSUME AgentInv, autoStartProfiler PROVE AgentInv'  OBVIOUS
<1> USE DEF AgentInv, Intact, autoStartProfiler, images, profVars, exclusions, Dumps,
        DumpIDs, NoDump, Foreign, Args, NoArgs, ProfilerStarted
<1>1. TypeOK'  BY DEF TypeOK, FaultKinds
<1>2. Modes'  BY DEF TypeOK, Modes
<1>3. Parents'  BY DEF TypeOK, Modes, Parents
<1>4. Current'  BY DEF TypeOK, Modes, Current
<1>5. Covers'  BY DEF TypeOK, Modes, Covers
<1>6. Depths'  BY DEF TypeOK, Modes, Depths, ChainBounded
<1> QED  BY <1>1, <1>2, <1>3, <1>4, <1>5, <1>6

\* Profiling stops: the regions are forgotten, which Covers allows for.
LEMMA StopProfilingInv == AgentInv /\ StopProfiling => AgentInv'
<1> SUFFICES ASSUME AgentInv, StopProfiling PROVE AgentInv'  OBVIOUS
<1> USE DEF AgentInv, Intact, StopProfiling, images, profVars, exclusions, Dumps, DumpIDs,
        NoDump, Foreign, Args, NoArgs, Fault
<1>1. TypeOK'  BY DEF TypeOK, FaultKinds
<1>2. Modes'  BY DEF TypeOK, Modes
<1>3. Parents'  BY DEF TypeOK, Modes, Parents
<1>4. Current'  BY DEF TypeOK, Modes, Current
<1>5. Covers'  BY DEF TypeOK, Modes, Covers
<1>6. Depths'  BY DEF TypeOK, Modes, Depths, ChainBounded
<1> QED  BY <1>1, <1>2, <1>3, <1>4, <1>5, <1>6

\* The parent is the last dump of the status, the ranges cover what it left out.
LEMMA PreCheckpointInv == AgentInv /\ PreCheckpoint => AgentInv'
<1> SUFFICES ASSUME AgentInv, PreCheckpoint PROVE AgentInv'  OBVIOUS
<1> USE DEF AgentInv, Intact, PreCheckpoint, shouldPerformCheckpoint, images,
        profVars, exclusions, Dumps, DumpIDs, NoDump, Foreign, Args, NoArgs, CleanupBeforeCRIU,
        Fault, chainFull
<1>1. TypeOK'
  <2>1. (IF chainFull THEN NoDump ELSE cached.last) \in DumpIDs
    BY DEF TypeOK
  <2>2. args' \in Args
    <3>1. CASE profiler = "on"
      BY <3>1, <2>1, RangesCover
    <3>2. CASE profiler # "on"
      <4> HIDE DEF Args, NoArgs, DumpIDs, chainFull
      <4> QED  BY <3>2, <2>1, NoArgsType, WithParent
    <3> QED  BY <3>1, <3>2
  <2> QED  BY <2>2, RangesCover DEF TypeOK, FaultKinds
<1>2. Modes'  BY DEF TypeOK, Modes
<1>3. Parents'  BY DEF TypeOK, Modes, Parents
<1>4. Current'  BY DEF TypeOK, Modes, Current
<1>5. Covers'
  <2>1. CASE profiler = "on"
    BY <2>1, RangesCover DEF TypeOK, Covers, Modes
  <2>2. CASE profiler # "on"
    BY <2>2, PagesOfNone DEF TypeOK, Covers
  <2> QED  BY <2>1, <2>2
<1>6. Depths'  BY DEF TypeOK, Modes, Parents, Depths, ChainBounded
<1> QED  BY <1>1, <1>2, <1>3, <1>4, <1>5, <1>6

\* The profiler starts again; the RPC keeps its arguments until the record.
LEMMA PreCheckpointReinitInv == AgentInv /\ PreCheckpointReinit => AgentInv'
<1> SUFFICES ASSUME AgentInv, PreCheckpointReinit PROVE AgentInv'  OBVIOUS
<1> USE DEF AgentInv, Intact, PreCheckpointReinit, images, profVars, exclusions, Dumps,
        DumpIDs, NoDump, Foreign, Args, NoArgs, ReinitAfterCRIU, Fault
<1>1. TypeOK'
  <2>1. args' \in Args
    BY NoArgsType DEF TypeOK
  <2> QED  BY <2>1 DEF TypeOK, FaultKinds
<1>2. Modes'  BY DEF TypeOK, Modes
<1>3. Parents'  BY DEF TypeOK, Modes, Parents
<1>4. Current'  BY DEF TypeOK, Modes, Current
<1>5. Covers'  BY DEF TypeOK, Modes, Covers
<1>6. Depths'  BY DEF TypeOK, Modes, Depths, ChainBounded
<1> QED  BY <1>1, <1>2, <1>3, <1>4, <1>5, <1>6

\* The record names the last dump and counts its image.
LEMMA recordPreCheckpointInv == AgentInv /\ recordPreCheckpoint => AgentInv'
<1> SUFFICES ASSUME AgentInv, recordPreCheckpoint PROVE AgentInv'  OBVIOUS
<1> USE DEF AgentInv, Intact, recordPreCheckpoint, images, profVars, exclusions, Dumps,
        DumpIDs, NoDump, Foreign, Args, NoArgs, recordedDump, Fault
<1>1. TypeOK'
  <2>1. args' \in Args
    BY NoArgsType DEF TypeOK
  <2>2. status' \in [last : DumpIDs, depth : Nat]
    <3>1. CASE status' = recordedDump
      BY <3>1 DEF TypeOK
    <3>2. CASE status' = [status EXCEPT !.last = dumps]
      <4>1. dumps \in DumpIDs
        BY DEF TypeOK
      <4> QED  BY <3>2, <4>1, WithLast DEF TypeOK
    <3> QED  BY <3>1, <3>2 DEF TypeOK
  <2>3. cached' \in [last : DumpIDs, depth : Nat]
    BY <2>2 DEF TypeOK
  <2>4. faults' \subseteq FaultKinds
    BY DEF TypeOK, FaultKinds
  <2>5. /\ UNCHANGED <<auto, alive, dirty, images, final, profVars, exclusions,
                       lastCheckpointID, sched, schedArgs>>
        /\ rpc' = "idle"
    OBVIOUS
  <2>6. TypeOK
    OBVIOUS
  <2> QED  BY ONLY <2>1, <2>2, <2>3, <2>4, <2>5, <2>6 DEF TypeOK
<1>2. Modes'  BY DEF TypeOK, Modes
<1>3. Parents'
  <2>1. /\ status'.last \in {dumps, status.last}
        /\ cached'.last \in {status'.last, cached.last}
        /\ faults \subseteq faults' /\ ("lag" \notin faults' => cached' = status')
    <3>1. CASE status' = recordedDump
      BY <3>1 DEF TypeOK
    <3>2. CASE status' = [status EXCEPT !.last = dumps]
      BY <3>2 DEF TypeOK
    <3>3. CASE status' = status
      BY <3>3 DEF TypeOK
    <3> QED  BY <3>1, <3>2, <3>3
  <2>2. Intact({"record", "lag"})' => status'.last = dumps
    <3> SUFFICES ASSUME Intact({"record", "lag"})' PROVE status'.last = dumps
      OBVIOUS
    <3>1. cached = status /\ "record" \notin faults'
      BY <2>1 DEF Parents
    <3>2. status' = recordedDump \/ status' = [status EXCEPT !.last = dumps]
      BY <3>1
    <3>3. CASE status' = recordedDump
      BY <3>3
    <3>4. CASE status' = [status EXCEPT !.last = dumps]
      BY <3>4 DEF TypeOK
    <3> QED  BY <3>2, <3>3, <3>4
  <2>3. ~auto /\ sched' = "none"
    BY DEF Modes
  <2> QED  BY <2>1, <2>2, <2>3 DEF TypeOK, Parents
<1>4. Current'  BY DEF TypeOK, Modes, Current
<1>5. Covers'  BY DEF TypeOK, Modes, Covers
<1>6. Depths'
  <2> SUFFICES ASSUME ~auto, Intact({"conflict", "lag"})' PROVE Depths'
    BY DEF Depths
  <2>1. Intact({"conflict", "lag"}) /\ cached = status
    BY DEF Parents
  <2>2. /\ status' = recordedDump \/ status' = status
        /\ len[dumps] <= IF args.parent = NoDump THEN 1 ELSE status.depth + 1
    BY <2>1 DEF Depths
  <2>3. status'.last \in Dumps => len[status'.last] <= status'.depth
    BY <2>1, <2>2 DEF Depths, TypeOK
  <2>4. ChainBounded'
    BY <2>1 DEF Depths, ChainBounded
  <2> QED  BY <2>3, <2>4 DEF Depths
<1> QED  BY <1>1, <1>2, <1>3, <1>4, <1>5, <1>6

\* The cache shows the status again.
LEMMA CacheSyncInv == AgentInv /\ CacheSync => AgentInv'
<1> SUFFICES ASSUME AgentInv, CacheSync PROVE AgentInv'  OBVIOUS
<1> USE DEF AgentInv, Intact, CacheSync, images, profVars, exclusions
<1>1. TypeOK'  BY DEF TypeOK
<1>2. Modes'  BY DEF Modes
<1>3. Parents'  BY DEF Parents
<1>4. Current'  BY DEF Current
<1>5. Covers'  BY DEF Covers
<1>6. Depths'  BY DEF Depths, ChainBounded
<1> QED  BY <1>1, <1>2, <1>3, <1>4, <1>5, <1>6

\* The scheduler starts the profiler.
LEMMA schedStartProfilerInv == AgentInv /\ schedStartProfiler => AgentInv'
<1> SUFFICES ASSUME AgentInv, schedStartProfiler PROVE AgentInv'  OBVIOUS
<1> USE DEF AgentInv, Intact, schedStartProfiler, images, profVars, exclusions, Dumps,
        DumpIDs, NoDump, Foreign, Args, NoArgs, ProfilerStarted, Fault
<1>1. TypeOK'  BY DEF TypeOK, FaultKinds
<1>2. Modes'  BY DEF TypeOK, Modes
<1>3. Parents'  BY DEF TypeOK, Modes, Parents
<1>4. Current'  BY DEF TypeOK, Modes, Current
<1>5. Covers'  BY DEF TypeOK, Modes, Covers
<1>6. Depths'  BY DEF TypeOK, Modes, Depths, ChainBounded
<1> QED  BY <1>1, <1>2, <1>3, <1>4, <1>5, <1>6

\* The scheduler names the last dump of the agent as the parent.
LEMMA triggerPreDumpInv == AgentInv /\ triggerPreDump => AgentInv'
<1> SUFFICES ASSUME AgentInv, triggerPreDump PROVE AgentInv'  OBVIOUS
<1> USE DEF AgentInv, Intact, triggerPreDump, evaluateInvariant, images,
        profVars, exclusions, Dumps, DumpIDs, NoDump, Foreign, Args, NoArgs, CleanupBeforeCRIU, Fault
<1>1. TypeOK'
  <2>1. schedArgs' \in Args
    BY RangesCover DEF TypeOK
  <2> QED  BY <2>1 DEF TypeOK, FaultKinds
<1>2. Modes'  BY DEF TypeOK, Modes
<1>3. Parents'  BY DEF TypeOK, Modes, Parents
<1>4. Current'  BY DEF TypeOK, Modes, Current
<1>5. Covers'  BY DEF TypeOK, Modes, Covers
<1>6. Depths'  BY DEF TypeOK, Modes, Depths, ChainBounded
<1> QED  BY <1>1, <1>2, <1>3, <1>4, <1>5, <1>6

\* The scheduler starts the profiler again.
LEMMA schedReinitInv == AgentInv /\ schedReinit => AgentInv'
<1> SUFFICES ASSUME AgentInv, schedReinit PROVE AgentInv'  OBVIOUS
<1> USE DEF AgentInv, Intact, schedReinit, images, profVars, exclusions, Dumps, DumpIDs,
        NoDump, Foreign, Args, NoArgs, ReinitAfterCRIU, Fault
<1>1. TypeOK'  BY DEF TypeOK, FaultKinds
<1>2. Modes'  BY DEF TypeOK, Modes
<1>3. Parents'  BY DEF TypeOK, Modes, Parents
<1>4. Current'  BY DEF TypeOK, Modes, Current
<1>5. Covers'  BY DEF TypeOK, Modes, Covers
<1>6. Depths'  BY DEF TypeOK, Modes, Depths, ChainBounded
<1> QED  BY <1>1, <1>2, <1>3, <1>4, <1>5, <1>6

\* FinalDump names the last dump of the status, on this disk or not.
LEMMA FinalDumpInv == AgentInv /\ FinalDump => AgentInv'
<1> SUFFICES ASSUME AgentInv, FinalDump PROVE AgentInv'  OBVIOUS
<1> USE DEF AgentInv, Intact, FinalDump, images, profVars, exclusions, Dumps, DumpIDs,
        NoDump, Foreign, Args, NoArgs
<1>1. TypeOK'  BY DEF TypeOK, FaultKinds
<1>2. Modes'  BY DEF TypeOK, Modes
<1>3. Parents'  BY DEF TypeOK, Modes, Parents
<1>4. Current'  BY DEF TypeOK, Modes, Current
<1>5. Covers'  BY DEF TypeOK, Modes, Covers
<1>6. Depths'  BY DEF TypeOK, Modes, Depths, ChainBounded
<1> QED  BY <1>1, <1>2, <1>3, <1>4, <1>5, <1>6

\* The profiler is closed before the final dump.
LEMMA FinalDumpCleanupInv == AgentInv /\ FinalDumpCleanup => AgentInv'
<1> SUFFICES ASSUME AgentInv, FinalDumpCleanup PROVE AgentInv'  OBVIOUS
<1> USE DEF AgentInv, Intact, FinalDumpCleanup, images, profVars, exclusions, Dumps, DumpIDs,
        NoDump, Foreign, Args, NoArgs, CleanupBeforeCRIU, Fault
<1>1. TypeOK'  BY RangesCover DEF TypeOK, FaultKinds
<1>2. Modes'  BY DEF TypeOK, Modes
<1>3. Parents'  BY DEF TypeOK, Modes, Parents
<1>4. Current'  BY DEF TypeOK, Modes, Current
<1>5. Covers'  BY DEF TypeOK, Modes, Covers
<1>6. Depths'  BY DEF TypeOK, Modes, Depths, ChainBounded
<1> QED  BY <1>1, <1>2, <1>3, <1>4, <1>5, <1>6

-----------------------------------------------------------------------------
(***************************************************************************)
(* The steps that call CRIU.                                               *)
(***************************************************************************)
\* What a dump adds: one image, whose pages are those it writes and those its
\* parent supplies; the other images stay as they are.
LEMMA TakeDumpTypes ==
    ASSUME TypeOK, NEW a \in Args, NEW own \in SUBSET Pages,
           NEW skip \in SUBSET Pages, TakeDump(a, own, skip)
    PROVE  /\ dumps' = dumps + 1 /\ dumps' \in Dumps
           /\ has' \in [Dumps -> SUBSET Pages] /\ cur' \in [Dumps -> SUBSET Pages]
           /\ excl' \in [Dumps -> SUBSET Pages] /\ len' \in [Dumps -> Nat]
           /\ stale' \subseteq Dumps
           /\ excl'[dumps'] = skip
           /\ \A d \in 1..dumps : len'[d] = len[d]
<1> USE DEF TypeOK, TakeDump, ParentDir, NoDump
<1>1. dumps' = dumps + 1 /\ dumps' \in Dumps /\ dumps \in Nat
  BY DEF Dumps
<1>2. 1..dumps \subseteq Dumps /\ 0 \notin 1..dumps /\ dumps' \notin 1..dumps
  BY <1>1 DEF Dumps
<1>3. CASE a.parent \notin 1..dumps
  BY <1>1, <1>2, <1>3
<1>4. CASE a.parent \in 1..dumps
  <2>1. a.parent \in Dumps /\ a.parent # 0
    BY <1>2, <1>4
  <2>2. /\ has[a.parent] \subseteq Pages /\ cur[a.parent] \subseteq Pages
        /\ len[a.parent] \in Nat
    BY <2>1
  <2>3. has' \in [Dumps -> SUBSET Pages] /\ cur' \in [Dumps -> SUBSET Pages]
    BY <1>1, <1>4, <2>1, <2>2
  <2>4. /\ excl' \in [Dumps -> SUBSET Pages] /\ excl'[dumps'] = skip
        /\ stale' \subseteq Dumps
    BY <1>1
  <2>5. /\ len' \in [Dumps -> Nat] /\ \A d \in 1..dumps : len'[d] = len[d]
    BY <1>1, <1>2, <1>4, <2>1, <2>2
  <2> QED  BY <1>1, <2>3, <2>4, <2>5
<1> QED  BY <1>3, <1>4

\* Without a parent on disk the image holds what it writes.
LEMMA TakeDumpFull ==
    ASSUME TypeOK, NEW a \in Args, NEW own \in SUBSET Pages,
           NEW skip \in SUBSET Pages, TakeDump(a, own, skip), a.parent \notin 1..dumps
    PROVE  /\ has'[dumps'] = own /\ cur'[dumps'] = own
           /\ len'[dumps'] = 1 /\ stale' = stale
<1> USE DEF TypeOK, TakeDump, ParentDir, NoDump
<1>1. dumps' = dumps + 1 /\ dumps' \in Dumps
  BY DEF Dumps
<1> QED  BY <1>1

\* With one, it also holds the pages it refers to.
LEMMA TakeDumpIncremental ==
    ASSUME TypeOK, NEW a \in Args, NEW own \in SUBSET Pages,
           NEW skip \in SUBSET Pages, TakeDump(a, own, skip), a.parent \in 1..dumps
    PROVE  /\ has'[dumps'] = own \cup ((Pages \ (own \cup skip)) \cap has[a.parent])
           /\ cur'[dumps'] = own \cup ((Pages \ (own \cup skip)) \cap cur[a.parent])
           /\ len'[dumps'] = len[a.parent] + 1
           /\ (Pages \ (own \cup skip)) \cap has[a.parent] \subseteq cur[a.parent]
                => stale' = stale
<1> USE DEF TypeOK, TakeDump, ParentDir, NoDump
<1>1. dumps' = dumps + 1 /\ dumps' \in Dumps /\ a.parent # 0
  BY DEF Dumps
<1> QED  BY <1>1

\* The dump inside a pre-checkpoint, and its types.
LEMMA PreCheckpointDoneTakes ==
    ASSUME TypeOK, NEW a \in Args, PreCheckpointDone(a)
    PROVE  /\ PreDumped(a) \in SUBSET Pages /\ a.exclude \in SUBSET Pages
           /\ TakeDump(a, PreDumped(a), a.exclude)
  BY DEF TypeOK, PreCheckpointDone, PreDumped, Args

\* An incremental pre-dump: its pages and those of its parent.
LEMMA PreDumpIncremental ==
    ASSUME TypeOK, NEW a \in Args, PreCheckpointDone(a), a.parent \in 1..dumps
    PROVE  LET refs == Pages \ (PreDumped(a) \cup a.exclude)
           IN  /\ has'[dumps'] = PreDumped(a) \cup (refs \cap has[a.parent])
               /\ cur'[dumps'] = PreDumped(a) \cup (refs \cap cur[a.parent])
               /\ refs \cap has[a.parent] \subseteq cur[a.parent] => stale' = stale
<1> DEFINE own == PreDumped(a)
<1>1. own \in SUBSET Pages /\ a.exclude \in SUBSET Pages /\ TakeDump(a, own, a.exclude)
  BY PreCheckpointDoneTakes
<1> HIDE DEF own
<1>2. /\ has'[dumps'] = own \cup ((Pages \ (own \cup a.exclude)) \cap has[a.parent])
      /\ cur'[dumps'] = own \cup ((Pages \ (own \cup a.exclude)) \cap cur[a.parent])
  BY <1>1, TakeDumpIncremental
<1>3. (Pages \ (own \cup a.exclude)) \cap has[a.parent] \subseteq cur[a.parent]
        => stale' = stale
  BY <1>1, TakeDumpIncremental
<1> QED  BY <1>2, <1>3 DEF own

\* The final dump writes pages of the workload.
LEMMA FinalDumpedType ==
    ASSUME TypeOK, NEW a \in Args PROVE FinalDumped(a) \in SUBSET Pages
  BY DEF TypeOK, FinalDumped, Args

\* With the last dump as its parent, or none, a pre-dump takes no outdated page.
LEMMA PreDumpCurrent ==
    ASSUME TypeOK, NEW a \in Args, PreCheckpointDone(a), stale = {},
           dumps > 0 => has[dumps] \ dirty \subseteq cur[dumps],
           a.parent \in Dumps => a.parent = dumps
    PROVE  stale' = {} /\ has'[dumps'] \subseteq cur'[dumps']
<1>1. CASE a.parent \notin 1..dumps
  BY <1>1, TakeDumpFull, PreCheckpointDoneTakes
<1>2. CASE a.parent \in 1..dumps
  <2>1. a.parent = dumps /\ dumps > 0
    BY <1>2 DEF TypeOK, Dumps
  <2>2. (Pages \ (PreDumped(a) \cup a.exclude)) \cap dirty = {}
    BY <1>2 DEF PreDumped, ParentDir, NoDump
  <2>3. (Pages \ (PreDumped(a) \cup a.exclude)) \cap has[dumps] \subseteq cur[dumps]
    BY <2>1, <2>2
  <2> QED  BY <1>2, <2>1, <2>3, PreDumpIncremental
<1> QED  BY <1>1, <1>2

\* And if it is told of all pages the last one left out but those given up, it
\* forgets no other page.
LEMMA PreDumpCovers ==
    ASSUME TypeOK, NEW a \in Args, PreCheckpointDone(a),
           dumps > 0 => Pages \subseteq cur[dumps] \cup dirty \cup excl[dumps] \cup shrunk,
           dumps > 0 => excl[dumps] \subseteq a.exclude \cup a.noParent \cup shrunk,
           a.parent \in Dumps => a.parent = dumps
    PROVE  Pages \subseteq cur'[dumps'] \cup a.exclude \cup (shrunk \ PreDumped(a))
<1>1. CASE a.parent \notin 1..dumps
  <2>1. PreDumped(a) = Pages \ a.exclude
    BY <1>1 DEF PreDumped, ParentDir, NoDump
  <2> QED  BY <1>1, <2>1, TakeDumpFull, PreCheckpointDoneTakes
<1>2. CASE a.parent \in 1..dumps
  <2>1. a.parent = dumps /\ dumps > 0
    BY <1>2 DEF TypeOK, Dumps
  <2>2. Pages \ (PreDumped(a) \cup a.exclude) \subseteq cur[dumps] \cup shrunk
    BY <1>2, <2>1 DEF PreDumped, ParentDir, NoDump
  <2> QED  BY <1>2, <2>1, <2>2, PreDumpIncremental
<1> QED  BY <1>1, <1>2

\* The rest of what a pre-dump changes.
LEMMA PreCheckpointDoneTypes ==
    ASSUME TypeOK, NEW a \in Args, PreCheckpointDone(a)
    PROVE  /\ alive /\ dirty' = {} /\ dumps' = dumps + 1 /\ dumps' \in Dumps
           /\ lastCheckpointID' = dumps'
           /\ has' \in [Dumps -> SUBSET Pages] /\ cur' \in [Dumps -> SUBSET Pages]
           /\ excl' \in [Dumps -> SUBSET Pages] /\ len' \in [Dumps -> Nat]
           /\ stale' \subseteq Dumps
           /\ excl'[dumps'] = a.exclude
           /\ \A d \in 1..dumps : len'[d] = len[d]
<1>1. /\ PreDumped(a) \in SUBSET Pages /\ a.exclude \in SUBSET Pages
      /\ TakeDump(a, PreDumped(a), a.exclude)
  BY PreCheckpointDoneTakes
<1>2. /\ dumps' = dumps + 1 /\ dumps' \in Dumps
      /\ has' \in [Dumps -> SUBSET Pages] /\ cur' \in [Dumps -> SUBSET Pages]
      /\ excl' \in [Dumps -> SUBSET Pages] /\ len' \in [Dumps -> Nat]
      /\ stale' \subseteq Dumps
      /\ excl'[dumps'] = a.exclude
      /\ \A d \in 1..dumps : len'[d] = len[d]
  BY <1>1, TakeDumpTypes
<1> QED  BY <1>2 DEF PreCheckpointDone

\* The length of its chain.
LEMMA PreDumpLen ==
    ASSUME TypeOK, NEW a \in Args, PreCheckpointDone(a)
    PROVE  len'[dumps'] = IF a.parent \in 1..dumps THEN len[a.parent] + 1 ELSE 1
<1>1. CASE a.parent \notin 1..dumps
  BY <1>1, TakeDumpFull, PreCheckpointDoneTakes
<1>2. CASE a.parent \in 1..dumps
  BY <1>2, TakeDumpIncremental, PreCheckpointDoneTakes
<1> QED  BY <1>1, <1>2

\* CRIU under the PreCheckpoint RPC, successful or not.
LEMMA PreCheckpointDumpInv == AgentInv /\ PreCheckpointDump => AgentInv'
<1> SUFFICES ASSUME AgentInv, PreCheckpointDump PROVE AgentInv'  OBVIOUS
<1> USE DEF AgentInv
<1>1. CASE PreCheckpointFailed /\ rpc' = "preFailed" /\ Fault("preDump") /\ UNCHANGED shrunk
  <2> USE <1>1 DEF PreCheckpointDump, PreCheckpointFailed, Fault, Intact, images,
          profVars, exclusions, Dumps, DumpIDs, NoDump, Foreign, Args, NoArgs
  <2>1. TypeOK'  BY DEF TypeOK, FaultKinds
  <2>2. Modes'  BY DEF TypeOK, Modes
  <2>3. Parents'  BY DEF TypeOK, Modes, Parents
  <2>4. Current' /\ Covers'  BY DEF Current, Covers
  <2>5. Depths'  BY DEF TypeOK, Depths, ChainBounded
  <2> QED  BY <2>1, <2>2, <2>3, <2>4, <2>5
<1>2. CASE /\ PreCheckpointDone(args) /\ rpc' = "preOK"
           /\ shrunk' = shrunk \ PreDumped(args) /\ UNCHANGED faults
  <2>1. args \in Args /\ ~auto /\ rpc = "preDump"
    BY DEF TypeOK, Modes, PreCheckpointDump
  <2>2. /\ alive /\ dirty' = {} /\ dumps' = dumps + 1 /\ dumps' \in Dumps
        /\ lastCheckpointID' = dumps'
        /\ has' \in [Dumps -> SUBSET Pages] /\ cur' \in [Dumps -> SUBSET Pages]
        /\ excl' \in [Dumps -> SUBSET Pages] /\ len' \in [Dumps -> Nat]
        /\ stale' \subseteq Dumps
        /\ excl'[dumps'] = args.exclude
        /\ \A d \in 1..dumps : len'[d] = len[d]
    BY <1>2, <2>1, PreCheckpointDoneTypes
  <2> USE <1>2, <2>1, <2>2 DEF PreCheckpointDump, profVars, exclusions
  <2>3. TypeOK'  BY DEF TypeOK, Dumps
  <2>4. Modes'  BY DEF TypeOK, Modes
  <2>5. Parents'  BY DEF TypeOK, Modes, Parents, Intact, Dumps, Foreign
  <2>6. Intact({"record", "lag"}) /\ args.parent \in Dumps => args.parent = dumps
    BY DEF Parents
  <2>7. Current'
    BY <2>6, PreDumpCurrent DEF TypeOK, Current, Intact, Dumps
  <2>8. Covers'
    BY <2>6, PreDumpCovers DEF TypeOK, Covers, Intact, Dumps
  <2>9. Depths'
    <3> SUFFICES ASSUME Intact({"conflict", "lag"}) PROVE Depths'
      BY DEF Depths, Intact
    <3>1. status.last \in Dumps => status.last \in 1..dumps
      BY DEF Parents, TypeOK, Dumps, Foreign
    <3>2. status'.last \in Dumps => len'[status'.last] <= status'.depth
      BY <3>1 DEF Depths
    <3>3. len'[dumps'] = IF args.parent \in 1..dumps THEN len[args.parent] + 1 ELSE 1
      BY PreDumpLen
    <3>4. len'[dumps'] <= IF args.parent = NoDump THEN 1 ELSE status.depth + 1
      <4>0. status.last \in Dumps => len[status.last] <= status.depth
        BY DEF Depths
      <4>1. /\ status.depth \in Nat /\ dumps \in Nat
            /\ status.last \in Dumps => len[status.last] \in Nat
        <5>1. TypeOK  OBVIOUS
        <5> QED  BY ONLY <5>1 DEF TypeOK
      <4>2. args.parent \in {0, status.last}
        BY DEF Depths, NoDump
      <4>3. CASE args.parent \in 1..dumps
        <5>1. args.parent = status.last /\ args.parent # 0 /\ status.last \in Dumps
          BY <4>1, <4>2, <4>3 DEF TypeOK, Dumps
        <5> QED  BY <3>3, <4>0, <4>1, <4>3, <5>1 DEF NoDump
      <4>4. CASE args.parent \notin 1..dumps
        BY <3>3, <4>1, <4>4 DEF NoDump
      <4> QED  BY <4>3, <4>4
    <3>5. MaxDepth > 0 => len'[dumps'] <= MaxDepth
      BY <3>4 DEF Depths, TypeOK
    <3>6. ChainBounded'
      BY <3>5 DEF Depths, ChainBounded, TypeOK
    <3> QED  BY <3>2, <3>4, <3>6 DEF Depths, TypeOK
  <2> QED  BY <2>3, <2>4, <2>5, <2>7, <2>8, <2>9
<1> QED  BY <1>1, <1>2 DEF PreCheckpointDump

\* A write makes its page dirty when it makes the images outdated.
LEMMA WriteInv == ASSUME NEW p \in Pages PROVE AgentInv /\ Write(p) => AgentInv'
<1> SUFFICES ASSUME AgentInv, Write(p) PROVE AgentInv'  OBVIOUS
<1> USE DEF AgentInv, Write, Intact, profVars, exclusions
<1>1. TypeOK'  BY DEF TypeOK
<1>2. Modes' /\ Parents'  BY DEF TypeOK, Modes, Parents
<1>3. Current'  BY DEF TypeOK, Current, Dumps
<1>4. Covers'  BY DEF TypeOK, Covers, Dumps
<1>5. Depths'  BY DEF Depths, ChainBounded
<1> QED  BY <1>1, <1>2, <1>3, <1>4, <1>5

\* The scheduler's first dump has no parent.
LEMMA initialPreDumpInv == AgentInv /\ initialPreDump => AgentInv'
<1> SUFFICES ASSUME AgentInv, initialPreDump PROVE AgentInv'  OBVIOUS
<1> USE DEF AgentInv
<1>0. auto
  BY DEF Modes, initialPreDump
<1>1. CASE /\ PreCheckpointFailed /\ sched' = "loop"
           /\ Fault("preDump") \/ (~alive /\ UNCHANGED faults)
  <2>0. /\ UNCHANGED <<auto, alive, dumps, has, cur, excl, stale, len,
                       final, uffd, loop, hot, profiler, exclusions,
                       lastCheckpointID, status, cached, rpc, args>>
        /\ schedArgs' = schedArgs /\ sched' = "loop"
    BY <1>1 DEF initialPreDump, PreCheckpointFailed, images, profVars, exclusions
  <2>5. dirty' \subseteq dirty
    BY <1>1 DEF PreCheckpointFailed
  <2>6. /\ faults \subseteq faults' /\ faults' \subseteq FaultKinds
        /\ alive => "preDump" \in faults'
    <3>1. CASE Fault("preDump")
      <4>1. "preDump" \in FaultKinds
        BY DEF FaultKinds
      <4> QED  BY <3>1, <4>1, FaultGrows
    <3>2. CASE ~alive /\ UNCHANGED faults
      BY <3>2 DEF TypeOK
    <3> QED  BY <1>1, <3>1, <3>2
  <2> USE <2>0, <2>5, <2>6 DEF exclusions
  <2>1. TypeOK'  BY NoArgsType DEF TypeOK
  <2>2. Modes' /\ Parents'  BY <1>0 DEF Modes, Parents, Intact
  <2>3. Current'  BY DEF Current, Intact
  <2>4. Covers' /\ Depths'  BY <1>0 DEF Covers, Depths
  <2> QED  BY <2>1, <2>2, <2>3, <2>4
<1>2. CASE PreCheckpointDone(NoArgs) /\ sched' = "start" /\ UNCHANGED faults
  <2>1. NoArgs \in Args
    BY NoArgsType DEF TypeOK
  <2>2. /\ alive /\ dirty' = {} /\ dumps' = dumps + 1 /\ dumps' \in Dumps
        /\ lastCheckpointID' = dumps'
        /\ has' \in [Dumps -> SUBSET Pages] /\ cur' \in [Dumps -> SUBSET Pages]
        /\ excl' \in [Dumps -> SUBSET Pages] /\ len' \in [Dumps -> Nat]
        /\ stale' \subseteq Dumps
    BY <1>2, <2>1, PreCheckpointDoneTypes
  <2> USE <1>0, <1>2, <2>1, <2>2 DEF initialPreDump, profVars, exclusions
  <2>3. TypeOK'  BY NoArgsType DEF TypeOK, Dumps
  <2>4. Modes'  BY DEF TypeOK, Modes
  <2>5. Parents'  BY DEF TypeOK, Modes, Parents, Intact, Dumps, Foreign
  <2>6. NoArgs.parent \in Dumps => NoArgs.parent = dumps
    BY DEF NoArgs, NoDump, Dumps
  <2>7. Current'
    BY <2>6, PreDumpCurrent DEF TypeOK, Current, Intact, Dumps
  <2>8. Covers' /\ Depths'
    BY DEF Covers, Depths
  <2> QED  BY <2>3, <2>4, <2>5, <2>7, <2>8
<1> QED  BY <1>1, <1>2 DEF initialPreDump

\* The scheduler's dumps have the last dump as their parent.
LEMMA schedDumpInv == AgentInv /\ schedDump => AgentInv'
<1> SUFFICES ASSUME AgentInv, schedDump PROVE AgentInv'  OBVIOUS
<1> USE DEF AgentInv
<1>0. auto
  BY DEF Modes, schedDump
<1>1. CASE /\ PreCheckpointFailed /\ sched' = "loop"
           /\ Fault("preDump") \/ (~alive /\ UNCHANGED faults)
  <2>0. /\ UNCHANGED <<auto, alive, dumps, has, cur, excl, stale, len,
                       final, uffd, loop, hot, profiler, exclusions,
                       lastCheckpointID, status, cached, rpc, args>>
        /\ schedArgs' = NoArgs /\ sched' = "loop"
    BY <1>1 DEF schedDump, PreCheckpointFailed, images, profVars, exclusions
  <2>5. dirty' \subseteq dirty
    BY <1>1 DEF PreCheckpointFailed
  <2>6. /\ faults \subseteq faults' /\ faults' \subseteq FaultKinds
        /\ alive => "preDump" \in faults'
    <3>1. CASE Fault("preDump")
      <4>1. "preDump" \in FaultKinds
        BY DEF FaultKinds
      <4> QED  BY <3>1, <4>1, FaultGrows
    <3>2. CASE ~alive /\ UNCHANGED faults
      BY <3>2 DEF TypeOK
    <3> QED  BY <1>1, <3>1, <3>2
  <2> USE <2>0, <2>5, <2>6 DEF exclusions
  <2>1. TypeOK'  BY NoArgsType DEF TypeOK
  <2>2. Modes' /\ Parents'  BY <1>0 DEF Modes, Parents, Intact
  <2>3. Current'  BY DEF Current, Intact
  <2>4. Covers' /\ Depths'  BY <1>0 DEF Covers, Depths
  <2> QED  BY <2>1, <2>2, <2>3, <2>4
<1>2. CASE PreCheckpointDone(schedArgs) /\ sched' = "reinit" /\ UNCHANGED faults
  <2>1. schedArgs \in Args
    BY NoArgsType DEF TypeOK
  <2>2. /\ alive /\ dirty' = {} /\ dumps' = dumps + 1 /\ dumps' \in Dumps
        /\ lastCheckpointID' = dumps'
        /\ has' \in [Dumps -> SUBSET Pages] /\ cur' \in [Dumps -> SUBSET Pages]
        /\ excl' \in [Dumps -> SUBSET Pages] /\ len' \in [Dumps -> Nat]
        /\ stale' \subseteq Dumps
    BY <1>2, <2>1, PreCheckpointDoneTypes
  <2> USE <1>0, <1>2, <2>1, <2>2 DEF schedDump, profVars, exclusions
  <2>3. TypeOK'  BY NoArgsType DEF TypeOK, Dumps
  <2>4. Modes'  BY DEF TypeOK, Modes
  <2>5. Parents'  BY DEF TypeOK, Modes, Parents, Intact, Dumps, Foreign
  <2>6. schedArgs.parent \in Dumps => schedArgs.parent = dumps
    BY DEF Parents
  <2>7. Current'
    BY <2>6, PreDumpCurrent DEF TypeOK, Current, Intact, Dumps
  <2>8. Covers' /\ Depths'
    BY DEF Covers, Depths
  <2> QED  BY <2>3, <2>4, <2>5, <2>7, <2>8
<1> QED  BY <1>1, <1>2 DEF schedDump

\* The final dump takes no outdated page either, and adds one image.
LEMMA FinalDumpCurrent ==
    ASSUME TypeOK, NEW a \in Args, TakeDump(a, FinalDumped(a), {}), stale = {},
           dumps > 0 => has[dumps] \ dirty \subseteq cur[dumps],
           a.parent \in Dumps => a.parent = dumps
    PROVE  stale' = {}
<1>1. FinalDumped(a) \in SUBSET Pages /\ {} \in SUBSET Pages
  BY FinalDumpedType
<1>2. CASE a.parent \notin 1..dumps
  BY <1>1, <1>2, TakeDumpFull
<1>3. CASE a.parent \in 1..dumps
  <2>1. a.parent = dumps /\ dumps > 0
    BY <1>3 DEF TypeOK, Dumps
  <2>2. (Pages \ (FinalDumped(a) \cup {})) \cap dirty = {}
    BY <1>3 DEF FinalDumped, ParentDir, NoDump
  <2>3. (Pages \ (FinalDumped(a) \cup {})) \cap has[a.parent] \subseteq cur[a.parent]
    BY <2>1, <2>2
  <2> QED  BY <1>1, <1>3, <2>3, TakeDumpIncremental
<1> QED  BY <1>2, <1>3

\* The length of the final chain.
LEMMA FinalDumpLen ==
    ASSUME TypeOK, NEW a \in Args, TakeDump(a, FinalDumped(a), {})
    PROVE  len'[dumps'] = IF a.parent \in 1..dumps THEN len[a.parent] + 1 ELSE 1
<1>1. FinalDumped(a) \in SUBSET Pages /\ {} \in SUBSET Pages
  BY FinalDumpedType
<1>2. CASE a.parent \notin 1..dumps
  BY <1>1, <1>2, TakeDumpFull
<1>3. CASE a.parent \in 1..dumps
  BY <1>1, <1>3, TakeDumpIncremental
<1> QED  BY <1>2, <1>3

\* CRIU under the FinalDump RPC: after it there is no dump to protect.
LEMMA FinalDumpRunInv == AgentInv /\ FinalDumpRun => AgentInv'
<1> SUFFICES ASSUME AgentInv, FinalDumpRun PROVE AgentInv'  OBVIOUS
<1> USE DEF AgentInv
<1>1. CASE /\ UNCHANGED <<images, dirty, alive, loop, final>>
           /\ UNCHANGED faults \/ Fault("finalDump")
  <2>0. /\ UNCHANGED <<auto, alive, dirty, dumps, has, cur, excl, stale, len,
                       final, uffd, loop, hot, profiler,
                       prevExcludeSet, shrunk, lastCheckpointID, status, cached, sched,
                       schedArgs>>
        /\ args' = NoArgs /\ rpc = "finalDump" /\ rpc' = "done"
    BY <1>1 DEF FinalDumpRun, images, exclusions
  <2>6. faults \subseteq faults' /\ faults' \subseteq FaultKinds
    <3>1. "finalDump" \in FaultKinds
      BY DEF FaultKinds
    <3> QED  BY <1>1, <3>1, FaultGrows DEF TypeOK
  <2> USE <2>6
  <2>1. TypeOK'  BY <2>0, NoArgsType DEF TypeOK
  <2>2. Modes' /\ Parents'  BY <2>0 DEF Modes, Parents, Intact
  <2>3. Current'  BY <2>0 DEF Current, Intact
  <2>4. Covers'  BY <2>0 DEF Covers, Intact
  <2>5. Depths'  BY <2>0 DEF Depths, ChainBounded, Intact
  <2> QED  BY <2>1, <2>2, <2>3, <2>4, <2>5
<1>2. CASE /\ TakeDump(args, FinalDumped(args), {})
           /\ dirty' = {} /\ alive' = FALSE /\ loop' = FALSE
           /\ \/ final' = dumps + 1
                 /\ UNCHANGED faults
              \/ Fault("upload") /\ UNCHANGED final
  <2>1. /\ args \in Args /\ FinalDumped(args) \in SUBSET Pages
        /\ {} \in SUBSET Pages
    BY FinalDumpedType DEF TypeOK
  <2>2. /\ dumps' = dumps + 1 /\ dumps' \in Dumps
        /\ has' \in [Dumps -> SUBSET Pages] /\ cur' \in [Dumps -> SUBSET Pages]
        /\ excl' \in [Dumps -> SUBSET Pages] /\ len' \in [Dumps -> Nat]
        /\ stale' \subseteq Dumps
        /\ \A d \in 1..dumps : len'[d] = len[d]
    BY <1>2, <2>1, TakeDumpTypes
  <2>0. /\ final' \in 0..MaxDumps
        /\ faults \subseteq faults' /\ faults' \subseteq FaultKinds
    <3>1. "upload" \in FaultKinds
      BY DEF FaultKinds
    <3>2. CASE Fault("upload") /\ UNCHANGED final
      BY <3>1, <3>2, FaultGrows DEF TypeOK
    <3>3. CASE /\ final' = dumps + 1
               /\ UNCHANGED faults
      BY <2>2, <3>3 DEF TypeOK, Dumps
    <3> QED  BY <1>2, <3>2, <3>3
  <2>9. /\ UNCHANGED <<auto, uffd, hot, profiler, prevExcludeSet, shrunk,
                       lastCheckpointID, status, cached, sched,
                       schedArgs>>
        /\ args' = NoArgs /\ rpc = "finalDump" /\ rpc' = "done"
        /\ dirty' = {} /\ alive' = FALSE /\ loop' = FALSE
    BY <1>2 DEF FinalDumpRun, exclusions
  <2>3. TypeOK'
    <3>1. dumps' \in 0..MaxDumps /\ lastCheckpointID' \in 0..dumps'
      BY <2>2, <2>9 DEF TypeOK, Dumps
    <3> QED  BY <2>0, <2>2, <2>9, <3>1, NoArgsType DEF TypeOK
  <2> USE <1>2, <2>1, <2>2 DEF FinalDumpRun
  <2>10. Modes'
    BY <2>9 DEF Modes
  <2>4. Parents'
    <3>1. status.last \in 0..dumps' \cup {Foreign} /\ cached.last \in 0..dumps' \cup {Foreign}
      BY DEF Parents, TypeOK
    <3>2. Intact({"lag"})' => cached' = status'
      BY <2>0, <2>9 DEF Parents, Intact
    <3> QED
      BY <2>9, <3>1, <3>2 DEF Parents
  <2>5. Intact({"record", "lag"}) /\ args.parent \in Dumps => args.parent = dumps
    BY DEF Parents
  <2>6. Current'
    <3>1. Intact({"preDump", "record", "lag"})' => Intact({"preDump", "record", "lag"})
      BY DEF Intact, Fault
    <3>2. Intact({"preDump", "record", "lag"}) => stale' = {}
      BY <2>5, FinalDumpCurrent DEF Current, Intact, Modes
    <3> QED  BY <3>1, <3>2 DEF Current
  <2>7. Covers'  BY DEF Covers
  <2>8. Depths'
    <3> SUFFICES ASSUME ~auto, Intact({"conflict", "lag"}) PROVE Depths'
      BY <2>0 DEF Depths, Intact
    <3>1. status.last \in Dumps => status.last \in 1..dumps
      BY DEF Parents, TypeOK, Dumps, Foreign
    <3>2. status'.last \in Dumps => len'[status'.last] <= status'.depth
      BY <3>1 DEF Depths
    <3>3. len'[dumps'] = IF args.parent \in 1..dumps THEN len[args.parent] + 1 ELSE 1
      BY FinalDumpLen
    <3>4. MaxDepth > 0 => \A d \in 1..dumps : len[d] <= MaxDepth
      BY DEF Depths, ChainBounded, Intact, Modes
    <3>5. MaxDepth > 0 => \A d \in 1..dumps' : len'[d] <= MaxDepth + 1
      <4> SUFFICES ASSUME MaxDepth > 0, NEW d \in 1..dumps'
                   PROVE  len'[d] <= MaxDepth + 1
        OBVIOUS
      <4>1. CASE d = dumps'
        <5>1. args.parent \in 1..dumps =>
                len[args.parent] <= MaxDepth /\ len[args.parent] \in Nat
          BY <3>4 DEF TypeOK, Dumps
        <5> QED  BY <3>3, <4>1, <5>1
      <4>2. CASE d \in 1..dumps
        <5>1. len[d] <= MaxDepth /\ len'[d] = len[d] /\ len[d] \in Nat
          BY <3>4, <4>2 DEF TypeOK, Dumps
        <5> QED  BY <5>1
      <4> QED  BY <4>1, <4>2 DEF TypeOK
    <3>6. ChainBounded'
      BY <3>5, <2>9 DEF ChainBounded
    <3> QED  BY <2>9, <3>2, <3>6 DEF Depths
  <2> QED  BY <2>3, <2>10, <2>4, <2>6, <2>7, <2>8
<1> QED  BY <1>1, <1>2 DEF FinalDumpRun

-----------------------------------------------------------------------------
\* Every step, or stuttering, keeps the invariant.
LEMMA StepInv == AgentInv /\ [Next]_vars => AgentInv'
<1> SUFFICES ASSUME AgentInv, [Next]_vars PROVE AgentInv'  OBVIOUS
<1>1. CASE UNCHANGED vars
  <2> USE <1>1 DEF AgentInv, vars, images, profVars, exclusions, Intact
  <2>1. TypeOK'  BY DEF TypeOK
  <2>2. Modes' /\ Parents' /\ Current'  BY DEF Modes, Parents, Current
  <2>3. Covers' /\ Depths'  BY DEF Covers, Depths, ChainBounded
  <2> QED  BY <2>1, <2>2, <2>3
<1>2. CASE Next
  BY <1>2, collectSampleInv, autoStartProfilerInv, StopProfilingInv, PreCheckpointInv,
     PreCheckpointDumpInv, PreCheckpointReinitInv, recordPreCheckpointInv, CacheSyncInv,
     initialPreDumpInv, schedStartProfilerInv, triggerPreDumpInv, schedDumpInv,
     schedReinitInv, FinalDumpInv, FinalDumpCleanupInv, FinalDumpRunInv, WriteInv
     DEF Next
<1> QED  BY <1>1, <1>2

\* The inductive invariant holds, for every set of pages and every bound.
THEOREM AgentInvariance == Spec => []AgentInv
  BY InitInv, StepInv, PTL DEF Spec

\* Every variable keeps its type; the agent never remembers a dump CRIU has not
\* written (lastCheckpointID of checkpoint.go).
THEOREM AgentTypeCorrect == Spec => []TypeOK
<1>1. AgentInv => TypeOK  BY DEF AgentInv
<1> QED  BY <1>1, AgentInvariance, PTL

\* No image takes an outdated page from its parent, as long as no pre-dump failed,
\* no record was lost and no cache lagged: performPreCheckpoint and triggerPreDump
\* name the dump the soft-dirty bits count from.
THEOREM NoOutdatedPageEver == Spec => []NoOutdatedPage
<1>1. AgentInv => NoOutdatedPage
  BY DEF AgentInv, Current, Intact, NoOutdatedPage
<1> QED  BY <1>1, AgentInvariance, PTL

\* The ranges PreCheckpoint of server.go hands to CRIU lose no page: what the last
\* pre-dump neither holds nor left out is dirty, however regions turn hot and cold,
\* move, merge or grow - except what a region gave up that stayed hot and shrank.
THEOREM LastDumpAlwaysCovers == Spec => []LastDumpCovers
<1>1. AgentInv => LastDumpCovers
  BY DEF AgentInv, TypeOK, Modes, Covers, Intact, LastDumpCovers, NoDump
<1> QED  BY <1>1, AgentInvariance, PTL

\* performPreCheckpoint keeps every chain within maxCheckpointChainDepth, and the
\* final dump adds one image, unless a conflict lost the depth or the cache lagged.
THEOREM ChainAlwaysBounded == Spec => []ChainBounded
<1>1. AgentInv => ChainBounded
  BY DEF AgentInv, Depths, Intact, ChainBounded
<1> QED  BY <1>1, AgentInvariance, PTL

-----------------------------------------------------------------------------
(***************************************************************************)
(* The userfaultfd of the profiler and the dumps of the scheduler.         *)
(***************************************************************************)
Steady == auto /\ faults \cap {"ptrace", "stopProfiling"} = {}

\* Until FinalDump has closed the profiler, a userfaultfd is one the agent knows
\* of, and in a dump of the scheduler there is none.
UffdInv ==
    Steady =>
      /\ sched \in {"dump", "reinit"} => ~uffd /\ profiler # "new"
      /\ rpc \in {"idle", "finalClean"} =>
           /\ uffd => profiler = "on"
           /\ sched \in {"init", "start", "loop", "dump", "reinit"} => profiler # "nil"
      /\ rpc = "finalDump" /\ sched = "stopped" => ~uffd

\* Faults are never forgotten, and the mode does not change.
LEMMA SteadyBefore == ASSUME TypeOK, [Next]_vars, Steady' PROVE Steady
<1>1. faults \subseteq faults' /\ auto' = auto
  <2> USE DEF images, profVars, exclusions
  <2>1. CASE collectSample \/ autoStartProfiler \/ StopProfiling \/ (\E p \in Pages : Write(p))
    BY <2>1 DEF collectSample, autoStartProfiler, StopProfiling, Write, Fault
  <2>2. CASE PreCheckpoint \/ PreCheckpointDump \/ PreCheckpointReinit \/ recordPreCheckpoint
    BY <2>2 DEF PreCheckpoint, PreCheckpointDump, PreCheckpointReinit,
       recordPreCheckpoint, CleanupBeforeCRIU, ReinitAfterCRIU, Fault
  <2>3. CASE initialPreDump \/ schedStartProfiler \/ triggerPreDump \/ schedDump \/ schedReinit
    BY <2>3 DEF initialPreDump, schedStartProfiler, triggerPreDump, schedDump,
       schedReinit, CleanupBeforeCRIU, ReinitAfterCRIU, Fault
  <2>4. CASE FinalDump \/ FinalDumpCleanup \/ FinalDumpRun
    BY <2>4 DEF FinalDump, FinalDumpCleanup, FinalDumpRun, CleanupBeforeCRIU, Fault
  <2>5. CASE UNCHANGED vars
    BY <2>5 DEF vars
  <2>6. CASE CacheSync
    BY <2>6 DEF CacheSync
  <2> QED
    BY <2>1, <2>2, <2>3, <2>4, <2>5, <2>6 DEF Next
<1> QED
  BY <1>1 DEF Steady

\* In a steady behaviour the userfaultfd is really closed before CRIU runs.
LEMMA SteadyCleanup == ASSUME Steady', CleanupBeforeCRIU PROVE ~uffd'
  BY DEF Steady, CleanupBeforeCRIU, Fault

LEMMA UffdStep == ASSUME AgentInv, UffdInv, [Next]_vars PROVE UffdInv'
<1> SUFFICES ASSUME Steady' PROVE UffdInv'
  BY DEF UffdInv
<1>0. /\ Steady /\ UffdInv /\ auto
      /\ rpc \notin {"preDump", "preOK", "preFailed", "record"}
  BY SteadyBefore DEF AgentInv, Modes, Steady
<1> USE DEF profVars, images
<1>1. CASE collectSample \/ (\E p \in Pages : Write(p))
  BY <1>0, <1>1 DEF collectSample, Write, UffdInv
<1>2. CASE \/ autoStartProfiler \/ StopProfiling \/ PreCheckpoint \/ PreCheckpointDump
           \/ PreCheckpointReinit \/ recordPreCheckpoint
  BY <1>0, <1>2 DEF autoStartProfiler, StopProfiling, PreCheckpoint, PreCheckpointDump,
     PreCheckpointReinit, recordPreCheckpoint, shouldPerformCheckpoint, Fault, Steady
<1>3. CASE initialPreDump
  BY <1>0, <1>3 DEF initialPreDump, UffdInv
<1>4. CASE schedStartProfiler
  BY <1>0, <1>4 DEF schedStartProfiler, ProfilerStarted, Fault, Steady, UffdInv
<1>5. CASE triggerPreDump
  <2>1. ~uffd'
    BY <1>5, SteadyCleanup DEF triggerPreDump
  <2> QED
    BY <1>0, <1>5, <2>1 DEF triggerPreDump, evaluateInvariant, UffdInv
<1>6. CASE schedDump
  BY <1>0, <1>6 DEF schedDump, UffdInv
<1>7. CASE schedReinit
  <2>1. sched = "reinit" /\ sched' = "loop" /\ UNCHANGED <<rpc, profiler>>
    BY <1>7 DEF schedReinit
  <2>2. profiler # "new" /\ profiler \in {"new", "on", "nil"}
    BY <1>0, <2>1 DEF UffdInv, AgentInv, TypeOK
  <2> QED
    BY <1>0, <2>1, <2>2 DEF UffdInv
<1>8. CASE FinalDump
  BY <1>0, <1>8 DEF FinalDump, UffdInv
<1>9. CASE FinalDumpCleanup
  <2>1. rpc = "finalClean" /\ rpc' = "finalDump" /\ sched' = sched
    BY <1>9 DEF FinalDumpCleanup
  <2>2. CASE profiler = "on"
    <3>1. ~uffd' /\ profiler' = "nil"
      BY <1>9, <2>2, SteadyCleanup DEF FinalDumpCleanup
    <3> QED
      BY <2>1, <3>1 DEF UffdInv
  <2>3. CASE profiler # "on"
    BY <1>0, <1>9, <2>1, <2>3 DEF FinalDumpCleanup, UffdInv
  <2> QED
    BY <2>2, <2>3
<1>10. CASE FinalDumpRun
  BY <1>0, <1>10 DEF FinalDumpRun, UffdInv
<1>11. CASE UNCHANGED vars
  BY <1>0, <1>11 DEF vars, UffdInv
<1>12. CASE CacheSync
  BY <1>0, <1>12 DEF CacheSync, UffdInv
<1> QED
  BY <1>1, <1>2, <1>3, <1>4, <1>5, <1>6, <1>7, <1>8, <1>9, <1>10, <1>11, <1>12 DEF Next

\* CleanupBeforeCRIU and Stop keep the profiler's userfaultfd out of CRIU's way, in
\* every dump of the scheduler and in the final one if the scheduler was stopped.
THEOREM NoUffdInAnyDump == Spec => []NoUffdInDump
<1>1. Init => UffdInv
  BY DEF Init, UffdInv
<1>2. AgentInv /\ UffdInv /\ [Next]_vars => UffdInv'
  BY UffdStep
<1>3. UffdInv => NoUffdInDump
  BY DEF UffdInv, Steady, NoUffdInDump
<1> QED
  BY <1>1, <1>2, <1>3, AgentInvariance, PTL DEF Spec
=============================================================================
