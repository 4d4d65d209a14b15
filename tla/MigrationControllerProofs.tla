--------------------- MODULE MigrationControllerProofs ---------------------
(***************************************************************************)
(* Theorems about MigrationController, for every number of pods, retries,  *)
(* triggers and disturbances.                                              *)
(*                                                                         *)
(* The properties of the stored object are not inductive: a status update  *)
(* stores whatever the reconcile computed several steps before.  IInv says *)
(* what the copies of the object know about it in between.                 *)
(***************************************************************************)
EXTENDS MigrationController, TLAPS

-----------------------------------------------------------------------------
(***************************************************************************)
(* The inductive invariant.                                                *)
(***************************************************************************)
\* What is true of each copy a of the object, stale ones included, when S are
\* the uploaded checkpoints.
Sound(a, S) ==
    /\ a.stage \in Restorable => a.dump \in S
    /\ a.phase = "Migrating" => a.stage \in InFlight
    /\ a.maxR \in {0, MaxRetries}
    /\ a.stage # "Idle" => a.maxR = MaxRetries
    /\ a.retry <= MaxRetries

\* The step the reconcile is in tells the stage of its copy.
StageAtStep ==
    /\ pc \in {"steady", "recreate"} => m.stage = "Idle"
    /\ pc = "quiesce" => m.stage = "Quiescing"
    /\ pc \in {"dump", "finalDump"} => m.stage = "Dumping"
    /\ pc \in {"uploaded", "createTarget", "waitRunning"} => m.stage = "Uploaded"
    /\ pc = "restore" => m.stage = "Restoring"
    /\ pc = "restoreFailed" => m.stage = "RestoreFailed"
    /\ pc = "retry" => m.stage \in Terminal /\ m.ann

\* In the steps that act on the current pod there is one.
PodAtStep == pc \in {"steady", "dump", "finalDump"} => pod \in Pods

\* Storing w over a changes nothing of the lifecycle, or is one of its steps.
Kept(a, w) == w.retry = a.retry /\ w.dump = a.dump /\ w.ok = a.ok /\ w.bad = a.bad

Advances(a, w) ==
    /\ w.ann = a.ann
    /\ \/ w.stage = a.stage /\ Kept(a, w)
       \/ /\ a.stage = "Idle" /\ w.stage \in {"Quiescing", "Dumping"}
          /\ w.retry = 0 /\ w.dump = NoPod /\ w.ok = a.ok /\ w.bad = a.bad
       \/ a.stage = "Quiescing" /\ w.stage = "Dumping" /\ Kept(a, w)
       \/ /\ a.stage = "Dumping" /\ w.stage = "Uploaded" /\ w.dump \in Pods
          /\ w.retry = a.retry /\ w.ok = a.ok /\ w.bad = a.bad
       \/ /\ a.stage = "Dumping" /\ w.stage = "FinalDumpFailed"
          /\ w.retry = a.retry /\ w.dump = a.dump /\ w.ok = a.ok
          /\ w.bad = a.bad + 1
       \/ a.stage = "Uploaded" /\ w.stage = "Restoring" /\ Kept(a, w)
       \/ /\ a.stage \in {"Uploaded", "Restoring"}
          /\ w.stage = "RestoreFailed" /\ Kept(a, w)
       \/ /\ a.stage = "RestoreFailed" /\ w.stage = "Uploaded"
          /\ a.retry < MaxRetries /\ w.retry = a.retry + 1
          /\ w.dump = a.dump /\ w.ok = a.ok /\ w.bad = a.bad
       \/ /\ a.stage = "RestoreFailed" /\ w.stage = "Failed"
          /\ a.retry = MaxRetries /\ w.retry = a.retry
          /\ w.dump = a.dump /\ w.ok = a.ok /\ w.bad = a.bad + 1
       \/ /\ a.stage = "Restoring" /\ w.stage = "Idle"
          /\ w.retry = 0 /\ w.dump = NoPod /\ w.ok = a.ok + 1 /\ w.bad = a.bad

Resets(a, w) ==
    /\ a.stage \in Terminal /\ a.ann /\ w.ann
    /\ w.stage = "Idle" /\ w.retry = 0 /\ w.dump = NoPod
    /\ w.ok = a.ok /\ w.bad = a.bad

\* As long as nobody else wrote, the reconcile's copy is the stored object or
\* one documented step ahead of it.
SnapshotCurrent ==
    snapOK => IF pc # "write" THEN m = api
              ELSE IF after = "dropAnn" THEN Resets(api, m)
              ELSE Advances(api, m)

\* The reconcile, the copies of the object, and the rest.
CtlOK ==
    /\ m \in App /\ snapOK \in BOOLEAN /\ pc \in Pcs
    /\ after \in {"idle", "cleanup", "dropAnn"}
    /\ pod \in Pods \cup {NoPod} /\ tgt \in Pods \cup {NoPod}
    /\ Sound(m, s3) /\ StageAtStep /\ PodAtStep /\ SnapshotCurrent

ObjOK ==
    /\ api \in App /\ cache \in App /\ cacheOK \in BOOLEAN /\ resets \in Nat
    /\ Sound(api, s3) /\ Sound(cache, s3)
    /\ cacheOK => cache = api
    /\ OneRecordPerOutcome

PodsOK ==
    /\ created \in 0..MaxPods
    /\ podSt \in [Pods -> PodStates]
    /\ podGen \in [Pods -> Nat]
    /\ podDump \in [Pods -> Pods \cup {NoPod}]
    /\ \A p \in Pods : podDump[p] # NoPod => podDump[p] \in s3

RestOK ==
    /\ seen \in [Pods -> PodStates]
    /\ proc \in [Pods -> {"none", "live", "dead"}]
    /\ trig \subseteq Pods /\ s3 \subseteq Pods
    /\ load \in [LoadPods -> LoadStates]
    /\ due \in BOOLEAN
    /\ trouble \in Nat /\ lost \in BOOLEAN

IInv == CtlOK /\ ObjOK /\ PodsOK /\ RestOK

-----------------------------------------------------------------------------
(***************************************************************************)
(* The object: what the helpers that rewrite it return.                    *)
(***************************************************************************)
\* setStage keeps the type, sets stage and phase, defaults maxR, and leaves
\* every other field to its caller.
LEMMA SetStageFacts ==
    ASSUME NEW a \in App, NEW st \in Stages
    PROVE  /\ setStage(a, st) \in App
           /\ setStage(a, st).stage = st
           /\ setStage(a, st).phase = "Migrating" => st \in InFlight
           /\ setStage(a, st).maxR = IF a.maxR = 0 THEN MaxRetries ELSE a.maxR
           /\ setStage(a, st).retry = a.retry /\ setStage(a, st).dump = a.dump
           /\ setStage(a, st).ok = a.ok /\ setStage(a, st).bad = a.bad
           /\ setStage(a, st).ann = a.ann
  <1>1. /\ phaseForStage(st) \in Phases
        /\ phaseForStage(st) = "Migrating" => st \in InFlight
    BY DEF phaseForStage, isTerminalStage, Phases, Stages, InFlight, Terminal
  <1>2. QED  BY <1>1, ControllerAssumptions DEF setStage, App

\* resetMigrationFSM clears the fields of the FSM and no other.
LEMMA ResetFacts ==
    ASSUME NEW a \in App
    PROVE  /\ resetMigrationFSM(a) \in App
           /\ resetMigrationFSM(a).stage = "Idle"
           /\ resetMigrationFSM(a).retry = 0 /\ resetMigrationFSM(a).maxR = 0
           /\ resetMigrationFSM(a).dump = NoPod
           /\ resetMigrationFSM(a).gen = a.gen
           /\ resetMigrationFSM(a).ok = a.ok /\ resetMigrationFSM(a).bad = a.bad
           /\ resetMigrationFSM(a).ann = a.ann
  BY DEF resetMigrationFSM, App, Stages, NoPod

\* A fresh object has the type and is sound.
LEMMA NewAppFacts == NewApp \in App /\ \A S : Sound(NewApp, S)
  BY ControllerAssumptions
     DEF NewApp, App, Sound, Stages, Phases, Restorable, NoPod, InFlight, Pods

-----------------------------------------------------------------------------
(***************************************************************************)
(* Frames: what a step keeps of each part of the invariant.                *)
(***************************************************************************)
\* Uploaded checkpoints are never removed, so soundness is never lost.
LEMMA SoundMonotone ==
    ASSUME NEW a, NEW S, NEW T, Sound(a, S), S \subseteq T
    PROVE  Sound(a, T)
  BY DEF Sound

\* A step that leaves the stored object and its cached copy alone keeps ObjOK.
LEMMA ObjFrame ==
    ASSUME ObjOK, UNCHANGED objVars, resets' = resets, s3 \subseteq s3'
    PROVE  ObjOK'
  <1>1. Sound(api, s3') /\ Sound(cache, s3')
    BY SoundMonotone DEF ObjOK
  <1>2. QED  BY <1>1 DEF ObjOK, objVars, OneRecordPerOutcome

\* A step that leaves the pods and the uploads alone keeps PodsOK.
LEMMA PodsFrame ==
    ASSUME PodsOK, UNCHANGED podVars, s3 \subseteq s3'
    PROVE  PodsOK'
  BY DEF PodsOK, podVars

\* Deleting a pod keeps the types.
LEMMA DeletedType ==
    ASSUME PodsOK, NEW p
    PROVE  Deleted(p) \in [Pods -> PodStates]
  BY DEF PodsOK, Deleted, PodStates, Up

\* A new pod is pending and restores nothing but an uploaded checkpoint.
LEMMA CreateKeepsPods ==
    ASSUME PodsOK, NEW gen \in Nat, NEW dump \in Pods \cup {NoPod},
           CanCreate(gen), CreatePod(gen, dump), s3' = s3,
           dump # NoPod => dump \in s3
    PROVE  PodsOK' /\ created' \in Pods
  <1>1. created + 1 \in Pods /\ created + 1 \in 0..MaxPods
    BY ControllerAssumptions DEF PodsOK, CanCreate, Pods
  <1>2. QED  BY <1>1 DEF PodsOK, CreatePod, PodStates

\* A reconcile that ends forgets everything.
LEMMA CtlEnd == ASSUME EndReconcile PROVE CtlOK'
  BY NewAppFacts
     DEF EndReconcile, CtlOK, Pcs, StageAtStep, PodAtStep, SnapshotCurrent, NoPod

\* A reconcile that waits for a step which leaves the object alone.
LEMMA CtlFrame ==
    ASSUME CtlOK, UNCHANGED <<ctlVars, api>>, s3 \subseteq s3'
    PROVE  CtlOK'
  <1>1. Sound(m, s3')  BY SoundMonotone DEF CtlOK
  <1>2. QED  BY <1>1 DEF CtlOK, ctlVars, StageAtStep, PodAtStep, SnapshotCurrent

\* Somebody else writes the object: the copy is stale from then on.
LEMMA CtlStale ==
    ASSUME CtlOK, UNCHANGED <<pc, m, pod, tgt, after, s3>>, snapOK' = FALSE
    PROVE  CtlOK'
  BY DEF CtlOK, StageAtStep, PodAtStep, SnapshotCurrent

\* A reconcile that is about to store m'.
LEMMA CtlWrite ==
    ASSUME CtlOK, pc' = "write", UNCHANGED <<snapOK, pod, tgt, api>>,
           m' \in App, Sound(m', s3'),
           after' \in {"idle", "cleanup", "dropAnn"},
           snapOK => IF after' = "dropAnn" THEN Resets(api, m')
                     ELSE Advances(api, m')
    PROVE  CtlOK'
  BY DEF CtlOK, Pcs, StageAtStep, PodAtStep, SnapshotCurrent

-----------------------------------------------------------------------------
(***************************************************************************)
(* The steps of a reconcile.                                               *)
(***************************************************************************)
LEMMA ReconcileStep == ASSUME IInv, Reconcile PROVE IInv'
  <1>1. PICK cur \in Pods \cup {NoPod} :
          LET next == IF cache.ann /\ isTerminalStage(cache.stage) THEN "retry"
                      ELSE IF cur = NoPod THEN "create"
                      ELSE advanceMigrationFSM(cache.stage)
          IN  IF next = "idle" THEN EndReconcile
              ELSE /\ pc' = next
                   /\ m' = cache /\ snapOK' = cacheOK /\ pod' = cur
                   /\ tgt' = NoPod /\ after' = "idle"
    BY DEF Reconcile
  <1>2. UNCHANGED <<objVars, podVars, seen, workVars, trig, load, due, trouble,
                    lost, resets>>
    BY DEF Reconcile
  <1>3. ObjOK' /\ PodsOK' /\ RestOK'
    BY <1>2, ObjFrame, PodsFrame DEF IInv, RestOK, workVars
  <1>4. CtlOK'
    <2>1. CASE EndReconcile  BY <2>1, CtlEnd
    <2>2. CASE ~EndReconcile
      <3>1. cache \in App /\ Sound(cache, s3) /\ cache.stage \in Stages
        BY DEF IInv, ObjOK, App
      <3>2. /\ pc' = IF cache.ann /\ isTerminalStage(cache.stage) THEN "retry"
                     ELSE IF cur = NoPod THEN "create"
                     ELSE advanceMigrationFSM(cache.stage)
            /\ pc' # "idle"
            /\ m' = cache /\ snapOK' = cacheOK /\ pod' = cur /\ tgt' = NoPod
            /\ after' = "idle"
        BY <1>1, <2>2
      <3>3. /\ pc' \in Pcs /\ pc' # "write"
            /\ PodAtStep' /\ StageAtStep'
        BY <3>1, <3>2
           DEF advanceMigrationFSM, Stages, InFlight, Terminal, isTerminalStage,
               Pcs, PodAtStep, StageAtStep
      <3>4. SnapshotCurrent'
        BY <1>2, <3>2, <3>3 DEF SnapshotCurrent, IInv, ObjOK, objVars
      <3>5. QED
        BY <1>2, <3>1, <3>2, <3>3, <3>4
           DEF CtlOK, IInv, ObjOK, workVars, NoPod
    <2>3. QED  BY <2>1, <2>2
  <1>5. QED  BY <1>3, <1>4 DEF IInv

\* setStage's write: refused, lost, or it stores the copy as it is.
LEMMA StatusUpdateStep == ASSUME IInv, StatusUpdate PROVE IInv'
  <1>1. /\ pc = "write"
        /\ UNCHANGED <<cache, podVars, seen, workVars, trig, load, trouble, lost>>
    BY DEF StatusUpdate
  <1>2. m \in App /\ Sound(m, s3) /\ api \in App /\ resets \in Nat
    BY DEF IInv, CtlOK, ObjOK
  <1>3. PodsOK' /\ RestOK'
    <2>1. due' \in BOOLEAN  BY DEF StatusUpdate, IInv, RestOK
    <2>2. QED  BY <1>1, <2>1, PodsFrame DEF IInv, RestOK, workVars
  <1>4. CASE ~snapOK
    <2>1. EndReconcile /\ UNCHANGED <<api, cacheOK, due, resets>>
      BY <1>4 DEF StatusUpdate
    <2>2. QED
      BY <1>1, <1>3, <2>1, CtlEnd, ObjFrame DEF IInv, objVars, workVars
  <1>5. CASE snapOK
    <2>1. /\ api' = m /\ cacheOK' = FALSE
          /\ resets' = IF after = "dropAnn" THEN resets + 1 ELSE resets
          /\ IF after = "idle" THEN EndReconcile ELSE GoTo(after)
      BY <1>5 DEF StatusUpdate
    <2>2. IF after = "dropAnn" THEN Resets(api, m) ELSE Advances(api, m)
      BY <1>1, <1>5 DEF IInv, CtlOK, SnapshotCurrent
    <2>3. m.bad = resets' + (IF m.stage \in Terminal THEN 1 ELSE 0)
      <3>1. api.bad = resets + (IF api.stage \in Terminal THEN 1 ELSE 0)
        BY DEF IInv, ObjOK, OneRecordPerOutcome, isTerminalStage
      <3>2. api.bad \in Nat /\ m.bad \in Nat  BY <1>2 DEF App
      <3>3. QED
        BY <1>2, <2>1, <2>2, <3>1, <3>2 DEF Resets, Advances, Kept, Terminal
    <2>4. ObjOK'
      <3>1. resets' \in Nat  BY <1>2, <2>1
      <3>2. cacheOK' \in BOOLEAN  BY <2>1
      <3>3. OneRecordPerOutcome'
        BY <2>1, <2>3 DEF OneRecordPerOutcome, isTerminalStage
      <3>4. cache' \in App /\ Sound(cache', s3') /\ Sound(api', s3')
        BY <1>1, <1>2, <2>1 DEF IInv, ObjOK, workVars
      <3>5. QED  BY <1>2, <2>1, <3>1, <3>2, <3>3, <3>4 DEF ObjOK
    <2>5. CASE after = "idle"
      BY <1>3, <2>1, <2>4, <2>5, CtlEnd DEF IInv
    <2>6. CASE after # "idle"
      <3>1. /\ pc' = after /\ after \in {"cleanup", "dropAnn"}
            /\ UNCHANGED <<m, snapOK, pod, tgt, after, s3>>
        BY <1>1, <2>1, <2>6 DEF GoTo, IInv, CtlOK, workVars
      <3>2. CtlOK'
        BY <1>2, <2>1, <3>1
           DEF IInv, CtlOK, Pcs, StageAtStep, PodAtStep, SnapshotCurrent
      <3>3. QED  BY <1>3, <2>4, <3>2 DEF IInv
    <2>7. QED  BY <2>5, <2>6
  <1>6. QED  BY <1>4, <1>5

\* The first pod, or the one after a reset: stage Idle is written.
LEMMA createInitialPodStep == ASSUME IInv, createInitialPod PROVE IInv'
  <1>1. /\ pc = "create"
        /\ UNCHANGED <<objVars, seen, workVars, trig, load, due, trouble, lost,
                       resets>>
    BY DEF createInitialPod
  <1>2. ObjOK' /\ RestOK'
    BY <1>1, ObjFrame DEF IInv, RestOK, workVars
  <1>3. m \in App /\ Sound(m, s3)  BY DEF IInv, CtlOK
  <1>4. CASE EndReconcile /\ UNCHANGED podVars
    BY <1>1, <1>2, <1>4, CtlEnd, PodsFrame DEF IInv, workVars
  <1>5. CASE /\ CanCreate(0) /\ CreatePod(0, NoPod)
             /\ UpdateStatusTo([m EXCEPT !.phase = "Pending", !.gen = 0,
                                         !.cur = created + 1], "idle")
    <2>1. PodsOK' /\ created' \in Pods
      BY <1>1, <1>5, CreateKeepsPods DEF IInv, workVars
    <2>2. created + 1 \in Pods  BY <1>5, <2>1 DEF CreatePod
    <2>3. /\ m' = [m EXCEPT !.phase = "Pending", !.gen = 0, !.cur = created + 1]
          /\ pc' = "write" /\ after' = "idle" /\ UNCHANGED <<snapOK, pod, tgt>>
      BY <1>5 DEF UpdateStatusTo
    <2>4. m' \in App /\ Sound(m', s3') /\ Advances(m, m')
      BY <1>1, <1>3, <2>2, <2>3
         DEF App, Phases, Sound, Advances, Kept, workVars
    <2>5. snapOK => Advances(api, m')
      BY <1>1, <2>4 DEF IInv, CtlOK, SnapshotCurrent
    <2>6. CtlOK'
      BY <1>1, <2>3, <2>4, <2>5, CtlWrite DEF IInv, objVars
    <2>7. QED  BY <1>2, <2>1, <2>6 DEF IInv
  <1>6. QED  BY <1>4, <1>5 DEF createInitialPod

\* A migration begins: the copy gets its first stage.
LEMMA startMigrationStep == ASSUME IInv, startMigration PROVE IInv'
  <1> DEFINE first == IF PreDumpQuiesce THEN "Quiescing" ELSE "Dumping"
             b == [m EXCEPT !.retry = 0, !.latch = FALSE, !.dump = NoPod,
                            !.target = NoPod]
  <1>1. /\ pc = "steady" /\ trig' = trig \cup {pod}
        /\ pc' = "write" /\ m' = setStage(b, first) /\ after' = "idle"
        /\ UNCHANGED <<snapOK, pod, tgt>>
        /\ UNCHANGED <<objVars, podVars, seen, workVars, load, due, trouble,
                       lost, resets>>
    BY DEF startMigration, UpdateStatusTo
  <1>2. m \in App /\ Sound(m, s3) /\ m.stage = "Idle" /\ pod \in Pods
    BY <1>1 DEF IInv, CtlOK, StageAtStep, PodAtStep
  <1>3. b \in App  BY <1>2 DEF App, NoPod
  <1>4. first \in {"Quiescing", "Dumping"} /\ first \in Stages
    BY DEF Stages, InFlight
  <1>5. m' \in App /\ Sound(m', s3') /\ Advances(m, m')
    <2>1. /\ b.retry = 0 /\ b.dump = NoPod /\ b.ok = m.ok /\ b.bad = m.bad
          /\ b.ann = m.ann /\ b.maxR = m.maxR
      BY <1>2 DEF App
    <2> HIDE DEF b, first
    <2>2. /\ m' \in App /\ m'.stage = first
          /\ m'.phase = "Migrating" => first \in InFlight
          /\ m'.maxR = IF m.maxR = 0 THEN MaxRetries ELSE m.maxR
          /\ m'.retry = 0 /\ m'.dump = NoPod
          /\ m'.ok = m.ok /\ m'.bad = m.bad /\ m'.ann = m.ann
      BY <1>1, <1>3, <1>4, <2>1, SetStageFacts
    <2>3. QED
      BY <1>2, <1>4, <2>2, ControllerAssumptions
         DEF Sound, Advances, Restorable
  <1>6. CtlOK'
    <2>1. snapOK => Advances(api, m')
      BY <1>1, <1>5 DEF IInv, CtlOK, SnapshotCurrent
    <2>2. QED  BY <1>1, <1>5, <2>1, CtlWrite DEF IInv, objVars
  <1>7. ObjOK' /\ PodsOK' /\ RestOK'
    BY <1>1, <1>2, ObjFrame, PodsFrame DEF IInv, RestOK, workVars
  <1>8. QED  BY <1>6, <1>7 DEF IInv

\* Deleting a failed pod touches no status.
LEMMA recreatePodDeleteStep == ASSUME IInv, recreatePodDelete PROVE IInv'
  <1>1. /\ pc = "steady"
        /\ UNCHANGED <<objVars, created, podGen, podDump, seen, workVars, trig,
                       load, due, lost, resets>>
    BY DEF recreatePodDelete
  <1>2. podSt' \in [Pods -> PodStates] /\ trouble' \in Nat
    BY DeletedType DEF recreatePodDelete, Trouble, IInv, PodsOK, RestOK
  <1>3. ObjOK' /\ PodsOK' /\ RestOK'
    BY <1>1, <1>2, ObjFrame DEF IInv, PodsOK, RestOK, workVars
  <1>4. CtlOK'
    <2>1. CASE EndReconcile  BY <2>1, CtlEnd
    <2>2. CASE GoTo("recreate")
      BY <1>1, <2>2
         DEF GoTo, IInv, CtlOK, Pcs, StageAtStep, PodAtStep, SnapshotCurrent,
             objVars, workVars
    <2>3. QED  BY <2>1, <2>2 DEF recreatePodDelete
  <1>5. QED  BY <1>3, <1>4 DEF IInv

\* Its replacement is a normal pod, with nothing to restore.
LEMMA recreatePodCreateStep == ASSUME IInv, recreatePodCreate PROVE IInv'
  <1>1. /\ pc = "recreate"
        /\ UNCHANGED <<objVars, seen, workVars, trig, load, due, trouble, lost,
                       resets>>
    BY DEF recreatePodCreate
  <1>2. ObjOK' /\ RestOK'
    BY <1>1, ObjFrame DEF IInv, RestOK, workVars
  <1>3. m \in App /\ Sound(m, s3) /\ m.gen \in Nat  BY DEF IInv, CtlOK, App
  <1>4. CASE EndReconcile /\ UNCHANGED podVars
    BY <1>1, <1>2, <1>4, CtlEnd, PodsFrame DEF IInv, workVars
  <1>5. CASE /\ CanCreate(m.gen) /\ CreatePod(m.gen, NoPod)
             /\ UpdateStatusTo([m EXCEPT !.phase = "Pending",
                                         !.cur = created + 1], "idle")
    <2>1. PodsOK' /\ created' \in Pods
      BY <1>1, <1>3, <1>5, CreateKeepsPods DEF IInv, workVars
    <2>2. created + 1 \in Pods  BY <1>5, <2>1 DEF CreatePod
    <2>3. /\ m' = [m EXCEPT !.phase = "Pending", !.cur = created + 1]
          /\ pc' = "write" /\ after' = "idle" /\ UNCHANGED <<snapOK, pod, tgt>>
      BY <1>5 DEF UpdateStatusTo
    <2>4. m' \in App /\ Sound(m', s3') /\ Advances(m, m')
      BY <1>1, <1>3, <2>2, <2>3
         DEF App, Phases, Sound, Advances, Kept, workVars
    <2>5. snapOK => Advances(api, m')
      BY <1>1, <2>4 DEF IInv, CtlOK, SnapshotCurrent
    <2>6. CtlOK'
      BY <1>1, <2>3, <2>4, <2>5, CtlWrite DEF IInv, objVars
    <2>7. QED  BY <1>2, <2>1, <2>6 DEF IInv
  <1>6. QED  BY <1>4, <1>5 DEF recreatePodCreate

\* Phase and current pod are refreshed only in stage Idle.
LEMMA refreshStatusStep == ASSUME IInv, refreshStatus PROVE IInv'
  <1>1. /\ pc = "steady"
        /\ UNCHANGED <<objVars, podVars, seen, workVars, trig, load, due,
                       trouble, lost, resets>>
    BY DEF refreshStatus
  <1>2. ObjOK' /\ PodsOK' /\ RestOK'
    BY <1>1, ObjFrame, PodsFrame DEF IInv, RestOK, workVars
  <1>3. /\ m \in App /\ Sound(m, s3) /\ m.stage = "Idle" /\ pod \in Pods
        /\ m.phase # "Migrating"
    BY <1>1 DEF IInv, CtlOK, StageAtStep, PodAtStep, Sound, InFlight
  <1>4. CtlOK'
    <2>1. CASE EndReconcile  BY <2>1, CtlEnd
    <2>2. CASE ~EndReconcile
      <3>1. PICK cur \in {m.cur, pod} :
              UpdateStatusTo([m EXCEPT !.cur = cur,
                                !.phase = IF m.phase = "Migrating" THEN m.phase
                                          ELSE IF seen[pod] = "running"
                                               THEN "Running" ELSE "Pending"],
                             "idle")
        BY <2>2 DEF refreshStatus
      <3>2. /\ m' = [m EXCEPT !.cur = cur, !.phase = IF seen[pod] = "running"
                                                     THEN "Running" ELSE "Pending"]
            /\ pc' = "write" /\ after' = "idle" /\ UNCHANGED <<snapOK, pod, tgt>>
        BY <1>3, <3>1 DEF UpdateStatusTo
      <3>3. m' \in App /\ Sound(m', s3') /\ Advances(m, m')
        BY <1>1, <1>3, <3>2 DEF App, Phases, Sound, Advances, Kept, workVars
      <3>4. snapOK => Advances(api, m')
        BY <1>1, <3>3 DEF IInv, CtlOK, SnapshotCurrent
      <3>5. QED  BY <1>1, <3>2, <3>3, <3>4, CtlWrite DEF IInv, objVars
    <2>3. QED  BY <2>1, <2>2
  <1>5. QED  BY <1>2, <1>4 DEF IInv

\* The steps that end in setStage(b, st): the fields of the copy to store.
LEMMA StageWritten ==
    ASSUME NEW b \in App, NEW st \in Stages, UpdateStatusTo(setStage(b, st), "idle")
    PROVE  /\ pc' = "write" /\ after' = "idle" /\ UNCHANGED <<snapOK, pod, tgt>>
           /\ m' \in App /\ m'.stage = st
           /\ m'.phase = "Migrating" => st \in InFlight
           /\ m'.maxR = IF b.maxR = 0 THEN MaxRetries ELSE b.maxR
           /\ m'.retry = b.retry /\ m'.dump = b.dump
           /\ m'.ok = b.ok /\ m'.bad = b.bad /\ m'.ann = b.ann
  <1>1. /\ m' = setStage(b, st) /\ pc' = "write" /\ after' = "idle"
        /\ UNCHANGED <<snapOK, pod, tgt>>
    BY DEF UpdateStatusTo
  <1>2. QED  BY <1>1, SetStageFacts

\* A copy whose stage was set from a sound one may be written.
LEMMA CtlStageWrite ==
    ASSUME CtlOK, pc # "write", pc' = "write", after' = "idle",
           UNCHANGED <<snapOK, pod, tgt, api>>,
           m' \in App, Sound(m', s3'), Advances(m, m')
    PROVE  CtlOK'
  <1>1. snapOK => Advances(api, m')  BY DEF CtlOK, SnapshotCurrent
  <1>2. QED  BY <1>1, CtlWrite

\* Quiescing ends: Dumping is written.
LEMMA quiesceDoneStep == ASSUME IInv, quiesceDone PROVE IInv'
  <1> DEFINE b == [m EXCEPT !.latch = FALSE]
  <1>1. /\ pc = "quiesce" /\ UpdateStatusTo(setStage(b, "Dumping"), "idle")
        /\ UNCHANGED <<objVars, podVars, seen, workVars, trig, load, due, lost,
                       resets>>
    BY DEF quiesceDone
  <1>2. ObjOK' /\ PodsOK' /\ RestOK'
    <2>1. trouble' \in Nat  BY DEF quiesceDone, Trouble, IInv, RestOK
    <2>2. QED  BY <1>1, <2>1, ObjFrame, PodsFrame DEF IInv, RestOK, workVars
  <1>3. m \in App /\ Sound(m, s3) /\ m.stage = "Quiescing"
    BY <1>1 DEF IInv, CtlOK, StageAtStep
  <1>4. /\ b \in App /\ b.maxR = m.maxR /\ b.ann = m.ann /\ Kept(m, b)
        /\ b.retry <= MaxRetries
    BY <1>3 DEF App, Kept, Sound
  <1> HIDE DEF b
  <1>5. CtlOK'
    <2>1. "Dumping" \in Stages  BY DEF Stages, InFlight
    <2>2. /\ pc' = "write" /\ after' = "idle" /\ UNCHANGED <<snapOK, pod, tgt>>
          /\ m' \in App /\ m'.stage = "Dumping" /\ m'.ann = m.ann
          /\ m'.maxR = (IF m.maxR = 0 THEN MaxRetries ELSE m.maxR) /\ Kept(m, m')
      BY <1>1, <1>4, <2>1, StageWritten DEF Kept
    <2>3. Sound(m', s3') /\ Advances(m, m')
      BY <1>3, <2>2 DEF Sound, Restorable, InFlight, Advances, Kept
    <2>4. QED  BY <1>1, <2>2, <2>3, CtlStageWrite DEF IInv, objVars
  <1>6. QED  BY <1>2, <1>5 DEF IInv

\* Stopping the load sets the latch at most.
LEMMA quiesceActStep == ASSUME IInv, quiesceAct PROVE IInv'
  <1> DEFINE b == [m EXCEPT !.latch = TRUE]
  <1>1. /\ pc = "quiesce"
        /\ UNCHANGED <<objVars, podVars, seen, workVars, trig, due, lost, resets>>
    BY DEF quiesceAct
  <1>2. ObjOK' /\ PodsOK' /\ RestOK'
    <2>1. trouble' \in Nat  BY DEF quiesceAct, Trouble, IInv, RestOK
    <2>2. load' \in [LoadPods -> LoadStates]
      BY DEF quiesceAct, stopLoad, LoadStates, IInv, RestOK
    <2>3. QED
      BY <1>1, <2>1, <2>2, ObjFrame, PodsFrame DEF IInv, RestOK, workVars
  <1>3. m \in App /\ Sound(m, s3) /\ m.stage = "Quiescing"
    BY <1>1 DEF IInv, CtlOK, StageAtStep
  <1>4. /\ b \in App /\ b.maxR = m.maxR /\ b.ann = m.ann /\ Kept(m, b)
        /\ b.retry <= MaxRetries
    BY <1>3 DEF App, Kept, Sound
  <1>5. CtlOK'
    <2>1. CASE EndReconcile  BY <2>1, CtlEnd
    <2>2. CASE UpdateStatusTo(setStage(b, "Quiescing"), "idle")
      <3> HIDE DEF b
      <3>1. "Quiescing" \in Stages  BY DEF Stages, InFlight
      <3>2. /\ pc' = "write" /\ after' = "idle" /\ UNCHANGED <<snapOK, pod, tgt>>
            /\ m' \in App /\ m'.stage = "Quiescing" /\ m'.ann = m.ann
            /\ m'.maxR = (IF m.maxR = 0 THEN MaxRetries ELSE m.maxR) /\ Kept(m, m')
        BY <1>4, <2>2, <3>1, StageWritten DEF Kept
      <3>3. Sound(m', s3') /\ Advances(m, m')
        BY <1>3, <3>2 DEF Sound, Restorable, InFlight, Advances, Kept
      <3>4. QED  BY <1>1, <3>2, <3>3, CtlStageWrite DEF IInv, objVars
    <2>3. QED  BY <2>1, <2>2 DEF quiesceAct
  <1>6. QED  BY <1>2, <1>5 DEF IInv

\* A guard that re-reads the object takes a copy of the stored one.
LEMMA freshGuardStep ==
    ASSUME IInv, NEW here, NEW stage, NEW next,
           freshGuard(here, stage, next),
           \/ here = "dump" /\ next = "finalDump"
           \/ here = "uploaded" /\ next = "createTarget"
    PROVE  IInv'
  <1>1. /\ pc = here
        /\ UNCHANGED <<objVars, podVars, seen, workVars, trig, load, due, lost,
                       resets>>
    BY DEF freshGuard
  <1>2. ObjOK' /\ PodsOK' /\ RestOK'
    <2>1. trouble' \in Nat  BY DEF freshGuard, Trouble, IInv, RestOK
    <2>2. QED  BY <1>1, <2>1, ObjFrame, PodsFrame DEF IInv, RestOK, workVars
  <1>3. CtlOK'
    <2>1. CASE EndReconcile  BY <2>1, CtlEnd
    <2>2. CASE GoTo(next)
      BY <1>1, <2>2
         DEF GoTo, IInv, CtlOK, Pcs, StageAtStep, PodAtStep, SnapshotCurrent,
             objVars, workVars
    <2>3. QED  BY <2>1, <2>2 DEF freshGuard
  <1>4. QED  BY <1>2, <1>3 DEF IInv

\* Uploaded is written for a checkpoint that is in s3 by then.
LEMMA finalDumpOKStep == ASSUME IInv, finalDumpOK PROVE IInv'
  <1> DEFINE b == [m EXCEPT !.dump = pod, !.latch = FALSE]
  <1>1. /\ pc = "finalDump" /\ s3' = s3 \cup {pod}
        /\ proc' = [proc EXCEPT ![pod] = "dead"]
        /\ UpdateStatusTo(setStage(b, "Uploaded"), "idle")
        /\ UNCHANGED <<objVars, podVars, seen, trig, load, due, trouble, lost,
                       resets>>
    BY DEF finalDumpOK, dumpRecorded
  <1>2. m \in App /\ Sound(m, s3) /\ m.stage = "Dumping" /\ pod \in Pods
    BY <1>1 DEF IInv, CtlOK, StageAtStep, PodAtStep
  <1>3. ObjOK' /\ PodsOK' /\ RestOK'
    BY <1>1, <1>2, ObjFrame, PodsFrame DEF IInv, RestOK
  <1>4. /\ b \in App /\ b.maxR = m.maxR /\ b.ann = m.ann /\ b.retry = m.retry
        /\ b.ok = m.ok /\ b.bad = m.bad /\ b.dump = pod /\ b.retry <= MaxRetries
    BY <1>2 DEF App, Sound
  <1> HIDE DEF b
  <1>5. CtlOK'
    <2>1. "Uploaded" \in Stages  BY DEF Stages, InFlight
    <2>2. /\ pc' = "write" /\ after' = "idle" /\ UNCHANGED <<snapOK, pod, tgt>>
          /\ m' \in App /\ m'.stage = "Uploaded" /\ m'.ann = m.ann
          /\ m'.maxR = (IF m.maxR = 0 THEN MaxRetries ELSE m.maxR)
          /\ m'.retry = m.retry /\ m'.dump = pod /\ m'.ok = m.ok /\ m'.bad = m.bad
      BY <1>1, <1>4, <2>1, StageWritten
    <2>3. Sound(m', s3') /\ Advances(m, m')
      BY <1>1, <1>2, <2>2 DEF Sound, InFlight, Advances
    <2>4. QED  BY <1>1, <2>2, <2>3, CtlStageWrite DEF IInv, objVars
  <1>6. QED  BY <1>3, <1>5 DEF IInv

\* FinalDumpFailed is written with one failure record.
LEMMA finalDumpErrorStep == ASSUME IInv, finalDumpError PROVE IInv'
  <1> DEFINE b == [m EXCEPT !.bad = @ + 1, !.latch = TRUE]
  <1>1. /\ pc = "finalDump"
        /\ UpdateStatusTo(setStage(b, "FinalDumpFailed"), "idle")
        /\ UNCHANGED <<objVars, podVars, seen, trig, load, due, trouble, lost,
                       resets>>
    BY DEF finalDumpError
  <1>2. m \in App /\ Sound(m, s3) /\ m.stage = "Dumping" /\ pod \in Pods
    BY <1>1 DEF IInv, CtlOK, StageAtStep, PodAtStep
  <1>3. s3 \subseteq s3' /\ s3' \subseteq Pods
    BY <1>2 DEF finalDumpError, workVars, IInv, RestOK
  <1>4. proc' \in [Pods -> {"none", "live", "dead"}]
    BY <1>2 DEF finalDumpError, workVars, IInv, RestOK
  <1>5. ObjOK' /\ PodsOK' /\ RestOK'
    BY <1>1, <1>3, <1>4, ObjFrame, PodsFrame DEF IInv, RestOK
  <1>6. /\ b \in App /\ b.maxR = m.maxR /\ b.ann = m.ann /\ b.retry = m.retry
        /\ b.ok = m.ok /\ b.bad = m.bad + 1 /\ b.dump = m.dump
    <2>1. m.bad + 1 \in Nat  BY <1>2 DEF App
    <2>2. QED  BY <1>2, <2>1 DEF App
  <1> HIDE DEF b
  <1>7. CtlOK'
    <2>1. "FinalDumpFailed" \in Stages  BY DEF Stages, Terminal
    <2>2. /\ pc' = "write" /\ after' = "idle" /\ UNCHANGED <<snapOK, pod, tgt>>
          /\ m' \in App /\ m'.stage = "FinalDumpFailed" /\ m'.ann = m.ann
          /\ m'.phase = "Migrating" => "FinalDumpFailed" \in InFlight
          /\ m'.maxR = (IF m.maxR = 0 THEN MaxRetries ELSE m.maxR)
          /\ m'.retry = m.retry /\ m'.dump = m.dump /\ m'.ok = m.ok
          /\ m'.bad = m.bad + 1
      BY <1>1, <1>6, <2>1, StageWritten
    <2>3. Sound(m', s3') /\ Advances(m, m')
      BY <1>2, <2>2 DEF Sound, Restorable, Advances
    <2>4. QED  BY <1>1, <2>2, <2>3, CtlStageWrite DEF IInv, objVars
  <1>8. QED  BY <1>5, <1>7 DEF IInv

\* The failed attempt is written: count, target and checkpoint kept.
LEMMA RestoreFailedWritten ==
    ASSUME CtlOK, fsmTransitionToRestoreFailed, api' = api, s3 \subseteq s3',
           pc # "write", m.stage \in {"Uploaded", "Restoring"}
    PROVE  CtlOK'
  <1> DEFINE b == [m EXCEPT !.latch = TRUE]
  <1>1. UpdateStatusTo(setStage(b, "RestoreFailed"), "idle")
    BY DEF fsmTransitionToRestoreFailed
  <1>2. m \in App /\ Sound(m, s3)  BY DEF CtlOK
  <1>3. b \in App /\ b.maxR = m.maxR /\ b.ann = m.ann /\ Kept(m, b)
    BY <1>2 DEF App, Kept
  <1> HIDE DEF b
  <1>4. "RestoreFailed" \in Stages  BY DEF Stages, InFlight
  <1>5. /\ pc' = "write" /\ after' = "idle" /\ UNCHANGED <<snapOK, pod, tgt>>
        /\ m' \in App /\ m'.stage = "RestoreFailed" /\ m'.ann = m.ann
        /\ m'.maxR = (IF m.maxR = 0 THEN MaxRetries ELSE m.maxR) /\ Kept(m, m')
    BY <1>1, <1>3, <1>4, StageWritten DEF Kept
  <1>6. Sound(m', s3') /\ Advances(m, m')
    BY <1>2, <1>5 DEF Sound, Restorable, InFlight, Advances, Kept
  <1>7. QED  BY <1>5, <1>6, CtlStageWrite

\* The restore pod names the checkpoint of a sound copy.
LEMMA createTargetStep == ASSUME IInv, createTarget PROVE IInv'
  <1>1. /\ pc = "createTarget"
        /\ UNCHANGED <<objVars, seen, workVars, trig, load, due, lost, resets>>
    BY DEF createTarget
  <1>2. ObjOK' /\ RestOK'
    <2>1. trouble' \in Nat  BY DEF createTarget, Trouble, IInv, RestOK
    <2>2. QED  BY <1>1, <2>1, ObjFrame DEF IInv, RestOK, workVars
  <1>3. /\ m \in App /\ Sound(m, s3) /\ m.stage = "Uploaded"
        /\ m.gen + 1 \in Nat /\ m.dump \in s3 /\ m.dump \in Pods \cup {NoPod}
    BY <1>1 DEF IInv, CtlOK, StageAtStep, Sound, Restorable, App
  <1>4. CASE fsmTransitionToRestoreFailed /\ UNCHANGED podVars
    <2>1. CtlOK'
      BY <1>1, <1>3, <1>4, RestoreFailedWritten DEF IInv, objVars, workVars
    <2>2. QED  BY <1>1, <1>2, <1>4, <2>1, PodsFrame DEF IInv, workVars
  <1>5. CASE /\ CanCreate(m.gen + 1) /\ CreatePod(m.gen + 1, m.dump)
             /\ pc' = "waitRunning" /\ tgt' = created + 1
             /\ UNCHANGED <<m, snapOK, pod, after>>
    <2>1. PodsOK' /\ created' \in Pods
      BY <1>1, <1>3, <1>5, CreateKeepsPods DEF IInv, workVars
    <2>2. tgt' \in Pods  BY <1>5, <2>1 DEF CreatePod
    <2>3. CtlOK'
      BY <1>1, <1>5, <2>2
         DEF IInv, CtlOK, Pcs, StageAtStep, PodAtStep, SnapshotCurrent, objVars,
             workVars
    <2>4. QED  BY <1>2, <2>1, <2>3 DEF IInv
  <1>6. QED  BY <1>4, <1>5 DEF createTarget

\* Restoring is written for the same checkpoint.
LEMMA targetRunningStep == ASSUME IInv, targetRunning PROVE IInv'
  <1> DEFINE b == [m EXCEPT !.target = tgt, !.latch = FALSE]
  <1>1. /\ pc = "waitRunning" /\ UpdateStatusTo(setStage(b, "Restoring"), "idle")
        /\ UNCHANGED <<objVars, podVars, seen, workVars, trig, load, due,
                       trouble, lost, resets>>
    BY DEF targetRunning
  <1>2. ObjOK' /\ PodsOK' /\ RestOK'
    BY <1>1, ObjFrame, PodsFrame DEF IInv, RestOK, workVars
  <1>3. /\ m \in App /\ Sound(m, s3) /\ m.stage = "Uploaded"
        /\ tgt \in Pods \cup {NoPod}
    BY <1>1 DEF IInv, CtlOK, StageAtStep
  <1>4. b \in App /\ b.maxR = m.maxR /\ b.ann = m.ann /\ Kept(m, b)
    BY <1>3 DEF App, Kept
  <1> HIDE DEF b
  <1>5. "Restoring" \in Stages  BY DEF Stages, InFlight
  <1>6. /\ pc' = "write" /\ after' = "idle" /\ UNCHANGED <<snapOK, pod, tgt>>
        /\ m' \in App /\ m'.stage = "Restoring" /\ m'.ann = m.ann
        /\ m'.maxR = (IF m.maxR = 0 THEN MaxRetries ELSE m.maxR) /\ Kept(m, m')
    BY <1>1, <1>4, <1>5, StageWritten DEF Kept
  <1>7. Sound(m', s3') /\ Advances(m, m')
    BY <1>1, <1>3, <1>6 DEF Sound, Restorable, InFlight, Advances, Kept, workVars
  <1>8. CtlOK'  BY <1>1, <1>6, <1>7, CtlStageWrite DEF IInv, objVars
  <1>9. QED  BY <1>2, <1>8 DEF IInv

\* A target that never ran is a failed attempt.
LEMMA targetNotRunningStep == ASSUME IInv, targetNotRunning PROVE IInv'
  <1>1. /\ pc = "waitRunning" /\ fsmTransitionToRestoreFailed
        /\ UNCHANGED <<objVars, created, podGen, podDump, seen, workVars, trig,
                       load, due, lost, resets>>
    BY DEF targetNotRunning
  <1>2. podSt' \in [Pods -> PodStates] /\ trouble' \in Nat
    BY DeletedType DEF targetNotRunning, Trouble, IInv, PodsOK, RestOK
  <1>3. ObjOK' /\ PodsOK' /\ RestOK'
    BY <1>1, <1>2, ObjFrame DEF IInv, PodsOK, RestOK, workVars
  <1>4. CtlOK'
    BY <1>1, RestoreFailedWritten DEF IInv, CtlOK, StageAtStep, objVars, workVars
  <1>5. QED  BY <1>3, <1>4 DEF IInv

\* The success is written: stage Idle, one record.
LEMMA restoreOKStep == ASSUME IInv, restoreOK PROVE IInv'
  <1>0. \E r \in {"dead", "live"} : proc' = [proc EXCEPT ![m.target] = r]
    BY DEF restoreOK
  <1>1. /\ pc = "restore"
        /\ m' = [resetMigrationFSM(m) EXCEPT !.gen = @ + 1, !.cur = m.target,
                                             !.ok = @ + 1, !.phase = "Running"]
        /\ pc' = "write" /\ after' = "cleanup" /\ UNCHANGED <<snapOK, pod, tgt>>
        /\ UNCHANGED <<objVars, podVars, seen, s3, trig, load, due, trouble,
                       lost, resets>>
    BY DEF restoreOK, UpdateStatusTo
  <1>2. ObjOK' /\ PodsOK' /\ RestOK'
    BY <1>0, <1>1, ObjFrame, PodsFrame DEF IInv, RestOK
  <1>3. m \in App /\ m.stage = "Restoring" /\ m.gen + 1 \in Nat /\ m.ok + 1 \in Nat
    BY <1>1 DEF IInv, CtlOK, StageAtStep, App
  <1>4. /\ m' \in App /\ m'.stage = "Idle" /\ m'.phase = "Running" /\ m'.maxR = 0
        /\ m'.retry = 0 /\ m'.dump = NoPod /\ m'.ok = m.ok + 1 /\ m'.bad = m.bad
        /\ m'.ann = m.ann
    <2> DEFINE r == resetMigrationFSM(m)
    <2>1. /\ r \in App /\ r.stage = "Idle" /\ r.retry = 0 /\ r.maxR = 0
          /\ r.dump = NoPod /\ r.gen = m.gen /\ r.ok = m.ok /\ r.bad = m.bad
          /\ r.ann = m.ann
      BY <1>3, ResetFacts
    <2>2. m' = [r EXCEPT !.gen = m.gen + 1, !.cur = m.target, !.ok = m.ok + 1,
                         !.phase = "Running"]
      BY <1>1, <2>1
    <2> HIDE DEF r
    <2>3. m.target \in Pods \cup {NoPod}  BY <1>3 DEF App
    <2>4. QED  BY <1>3, <2>1, <2>2, <2>3 DEF App, Phases
  <1>5. Sound(m', s3') /\ Advances(m, m')
    BY <1>3, <1>4, ControllerAssumptions DEF Sound, Restorable, Advances
  <1>6. snapOK => Advances(api, m')
    BY <1>1, <1>5 DEF IInv, CtlOK, SnapshotCurrent
  <1>7. CtlOK'  BY <1>1, <1>4, <1>5, <1>6, CtlWrite DEF IInv, objVars
  <1>8. QED  BY <1>2, <1>7 DEF IInv

\* A failed or lost Restore answer is a failed attempt.
LEMMA restoreErrorStep == ASSUME IInv, restoreError PROVE IInv'
  <1>1. /\ pc = "restore" /\ fsmTransitionToRestoreFailed
        /\ UNCHANGED <<objVars, podVars, seen, s3, trig, load, due, trouble,
                       lost, resets>>
    BY DEF restoreError
  <1>2. proc' \in [Pods -> {"none", "live", "dead"}]
    BY DEF restoreError, IInv, RestOK
  <1>3. ObjOK' /\ PodsOK' /\ RestOK'
    BY <1>1, <1>2, ObjFrame, PodsFrame DEF IInv, RestOK
  <1>4. CtlOK'
    BY <1>1, RestoreFailedWritten DEF IInv, CtlOK, StageAtStep, objVars
  <1>5. QED  BY <1>3, <1>4 DEF IInv

\* The clean-up deletes a pod and touches no status.
LEMMA cleanupSourceStep == ASSUME IInv, cleanupSource PROVE IInv'
  <1>1. /\ EndReconcile
        /\ UNCHANGED <<objVars, created, podGen, podDump, seen, workVars, trig,
                       load, due, lost, resets>>
    BY DEF cleanupSource
  <1>2. podSt' \in [Pods -> PodStates] /\ trouble' \in Nat
    BY DeletedType DEF cleanupSource, Trouble, IInv, PodsOK, RestOK
  <1>3. ObjOK' /\ PodsOK' /\ RestOK'
    BY <1>1, <1>2, ObjFrame DEF IInv, PodsOK, RestOK, workVars
  <1>4. QED  BY <1>1, <1>3, CtlEnd DEF IInv

\* Failed is written with one failure record, the budget spent.
LEMMA giveUpStep == ASSUME IInv, giveUp PROVE IInv'
  <1> DEFINE b == [m EXCEPT !.bad = @ + 1]
  <1>1. /\ pc = "restoreFailed" /\ m.retry >= m.maxR
        /\ UpdateStatusTo(setStage(b, "Failed"), "idle")
        /\ UNCHANGED <<objVars, podVars, seen, workVars, trig, load, due,
                       trouble, lost, resets>>
    BY DEF giveUp, budgetSpent
  <1>2. ObjOK' /\ PodsOK' /\ RestOK'
    BY <1>1, ObjFrame, PodsFrame DEF IInv, RestOK, workVars
  <1>3. m \in App /\ Sound(m, s3) /\ m.stage = "RestoreFailed"
    BY <1>1 DEF IInv, CtlOK, StageAtStep
  <1>4. /\ b \in App /\ b.maxR = m.maxR /\ b.ann = m.ann /\ b.retry = m.retry
        /\ b.ok = m.ok /\ b.bad = m.bad + 1 /\ b.dump = m.dump
    <2>1. m.bad + 1 \in Nat  BY <1>3 DEF App
    <2>2. QED  BY <1>3, <2>1 DEF App
  <1> HIDE DEF b
  <1>5. "Failed" \in Stages  BY DEF Stages, Terminal
  <1>6. /\ pc' = "write" /\ after' = "idle" /\ UNCHANGED <<snapOK, pod, tgt>>
        /\ m' \in App /\ m'.stage = "Failed" /\ m'.ann = m.ann
        /\ m'.phase = "Migrating" => "Failed" \in InFlight
        /\ m'.maxR = (IF m.maxR = 0 THEN MaxRetries ELSE m.maxR)
        /\ m'.retry = m.retry /\ m'.dump = m.dump /\ m'.ok = m.ok
        /\ m'.bad = m.bad + 1
    BY <1>1, <1>4, <1>5, StageWritten
  <1>7. m.retry = MaxRetries
    BY <1>1, <1>3, ControllerAssumptions DEF Sound, App
  <1>8. Sound(m', s3') /\ Advances(m, m')
    BY <1>1, <1>3, <1>6, <1>7 DEF Sound, Restorable, Advances, workVars
  <1>9. CtlOK'  BY <1>1, <1>6, <1>8, CtlStageWrite DEF IInv, objVars
  <1>10. QED  BY <1>2, <1>9 DEF IInv

\* Waiting changes nothing but the step.
LEMMA awaitBackoffStep == ASSUME IInv, awaitBackoff PROVE IInv'
  BY CtlEnd, ObjFrame, PodsFrame DEF awaitBackoff, IInv, RestOK, workVars

\* Deleting the stale target touches no status.
LEMMA deleteStaleTargetStep == ASSUME IInv, deleteStaleTarget PROVE IInv'
  <1>1. /\ EndReconcile
        /\ UNCHANGED <<objVars, created, podGen, podDump, seen, workVars, trig,
                       load, due, lost, resets>>
    BY DEF deleteStaleTarget
  <1>2. podSt' \in [Pods -> PodStates] /\ trouble' \in Nat
    BY DeletedType DEF deleteStaleTarget, Trouble, IInv, PodsOK, RestOK
  <1>3. ObjOK' /\ PodsOK' /\ RestOK'
    BY <1>1, <1>2, ObjFrame DEF IInv, PodsOK, RestOK, workVars
  <1>4. QED  BY <1>1, <1>3, CtlEnd DEF IInv

\* The next attempt is written for the same checkpoint.
LEMMA retryRestoreStep == ASSUME IInv, retryRestore PROVE IInv'
  <1> DEFINE b == [m EXCEPT !.retry = @ + 1, !.target = NoPod]
  <1>1. /\ pc = "restoreFailed" /\ ~(m.retry >= m.maxR)
        /\ UpdateStatusTo(setStage(b, "Uploaded"), "idle")
        /\ UNCHANGED <<objVars, podVars, seen, workVars, trig, load, due,
                       trouble, lost, resets>>
    BY DEF retryRestore, nextAttempt, budgetSpent
  <1>2. ObjOK' /\ PodsOK' /\ RestOK'
    BY <1>1, ObjFrame, PodsFrame DEF IInv, RestOK, workVars
  <1>3. /\ m \in App /\ Sound(m, s3) /\ m.stage = "RestoreFailed"
        /\ m.retry \in Nat /\ m.maxR = MaxRetries
    BY <1>1 DEF IInv, CtlOK, StageAtStep, App, Sound
  <1>4. /\ b \in App /\ b.maxR = m.maxR /\ b.ann = m.ann
        /\ b.retry = m.retry + 1
        /\ b.ok = m.ok /\ b.bad = m.bad /\ b.dump = m.dump
    <2>1. m.retry + 1 \in Nat  BY <1>3
    <2>2. QED  BY <1>3, <2>1 DEF App, NoPod
  <1> HIDE DEF b
  <1>5. "Uploaded" \in Stages  BY DEF Stages, InFlight
  <1>6. /\ pc' = "write" /\ after' = "idle" /\ UNCHANGED <<snapOK, pod, tgt>>
        /\ m' \in App /\ m'.stage = "Uploaded" /\ m'.ann = m.ann
        /\ m'.maxR = (IF m.maxR = 0 THEN MaxRetries ELSE m.maxR)
        /\ m'.retry = m.retry + 1 /\ m'.dump = m.dump /\ m'.ok = m.ok
        /\ m'.bad = m.bad
    BY <1>1, <1>4, <1>5, StageWritten
  <1>7. m.retry < MaxRetries
    BY <1>1, <1>3, ControllerAssumptions
  <1>8. Sound(m', s3') /\ Advances(m, m')
    BY <1>1, <1>3, <1>6, <1>7, ControllerAssumptions
       DEF Sound, Restorable, InFlight, Advances, workVars
  <1>9. CtlOK'  BY <1>1, <1>6, <1>8, CtlStageWrite DEF IInv, objVars
  <1>10. QED  BY <1>2, <1>9 DEF IInv

\* A reset is written from a terminal stage only.
LEMMA checkRetryAnnotationStep == ASSUME IInv, checkRetryAnnotation PROVE IInv'
  <1> DEFINE r == resetMigrationFSM(m)
  <1>1. /\ pc = "retry" /\ m' = [r EXCEPT !.phase = "Pending"]
        /\ pc' = "write" /\ after' = "dropAnn" /\ UNCHANGED <<snapOK, pod, tgt>>
        /\ UNCHANGED <<objVars, created, podGen, podDump, seen, workVars, trig,
                       load, due, lost, resets>>
    BY DEF checkRetryAnnotation, UpdateStatusTo
  <1>2. podSt' \in [Pods -> PodStates] /\ trouble' \in Nat
    BY DeletedType DEF checkRetryAnnotation, Trouble, IInv, PodsOK, RestOK
  <1>3. ObjOK' /\ PodsOK' /\ RestOK'
    BY <1>1, <1>2, ObjFrame DEF IInv, PodsOK, RestOK, workVars
  <1>4. m \in App /\ m.stage \in Terminal /\ m.ann
    BY <1>1 DEF IInv, CtlOK, StageAtStep
  <1>5. /\ r \in App /\ r.stage = "Idle" /\ r.retry = 0 /\ r.maxR = 0
        /\ r.dump = NoPod /\ r.ok = m.ok /\ r.bad = m.bad /\ r.ann = m.ann
    BY <1>4, ResetFacts
  <1> HIDE DEF r
  <1>6. /\ m' \in App /\ m'.phase = "Pending" /\ m'.stage = "Idle"
        /\ m'.retry = 0 /\ m'.maxR = 0 /\ m'.dump = NoPod
        /\ m'.ok = m.ok /\ m'.bad = m.bad /\ m'.ann = m.ann
    BY <1>1, <1>5 DEF App, Phases
  <1>7. Sound(m', s3') /\ Resets(m, m')
    BY <1>4, <1>6, ControllerAssumptions DEF Sound, Restorable, Resets
  <1>8. snapOK => Resets(api, m')
    BY <1>1, <1>7 DEF IInv, CtlOK, SnapshotCurrent
  <1>9. CtlOK'  BY <1>1, <1>6, <1>7, <1>8, CtlWrite DEF IInv, objVars
  <1>10. QED  BY <1>3, <1>9 DEF IInv

\* Changing the annotation of the stored object leaves its status alone.
LEMMA AnnotationKeepsObj ==
    ASSUME ObjOK, NEW ann \in BOOLEAN, api' = [api EXCEPT !.ann = ann],
           cacheOK' = FALSE, UNCHANGED <<cache, s3, resets>>
    PROVE  ObjOK'
  <1>1. /\ api' \in App /\ api'.stage = api.stage /\ api'.dump = api.dump
        /\ api'.phase = api.phase /\ api'.maxR = api.maxR
        /\ api'.retry = api.retry /\ api'.bad = api.bad
    BY DEF ObjOK, App
  <1>2. Sound(api', s3')  BY <1>1 DEF ObjOK, Sound
  <1>3. OneRecordPerOutcome'
    BY <1>1 DEF ObjOK, OneRecordPerOutcome, isTerminalStage
  <1>4. cacheOK' \in BOOLEAN  OBVIOUS
  <1>5. QED  BY <1>1, <1>2, <1>3, <1>4 DEF ObjOK

\* Dropping the annotation writes nothing else.
LEMMA dropRetryAnnotationStep == ASSUME IInv, dropRetryAnnotation PROVE IInv'
  <1>1. /\ EndReconcile
        /\ UNCHANGED <<cache, podVars, seen, workVars, trig, load, due, trouble,
                       lost, resets>>
    BY DEF dropRetryAnnotation
  <1>2. ObjOK'
    <2>1. CASE snapOK
      BY <1>1, <2>1, AnnotationKeepsObj DEF dropRetryAnnotation, IInv, workVars
    <2>2. CASE ~snapOK
      BY <1>1, <2>2, ObjFrame DEF dropRetryAnnotation, IInv, workVars, objVars
    <2>3. QED  BY <2>1, <2>2
  <1>3. QED
    BY <1>1, <1>2, CtlEnd, PodsFrame DEF IInv, RestOK, workVars

\* Every step of a reconcile keeps the invariant.
LEMMA ControllerStep == ASSUME IInv, Controller PROVE IInv'
  <1>1. ASSUME dumpingGuard \/ uploadedGuard PROVE IInv'
    BY <1>1, freshGuardStep DEF dumpingGuard, uploadedGuard
  <1>2. QED
    BY <1>1, ReconcileStep, StatusUpdateStep, createInitialPodStep,
       startMigrationStep, recreatePodDeleteStep, recreatePodCreateStep,
       refreshStatusStep, quiesceDoneStep, quiesceActStep, finalDumpOKStep,
       finalDumpErrorStep, createTargetStep, targetRunningStep,
       targetNotRunningStep, restoreOKStep, restoreErrorStep, cleanupSourceStep,
       giveUpStep, awaitBackoffStep, deleteStaleTargetStep, retryRestoreStep,
       checkRetryAnnotationStep, dropRetryAnnotationStep
       DEF Controller

-----------------------------------------------------------------------------
(***************************************************************************)
(* The steps of the cluster and the disturbances.                          *)
(***************************************************************************)
LEMMA ClusterStep == ASSUME IInv, Cluster PROVE IInv'
  <1>1. CASE CacheSync
    <2>1. /\ cache' = api /\ cacheOK' = TRUE
          /\ UNCHANGED <<api, ctlVars, podVars, seen, workVars, trig, load, due,
                         trouble, lost, resets>>
      BY <1>1 DEF CacheSync
    <2>2. cacheOK' \in BOOLEAN  BY <2>1
    <2>3. ObjOK'
      BY <2>1, <2>2 DEF IInv, ObjOK, OneRecordPerOutcome, workVars
    <2>4. QED
      BY <2>1, <2>3, CtlFrame, PodsFrame DEF IInv, RestOK, workVars
  <1>2. CASE PodSync
    <2>1. /\ seen' = podSt
          /\ UNCHANGED <<objVars, ctlVars, podVars, workVars, trig, load, due,
                         trouble, lost, resets>>
      BY <1>2 DEF PodSync
    <2>2. QED
      BY <2>1, CtlFrame, ObjFrame, PodsFrame
         DEF IInv, RestOK, PodsOK, workVars, objVars
  <1>3. CASE TimePasses
    <2>1. /\ due' = TRUE
          /\ UNCHANGED <<objVars, ctlVars, podVars, seen, workVars, trig, load,
                         trouble, lost, resets>>
      BY <1>3 DEF TimePasses
    <2>2. due' \in BOOLEAN  BY <2>1
    <2>3. QED
      BY <2>1, <2>2, CtlFrame, ObjFrame, PodsFrame
         DEF IInv, RestOK, workVars, objVars
  <1>4. ASSUME NEW p \in Pods, PodStart(p) \/ PodGone(p) PROVE IInv'
    <2>1. /\ podSt' \in [Pods -> PodStates]
          /\ proc' \in [Pods -> {"none", "live", "dead"}]
          /\ UNCHANGED <<objVars, ctlVars, created, podGen, podDump, seen, s3,
                         trig, load, due, trouble, lost, resets>>
      BY <1>4 DEF PodStart, PodGone, PodStates, IInv, PodsOK, RestOK
    <2>2. QED
      BY <2>1, CtlFrame, ObjFrame DEF IInv, RestOK, PodsOK, objVars
  <1>5. ASSUME NEW l \in LoadPods, LoadPodGone(l) PROVE IInv'
    <2>1. /\ load' \in [LoadPods -> LoadStates]
          /\ UNCHANGED <<objVars, ctlVars, podVars, seen, workVars, trig, due,
                         trouble, lost, resets>>
      BY <1>5 DEF LoadPodGone, LoadStates, IInv, RestOK
    <2>2. QED
      BY <2>1, CtlFrame, ObjFrame, PodsFrame DEF IInv, RestOK, workVars, objVars
  <1>6. QED  BY <1>1, <1>2, <1>3, <1>4, <1>5 DEF Cluster

\* Edits, crashes, lost pods and refused writes keep the invariant.
LEMMA DisturbanceStep == ASSUME IInv, Disturbance PROVE IInv'
  <1>0. ASSUME Trouble PROVE trouble' \in Nat
    BY <1>0 DEF Trouble, IInv, RestOK
  <1>1. ASSUME NEW p \in Pods, PodLost(p) PROVE IInv'
    <2>1. /\ podSt' \in [Pods -> PodStates]
          /\ proc' \in [Pods -> {"none", "live", "dead"}]
          /\ UNCHANGED <<objVars, ctlVars, created, podGen, podDump, seen, s3,
                         trig, load, due, resets>>
      BY <1>1 DEF PodLost, PodStates, IInv, PodsOK, RestOK
    <2>2. trouble' \in Nat  BY <1>0, <1>1 DEF PodLost
    <2>3. lost' \in BOOLEAN  BY <1>1 DEF PodLost
    <2>4. QED
      BY <2>1, <2>2, <2>3, CtlFrame, ObjFrame DEF IInv, RestOK, PodsOK, objVars
  <1>2. ASSUME NEW l \in LoadPods, LoadPodReplaced(l) PROVE IInv'
    <2>1. /\ load' \in [LoadPods -> LoadStates]
          /\ UNCHANGED <<objVars, ctlVars, podVars, seen, workVars, trig, due,
                         lost, resets>>
      BY <1>2 DEF LoadPodReplaced, LoadStates, IInv, RestOK
    <2>2. trouble' \in Nat  BY <1>0, <1>2 DEF LoadPodReplaced
    <2>3. QED
      BY <2>1, <2>2, CtlFrame, ObjFrame, PodsFrame
         DEF IInv, RestOK, workVars, objVars
  <1>3. CASE UserEdit
    <2>1. /\ cacheOK' = FALSE /\ snapOK' = FALSE /\ Trouble
          /\ UNCHANGED <<api, cache, pc, m, pod, tgt, after, podVars, seen,
                         workVars, trig, load, due, lost, resets>>
      BY <1>3 DEF UserEdit
    <2>2. trouble' \in Nat  BY <1>0, <2>1
    <2>3. cacheOK' \in BOOLEAN  BY <2>1
    <2>4. ObjOK'
      BY <2>1, <2>3 DEF IInv, ObjOK, OneRecordPerOutcome, workVars
    <2>5. QED
      BY <2>1, <2>2, <2>4, CtlStale, PodsFrame DEF IInv, RestOK, workVars
  <1>4. CASE UserRequestsRetry
    <2>1. /\ api' = [api EXCEPT !.ann = TRUE]
          /\ cacheOK' = FALSE /\ snapOK' = FALSE /\ Trouble
          /\ UNCHANGED <<cache, pc, m, pod, tgt, after, podVars, seen, workVars,
                         trig, load, due, lost, resets>>
      BY <1>4 DEF UserRequestsRetry
    <2>2. trouble' \in Nat  BY <1>0, <2>1
    <2>3. ObjOK'  BY <2>1, AnnotationKeepsObj DEF IInv, workVars
    <2>4. QED
      BY <2>1, <2>2, <2>3, CtlStale, PodsFrame DEF IInv, RestOK, workVars
  <1>5. CASE Crash
    <2>1. /\ EndReconcile /\ Trouble
          /\ cache' = api /\ cacheOK' = TRUE /\ seen' = podSt
          /\ UNCHANGED <<api, podVars, workVars, trig, load, due, lost, resets>>
      BY <1>5 DEF Crash
    <2>2. trouble' \in Nat  BY <1>0, <2>1
    <2>3. cacheOK' \in BOOLEAN  BY <2>1
    <2>4. ObjOK'
      BY <2>1, <2>3 DEF IInv, ObjOK, OneRecordPerOutcome, workVars
    <2>5. QED
      BY <2>1, <2>2, <2>4, CtlEnd, PodsFrame DEF IInv, RestOK, PodsOK, workVars
  <1>6. CASE WriteError
    <2>1. /\ EndReconcile /\ Trouble
          /\ UNCHANGED <<objVars, podVars, seen, workVars, trig, load, due,
                         lost, resets>>
      BY <1>6 DEF WriteError
    <2>2. trouble' \in Nat  BY <1>0, <2>1
    <2>3. QED
      BY <2>1, <2>2, CtlEnd, ObjFrame, PodsFrame DEF IInv, RestOK, workVars
  <1>7. QED  BY <1>1, <1>2, <1>3, <1>4, <1>5, <1>6 DEF Disturbance

-----------------------------------------------------------------------------
(***************************************************************************)
(* The theorems.                                                           *)
(***************************************************************************)
LEMMA InitIInv == ASSUME Init PROVE IInv
  <1>1. CtlOK
    BY NewAppFacts
       DEF Init, CtlOK, Pcs, StageAtStep, PodAtStep, SnapshotCurrent, NoPod
  <1>2. ObjOK
    <2>1. cacheOK \in BOOLEAN  BY DEF Init
    <2>2. NewApp.bad = 0 /\ NewApp.stage \notin Terminal
      BY DEF NewApp, Terminal
    <2>3. QED
      BY <2>1, <2>2, NewAppFacts
         DEF Init, ObjOK, OneRecordPerOutcome, isTerminalStage
  <1>3. PodsOK
    BY ControllerAssumptions DEF Init, PodsOK, PodStates, NoPod
  <1>4. RestOK
    <2>1. due \in BOOLEAN /\ lost \in BOOLEAN  BY DEF Init
    <2>2. QED  BY <2>1 DEF Init, RestOK, PodStates, LoadStates
  <1>5. QED  BY <1>1, <1>2, <1>3, <1>4 DEF IInv

\* Every step of the system, or stuttering, keeps the invariant.
LEMMA StepIInv == ASSUME IInv, [Next]_vars PROVE IInv'
  <1>1. CASE UNCHANGED vars
    BY <1>1, CtlFrame, ObjFrame, PodsFrame
       DEF vars, IInv, RestOK, objVars, workVars
  <1>2. QED
    BY <1>1, ControllerStep, ClusterStep, DisturbanceStep DEF Next

\* IInv is an invariant of the controller, whatever it races with.
THEOREM Invariance == Spec => []IInv
  BY InitIInv, StepIInv, PTL DEF Spec

\* Every variable keeps its type.
THEOREM TypeCorrect == Spec => []TypeOK
  <1>1. ASSUME IInv PROVE TypeOK
    BY <1>1 DEF IInv, CtlOK, ObjOK, PodsOK, RestOK, TypeOK
  <1>2. QED  BY <1>1, Invariance, PTL

\* Whatever stale snapshot a handler works from, a stage that promises a
\* checkpoint and a pod built to restore one name a completely uploaded one.
THEOREM CheckpointIsUploaded == Spec => []CheckpointUploaded
  <1>1. ASSUME IInv PROVE CheckpointUploaded
    BY <1>1 DEF IInv, ObjOK, PodsOK, Sound, CheckpointUploaded
  <1>2. QED  BY <1>1, Invariance, PTL

\* Phase "Migrating" is never stored with a stage no handler leaves.
THEOREM MigratingNeverStuck == Spec => []MigratingIsInFlight
  <1>1. ASSUME IInv PROVE MigratingIsInFlight
    BY <1>1 DEF IInv, ObjOK, Sound, MigratingIsInFlight
  <1>2. QED  BY <1>1, Invariance, PTL

\* Exactly one failure record per terminal outcome, through conflicts,
\* crashes and user resets.
THEOREM OneRecordEach == Spec => []OneRecordPerOutcome
  <1>1. ASSUME IInv PROVE OneRecordPerOutcome
    BY <1>1 DEF IInv, ObjOK
  <1>2. QED  BY <1>1, Invariance, PTL

\* Storing an advance of the object is a step of the lifecycle.
LEMMA AdvanceIsLifecycleStep ==
    ASSUME Advances(api, api'), resets' = resets
    PROVE  [Lifecycle!Next]_(Lifecycle!lifecycleVars)
  <1>1. CASE api'.stage = api.stage /\ Kept(api, api')
    BY <1>1 DEF Advances, Kept, Lifecycle!lifecycleVars
  <1>2. CASE api.stage = "Idle" /\ api'.stage \in {"Quiescing", "Dumping"}
    BY <1>2 DEF Advances, Kept, Lifecycle!Next, Lifecycle!Start
  <1>3. CASE api.stage = "Quiescing" /\ api'.stage = "Dumping"
    BY <1>3 DEF Advances, Kept, Lifecycle!Next, Lifecycle!Quiesced
  <1>4. CASE api.stage = "Dumping" /\ api'.stage = "Uploaded"
    BY <1>4 DEF Advances, Kept, Lifecycle!Next, Lifecycle!Dumped
  <1>5. CASE api.stage = "Dumping" /\ api'.stage = "FinalDumpFailed"
    BY <1>5 DEF Advances, Kept, Lifecycle!Next, Lifecycle!DumpFailed
  <1>6. CASE api.stage = "Uploaded" /\ api'.stage = "Restoring"
    BY <1>6 DEF Advances, Kept, Lifecycle!Next, Lifecycle!TargetPlaced
  <1>7. CASE api.stage \in {"Uploaded", "Restoring"} /\ api'.stage = "RestoreFailed"
    BY <1>7 DEF Advances, Kept, Lifecycle!Next, Lifecycle!AttemptFailed
  <1>8. CASE api.stage = "RestoreFailed" /\ api'.stage = "Uploaded"
    BY <1>8 DEF Advances, Kept, Lifecycle!Next, Lifecycle!Retry
  <1>9. CASE api.stage = "RestoreFailed" /\ api'.stage = "Failed"
    BY <1>9 DEF Advances, Kept, Lifecycle!Next, Lifecycle!GiveUp
  <1>10. CASE api.stage = "Restoring" /\ api'.stage = "Idle"
    BY <1>10 DEF Advances, Kept, Lifecycle!Next, Lifecycle!Complete
  <1>11. QED
    BY <1>1, <1>2, <1>3, <1>4, <1>5, <1>6, <1>7, <1>8, <1>9, <1>10 DEF Advances

\* Steps that leave the stored object alone are stutters of the lifecycle.
LEMMA KeptIsStutter ==
    ASSUME UNCHANGED <<api, resets>>
    PROVE  [Lifecycle!Next]_(Lifecycle!lifecycleVars)
  BY DEF Lifecycle!lifecycleVars

\* A stored status update is one step of the lifecycle.
LEMMA StatusUpdateImplements ==
    ASSUME IInv, StatusUpdate
    PROVE  [Lifecycle!Next]_(Lifecycle!lifecycleVars)
  <1>1. CASE ~snapOK  BY <1>1, KeptIsStutter DEF StatusUpdate
  <1>2. CASE snapOK
    <2>1. /\ api' = m
          /\ resets' = IF after = "dropAnn" THEN resets + 1 ELSE resets
      BY <1>2 DEF StatusUpdate
    <2>2. IF after = "dropAnn" THEN Resets(api, api') ELSE Advances(api, api')
      BY <1>2, <2>1 DEF StatusUpdate, IInv, CtlOK, SnapshotCurrent
    <2>3. CASE after = "dropAnn"
      <3>1. api.ann \in BOOLEAN /\ api'.ann \in BOOLEAN
        BY <2>1 DEF IInv, ObjOK, CtlOK, App
      <3>2. Resets(api, api') /\ resets' = resets + 1  BY <2>1, <2>2, <2>3
      <3>3. api'.ann = api.ann  BY <3>1, <3>2 DEF Resets
      <3>4. QED
        BY <3>2, <3>3
           DEF Resets, Lifecycle!Next, Lifecycle!Reset, Lifecycle!TerminalStages,
               Terminal
    <2>4. CASE after # "dropAnn"
      BY <2>1, <2>2, <2>4, AdvanceIsLifecycleStep
    <2>5. QED  BY <2>3, <2>4
  <1>3. QED  BY <1>1, <1>2

\* Setting or dropping the retry annotation is a step of the lifecycle.
LEMMA AnnotationImplements ==
    ASSUME IInv, dropRetryAnnotation \/ UserRequestsRetry
    PROVE  [Lifecycle!Next]_(Lifecycle!lifecycleVars)
  <1>1. api \in App /\ api.ann \in BOOLEAN  BY DEF IInv, ObjOK, App
  <1>2. CASE UserRequestsRetry
    <2>1. /\ ~api.ann /\ api' = [api EXCEPT !.ann = TRUE] /\ resets' = resets
      BY <1>2 DEF UserRequestsRetry
    <2>2. /\ api'.ann = TRUE /\ api'.stage = api.stage /\ api'.retry = api.retry
          /\ api'.dump = api.dump /\ api'.ok = api.ok /\ api'.bad = api.bad
      BY <1>1, <2>1 DEF App
    <2>3. QED  BY <2>1, <2>2 DEF Lifecycle!Next, Lifecycle!Request
  <1>3. CASE dropRetryAnnotation
    <2>1. CASE ~snapOK  BY <1>3, <2>1, KeptIsStutter DEF dropRetryAnnotation
    <2>2. CASE snapOK
      <3>1. api' = [api EXCEPT !.ann = FALSE] /\ resets' = resets
        BY <1>3, <2>2 DEF dropRetryAnnotation
      <3>2. /\ api'.ann = FALSE /\ api'.stage = api.stage
            /\ api'.retry = api.retry /\ api'.dump = api.dump
            /\ api'.ok = api.ok /\ api'.bad = api.bad
        BY <1>1, <3>1 DEF App
      <3>3. CASE api.ann
        BY <3>1, <3>2, <3>3 DEF Lifecycle!Next, Lifecycle!RequestDone
      <3>4. CASE ~api.ann
        BY <1>1, <3>1, <3>2, <3>4 DEF Lifecycle!lifecycleVars
      <3>5. QED  BY <3>3, <3>4
    <2>3. QED  BY <2>1, <2>2
  <1>4. QED  BY <1>2, <1>3

\* Every step is one of the lifecycle or leaves its variables alone.
LEMMA StepImplements ==
    ASSUME IInv, [Next]_vars
    PROVE  [Lifecycle!Next]_(Lifecycle!lifecycleVars)
  <1>1. CASE StatusUpdate  BY <1>1, StatusUpdateImplements
  <1>2. CASE dropRetryAnnotation \/ UserRequestsRetry
    BY <1>2, AnnotationImplements
  <1>3. CASE UNCHANGED <<api, resets>>  BY <1>3, KeptIsStutter
  <1>4. ASSUME Controller, ~StatusUpdate, ~dropRetryAnnotation
        PROVE  UNCHANGED <<api, resets>>
    BY <1>4
       DEF Controller, Reconcile, createInitialPod, startMigration,
           recreatePodDelete, recreatePodCreate, refreshStatus, quiesceDone,
           quiesceAct, dumpingGuard, uploadedGuard, freshGuard, finalDumpOK,
           finalDumpError, createTarget, targetRunning, targetNotRunning,
           restoreOK, restoreError, cleanupSource, giveUp, awaitBackoff,
           deleteStaleTarget, retryRestore, checkRetryAnnotation, objVars
  <1>5. ASSUME Cluster PROVE UNCHANGED <<api, resets>>
    BY <1>5
       DEF Cluster, CacheSync, PodSync, TimePasses, PodStart, PodGone,
           LoadPodGone, objVars
  <1>6. ASSUME Disturbance, ~UserRequestsRetry PROVE UNCHANGED <<api, resets>>
    BY <1>6
       DEF Disturbance, PodLost, LoadPodReplaced, UserEdit, Crash, WriteError,
           objVars
  <1>7. CASE UNCHANGED vars  BY <1>7, KeptIsStutter DEF vars, objVars
  <1>8. QED  BY <1>1, <1>2, <1>3, <1>4, <1>5, <1>6, <1>7 DEF Next

\* The controller implements the documented life of a migration, for every
\* number of retries and every race of its writes with stale snapshots.
THEOREM ControllerImplementsLifecycle == Spec => ImplementsLifecycle
  <1>1. ASSUME Init PROVE Lifecycle!Init
    BY <1>1 DEF Init, NewApp, Lifecycle!Init
  <1>2. QED
    BY <1>1, StepImplements, Invariance, PTL
       DEF Spec, ImplementsLifecycle, Lifecycle!Spec
=============================================================================
