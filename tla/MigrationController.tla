------------------------ MODULE MigrationController ------------------------
(***************************************************************************)
(* The controller of the operator reconciling one MigratableApp:           *)
(* pkg/controller/reconciler.go and pkg/controller/migration_fsm.go.       *)
(*                                                                         *)
(* One reconcile is a sequence of atomic steps (variable pc), cut wherever *)
(* the code leaves the process: a read or a write of the API server, an    *)
(* RPC to an agent, a wait.  Between two of them the user may edit the     *)
(* object, a pod may start, fail or disappear, and the controller may      *)
(* crash.  controller-runtime never runs two reconciles of one object at   *)
(* the same time, so there is a single pc.                                 *)
(*                                                                         *)
(* Objects are read through informer caches that lag behind the server     *)
(* (cache for the MigratableApp, seen for the pods) and written with       *)
(* optimistic concurrency.  resourceVersion is only ever compared for      *)
(* equality with the server's, so it is kept as two bits: cacheOK (the     *)
(* cache holds the newest version) and snapOK (the reconcile's copy was    *)
(* read from the newest version).                                          *)
(*                                                                         *)
(* Pods are numbered in the order of their creation; pod 0 is no pod.  A   *)
(* pod's workload can be dumped once (the dump kills it), so a checkpoint  *)
(* is named by the pod it was taken from.                                  *)
(*                                                                         *)
(* The object has its finalizer, is not being deleted and is not managed   *)
(* by the webhook.  Pre-checkpoints and what the agents do for an RPC are  *)
(* in CheckpointAgent; here autoAdjust leaves them to the agent.           *)
(***************************************************************************)
EXTENDS Naturals, FiniteSets

CONSTANTS
    MaxRetries,     \* defaultMaxRetries, migration_fsm.go
    PreDumpQuiesce, \* TRUE: migrationPolicy.preDumpQuiesce has a selector
    DebugPreserve,  \* TRUE: annotation migration.io/debug-preserve-source-pod
    LoadPods,       \* the load-generator pods the selector matches
    MaxPods,        \* bound: pods ever created; past it Create is refused
    MaxTriggers,    \* bound: pods whose migration is ever triggered
    MaxTrouble      \* bound: edits by users, crashes, failed calls, lost pods

ASSUME ControllerAssumptions ==
    /\ MaxRetries \in Nat \ {0}
    /\ MaxPods \in Nat \ {0}
    /\ MaxTriggers \in Nat /\ MaxTrouble \in Nat
    /\ PreDumpQuiesce \in BOOLEAN /\ DebugPreserve \in BOOLEAN
    /\ PreDumpQuiesce => LoadPods # {}

VARIABLES
    api,      \* the MigratableApp on the API server
    cache,    \* the informer's copy of it
    cacheOK,  \* cache holds the newest version
    pc,       \* next step of the running reconcile; "idle" between two
    m,        \* the reconcile's copy of the object (variable mapp)
    snapOK,   \* m was read from the version the server still holds
    pod,      \* the pod getCurrentPod returned (variable sourcePod)
    tgt,      \* the pod fsmUploadedHandler created (variable targetPod)
    after,    \* where the reconcile goes on when its status update succeeds
    created,  \* number of pods created so far
    podSt,    \* pod -> state on the API server
    podGen,   \* pod -> generation it was built for
    podDump,  \* pod -> checkpoint it is to restore, 0 in a normal pod
    seen,     \* pod -> state in the informer's copy
    proc,     \* pod -> state of the workload process in it
    trig,     \* pods whose migration trigger the controller has observed
    s3,       \* checkpoints completely uploaded
    load,     \* load-generator pod -> state
    due,      \* the backoff or drain time since LastTransitionTime is over
    trouble,  \* how much of MaxTrouble is used
    lost,     \* TRUE once a pod failed or disappeared by itself
    resets    \* resets persisted by checkRetryAnnotation

objVars  == <<api, cache, cacheOK>>
ctlVars  == <<pc, m, snapOK, pod, tgt, after>>
podVars  == <<created, podSt, podGen, podDump>>
workVars == <<proc, s3>>
vars     == <<objVars, ctlVars, podVars, seen, workVars, trig, load, due,
              trouble, lost, resets>>

-----------------------------------------------------------------------------
(***************************************************************************)
(* The MigratableApp: the fields of its status and metadata that the       *)
(* controller branches on.                                                 *)
(***************************************************************************)
Pods == 1..MaxPods
NoPod == 0

Terminal == {"FinalDumpFailed", "Failed"}
InFlight == {"Quiescing", "Dumping", "Uploaded", "Restoring", "RestoreFailed"}
Stages == {"Idle"} \cup InFlight \cup Terminal
Phases == {"", "Pending", "Running", "Migrating", "Failed"}

isTerminalStage(stage) == stage \in Terminal

\* MUTANT of phaseForStage: the case of the terminal stages is missing.
phaseWithoutTerminal(stage) == IF stage = "Idle" THEN "Running" ELSE "Migrating"

phaseForStage(stage) ==
    CASE stage = "Idle"         -> "Running"
      [] isTerminalStage(stage) -> "Failed"
      [] OTHER                  -> "Migrating"

App == [stage : Stages, phase : Phases, retry : Nat, maxR : Nat,
        dump : Pods \cup {NoPod}, target : Pods \cup {NoPod}, latch : BOOLEAN,
        gen : Nat, cur : Pods \cup {NoPod}, ok : Nat, bad : Nat, ann : BOOLEAN]

\* A MigratableApp as the user creates it: every status field zero.
NewApp == [stage |-> "Idle", phase |-> "", retry |-> 0, maxR |-> 0,
           dump |-> NoPod, target |-> NoPod, latch |-> FALSE,
           gen |-> 0, cur |-> NoPod, ok |-> 0, bad |-> 0, ann |-> FALSE]

\* What setStage changes besides the fields its caller mutates.
setStage(a, stage) ==
    [a EXCEPT !.stage = stage,
              !.maxR = IF @ = 0 THEN MaxRetries ELSE @,
              !.phase = phaseForStage(stage)]

resetMigrationFSM(a) ==
    [a EXCEPT !.stage = "Idle", !.retry = 0, !.maxR = 0, !.dump = NoPod,
              !.target = NoPod, !.latch = FALSE]

-----------------------------------------------------------------------------
(***************************************************************************)
(* Pods.                                                                   *)
(***************************************************************************)
PodStates == {"free", "pending", "running", "failed", "terminating", "gone"}
Up == {"pending", "running", "failed"}     \* exists, no DeletionTimestamp
Exists == Up \cup {"terminating"}
Reachable == {"running", "terminating"}    \* its agent can answer

\* r.Delete: the pod keeps running until its grace period ends.
Deleted(p) == [podSt EXCEPT ![p] = IF @ \in Up THEN "terminating" ELSE @]

\* getCurrentPod returns p: the newest pod without a DeletionTimestamp in the
\* cache, or none.
getCurrentPod(p) ==
    LET up == {q \in Pods : seen[q] \in Up}
    IN  IF p = NoPod THEN up = {} ELSE p \in up /\ \A q \in up : q <= p

\* Generation 0 pods have a fixed name; a pod that still exists occupies it.
NameTaken(gen) ==
    gen = 0 /\ \E p \in Pods : podSt[p] \in Exists /\ podGen[p] = 0

CanCreate(gen) == created < MaxPods /\ ~NameTaken(gen)

CreatePod(gen, dump) ==
    LET p == created + 1
    IN  /\ created' = p
        /\ podSt' = [podSt EXCEPT ![p] = "pending"]
        /\ podGen' = [podGen EXCEPT ![p] = gen]
        /\ podDump' = [podDump EXCEPT ![p] = dump]

Trouble == trouble < MaxTrouble /\ trouble' = trouble + 1

-----------------------------------------------------------------------------
(***************************************************************************)
(* The frame of a reconcile.                                               *)
(***************************************************************************)
EndReconcile ==
    /\ pc' = "idle" /\ m' = NewApp /\ snapOK' = FALSE
    /\ pod' = NoPod /\ tgt' = NoPod /\ after' = "idle"

\* The reconcile's next step is a status update of its copy w of the object.
UpdateStatusTo(w, next) ==
    /\ pc' = "write" /\ m' = w /\ after' = next
    /\ UNCHANGED <<snapOK, pod, tgt>>

GoTo(next) == pc' = next /\ UNCHANGED <<m, snapOK, pod, tgt, after>>

\* advanceMigrationFSM: the handler of each stage; none of a terminal one.
advanceMigrationFSM(stage) ==
    CASE stage = "Idle"          -> "steady"
      [] stage = "Quiescing"     -> "quiesce"
      [] stage = "Dumping"       -> "dump"
      [] stage = "Uploaded"      -> "uploaded"
      [] stage = "Restoring"     -> "restore"
      [] stage = "RestoreFailed" -> "restoreFailed"
      [] OTHER                   -> "idle"

\* Reconcile: read object and pods from the caches and choose the handler.
Reconcile ==
    /\ pc = "idle"
    /\ \E cur \in Pods \cup {NoPod} :
         /\ getCurrentPod(cur)
         /\ LET next == IF cache.ann /\ isTerminalStage(cache.stage) THEN "retry"
                        ELSE IF cur = NoPod THEN "create"
                        ELSE advanceMigrationFSM(cache.stage)
            IN  IF next = "idle" THEN EndReconcile
                ELSE /\ pc' = next
                     /\ m' = cache /\ snapOK' = cacheOK /\ pod' = cur
                     /\ tgt' = NoPod /\ after' = "idle"
    /\ UNCHANGED <<objVars, podVars, seen, workVars, trig, load, due,
                   trouble, lost, resets>>

\* Status().Update: applied if m stems from the newest version; otherwise
\* the conflict ends the reconcile, which is requeued.
StatusUpdate ==
    /\ pc = "write"
    /\ \/ /\ snapOK
          /\ api' = m /\ cacheOK' = FALSE
          /\ due' = (due /\ m.stage = api.stage /\ m.latch = api.latch)
          /\ resets' = IF after = "dropAnn" THEN resets + 1 ELSE resets
          /\ IF after = "idle" THEN EndReconcile ELSE GoTo(after)
       \/ /\ ~snapOK
          /\ EndReconcile
          /\ UNCHANGED <<api, cacheOK, due, resets>>
    /\ UNCHANGED <<cache, podVars, seen, workVars, trig, load, trouble, lost>>

-----------------------------------------------------------------------------
(***************************************************************************)
(* Stage Idle and the life of the source pod.                              *)
(***************************************************************************)
createInitialPod ==
    /\ pc = "create"
    /\ \/ /\ CanCreate(0)
          /\ CreatePod(0, NoPod)
          /\ UpdateStatusTo([m EXCEPT !.phase = "Pending", !.gen = 0,
                                      !.cur = created + 1], "idle")
       \/ /\ ~CanCreate(0)              \* AlreadyExists is returned
          /\ EndReconcile
          /\ UNCHANGED podVars
    /\ UNCHANGED <<objVars, seen, workVars, trig, load, due, trouble, lost, resets>>

\* The pod carries the trigger annotation or its node is cordoned: by the
\* node monitor or a user, at any time before, and from then on for good.
needsMigration == pod \in trig \/ Cardinality(trig) < MaxTriggers

\* The fields of the FSM start afresh.
startMigration ==
    /\ pc = "steady" /\ needsMigration
    /\ trig' = trig \cup {pod}
    /\ UpdateStatusTo(
          setStage([m EXCEPT !.retry = 0, !.latch = FALSE, !.dump = NoPod,
                             !.target = NoPod],
                   IF PreDumpQuiesce THEN "Quiescing" ELSE "Dumping"), "idle")
    /\ UNCHANGED <<objVars, podVars, seen, workVars, load, due, trouble, lost,
                   resets>>

\* recreatePod, first half: delete the failed pod.
recreatePodDelete ==
    /\ pc = "steady" /\ pod \notin trig /\ seen[pod] = "failed"
    /\ \/ /\ podSt[pod] \in Exists
          /\ podSt' = Deleted(pod)
          /\ GoTo("recreate") /\ UNCHANGED trouble
       \/ /\ podSt[pod] \notin Exists      \* NotFound is returned
          /\ EndReconcile /\ UNCHANGED <<podSt, trouble>>
       \/ Trouble /\ EndReconcile /\ UNCHANGED podSt
    /\ UNCHANGED <<objVars, created, podGen, podDump, seen, workVars, trig,
                   load, due, lost, resets>>

\* recreatePod, second half: a normal pod of the same generation.
recreatePodCreate ==
    /\ pc = "recreate"
    /\ \/ /\ CanCreate(m.gen)
          /\ CreatePod(m.gen, NoPod)
          /\ UpdateStatusTo([m EXCEPT !.phase = "Pending",
                                      !.cur = created + 1], "idle")
       \/ /\ ~CanCreate(m.gen)
          /\ EndReconcile
          /\ UNCHANGED podVars
    /\ UNCHANGED <<objVars, seen, workVars, trig, load, due, trouble, lost, resets>>

\* The rest of Reconcile: record the pod, if it runs on another node than the
\* one recorded (nodes are not tracked, so it may or may not), and its phase.
refreshStatus ==
    /\ pc = "steady" /\ pod \notin trig /\ seen[pod] # "failed"
    /\ \E cur \in {m.cur, pod} :
         LET phase == IF m.phase = "Migrating" THEN m.phase
                      ELSE IF seen[pod] = "running" THEN "Running" ELSE "Pending"
             w == [m EXCEPT !.cur = cur, !.phase = phase]
         IN  IF w # m THEN UpdateStatusTo(w, "idle") ELSE EndReconcile
    /\ UNCHANGED <<objVars, podVars, seen, workVars, trig, load, due, trouble, lost, resets>>

-----------------------------------------------------------------------------
(***************************************************************************)
(* Stage Quiescing.                                                        *)
(***************************************************************************)
LoadStates == {"running", "terminating", "gone"}

\* listQuiesceTargets: terminating pods are skipped.
quiesceTargets == {l \in LoadPods : load[l] = "running"}

\* MUTANT of drainOver: no deadline for the drain.
drainedOnly == quiesceTargets = {}

\* Nothing left to stop, or the drain budget is spent (which the time stamp of
\* a stale snapshot makes it look sooner).
drainOver == quiesceTargets = {} \/ due \/ ~snapOK

\* A failing list counts as drained.
quiesceDone ==
    /\ pc = "quiesce"
    /\ \/ drainOver /\ UNCHANGED trouble
       \/ Trouble
    /\ UpdateStatusTo(setStage([m EXCEPT !.latch = FALSE], "Dumping"), "idle")
    /\ UNCHANGED <<objVars, podVars, seen, workVars, trig, load, due, lost,
                   resets>>

\* The load pods are deleted, or their Deployments scaled to zero.
stopLoad(stopped) ==
    load' = [l \in LoadPods |-> IF l \in stopped THEN "terminating" ELSE load[l]]

\* First entry: stop the load pods (one that cannot be stopped is only logged),
\* then store the latch, whatever becomes of that write.  Later entries poll.
quiesceAct ==
    /\ pc = "quiesce" /\ quiesceTargets # {} /\ ~due
    /\ \/ /\ ~m.latch
          /\ \E stopped \in SUBSET quiesceTargets :
                /\ stopLoad(stopped)
                /\ \/ stopped = quiesceTargets /\ UNCHANGED trouble
                   \/ stopped # quiesceTargets /\ Trouble
          /\ UpdateStatusTo(setStage([m EXCEPT !.latch = TRUE], "Quiescing"),
                            "idle")
       \/ /\ m.latch
          /\ EndReconcile
          /\ UNCHANGED <<load, trouble>>
    /\ UNCHANGED <<objVars, podVars, seen, workVars, trig, due, lost, resets>>

-----------------------------------------------------------------------------
(***************************************************************************)
(* Stage Dumping.                                                          *)
(***************************************************************************)
\* MUTANT of freshGuard: no uncached read.
cachedGuard(here, stage, next) ==
    /\ pc = here /\ GoTo(next)
    /\ UNCHANGED <<objVars, podVars, seen, workVars, trig, load, due, trouble, lost,
                   resets>>

\* The guard both Dumping and Uploaded start with: an uncached read of the
\* object skips the handler if the stage moved on; a failed read does not.
freshGuard(here, stage, next) ==
    /\ pc = here
    /\ \/ api.stage = stage /\ GoTo(next) /\ UNCHANGED trouble
       \/ api.stage # stage /\ EndReconcile /\ UNCHANGED trouble
       \/ Trouble /\ GoTo(next)
    /\ UNCHANGED <<objVars, podVars, seen, workVars, trig, load, due, lost, resets>>

dumpingGuard == freshGuard("dump", "Dumping", "finalDump")

\* MUTANT of dumpRecorded: the dump of the recorded pod, not of the dumped one.
dumpOfCurrentPod(a) == setStage([a EXCEPT !.dump = a.cur, !.latch = FALSE], "Uploaded")

dumpRecorded(a) == setStage([a EXCEPT !.dump = pod, !.latch = FALSE], "Uploaded")

\* FinalDump RPC answered: the workload is dead and its image is on S3.
finalDumpOK ==
    /\ pc = "finalDump"
    /\ podSt[pod] \in Reachable /\ proc[pod] = "live"
    /\ proc' = [proc EXCEPT ![pod] = "dead"]
    /\ s3' = s3 \cup {pod}
    /\ UpdateStatusTo(dumpRecorded(m), "idle")
    /\ UNCHANGED <<objVars, podVars, seen, trig, load, due, trouble, lost,
                   resets>>

\* FinalDump RPC failed.  The agent may have done nothing, killed the
\* workload and failed to upload, or done it all and lost the answer.
finalDumpError ==
    /\ pc = "finalDump"
    /\ \/ UNCHANGED workVars
       \/ /\ podSt[pod] \in Reachable /\ proc[pod] = "live"
          /\ proc' = [proc EXCEPT ![pod] = "dead"]
          /\ s3' \in {s3, s3 \cup {pod}}
    /\ UpdateStatusTo(setStage([m EXCEPT !.bad = @ + 1, !.latch = TRUE],
                               "FinalDumpFailed"), "idle")
    /\ UNCHANGED <<objVars, podVars, seen, trig, load, due, trouble, lost,
                   resets>>

-----------------------------------------------------------------------------
(***************************************************************************)
(* Stages Uploaded, Restoring and RestoreFailed.                           *)
(***************************************************************************)
uploadedGuard == freshGuard("uploaded", "Uploaded", "createTarget")

\* MUTANT of fsmTransitionToRestoreFailed: a failure record for each attempt.
recordEachAttempt ==
    UpdateStatusTo(setStage([m EXCEPT !.latch = TRUE, !.bad = @ + 1],
                            "RestoreFailed"), "idle")

fsmTransitionToRestoreFailed ==
    UpdateStatusTo(setStage([m EXCEPT !.latch = TRUE], "RestoreFailed"), "idle")

createTarget ==
    /\ pc = "createTarget"
    /\ \/ /\ CanCreate(m.gen + 1)
          /\ CreatePod(m.gen + 1, m.dump)
          /\ pc' = "waitRunning" /\ tgt' = created + 1
          /\ UNCHANGED <<m, snapOK, pod, after, trouble>>
       \/ /\ \/ ~CanCreate(m.gen + 1) /\ UNCHANGED trouble
             \/ Trouble
          /\ fsmTransitionToRestoreFailed
          /\ UNCHANGED podVars
    /\ UNCHANGED <<objVars, seen, workVars, trig, load, due, lost, resets>>

waitForPodRunning == seen[tgt] = "running"

\* The wait succeeded: record the target.
targetRunning ==
    /\ pc = "waitRunning" /\ waitForPodRunning
    /\ UpdateStatusTo(setStage([m EXCEPT !.target = tgt, !.latch = FALSE],
                               "Restoring"), "idle")
    /\ UNCHANGED <<objVars, podVars, seen, workVars, trig, load, due, trouble, lost, resets>>

\* It failed or timed out: delete the target, whose name is not recorded.
\* The result of the deletion is ignored.
targetNotRunning ==
    /\ pc = "waitRunning"
    /\ \/ podSt' = Deleted(tgt) /\ UNCHANGED trouble
       \/ Trouble /\ UNCHANGED podSt
    /\ fsmTransitionToRestoreFailed
    /\ UNCHANGED <<objVars, created, podGen, podDump, seen, workVars, trig, load,
                   due, lost, resets>>

\* fsmRestoringHandler up to the finished Restore RPC and the wait for the
\* lazy pages (a timeout of that wait counts as success).  The agent answers
\* with success once CRIU has been started: its process may have failed.
restoreOK ==
    /\ pc = "restore"
    /\ seen[m.target] \in Exists /\ podSt[m.target] \in Reachable
    /\ m.dump \in s3
    /\ \E r \in {"dead", "live"} : proc' = [proc EXCEPT ![m.target] = r]
    /\ UpdateStatusTo([resetMigrationFSM(m) EXCEPT
                         !.gen = @ + 1, !.cur = m.target, !.ok = @ + 1,
                         !.phase = "Running"], "cleanup")
    /\ UNCHANGED <<objVars, podVars, seen, s3, trig, load, due, trouble, lost,
                   resets>>

\* Target not in the cache, agent unreachable, or Restore RPC failed - on the
\* agent's side, or only because the answer was lost.
restoreError ==
    /\ pc = "restore"
    /\ \/ UNCHANGED proc
       \/ /\ seen[m.target] \in Exists /\ podSt[m.target] \in Reachable
          /\ \E r \in {"dead", "live"} :
                /\ r = "live" => m.dump \in s3
                /\ proc' = [proc EXCEPT ![m.target] = r]
    /\ fsmTransitionToRestoreFailed
    /\ UNCHANGED <<objVars, podVars, seen, s3, trig, load, due, trouble, lost,
                   resets>>

\* After a persisted success: delete the pod the reconcile started with.
\* With the debug annotation it is only detached.  Failure is not fatal.
cleanupSource ==
    /\ pc = "cleanup"
    /\ \/ ~DebugPreserve /\ podSt' = Deleted(pod) /\ UNCHANGED trouble
       \/ DebugPreserve /\ UNCHANGED <<podSt, trouble>>
       \/ Trouble /\ UNCHANGED podSt
    /\ EndReconcile
    /\ UNCHANGED <<objVars, created, podGen, podDump, seen, workVars, trig, load,
                   due, lost, resets>>

\* MUTANT of budgetSpent: one retry too many.
budgetExceeded == m.retry > m.maxR

budgetSpent == m.retry >= m.maxR

giveUp ==
    /\ pc = "restoreFailed" /\ budgetSpent
    /\ UpdateStatusTo(setStage([m EXCEPT !.bad = @ + 1], "Failed"), "idle")
    /\ UNCHANGED <<objVars, podVars, seen, workVars, trig, load, due, trouble, lost, resets>>

\* backoffDuration is zero for the first retry.
BackoffOver == due \/ m.retry = 0 \/ ~snapOK

awaitBackoff ==
    /\ pc = "restoreFailed" /\ ~budgetSpent /\ m.retry # 0 /\ ~due
    /\ EndReconcile
    /\ UNCHANGED <<objVars, podVars, seen, workVars, trig, load, due, trouble, lost, resets>>

\* MUTANT of staleTargetSeen: retry beside the pod of the failed attempt.
ignoreStaleTarget == FALSE

staleTargetSeen == m.target # NoPod /\ seen[m.target] \in Exists

deleteStaleTarget ==
    /\ pc = "restoreFailed" /\ ~budgetSpent /\ BackoffOver
    /\ staleTargetSeen
    /\ \/ podSt' = Deleted(m.target) /\ UNCHANGED trouble
       \/ Trouble /\ UNCHANGED podSt
    /\ EndReconcile
    /\ UNCHANGED <<objVars, created, podGen, podDump, seen, workVars, trig, load,
                   due, lost, resets>>

\* MUTANTS of nextAttempt: the retries are not counted; or counted down.
uncountedAttempt(a) == setStage([a EXCEPT !.target = NoPod], "Uploaded")
countdownAttempt(a) ==
    setStage([a EXCEPT !.retry = @ - 1, !.target = NoPod], "Uploaded")

nextAttempt(a) ==
    setStage([a EXCEPT !.retry = @ + 1, !.target = NoPod], "Uploaded")

retryRestore ==
    /\ pc = "restoreFailed" /\ ~budgetSpent /\ BackoffOver
    /\ ~staleTargetSeen
    /\ UpdateStatusTo(nextAttempt(m), "idle")
    /\ UNCHANGED <<objVars, podVars, seen, workVars, trig, load, due, trouble, lost, resets>>

-----------------------------------------------------------------------------
(***************************************************************************)
(* Terminal stages: checkRetryAnnotation.                                  *)
(***************************************************************************)
checkRetryAnnotation ==
    /\ pc = "retry"
    /\ \/ pod # NoPod /\ podSt' = Deleted(pod) /\ UNCHANGED trouble
       \/ pod = NoPod /\ UNCHANGED <<podSt, trouble>>
       \/ Trouble /\ UNCHANGED podSt
    /\ UpdateStatusTo([resetMigrationFSM(m) EXCEPT !.phase = "Pending"],
                      "dropAnn")
    /\ UNCHANGED <<objVars, created, podGen, podDump, seen, workVars, trig, load,
                   due, lost, resets>>

dropRetryAnnotation ==
    /\ pc = "dropAnn"
    /\ \/ snapOK /\ api' = [api EXCEPT !.ann = FALSE] /\ cacheOK' = FALSE
       \/ ~snapOK /\ UNCHANGED <<api, cacheOK>>
    /\ EndReconcile
    /\ UNCHANGED <<cache, podVars, seen, workVars, trig, load, due, trouble, lost, resets>>

-----------------------------------------------------------------------------
(***************************************************************************)
(* The world around the controller.                                        *)
(***************************************************************************)
\* The watch delivers the newest version of the object, or of the pods.
CacheSync ==
    /\ ~cacheOK
    /\ cache' = api /\ cacheOK' = TRUE
    /\ UNCHANGED <<api, ctlVars, podVars, seen, workVars, trig, load, due,
                   trouble, lost, resets>>

PodSync ==
    /\ seen # podSt
    /\ seen' = podSt
    /\ UNCHANGED <<objVars, ctlVars, podVars, workVars, trig, load, due,
                   trouble, lost, resets>>

\* A pod's containers become ready; the agent of a normal pod starts the
\* workload, the agent of a restore pod waits for the Restore RPC.
PodStart(p) ==
    /\ podSt[p] = "pending"
    /\ podSt' = [podSt EXCEPT ![p] = "running"]
    /\ proc' = [proc EXCEPT ![p] = IF podDump[p] = NoPod THEN "live" ELSE @]
    /\ UNCHANGED <<objVars, ctlVars, created, podGen, podDump, seen, s3, trig,
                   load, due, trouble, lost, resets>>

\* The grace period of a deleted pod ends.
PodGone(p) ==
    /\ podSt[p] = "terminating"
    /\ podSt' = [podSt EXCEPT ![p] = "gone"]
    /\ proc' = [proc EXCEPT ![p] = IF @ = "live" THEN "dead" ELSE @]
    /\ UNCHANGED <<objVars, ctlVars, created, podGen, podDump, seen, s3, trig,
                   load, due, trouble, lost, resets>>

\* A pod fails, or disappears with its node.
PodLost(p) ==
    /\ podSt[p] \in {"pending", "running"}
    /\ \E st \in {"failed", "gone"} : podSt' = [podSt EXCEPT ![p] = st]
    /\ proc' = [proc EXCEPT ![p] = IF @ = "live" THEN "dead" ELSE @]
    /\ Trouble /\ lost' = TRUE
    /\ UNCHANGED <<objVars, ctlVars, created, podGen, podDump, seen, s3, trig,
                   load, due, resets>>

LoadPodGone(l) ==
    /\ load[l] = "terminating"
    /\ load' = [load EXCEPT ![l] = "gone"]
    /\ UNCHANGED <<objVars, ctlVars, podVars, seen, workVars, trig, due,
                   trouble, lost, resets>>

\* The owner of a deleted load pod (a Deployment) starts another one.
LoadPodReplaced(l) ==
    /\ load[l] = "gone"
    /\ Trouble
    /\ load' = [load EXCEPT ![l] = "running"]
    /\ UNCHANGED <<objVars, ctlVars, podVars, seen, workVars, trig, due,
                   lost, resets>>

TimePasses ==
    /\ api.stage \in {"Quiescing", "RestoreFailed"} /\ ~due
    /\ due' = TRUE
    /\ UNCHANGED <<objVars, ctlVars, podVars, seen, workVars, trig, load,
                   trouble, lost, resets>>

\* Somebody else changes the object's spec, labels or other annotations.
UserEdit ==
    /\ Trouble
    /\ cacheOK' = FALSE /\ snapOK' = FALSE
    /\ UNCHANGED <<api, cache, pc, m, pod, tgt, after, podVars, seen, workVars, trig,
                   load, due, lost, resets>>

UserRequestsRetry ==
    /\ ~api.ann
    /\ Trouble
    /\ api' = [api EXCEPT !.ann = TRUE]
    /\ cacheOK' = FALSE /\ snapOK' = FALSE
    /\ UNCHANGED <<cache, pc, m, pod, tgt, after, podVars, seen, workVars, trig, load,
                   due, lost, resets>>

\* The controller restarts and lists everything anew.
Crash ==
    /\ pc # "idle"
    /\ Trouble
    /\ EndReconcile
    /\ cache' = api /\ cacheOK' = TRUE /\ seen' = podSt
    /\ UNCHANGED <<api, podVars, workVars, trig, load, due, lost, resets>>

\* A write fails for another reason than a conflict; the error is returned.
WriteError ==
    /\ pc \in {"write", "dropAnn", "create", "recreate"}
    /\ Trouble
    /\ EndReconcile
    /\ UNCHANGED <<objVars, podVars, seen, workVars, trig, load, due, lost, resets>>

-----------------------------------------------------------------------------
Init ==
    /\ api = NewApp /\ cache = NewApp /\ cacheOK = TRUE
    /\ pc = "idle" /\ m = NewApp /\ snapOK = FALSE /\ pod = NoPod /\ tgt = NoPod
    /\ after = "idle"
    /\ created = 0
    /\ podSt = [p \in Pods |-> "free"]
    /\ podGen = [p \in Pods |-> 0]
    /\ podDump = [p \in Pods |-> NoPod]
    /\ seen = podSt
    /\ proc = [p \in Pods |-> "none"]
    /\ trig = {} /\ s3 = {}
    /\ load = [l \in LoadPods |-> "running"]
    /\ due = FALSE
    /\ trouble = 0 /\ lost = FALSE /\ resets = 0

Controller ==
    \/ Reconcile \/ StatusUpdate
    \/ createInitialPod \/ startMigration \/ recreatePodDelete
    \/ recreatePodCreate \/ refreshStatus
    \/ quiesceDone \/ quiesceAct
    \/ dumpingGuard \/ finalDumpOK \/ finalDumpError
    \/ uploadedGuard \/ createTarget \/ targetRunning \/ targetNotRunning
    \/ restoreOK \/ restoreError \/ cleanupSource
    \/ giveUp \/ awaitBackoff \/ deleteStaleTarget \/ retryRestore
    \/ checkRetryAnnotation \/ dropRetryAnnotation

Cluster ==
    \/ CacheSync \/ PodSync \/ TimePasses
    \/ \E p \in Pods : PodStart(p) \/ PodGone(p)
    \/ \E l \in LoadPods : LoadPodGone(l)

Disturbance ==
    \/ \E p \in Pods : PodLost(p)
    \/ \E l \in LoadPods : LoadPodReplaced(l)
    \/ UserEdit \/ UserRequestsRetry \/ Crash \/ WriteError

Next == Controller \/ Cluster \/ Disturbance

Spec == Init /\ [][Next]_vars

\* The controller, the watches, the kubelets and the clock keep working;
\* nothing forces users, triggers or faults.
Fairness ==
    /\ WF_vars(Controller)
    /\ WF_vars(CacheSync) /\ WF_vars(PodSync) /\ WF_vars(TimePasses)
    /\ \A p \in Pods : WF_vars(PodStart(p)) /\ WF_vars(PodGone(p))

FairSpec == Spec /\ Fairness

-----------------------------------------------------------------------------
(***************************************************************************)
(* Properties.                                                             *)
(***************************************************************************)
Pcs == {"idle", "write", "retry", "dropAnn", "create", "steady", "recreate",
        "quiesce", "dump", "finalDump", "uploaded", "createTarget",
        "waitRunning", "restore", "cleanup", "restoreFailed"}

\* Every variable holds a value of the code's type for it.
TypeOK ==
    /\ api \in App /\ cache \in App /\ m \in App
    /\ cacheOK \in BOOLEAN /\ snapOK \in BOOLEAN
    /\ pc \in Pcs /\ after \in {"idle", "cleanup", "dropAnn"}
    /\ pod \in Pods \cup {NoPod} /\ tgt \in Pods \cup {NoPod}
    /\ created \in 0..MaxPods
    /\ podSt \in [Pods -> PodStates] /\ seen \in [Pods -> PodStates]
    /\ podGen \in [Pods -> Nat]
    /\ podDump \in [Pods -> Pods \cup {NoPod}]
    /\ proc \in [Pods -> {"none", "live", "dead"}]
    /\ trig \subseteq Pods /\ s3 \subseteq Pods
    /\ load \in [LoadPods -> LoadStates]
    /\ due \in BOOLEAN
    /\ trouble \in Nat /\ lost \in BOOLEAN /\ resets \in Nat

Restorable == {"Uploaded", "Restoring", "RestoreFailed", "Failed"}

\* From stage Uploaded on, and in every target pod built, the checkpoint to
\* restore is one whose upload to S3 finished - whatever snapshot the handler
\* that wrote the stage or built the pod worked from.
CheckpointUploaded ==
    /\ api.stage \in Restorable => api.dump \in s3
    /\ \A p \in Pods : podDump[p] # NoPod => podDump[p] \in s3

\* Phase "Migrating", which Reconcile never overwrites and which stops the
\* pre-checkpoints, is only ever stored together with a stage that some handler
\* leaves: it cannot get stuck.
MigratingIsInFlight == api.phase = "Migrating" => api.stage \in InFlight

\* A checkpoint is tried on at most MaxRetries + 1 target pods while no call
\* fails, nobody edits the object and the controller does not crash - however
\* far the caches lag behind the controller's own writes.
AttemptsBounded ==
    trouble = 0 =>
      \A d \in Pods : Cardinality({p \in Pods : podDump[p] = d}) <= MaxRetries + 1

\* One failure record per terminal outcome (docs/migration_fsm_plan.md): the
\* records are the outcomes reset by the user plus the present one.
OneRecordPerOutcome ==
    api.bad = resets + (IF isTerminalStage(api.stage) THEN 1 ELSE 0)

\* As long as no pod is lost and no terminal stage reset, at most one pod runs the
\* workload, the ones that are being deleted included: a failed attempt's pod or an
\* orphaned target never runs beside the workload, nor while it is on its way out.
SingleWorkload ==
    ~lost /\ resets = 0 =>
      Cardinality({p \in Pods : proc[p] = "live"}) <= 1

\* The stored object only ever takes the steps of MigrationLifecycle: the
\* transitions documented for the stages, one record for each outcome, a retry
\* from the uploaded checkpoint at most MaxRetries times, and a terminal stage
\* left only on request - although every write is computed from a snapshot
\* that may be stale by the time it is sent.
Lifecycle == INSTANCE MigrationLifecycle WITH
    Dumps <- Pods, NoDump <- NoPod,
    stage <- api.stage, retry <- api.retry, dump <- api.dump,
    ok <- api.ok, bad <- api.bad, requested <- api.ann

ImplementsLifecycle == Lifecycle!Spec

\* Every migration that starts ends, back in Idle or in a terminal stage,
\* whichever call fails and whatever step a conflict or a crash interrupts.
\* (Or all pods are gone and the bound MaxPods forbids to create another.)
MigrationEnds ==
    api.stage \in InFlight ~>
      \/ api.stage \notin InFlight
      \/ created = MaxPods /\ \A p \in Pods : podSt[p] \notin Up

\* migration_fsm_plan.md:114 - "once dump succeeds we never re-call dump".  True
\* as long as nothing disturbs the controller, however far the caches lag: a
\* conflict or a crash between the answer and the status update breaks it, and
\* after a success the dumped source may be taken for the current pod again
\* (RestoredPodKept).
NeverDumpTwice ==
    trouble = 0 /\ api.ok = 0 => (pc = "finalDump" => pod \notin s3)

\* migration_fsm.go:526 - the guard is there "so we don't create a duplicate
\* target pod": undisturbed, a checkpoint has one target pod at a time.  A
\* conflict or a crash between Create and the status update breaks it.
OneTargetAtATime ==
    trouble = 0 =>
      \A d \in Pods :
        Cardinality({p \in Pods : podDump[p] = d /\ podSt[p] \in Up}) <= 1

\* migration_fsm.go:606 - on success the handler "cleans up the source pod":
\* it does not delete the pod it has just recorded as the current one.
RestoredPodKept ==
    [][pc = "cleanup" => podSt'[api.cur] = podSt[api.cur]]_vars
=============================================================================
