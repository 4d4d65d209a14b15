----------------------- MODULE MigrationTargetsProofs -----------------------
(***************************************************************************)
(* What MigrationController promises of the workload and of the pods it    *)
(* is restored on, for every number of pods, retries and triggers:         *)
(* SingleWorkload, NeverDumpTwice, OneTargetAtATime and AttemptsBounded.   *)
(*                                                                         *)
(* All four hold although the reconcile works from copies that lag.  The   *)
(* argument is in two layers above IInv of MigrationControllerProofs:      *)
(*                                                                         *)
(*   CalmInv   while no pod was lost and no terminal stage was reset, every*)
(*             copy is at most one write behind, so that the pods' states  *)
(*             tell in which pod the workload may live;                    *)
(*   QuietInv  while nothing disturbed the controller, a copy that is not  *)
(*             the newest shows it by its stage, so that the guards of     *)
(*             Dumping and Uploaded let no stale copy pass.                *)
(*                                                                         *)
(* The first half of the module says what the steps change: the pods, the  *)
(* processes, the object, the reconcile.  The proofs then split on these   *)
(* few effects instead of on the thirty actions.                           *)
(***************************************************************************)
EXTENDS MigrationControllerProofs, FiniteSetTheorems

-----------------------------------------------------------------------------
(***************************************************************************)
(* The inductive invariant, first layer.                                   *)
(***************************************************************************)
\* No pod was lost and no terminal stage reset: the hypothesis of SingleWorkload.
Calm == ~lost /\ resets = 0

\* The pods the workload runs in.
Live == {p \in Pods : proc[p] = "live"}

\* The user asked for a retry after a terminal failure.
Asked(a) == a.ann /\ a.stage \in Terminal

\* w is what one write of the controller may store over a, short of a reset.
Follows(a, w) ==
    /\ a.ann => w.ann
    /\ \/ a.stage = "Idle" /\ w.stage \in {"Idle", "Quiescing", "Dumping"}
       \/ a.stage = "Quiescing" /\ w.stage \in {"Quiescing", "Dumping"}
       \/ a.stage = "Dumping" /\ w.stage \in {"Uploaded", "FinalDumpFailed"}
       \/ a.stage = "Uploaded" /\ w.stage \in {"Restoring", "RestoreFailed"}
       \/ a.stage = "Restoring" /\ w.stage = "RestoreFailed" /\ w.target = a.target
       \/ a.stage = "Restoring" /\ w.stage = "Idle"
       \/ a.stage = "RestoreFailed" /\ w.stage = "Uploaded"
       \/ a.stage = "RestoreFailed" /\ w.stage = "Failed" /\ w.target = a.target

\* The copy c shows the object a, or what it was one write before.
Behind(c, a) ==
    /\ c.ann => a.ann
    /\ (c.stage = a.stage /\ c.target = a.target) \/ Follows(c, a)

\* The pods and what the informer shows of them, whatever happened: they are
\* numbered without gaps, what is seen was true, and what lives can be reached.
PodsInv ==
    /\ \A p \in Pods : p <= created <=> podSt[p] # "free"
    /\ \A p \in Pods : seen[p] # "free" => podSt[p] # "free"
    /\ \A p \in Pods : seen[p] \in {"terminating", "gone"} =>
                         podSt[p] \in {"terminating", "gone"}
    /\ \A p \in Pods : seen[p] = "gone" => podSt[p] = "gone"
    /\ \A p \in Pods : podDump[p] # NoPod => p <= created
    /\ \A p \in Pods : proc[p] = "live" => podSt[p] \in Reachable
    /\ \A p \in s3 : p <= created
    /\ pod <= created

\* The copies of the object are at most one write behind it.
OrderInv ==
    /\ Behind(cache, api)
    /\ pc \notin {"idle", "write", "cleanup"} => Behind(m, api)
    /\ pc = "write" /\ snapOK /\ after # "dropAnn" => Follows(api, m)
    /\ snapOK /\ pc # "cleanup" => cacheOK
    /\ pc = "cleanup" => api.stage = "Idle"
    /\ pc = "write" /\ after = "cleanup" => m.stage = "Idle"
    /\ pc = "retry" \/ (pc = "write" /\ after = "dropAnn") => Asked(api) /\ Asked(cache)
    /\ pc \notin {"dropAnn", "recreate"}

\* checkRetryAnnotation is being attempted, and nothing else.
Retrying ==
    /\ Asked(cache) /\ Asked(api)
    /\ pc \in {"idle", "retry", "write"} /\ (pc = "write" => after = "dropAnn")

\* Only the first pod starts the workload by itself.  It is never deleted but by
\* a retry, so that its name stays taken and createInitialPod makes no second one.
FirstPodInv ==
    /\ \A p \in Pods : podSt[p] # "failed" /\ seen[p] # "failed"
    /\ created # 0 => /\ podGen[1] = 0 /\ podDump[1] = NoPod
                      /\ podSt[1] \in Up \/ Retrying
    /\ \A p \in Pods : 1 < p /\ p <= created => podDump[p] # NoPod
    /\ created = 0 => api.stage = "Idle" /\ cache.stage = "Idle" /\ m.stage = "Idle"

\* A target that is recorded is not the first pod, and the informer has shown it.
TargetKnown(a) ==
    /\ a.target # NoPod => a.target > 1 /\ seen[a.target] # "free"
    /\ a.stage = "Restoring" => a.target # NoPod

\* The target is up until its restore is recorded as failed, so that the pod
\* taken for the source in Restoring, and then deleted, is not the first one.
TargetInv ==
    /\ TargetKnown(api) /\ TargetKnown(cache) /\ TargetKnown(m)
    /\ api.stage = "Restoring" => podSt[api.target] \in Up
    /\ pc = "write" /\ snapOK /\ m.stage = "Restoring" => podSt[m.target] \in Up
    /\ pc = "waitRunning" => /\ tgt \in Pods /\ tgt > 1 /\ tgt # api.target
                             /\ podSt[tgt] \in Up
    /\ pc = "restore" /\ snapOK => pod > 1
    /\ pc = "write" /\ snapOK /\ after = "cleanup" => pod > 1
    /\ pc = "cleanup" => pod > 1

\* The stage of a tells where the workload may live.
Holds(a) ==
    /\ a.stage = "Uploaded" => Live = {}
    /\ a.stage \in {"Restoring", "RestoreFailed", "Failed"} => Live \subseteq {a.target}

\* The workload lives in one pod, in the one the object names.
LiveInv ==
    /\ \A p, q \in Live : p = q
    /\ Live # {} \/ s3 # {} => podSt[1] \notin {"free", "pending"}
    /\ Holds(api)
    /\ pc = "write" /\ snapOK => Holds(m)
    /\ cache.stage = "Restoring" => Live \subseteq {cache.target}
    /\ pc = "restore" => Live \subseteq {m.target}
    /\ pc = "restore" /\ cache.stage = "Restoring" => cache.target = m.target

\* The first layer.
CalmInv == Calm => OrderInv /\ FirstPodInv /\ TargetInv /\ LiveInv

-----------------------------------------------------------------------------
(***************************************************************************)
(* Who changes what.                                                       *)
(***************************************************************************)
\* The pods on the server: built by the controller, deleted by it, or moved on
\* by the cluster.
Creates(gen, d) ==
    /\ CanCreate(gen) /\ CreatePod(gen, d)
    /\ \/ createInitialPod /\ gen = 0 /\ d = NoPod
       \/ recreatePodCreate
       \/ createTarget /\ d = m.dump /\ pc' = "waitRunning" /\ tgt' = created + 1

\* r.Delete of pod p, by each of its callers.
Deletes(p) ==
    /\ UNCHANGED <<created, podGen, podDump>> /\ podSt' = Deleted(p)
    /\ \/ recreatePodDelete
       \/ targetNotRunning /\ p = tgt
       \/ cleanupSource /\ p = pod
       \/ deleteStaleTarget /\ p = m.target
       \/ checkRetryAnnotation

\* Pod p starts, ends, or is lost.
Moves(p) == PodStart(p) \/ PodGone(p) \/ PodLost(p)

\* Every step leaves the pods alone or does one of these.
LEMMA PodSteps ==
    ASSUME IInv, [Next]_vars
    PROVE  \/ UNCHANGED podVars
           \/ \E p \in Pods \cup {NoPod} : Deletes(p)
           \/ \E p \in Pods : Moves(p)
           \/ \E gen \in Nat, d \in Pods \cup {NoPod} : Creates(gen, d)
<1> DEFINE G == \/ UNCHANGED podVars
                \/ \E p \in Pods \cup {NoPod} : Deletes(p)
                \/ \E p \in Pods : Moves(p)
                \/ \E gen \in Nat, d \in Pods \cup {NoPod} : Creates(gen, d)
<1> USE DEF Creates, Deletes, Moves
<1>0. m.gen \in Nat /\ m.gen + 1 \in Nat /\ m.dump \in Pods \cup {NoPod}
      /\ m.target \in Pods \cup {NoPod} /\ pod \in Pods \cup {NoPod}
      /\ tgt \in Pods \cup {NoPod} /\ 0 \in Nat /\ NoPod \in Pods \cup {NoPod}
  BY DEF IInv, CtlOK, App
<1>1. CASE createInitialPod
  BY <1>0, <1>1 DEF createInitialPod
<1>2. CASE recreatePodCreate
  BY <1>0, <1>2 DEF recreatePodCreate
<1>3. CASE createTarget
  BY <1>0, <1>3 DEF createTarget
<1>4. CASE recreatePodDelete
  BY <1>0, <1>4 DEF recreatePodDelete, podVars
<1>5. CASE targetNotRunning
  BY <1>0, <1>5 DEF targetNotRunning, podVars
<1>6. CASE cleanupSource
  BY <1>0, <1>6 DEF cleanupSource, podVars
<1>7. CASE deleteStaleTarget
  BY <1>0, <1>7 DEF deleteStaleTarget, podVars
<1>8. CASE checkRetryAnnotation
  BY <1>0, <1>8 DEF checkRetryAnnotation, podVars
<1>9. ASSUME NEW p \in Pods, Moves(p) PROVE G
  BY <1>9 DEF PodStart, PodGone, PodLost
<1>10. CASE UNCHANGED podVars
  BY <1>10
<1>11. ASSUME Controller, ~createInitialPod, ~recreatePodCreate, ~createTarget,
              ~recreatePodDelete, ~targetNotRunning, ~cleanupSource,
              ~deleteStaleTarget, ~checkRetryAnnotation
       PROVE  UNCHANGED podVars
  BY <1>11
     DEF Controller, Reconcile, StatusUpdate, startMigration, refreshStatus,
         quiesceDone, quiesceAct, dumpingGuard, uploadedGuard, freshGuard,
         finalDumpOK, finalDumpError, targetRunning, restoreOK, restoreError,
         giveUp, awaitBackoff, retryRestore, dropRetryAnnotation
<1>12. ASSUME Cluster, ~ \E p \in Pods : PodStart(p) \/ PodGone(p)
       PROVE  UNCHANGED podVars
  BY <1>12 DEF Cluster, CacheSync, PodSync, TimePasses, LoadPodGone
<1>13. ASSUME Disturbance, ~ \E p \in Pods : PodLost(p)
       PROVE  UNCHANGED podVars
  BY <1>13 DEF Disturbance, LoadPodReplaced, UserEdit, UserRequestsRetry, Crash,
               WriteError
<1>14. CASE UNCHANGED vars
  BY <1>14 DEF vars
<1> QED
  BY <1>1, <1>2, <1>3, <1>4, <1>5, <1>6, <1>7, <1>8, <1>9, <1>10, <1>11,
     <1>12, <1>13, <1>14 DEF Next

\* The workload processes and the uploads.
FinalDumps ==
    /\ pc = "finalDump" /\ podSt[pod] \in Reachable /\ proc[pod] = "live"
    /\ proc' = [proc EXCEPT ![pod] = "dead"] /\ s3' \in {s3, s3 \cup {pod}}

\* The Restore RPC runs in the target, whatever it answers.
Restores ==
    /\ pc = "restore" /\ podSt[m.target] \in Reachable /\ s3' = s3
    /\ \E r \in {"dead", "live"} : proc' = [proc EXCEPT ![m.target] = r]

\* Every step leaves processes and uploads alone, or is a final dump, a restore or
\* a move of a pod.
LEMMA WorkSteps ==
    ASSUME IInv, [Next]_vars
    PROVE  \/ UNCHANGED workVars
           \/ (finalDumpOK \/ finalDumpError) /\ FinalDumps
           \/ (restoreOK \/ restoreError) /\ Restores
           \/ \E p \in Pods : Moves(p)
<1> USE DEF Moves
<1>1. CASE finalDumpOK \/ finalDumpError
  BY <1>1 DEF finalDumpOK, finalDumpError, FinalDumps, workVars
<1>2. CASE restoreOK \/ restoreError
  BY <1>2 DEF restoreOK, restoreError, Restores, workVars
<1>3. ASSUME Controller, ~finalDumpOK, ~finalDumpError, ~restoreOK, ~restoreError
      PROVE  UNCHANGED workVars
  BY <1>3
     DEF Controller, Reconcile, StatusUpdate, createInitialPod, startMigration,
         recreatePodDelete, recreatePodCreate, refreshStatus, quiesceDone,
         quiesceAct, dumpingGuard, uploadedGuard, freshGuard, createTarget,
         targetRunning, targetNotRunning, cleanupSource, giveUp, awaitBackoff,
         deleteStaleTarget, retryRestore, checkRetryAnnotation, dropRetryAnnotation
<1>4. ASSUME Cluster, ~ \E p \in Pods : PodStart(p) \/ PodGone(p)
      PROVE  UNCHANGED workVars
  BY <1>4 DEF Cluster, CacheSync, PodSync, TimePasses, LoadPodGone
<1>5. ASSUME Disturbance, ~ \E p \in Pods : PodLost(p)
      PROVE  UNCHANGED workVars
  BY <1>5 DEF Disturbance, LoadPodReplaced, UserEdit, UserRequestsRetry, Crash,
              WriteError
<1>6. CASE UNCHANGED vars
  BY <1>6 DEF vars
<1> QED
  BY <1>1, <1>2, <1>3, <1>4, <1>5, <1>6 DEF Next

\* The informers' copies.
LEMMA SeenSteps ==
    ASSUME [Next]_vars
    PROVE  seen' = seen \/ (seen' = podSt /\ podSt' = podSt)
<1>1. ASSUME Controller PROVE seen' = seen
  BY <1>1
     DEF Controller, Reconcile, StatusUpdate, createInitialPod, startMigration,
         recreatePodDelete, recreatePodCreate, refreshStatus, quiesceDone,
         quiesceAct, dumpingGuard, uploadedGuard, freshGuard, finalDumpOK,
         finalDumpError, createTarget, targetRunning, targetNotRunning, restoreOK,
         restoreError, cleanupSource, giveUp, awaitBackoff, deleteStaleTarget,
         retryRestore, checkRetryAnnotation, dropRetryAnnotation
<1>2. ASSUME Cluster PROVE seen' = seen \/ (seen' = podSt /\ podSt' = podSt)
  BY <1>2 DEF Cluster, CacheSync, PodSync, TimePasses, PodStart, PodGone,
              LoadPodGone, podVars
<1>3. ASSUME Disturbance PROVE seen' = seen \/ (seen' = podSt /\ podSt' = podSt)
  BY <1>3 DEF Disturbance, PodLost, LoadPodReplaced, UserEdit, UserRequestsRetry,
              Crash, WriteError, podVars
<1>4. CASE UNCHANGED vars
  BY <1>4 DEF vars
<1> QED
  BY <1>1, <1>2, <1>3, <1>4 DEF Next

\* What is remembered of the past: only a status update and a lost pod change it.
LEMMA HistorySteps ==
    ASSUME [Next]_vars
    PROVE  \/ UNCHANGED <<lost, resets>>
           \/ StatusUpdate /\ UNCHANGED lost
           \/ \E p \in Pods : PodLost(p) /\ lost' /\ UNCHANGED resets
<1>1. CASE StatusUpdate
  BY <1>1 DEF StatusUpdate
<1>2. ASSUME NEW p \in Pods, PodLost(p) PROVE lost' /\ UNCHANGED resets
  BY <1>2 DEF PodLost
<1>3. ASSUME Controller, ~StatusUpdate PROVE UNCHANGED <<lost, resets>>
  BY <1>3
     DEF Controller, Reconcile, createInitialPod, startMigration,
         recreatePodDelete, recreatePodCreate, refreshStatus, quiesceDone,
         quiesceAct, dumpingGuard, uploadedGuard, freshGuard, finalDumpOK,
         finalDumpError, createTarget, targetRunning, targetNotRunning, restoreOK,
         restoreError, cleanupSource, giveUp, awaitBackoff, deleteStaleTarget,
         retryRestore, checkRetryAnnotation, dropRetryAnnotation
<1>4. ASSUME Cluster PROVE UNCHANGED <<lost, resets>>
  BY <1>4 DEF Cluster, CacheSync, PodSync, TimePasses, PodStart, PodGone, LoadPodGone
<1>5. ASSUME Disturbance, ~ \E p \in Pods : PodLost(p) PROVE UNCHANGED <<lost, resets>>
  BY <1>5 DEF Disturbance, LoadPodReplaced, UserEdit, UserRequestsRetry, Crash,
              WriteError
<1>6. CASE UNCHANGED vars
  BY <1>6 DEF vars
<1> QED
  BY <1>1, <1>2, <1>3, <1>4, <1>5, <1>6 DEF Next

\* Both only grow.
LEMMA CalmBefore ==
    ASSUME IInv, [Next]_vars
    PROVE  /\ Calm' => Calm
           /\ Calm' => ~ \E p \in Pods : PodLost(p)
           /\ Calm' => resets' = resets
<1>1. resets \in Nat
  BY DEF IInv, ObjOK
<1>2. ASSUME NEW p \in Pods, PodLost(p) PROVE lost'
  BY <1>2 DEF PodLost
<1>3. resets' = resets \/ resets' = resets + 1
  BY HistorySteps DEF StatusUpdate
<1> QED
  BY <1>1, <1>2, <1>3, HistorySteps DEF Calm

\* The pod a reconcile works with is one it saw.
LEMMA PodVarSteps ==
    ASSUME [Next]_vars
    PROVE  pod' = pod \/ pod' = NoPod \/ (pod' \in Pods /\ seen[pod'] \in Up)
<1>1. CASE Reconcile
  BY <1>1 DEF Reconcile, getCurrentPod, EndReconcile
<1>2. ASSUME Controller, ~Reconcile PROVE pod' = pod \/ pod' = NoPod
  BY <1>2
     DEF Controller, StatusUpdate, createInitialPod, startMigration,
         recreatePodDelete, recreatePodCreate, refreshStatus, quiesceDone,
         quiesceAct, dumpingGuard, uploadedGuard, freshGuard, finalDumpOK,
         finalDumpError, createTarget, targetRunning, targetNotRunning, restoreOK,
         restoreError, cleanupSource, giveUp, awaitBackoff, deleteStaleTarget,
         retryRestore, checkRetryAnnotation, dropRetryAnnotation,
         fsmTransitionToRestoreFailed, EndReconcile, GoTo, UpdateStatusTo
<1>3. ASSUME Cluster PROVE pod' = pod
  BY <1>3 DEF Cluster, CacheSync, PodSync, TimePasses, PodStart, PodGone,
              LoadPodGone, ctlVars
<1>4. ASSUME Disturbance PROVE pod' = pod \/ pod' = NoPod
  BY <1>4 DEF Disturbance, PodLost, LoadPodReplaced, UserEdit, UserRequestsRetry,
              Crash, WriteError, ctlVars, EndReconcile
<1>5. CASE UNCHANGED vars
  BY <1>5 DEF vars, ctlVars
<1> QED
  BY <1>1, <1>2, <1>3, <1>4, <1>5 DEF Next

\* A pod only ever moves on: it is built, starts, and is on its way out for good.
PodMovesOn(p) ==
    /\ podSt[p] # "free" => podSt'[p] # "free"
    /\ podSt[p] \in {"terminating", "gone"} => podSt'[p] \in {"terminating", "gone"}
    /\ podSt[p] = "gone" => podSt'[p] = "gone"
    /\ podSt'[p] = "pending" => podSt[p] \in {"free", "pending"}
    /\ podSt[p] = "free" /\ podSt'[p] # "free" => p = created + 1 /\ created' = p

\* What a creation does to the pods.
LEMMA CreatedPod ==
    ASSUME IInv, NEW gen, NEW d \in Pods \cup {NoPod}, Creates(gen, d)
    PROVE  /\ created + 1 \in Pods /\ created' = created + 1
           /\ podSt'[created + 1] = "pending" /\ podDump'[created + 1] = d
           /\ podGen'[created + 1] = gen
           /\ \A p \in Pods : p # created + 1 =>
                /\ podSt'[p] = podSt[p] /\ podDump'[p] = podDump[p]
                /\ podGen'[p] = podGen[p]
<1>1. created \in Nat /\ created + 1 \in Pods
  BY ControllerAssumptions DEF IInv, PodsOK, Creates, CanCreate, Pods
<1> QED
  BY <1>1 DEF IInv, PodsOK, Creates, CreatePod

\* What a deletion does to the pods.
LEMMA DeletedPod ==
    ASSUME IInv, NEW q, Deletes(q), NEW p \in Pods
    PROVE  podSt'[p] = IF p = q /\ podSt[p] \in Up THEN "terminating" ELSE podSt[p]
  BY DEF IInv, PodsOK, Deletes, Deleted

\* What the cluster does to a pod and the process in it.
LEMMA MovedPod ==
    ASSUME IInv, NEW q \in Pods, Moves(q)
    PROVE  /\ UNCHANGED <<created, podGen, podDump, seen, s3>>
           /\ \A p \in Pods : p # q => podSt'[p] = podSt[p] /\ proc'[p] = proc[p]
           /\ PodStart(q) => /\ podSt[q] = "pending" /\ podSt'[q] = "running"
                             /\ proc'[q] = IF podDump[q] = NoPod THEN "live" ELSE proc[q]
           /\ PodGone(q) => /\ podSt[q] = "terminating" /\ podSt'[q] = "gone"
                            /\ proc'[q] # "live"
           /\ PodLost(q) => /\ podSt[q] \in {"pending", "running"}
                            /\ podSt'[q] \in {"failed", "gone"} /\ proc'[q] # "live"
  BY DEF IInv, PodsOK, RestOK, Moves, PodStart, PodGone, PodLost

\* No step takes a pod back.
LEMMA AllMoveOn ==
    ASSUME IInv, PodsInv, [Next]_vars
    PROVE  \A p \in Pods : PodMovesOn(p)
<1> SUFFICES ASSUME NEW p \in Pods PROVE PodMovesOn(p)
  OBVIOUS
<1> USE DEF PodMovesOn, Up
<1>1. CASE UNCHANGED podVars
  BY <1>1 DEF podVars
<1>2. ASSUME NEW q \in Pods \cup {NoPod}, Deletes(q) PROVE PodMovesOn(p)
  BY <1>2, DeletedPod
<1>3. ASSUME NEW q \in Pods, Moves(q) PROVE PodMovesOn(p)
  BY <1>3, MovedPod DEF Moves
<1>4. ASSUME NEW gen \in Nat, NEW d \in Pods \cup {NoPod}, Creates(gen, d)
      PROVE  PodMovesOn(p)
  <2>1. created \in Nat /\ podSt[created + 1] = "free"
    BY <1>4, CreatedPod DEF PodsInv, IInv, PodsOK
  <2> QED
    BY <1>4, <2>1, CreatedPod
<1> QED
  BY <1>1, <1>2, <1>3, <1>4, PodSteps

\* created never falls.
LEMMA CreatedGrows ==
    ASSUME IInv, [Next]_vars
    PROVE  created \in Nat /\ created' \in Nat /\ created <= created'
<1>1. created \in Nat
  BY DEF IInv, PodsOK
<1>2. created' = created \/ created' = created + 1
  BY PodSteps, MovedPod DEF podVars, Creates, CreatePod, Deletes
<1> QED
  BY <1>1, <1>2

\* A process only starts to live in a pod that can be reached.
LEMMA LivesInReach ==
    ASSUME IInv, PodsInv, [Next]_vars, NEW p \in Pods, proc'[p] = "live"
    PROVE  podSt'[p] \in Reachable
<1> USE DEF Reachable, Up
<1>0. proc[p] = "live" => podSt[p] \in Reachable
  BY DEF PodsInv
<1>1. CASE \E q \in Pods : Moves(q)
  <2>1. PICK q \in Pods : Moves(q)
    BY <1>1
  <2> QED
    BY <1>0, <2>1, MovedPod DEF Moves
<1>2. CASE ~ \E q \in Pods : Moves(q)
  <2>1. podSt[p] \in Reachable
    BY <1>0, <1>2, WorkSteps DEF IInv, RestOK, FinalDumps, Restores, workVars
  <2>2. CASE UNCHANGED podVars
    BY <2>1, <2>2 DEF podVars
  <2>3. ASSUME NEW q \in Pods \cup {NoPod}, Deletes(q)
        PROVE  podSt'[p] \in Reachable
    BY <2>1, <2>3, DeletedPod
  <2>4. ASSUME NEW gen \in Nat, NEW d \in Pods \cup {NoPod}, Creates(gen, d)
        PROVE  podSt'[p] \in Reachable
    <3>1. created \in Nat /\ podSt[created + 1] = "free"
      BY <2>4, CreatedPod DEF PodsInv, IInv, PodsOK
    <3> QED
      BY <2>1, <2>4, <3>1, CreatedPod
  <2> QED
    BY <1>2, <2>2, <2>3, <2>4, PodSteps
<1> QED
  BY <1>1, <1>2

\* PodsInv is kept by every step.
LEMMA PodsInvStep == ASSUME IInv, PodsInv, [Next]_vars PROVE PodsInv'
<1>0. created \in Nat /\ created' \in Nat /\ created <= created'
  BY CreatedGrows
<1>1. ASSUME NEW p \in Pods PROVE p <= created' <=> podSt'[p] # "free"
  <2>0. p \in Nat
    BY DEF Pods
  <2>1. CASE created' = created
    BY <2>0, <2>1, <1>0, AllMoveOn DEF PodMovesOn, PodsInv
  <2>2. CASE created' # created
    <3>1. PICK gen \in Nat, d \in Pods \cup {NoPod} : Creates(gen, d)
      BY <2>2, PodSteps, MovedPod DEF podVars, Deletes
    <3>2. /\ created' = created + 1 /\ podSt'[created + 1] = "pending"
          /\ p # created + 1 => podSt'[p] = podSt[p]
      BY <3>1, CreatedPod
    <3> QED
      BY <2>0, <1>0, <3>2 DEF PodsInv
  <2> QED
    BY <2>1, <2>2
<1>2. ASSUME NEW p \in Pods
      PROVE  /\ seen'[p] # "free" => podSt'[p] # "free"
             /\ seen'[p] \in {"terminating", "gone"} => podSt'[p] \in {"terminating", "gone"}
             /\ seen'[p] = "gone" => podSt'[p] = "gone"
  <2>1. PodMovesOn(p)
    BY AllMoveOn
  <2> QED
    BY <2>1, SeenSteps DEF PodsInv, PodMovesOn
<1>3. ASSUME NEW p \in Pods, podDump'[p] # NoPod PROVE p <= created'
  <2>0. p \in Nat
    BY DEF Pods
  <2>1. CASE podDump'[p] = podDump[p]
    BY <2>0, <2>1, <1>0, <1>3 DEF PodsInv
  <2>2. CASE podDump'[p] # podDump[p]
    <3>1. PICK gen \in Nat, d \in Pods \cup {NoPod} : Creates(gen, d)
      BY <2>2, PodSteps, MovedPod DEF podVars, Deletes
    <3>2. p = created' 
      BY <2>2, <3>1, CreatedPod
    <3> QED
      BY <2>0, <3>2
  <2> QED
    BY <2>1, <2>2
<1>4. \A p \in Pods : proc'[p] = "live" => podSt'[p] \in Reachable
  BY LivesInReach
<1>5. ASSUME NEW p \in s3' PROVE p <= created'
  <2>1. CASE p \in s3
    BY <2>1, <1>0 DEF PodsInv, Pods, IInv, RestOK
  <2>2. CASE p \notin s3
    <3>1. FinalDumps /\ p = pod
      <4>1. ~ \E q \in Pods : Moves(q)
        BY <2>2, MovedPod
      <4> QED
        BY <2>2, <4>1, WorkSteps DEF FinalDumps, Restores, workVars
    <3>2. pod \in Pods
      BY <3>1 DEF IInv, CtlOK, PodAtStep, FinalDumps
    <3> QED
      BY <1>0, <3>1, <3>2 DEF PodsInv, Pods
  <2> QED
    BY <2>1, <2>2
<1>6. pod' <= created'
  <2>1. CASE pod' = pod
    BY <1>0, <2>1 DEF PodsInv, IInv, CtlOK, Pods, NoPod
  <2>2. CASE pod' = NoPod
    BY <1>0, <2>2 DEF NoPod
  <2>3. CASE pod' \in Pods /\ seen[pod'] \in Up
    <3>1. pod' <= created
      BY <2>3 DEF PodsInv, Up
    <3> QED
      BY <1>0, <2>3, <3>1 DEF Pods
  <2> QED
    BY <2>1, <2>2, <2>3, PodVarSteps
<1> QED
  BY <1>1, <1>2, <1>3, <1>4, <1>5, <1>6 DEF PodsInv

-----------------------------------------------------------------------------
(***************************************************************************)
(* The reconcile: it ends, begins, stores its copy, goes on, or is about   *)
(* to store a copy it has changed.                                         *)
(***************************************************************************)
\* setStage sets the stage and leaves these fields alone.
LEMMA SetStageKeeps ==
    ASSUME NEW a \in App, NEW st
    PROVE  /\ setStage(a, st).stage = st /\ setStage(a, st).ann = a.ann
           /\ setStage(a, st).target = a.target /\ setStage(a, st).dump = a.dump
  BY DEF setStage, App

\* The new copy has stage to, the old one a stage in from, and the same target.
MovesStage(from, to) == m.stage \in from /\ m'.stage = to /\ m'.target = m.target

\* What each handler is about to store.
Written ==
    /\ pc \notin {"idle", "write", "cleanup", "dropAnn"} /\ pc' = "write"
    /\ UNCHANGED <<objVars, snapOK, pod, tgt>> /\ m'.ann = m.ann
    /\ \/ /\ after' = "idle"
          /\ \/ (createInitialPod \/ recreatePodCreate) /\ MovesStage({m.stage}, m.stage)
             \/ refreshStatus /\ MovesStage({"Idle"}, "Idle")
             \/ quiesceAct /\ MovesStage({"Quiescing"}, "Quiescing")
             \/ /\ startMigration /\ m.stage = "Idle"
                /\ m'.stage \in {"Quiescing", "Dumping"} /\ m'.target = NoPod
             \/ quiesceDone /\ MovesStage({"Quiescing"}, "Dumping")
             \/ finalDumpError /\ MovesStage({"Dumping"}, "FinalDumpFailed")
             \/ finalDumpOK /\ MovesStage({"Dumping"}, "Uploaded") /\ m'.dump = pod
             \/ /\ targetRunning /\ m.stage = "Uploaded"
                /\ m'.stage = "Restoring" /\ m'.target = tgt
             \/ (createTarget \/ targetNotRunning) /\ MovesStage({"Uploaded"}, "RestoreFailed")
             \/ restoreError /\ MovesStage({"Restoring"}, "RestoreFailed")
             \/ giveUp /\ MovesStage({"RestoreFailed"}, "Failed")
             \/ /\ retryRestore /\ m.stage = "RestoreFailed"
                /\ m'.stage = "Uploaded" /\ m'.target = NoPod
       \/ /\ restoreOK /\ after' = "cleanup" /\ m.stage = "Restoring"
          /\ m'.stage = "Idle" /\ m'.target = NoPod
       \/ /\ checkRetryAnnotation /\ pc = "retry" /\ after' = "dropAnn"
          /\ m'.stage = "Idle" /\ m'.target = NoPod

\* The reconcile goes on with the copy it has.
GoesOn ==
    /\ UNCHANGED <<objVars, m, snapOK, pod, after>>
    /\ \/ dumpingGuard /\ pc = "dump" /\ pc' = "finalDump" /\ tgt' = tgt
       \/ uploadedGuard /\ pc = "uploaded" /\ pc' = "createTarget" /\ tgt' = tgt
       \/ createTarget /\ pc = "createTarget" /\ pc' = "waitRunning" /\ tgt' = created + 1
       \/ recreatePodDelete /\ pc = "steady" /\ pc' = "recreate"

\* It begins, from the caches.
Begins ==
    /\ UNCHANGED objVars /\ m' = cache /\ snapOK' = cacheOK /\ getCurrentPod(pod')
    /\ \/ pc' = "retry" /\ Asked(cache)
       \/ pc' = "create" /\ ~Asked(cache)
       \/ /\ pc' # "idle" /\ ~Asked(cache) /\ pod' # NoPod
          /\ pc' = advanceMigrationFSM(cache.stage)

\* Every step leaves the reconcile alone, ends it, begins one, or does one of these.
LEMMA CtlSteps ==
    ASSUME IInv, [Next]_vars
    PROVE  \/ UNCHANGED ctlVars \/ EndReconcile \/ StatusUpdate
           \/ Reconcile /\ Begins
           \/ GoesOn \/ Written \/ UserEdit \/ UserRequestsRetry
<1> DEFINE G == \/ UNCHANGED ctlVars \/ EndReconcile \/ StatusUpdate
                \/ Reconcile /\ Begins
                \/ GoesOn \/ Written \/ UserEdit \/ UserRequestsRetry
<1> USE DEF MovesStage
<1>0. m \in App /\ StageAtStep /\ pod \in Pods \cup {NoPod} /\ tgt \in Pods \cup {NoPod}
      /\ cache \in App
  BY DEF IInv, CtlOK, ObjOK
<1>a. m.bad + 1 \in Nat /\ m.retry + 1 \in Nat /\ m.gen + 1 \in Nat /\ m.ok + 1 \in Nat
  BY <1>0 DEF App
<1>1. CASE Reconcile
  BY <1>1 DEF Reconcile, Begins, Asked, isTerminalStage
<1>2. CASE createInitialPod
  BY <1>0, <1>2 DEF createInitialPod, UpdateStatusTo, Written, App
<1>3. CASE startMigration
  <2> DEFINE w0 == [m EXCEPT !.retry = 0, !.latch = FALSE, !.dump = NoPod, !.target = NoPod]
             st == IF PreDumpQuiesce THEN "Quiescing" ELSE "Dumping"
  <2>1. w0 \in App /\ w0.ann = m.ann /\ w0.target = NoPod
    BY <1>0 DEF App, NoPod
  <2>2. st \in {"Quiescing", "Dumping"}
    OBVIOUS
  <2>3. pc = "steady" /\ UNCHANGED objVars /\ UpdateStatusTo(setStage(w0, st), "idle")
    BY <1>3 DEF startMigration
  <2> HIDE DEF w0, st
  <2> QED
    BY <1>0, <1>3, <2>1, <2>2, <2>3, SetStageKeeps DEF UpdateStatusTo, Written, StageAtStep
<1>4. CASE recreatePodDelete
  BY <1>4 DEF recreatePodDelete, GoTo, GoesOn
<1>5. CASE recreatePodCreate
  BY <1>0, <1>5 DEF recreatePodCreate, UpdateStatusTo, Written, App
<1>6. CASE refreshStatus
  <2>1. CASE EndReconcile
    BY <2>1
  <2>2. CASE ~EndReconcile
    <3>1. PICK cur, ph : UpdateStatusTo([m EXCEPT !.cur = cur, !.phase = ph], "idle")
      BY <1>6, <2>2 DEF refreshStatus
    <3> QED
      BY <1>0, <1>6, <3>1 DEF refreshStatus, UpdateStatusTo, Written, StageAtStep, App
  <2> QED
    BY <2>1, <2>2
<1>7. CASE quiesceDone
  <2> DEFINE w0 == [m EXCEPT !.latch = FALSE]
  <2>1. w0 \in App /\ w0.ann = m.ann /\ w0.target = m.target
    BY <1>0 DEF App
  <2> QED
    BY <1>0, <1>7, <2>1, SetStageKeeps DEF quiesceDone, UpdateStatusTo, Written, StageAtStep
<1>8. CASE quiesceAct
  <2> DEFINE w0 == [m EXCEPT !.latch = TRUE]
  <2>1. w0 \in App /\ w0.ann = m.ann /\ w0.target = m.target
    BY <1>0 DEF App
  <2>2. pc = "quiesce" /\ UNCHANGED objVars
        /\ (EndReconcile \/ UpdateStatusTo(setStage(w0, "Quiescing"), "idle"))
    BY <1>8 DEF quiesceAct
  <2>3. CASE ~EndReconcile
    <3>1. /\ pc' = "write" /\ m' = setStage(w0, "Quiescing") /\ after' = "idle"
          /\ UNCHANGED <<snapOK, pod, tgt>>
      BY <2>2, <2>3 DEF UpdateStatusTo
    <3>2. m'.ann = m.ann /\ m.stage = "Quiescing" /\ m'.stage = m.stage /\ m'.target = m.target
      BY <1>0, <2>1, <2>2, <3>1, SetStageKeeps DEF StageAtStep
    <3> QED
      BY <1>8, <2>2, <3>1, <3>2 DEF Written
  <2> QED
    BY <2>3
<1>9. CASE dumpingGuard \/ uploadedGuard
  BY <1>9 DEF dumpingGuard, uploadedGuard, freshGuard, GoTo, GoesOn
<1>10. CASE finalDumpOK
  <2> DEFINE w0 == [m EXCEPT !.dump = pod, !.latch = FALSE]
  <2>1. w0 \in App /\ w0.ann = m.ann /\ w0.target = m.target /\ w0.dump = pod
    BY <1>0 DEF App
  <2> QED
    BY <1>0, <1>10, <2>1, SetStageKeeps
       DEF finalDumpOK, dumpRecorded, UpdateStatusTo, Written, StageAtStep
<1>11. CASE finalDumpError
  <2> DEFINE w0 == [m EXCEPT !.bad = @ + 1, !.latch = TRUE]
  <2>1. w0 \in App /\ w0.ann = m.ann /\ w0.target = m.target
    BY <1>0, <1>a DEF App
  <2> QED
    BY <1>0, <1>11, <2>1, SetStageKeeps DEF finalDumpError, UpdateStatusTo, Written, StageAtStep
<1>12. ASSUME fsmTransitionToRestoreFailed
       PROVE  /\ pc' = "write" /\ after' = "idle" /\ UNCHANGED <<snapOK, pod, tgt>>
              /\ m'.ann = m.ann /\ m'.stage = "RestoreFailed" /\ m'.target = m.target
  <2> DEFINE w0 == [m EXCEPT !.latch = TRUE]
  <2>1. w0 \in App /\ w0.ann = m.ann /\ w0.target = m.target
    BY <1>0 DEF App
  <2> QED
    BY <1>12, <2>1, SetStageKeeps DEF fsmTransitionToRestoreFailed, UpdateStatusTo
<1>13. CASE createTarget
  <2>1. CASE fsmTransitionToRestoreFailed
    BY <1>0, <1>12, <1>13, <2>1 DEF createTarget, Written, StageAtStep
  <2>2. CASE ~fsmTransitionToRestoreFailed
    BY <1>13, <2>2 DEF createTarget, GoesOn
  <2> QED
    BY <2>1, <2>2
<1>14. CASE targetNotRunning \/ restoreError
  BY <1>0, <1>12, <1>14 DEF targetNotRunning, restoreError, Written, StageAtStep
<1>15. CASE targetRunning
  <2> DEFINE w0 == [m EXCEPT !.target = tgt, !.latch = FALSE]
  <2>1. w0 \in App /\ w0.ann = m.ann /\ w0.target = tgt
    BY <1>0 DEF App
  <2> QED
    BY <1>0, <1>15, <2>1, SetStageKeeps DEF targetRunning, UpdateStatusTo, Written, StageAtStep
<1>16. CASE restoreOK
  <2> DEFINE w == [resetMigrationFSM(m) EXCEPT
                     !.gen = @ + 1, !.cur = m.target, !.ok = @ + 1, !.phase = "Running"]
  <2>1. w.stage = "Idle" /\ w.ann = m.ann /\ w.target = NoPod
    BY <1>0 DEF resetMigrationFSM, App
  <2>2. pc = "restore" /\ UNCHANGED objVars /\ UpdateStatusTo(w, "cleanup")
    BY <1>16 DEF restoreOK
  <2> QED
    BY <1>0, <1>16, <2>1, <2>2 DEF UpdateStatusTo, Written, StageAtStep
<1>17. CASE cleanupSource \/ awaitBackoff \/ deleteStaleTarget \/ dropRetryAnnotation
  BY <1>17 DEF cleanupSource, awaitBackoff, deleteStaleTarget, dropRetryAnnotation
<1>18. CASE giveUp
  <2> DEFINE w0 == [m EXCEPT !.bad = @ + 1]
  <2>1. w0 \in App /\ w0.ann = m.ann /\ w0.target = m.target
    BY <1>0, <1>a DEF App
  <2> QED
    BY <1>0, <1>18, <2>1, SetStageKeeps DEF giveUp, UpdateStatusTo, Written, StageAtStep
<1>19. CASE retryRestore
  <2> DEFINE w0 == [m EXCEPT !.retry = @ + 1, !.target = NoPod]
  <2>1. w0 \in App /\ w0.ann = m.ann /\ w0.target = NoPod
    BY <1>0, <1>a DEF App, NoPod
  <2> QED
    BY <1>0, <1>19, <2>1, SetStageKeeps
       DEF retryRestore, nextAttempt, UpdateStatusTo, Written, StageAtStep
<1>20. CASE checkRetryAnnotation
  <2> DEFINE w == [resetMigrationFSM(m) EXCEPT !.phase = "Pending"]
  <2>1. w.stage = "Idle" /\ w.ann = m.ann /\ w.target = NoPod
    BY <1>0 DEF resetMigrationFSM, App
  <2>2. pc = "retry" /\ UNCHANGED objVars /\ UpdateStatusTo(w, "dropAnn")
    BY <1>20 DEF checkRetryAnnotation
  <2> QED
    BY <1>20, <2>1, <2>2 DEF UpdateStatusTo, Written
<1>21. ASSUME Cluster PROVE UNCHANGED ctlVars
  BY <1>21 DEF Cluster, CacheSync, PodSync, TimePasses, PodStart, PodGone, LoadPodGone
<1>22. ASSUME Disturbance, ~UserEdit, ~UserRequestsRetry
       PROVE  UNCHANGED ctlVars \/ EndReconcile
  BY <1>22 DEF Disturbance, PodLost, LoadPodReplaced, Crash, WriteError
<1>23. CASE UNCHANGED vars
  BY <1>23 DEF vars
<1> QED
  BY <1>1, <1>2, <1>3, <1>4, <1>5, <1>6, <1>7, <1>8, <1>9, <1>10, <1>11, <1>13,
     <1>14, <1>15, <1>16, <1>17, <1>18, <1>19, <1>20, <1>21, <1>22, <1>23
     DEF Next, Controller

\* The stored object and the informer's copy of it.
Synced == cache' = api /\ cacheOK' = TRUE /\ UNCHANGED api
Stored == StatusUpdate /\ snapOK /\ api' = m /\ cache' = cache /\ cacheOK' = FALSE

\* Every step leaves the object and its copy alone, syncs the copy, stores the
\* reconcile's, or is one of the three steps that edit the object otherwise.
LEMMA ObjSteps ==
    ASSUME [Next]_vars
    PROVE  \/ UNCHANGED objVars \/ Synced \/ Stored
           \/ dropRetryAnnotation \/ UserEdit \/ UserRequestsRetry
<1>1. ASSUME Controller, ~StatusUpdate, ~dropRetryAnnotation PROVE UNCHANGED objVars
  BY <1>1
     DEF Controller, Reconcile, createInitialPod, startMigration,
         recreatePodDelete, recreatePodCreate, refreshStatus, quiesceDone,
         quiesceAct, dumpingGuard, uploadedGuard, freshGuard, finalDumpOK,
         finalDumpError, createTarget, targetRunning, targetNotRunning, restoreOK,
         restoreError, cleanupSource, giveUp, awaitBackoff, deleteStaleTarget,
         retryRestore, checkRetryAnnotation
<1>2. ASSUME Cluster PROVE UNCHANGED objVars \/ Synced
  BY <1>2 DEF Cluster, CacheSync, PodSync, TimePasses, PodStart, PodGone, LoadPodGone,
              Synced
<1>3. ASSUME Disturbance, ~UserRequestsRetry, ~UserEdit PROVE UNCHANGED objVars \/ Synced
  BY <1>3 DEF Disturbance, PodLost, LoadPodReplaced, Crash, WriteError, Synced
<1>4. CASE StatusUpdate
  BY <1>4 DEF StatusUpdate, Stored, objVars
<1>5. CASE UNCHANGED vars
  BY <1>5 DEF vars
<1> QED
  BY <1>1, <1>2, <1>3, <1>4, <1>5 DEF Next

-----------------------------------------------------------------------------
(***************************************************************************)
(* OrderInv: the copies are at most one write behind.                      *)
(***************************************************************************)
\* While nothing is lost or reset, only the very first pod is created without a
\* checkpoint.
LEMMA OnlyFirst ==
    ASSUME FirstPodInv, pc = "create", CanCreate(0)
    PROVE  created = 0 /\ m.stage = "Idle"
<1>1. created = 0
  <2>1. 1 \in Pods
    BY ControllerAssumptions DEF Pods
  <2> QED
    BY <2>1 DEF FirstPodInv, CanCreate, NameTaken, Up, Exists, Retrying
<1> QED
  BY <1>1 DEF FirstPodInv

\* No pod failed, so none is recreated.
LEMMA NoneRecreated ==
    ASSUME IInv, FirstPodInv, OrderInv
    PROVE  ~recreatePodDelete /\ ~recreatePodCreate /\ ~dropRetryAnnotation
<1>1. ~recreatePodDelete
  BY DEF recreatePodDelete, FirstPodInv, IInv, CtlOK, PodAtStep
<1> QED
  BY <1>1 DEF recreatePodCreate, dropRetryAnnotation, OrderInv

\* A copy about to be stored continues the one it was made from.
LEMMA WrittenFollows ==
    ASSUME IInv, FirstPodInv, OrderInv, Written, after' # "dropAnn"
    PROVE  Follows(m, m') /\ (after' = "cleanup" => m'.stage = "Idle")
<1>1. CASE createInitialPod
  <2>1. m.stage = "Idle"
    <3>1. CanCreate(0) \/ EndReconcile
      BY <1>1 DEF createInitialPod
    <3>2. CanCreate(0)
      BY <3>1 DEF Written, EndReconcile
    <3> QED
      BY <1>1, <3>2, OnlyFirst DEF createInitialPod
  <2>2. m'.stage = m.stage /\ after' = "idle" /\ m'.ann = m.ann
    BY <1>1, <2>1
       DEF Written, MovesStage, createInitialPod, UpdateStatusTo, IInv, CtlOK, App,
           EndReconcile
  <2> QED
    BY <2>1, <2>2 DEF Follows
<1>2. CASE ~createInitialPod
  BY <1>2, NoneRecreated DEF Written, MovesStage, Follows
<1> QED
  BY <1>1, <1>2

\* OrderInv is kept as long as nothing is lost or reset.
LEMMA OrderStep ==
    ASSUME IInv, OrderInv, FirstPodInv, [Next]_vars, Calm, Calm'
    PROVE  OrderInv'
<1>0. m \in App /\ pc \in Pcs /\ api \in App /\ cache \in App
  BY DEF IInv, CtlOK, ObjOK
<1>1. Behind(cache, api)
  BY DEF OrderInv
<1>2. CASE StatusUpdate
  <2>1. CASE ~snapOK
    <3>1. EndReconcile /\ api' = api /\ cache' = cache
      BY <1>2, <2>1 DEF StatusUpdate
    <3>2. Behind(cache', api')
      BY <1>1, <3>1 DEF Behind, Follows
    <3> QED
      BY <3>1, <3>2 DEF EndReconcile, OrderInv
  <2>2. CASE snapOK
    <3>1. /\ pc = "write" /\ api' = m /\ cache' = cache
          /\ resets' = IF after = "dropAnn" THEN resets + 1 ELSE resets
          /\ IF after = "idle" THEN EndReconcile ELSE GoTo(after)
      BY <1>2, <2>2 DEF StatusUpdate
    <3>2. after \in {"idle", "cleanup"}
      BY <3>1 DEF Calm, IInv, CtlOK
    <3>3. cache = api /\ Follows(api, m)
      BY <2>2, <3>1, <3>2 DEF OrderInv, IInv, ObjOK
    <3>4. Behind(cache', api')
      BY <3>1, <3>3 DEF Behind, Follows
    <3>5. CASE after = "idle"
      BY <3>1, <3>4, <3>5 DEF EndReconcile, OrderInv
    <3>6. CASE after = "cleanup"
      <4>1. pc' = "cleanup" /\ api'.stage = "Idle"
        BY <3>1, <3>6 DEF GoTo, OrderInv
      <4> QED
        BY <3>4, <4>1 DEF OrderInv
    <3> QED
      BY <3>2, <3>5, <3>6
  <2> QED
    BY <2>1, <2>2
<1>3. CASE UserEdit
  <2>1. cacheOK' = FALSE /\ snapOK' = FALSE /\ UNCHANGED <<api, cache, pc, m, after>>
    BY <1>3 DEF UserEdit
  <2> QED
    BY <2>1 DEF OrderInv, Behind, Follows, Asked
<1>4. CASE UserRequestsRetry
  <2>1. /\ api' = [api EXCEPT !.ann = TRUE]
        /\ cacheOK' = FALSE /\ snapOK' = FALSE /\ UNCHANGED <<cache, pc, m, after>>
    BY <1>4 DEF UserRequestsRetry
  <2>2. api'.stage = api.stage /\ api'.target = api.target /\ api'.ann
    BY <1>0, <2>1 DEF App
  <2> QED
    BY <2>1, <2>2 DEF OrderInv, Behind, Follows, Asked
<1>5. CASE UNCHANGED objVars \/ Synced
  <2>1. api' = api /\ Behind(cache', api')
    BY <1>1, <1>5 DEF Synced, objVars, Behind, Follows
  <2>2. cacheOK => cacheOK'
    BY <1>5 DEF Synced, objVars
  <2>3. CASE UNCHANGED ctlVars
    <3>1. UNCHANGED <<pc, m, snapOK, after, api>>
      BY <2>1, <2>3 DEF ctlVars
    <3>2. Asked(api) /\ Asked(cache) => Asked(api') /\ Asked(cache')
      BY <1>5 DEF Synced, objVars, Asked
    <3>3. /\ pc' \notin {"idle", "write", "cleanup"} => Behind(m', api')
          /\ pc' = "write" /\ snapOK' /\ after' # "dropAnn" => Follows(api', m')
      BY <3>1 DEF OrderInv, Behind, Follows
    <3> QED
      BY <2>1, <2>2, <3>1, <3>2, <3>3 DEF OrderInv
  <2>4. CASE EndReconcile
    BY <2>1, <2>4 DEF EndReconcile, OrderInv
  <2>5. CASE Begins
    <3>1. /\ pc' \notin {"write", "cleanup", "dropAnn", "recreate", "idle"}
          /\ pc' = "retry" => Asked(cache) /\ Asked(api)
      BY <1>0, <1>1, <2>5
         DEF Begins, advanceMigrationFSM, App, Stages, InFlight, Terminal, Asked,
             Behind, Follows
    <3>2. Behind(m', api') /\ (Asked(cache) /\ Asked(api) => Asked(cache') /\ Asked(api'))
      BY <1>1, <2>1, <2>5 DEF Begins, objVars, Behind, Follows, Asked
    <3>3. snapOK' => cacheOK'
      BY <2>5 DEF Begins, objVars
    <3> QED
      BY <2>1, <3>1, <3>2, <3>3 DEF OrderInv
  <2>6. CASE GoesOn
    <3>1. /\ pc \notin {"idle", "write", "cleanup"}
          /\ pc' \in {"finalDump", "createTarget", "waitRunning"}
          /\ UNCHANGED <<m, snapOK>>
      BY <2>6, NoneRecreated DEF GoesOn
    <3>2. Behind(m', api')
      BY <2>1, <3>1 DEF OrderInv, Behind, Follows
    <3> QED
      BY <2>1, <2>2, <3>1, <3>2 DEF OrderInv
  <2>7. CASE Written
    <3>1. pc' = "write" /\ snapOK' = snapOK /\ pc \notin {"write", "cleanup"}
      BY <2>7 DEF Written
    <3>2. snapOK => m = api
      BY <3>1 DEF IInv, CtlOK, SnapshotCurrent
    <3>3. CASE after' = "dropAnn"
      <4>1. pc = "retry" /\ UNCHANGED objVars
        BY <2>7, <3>3 DEF Written, checkRetryAnnotation
      <4>2. Asked(api') /\ Asked(cache')
        BY <4>1 DEF objVars, OrderInv, Asked
      <4> QED
        BY <2>1, <2>2, <3>1, <3>3, <4>2 DEF OrderInv
    <3>4. CASE after' # "dropAnn"
      <4>1. Follows(m, m') /\ (after' = "cleanup" => m'.stage = "Idle")
        BY <2>7, <3>4, WrittenFollows
      <4>2. snapOK' => Follows(api', m')
        BY <2>1, <3>1, <3>2, <4>1
      <4> QED
        BY <2>1, <2>2, <3>1, <3>4, <4>1, <4>2 DEF OrderInv
    <3> QED
      BY <3>3, <3>4
  <2> QED
    BY <1>2, <1>3, <1>4, <2>3, <2>4, <2>5, <2>6, <2>7, CtlSteps
<1> QED
  BY <1>2, <1>3, <1>4, <1>5, ObjSteps, NoneRecreated DEF Stored

-----------------------------------------------------------------------------
(***************************************************************************)
(* FirstPodInv: one pod starts the workload by itself.                     *)
(***************************************************************************)
\* Once a retry was asked for in a terminal stage, nothing happens before the
\* reset but attempts at it.
LEMMA RetryingStays ==
    ASSUME IInv, OrderInv, FirstPodInv, Retrying, [Next]_vars, Calm, Calm'
    PROVE  Retrying'
<1>0. api \in App /\ cache \in App /\ after \in {"idle", "cleanup", "dropAnn"}
  BY DEF IInv, CtlOK, ObjOK
<1>1. ~Stored
  <2> SUFFICES ASSUME Stored PROVE FALSE
    OBVIOUS
  <2>1. resets' = resets + 1
    BY DEF Stored, StatusUpdate, Retrying
  <2> QED
    BY <2>1 DEF Calm
<1>2. Asked(cache') /\ Asked(api')
  <2>1. CASE UserRequestsRetry
    BY <1>0, <2>1 DEF UserRequestsRetry, Retrying, Asked, App
  <2>2. CASE UserEdit \/ UNCHANGED objVars \/ Synced
    BY <2>2 DEF UserEdit, Synced, objVars, Retrying, Asked
  <2> QED
    BY <1>1, <2>1, <2>2, ObjSteps, NoneRecreated
<1>3. pc' \in {"idle", "retry", "write"} /\ (pc' = "write" => after' = "dropAnn")
  <2>1. CASE UNCHANGED ctlVars \/ EndReconcile \/ UserEdit \/ UserRequestsRetry
    BY <2>1 DEF ctlVars, EndReconcile, UserEdit, UserRequestsRetry, Retrying
  <2>2. CASE StatusUpdate
    BY <1>1, <2>2 DEF StatusUpdate, Stored, EndReconcile
  <2>3. CASE Begins
    BY <2>3 DEF Begins, Retrying
  <2>4. CASE Written
    <3>1. pc = "retry" /\ m.stage \in Terminal
      BY <2>4 DEF Written, Retrying, IInv, CtlOK, StageAtStep
    <3>2. ~createInitialPod
      BY <3>1 DEF createInitialPod
    <3> QED
      BY <2>4, <3>1, <3>2, NoneRecreated DEF Written, MovesStage, Terminal
  <2>5. CASE GoesOn
    BY <2>5 DEF GoesOn, Retrying
  <2> QED
    BY <2>1, <2>2, <2>3, <2>4, <2>5, CtlSteps
<1> QED
  BY <1>2, <1>3 DEF Retrying

\* The pods a step builds while nothing is lost or reset: the first one, or one
\* that restores a checkpoint.
LEMMA CalmCreates ==
    ASSUME IInv, OrderInv, FirstPodInv, NEW gen \in Nat, NEW d \in Pods \cup {NoPod},
           Creates(gen, d)
    PROVE  \/ created = 0 /\ gen = 0 /\ d = NoPod
           \/ createTarget /\ created # 0 /\ d # NoPod
<1>1. CASE createInitialPod /\ gen = 0 /\ d = NoPod
  BY <1>1, OnlyFirst DEF Creates, createInitialPod
<1>2. CASE createTarget /\ d = m.dump
  <2>1. m.stage = "Uploaded"
    BY <1>2 DEF createTarget, IInv, CtlOK, StageAtStep
  <2>2. m.dump \in s3 /\ s3 \subseteq Pods
    BY <2>1 DEF IInv, CtlOK, RestOK, Sound, Restorable
  <2>3. d # NoPod
    BY <1>2, <2>2 DEF Pods, NoPod
  <2>4. created # 0
    BY <2>1 DEF FirstPodInv
  <2> QED
    BY <1>2, <2>3, <2>4
<1> QED
  BY <1>1, <1>2, NoneRecreated DEF Creates

\* The first pod is deleted by a retry only.
LEMMA FirstPodDeleted ==
    ASSUME IInv, OrderInv, FirstPodInv, TargetInv, Deletes(1)
    PROVE  checkRetryAnnotation
<1>1. ~(targetNotRunning /\ 1 = tgt)
  BY DEF targetNotRunning, TargetInv
<1>2. ~(cleanupSource /\ 1 = pod)
  BY DEF cleanupSource, TargetInv
<1>3. ~(deleteStaleTarget /\ 1 = m.target)
  BY DEF deleteStaleTarget, TargetInv, TargetKnown, NoPod
<1> QED
  BY <1>1, <1>2, <1>3, NoneRecreated DEF Deletes

\* FirstPodInv is kept as long as nothing is lost or reset.
LEMMA FirstPodStep ==
    ASSUME IInv, PodsInv, OrderInv, FirstPodInv, TargetInv, [Next]_vars, Calm, Calm'
    PROVE  FirstPodInv'
<1>0. created \in Nat /\ created' \in Nat /\ created <= created' /\ 1 \in Pods
  BY CreatedGrows, ControllerAssumptions DEF Pods
<1>1. ASSUME NEW p \in Pods PROVE podSt'[p] # "failed" /\ seen'[p] # "failed"
  <2>0. podSt[p] # "failed" /\ seen[p] # "failed"
    BY DEF FirstPodInv
  <2>1. podSt'[p] # "failed"
    <3>1. CASE UNCHANGED podVars
      BY <2>0, <3>1 DEF podVars
    <3>2. ASSUME NEW q \in Pods \cup {NoPod}, Deletes(q) PROVE podSt'[p] # "failed"
      BY <2>0, <3>2, DeletedPod
    <3>3. ASSUME NEW q \in Pods, Moves(q) PROVE podSt'[p] # "failed"
      BY <2>0, <3>3, MovedPod, CalmBefore DEF Moves
    <3>4. ASSUME NEW gen \in Nat, NEW d \in Pods \cup {NoPod}, Creates(gen, d)
          PROVE  podSt'[p] # "failed"
      BY <2>0, <3>4, CreatedPod
    <3> QED
      BY <3>1, <3>2, <3>3, <3>4, PodSteps
  <2> QED
    BY <2>0, <2>1, SeenSteps
<1>2. ASSUME created' # 0
      PROVE  podGen'[1] = 0 /\ podDump'[1] = NoPod /\ (podSt'[1] \in Up \/ Retrying')
  <2>1. CASE created = 0
    <3>1. PICK gen \in Nat, d \in Pods \cup {NoPod} : Creates(gen, d)
      BY <1>2, <2>1, PodSteps, MovedPod DEF podVars, Deletes
    <3>2. gen = 0 /\ d = NoPod
      BY <2>1, <3>1, CalmCreates
    <3> QED
      BY <2>1, <3>1, <3>2, CreatedPod DEF Up
  <2>2. CASE created # 0
    <3>0. podGen[1] = 0 /\ podDump[1] = NoPod /\ (podSt[1] \in Up \/ Retrying)
      BY <2>2 DEF FirstPodInv
    <3>1. CASE Retrying
      <4>1. Retrying'
        BY <3>1, RetryingStays
      <4>2. podGen'[1] = podGen[1] /\ podDump'[1] = podDump[1]
        BY <1>0, <2>2, PodSteps, MovedPod, CreatedPod DEF podVars, Deletes
      <4> QED
        BY <3>0, <4>1, <4>2
    <3>2. CASE podSt[1] \in Up
      <4>1. CASE UNCHANGED podVars
        BY <3>0, <3>2, <4>1 DEF podVars
      <4>2. ASSUME NEW q \in Pods \cup {NoPod}, Deletes(q)
            PROVE  podGen'[1] = 0 /\ podDump'[1] = NoPod /\ (podSt'[1] \in Up \/ Retrying')
        <5>1. podGen'[1] = 0 /\ podDump'[1] = NoPod
          BY <3>0, <4>2 DEF Deletes
        <5>2. CASE q # 1
          BY <1>0, <3>2, <4>2, <5>1, <5>2, DeletedPod
        <5>3. CASE q = 1
          <6>1. checkRetryAnnotation
            BY <4>2, <5>3, FirstPodDeleted
          <6>2. pc = "retry" /\ pc' = "write" /\ after' = "dropAnn" /\ UNCHANGED objVars
            BY <6>1 DEF checkRetryAnnotation, UpdateStatusTo
          <6>3. Retrying'
            BY <6>2 DEF Retrying, OrderInv, objVars, Asked
          <6> QED
            BY <5>1, <6>3
        <5> QED
          BY <5>2, <5>3
      <4>3. ASSUME NEW q \in Pods, Moves(q)
            PROVE  podGen'[1] = 0 /\ podDump'[1] = NoPod /\ (podSt'[1] \in Up \/ Retrying')
        <5>1. ~PodLost(q)
          BY CalmBefore
        <5> QED
          BY <1>0, <3>0, <3>2, <4>3, <5>1, MovedPod DEF Up, Moves
      <4>4. ASSUME NEW gen \in Nat, NEW d \in Pods \cup {NoPod}, Creates(gen, d)
            PROVE  podGen'[1] = 0 /\ podDump'[1] = NoPod /\ (podSt'[1] \in Up \/ Retrying')
        <5>1. created + 1 # 1
          BY <1>0, <2>2
        <5> QED
          BY <1>0, <3>0, <3>2, <4>4, <5>1, CreatedPod
      <4> QED
        BY <4>1, <4>2, <4>3, <4>4, PodSteps
    <3> QED
      BY <3>0, <3>1, <3>2
  <2> QED
    BY <2>1, <2>2
<1>3. ASSUME NEW p \in Pods, 1 < p, p <= created' PROVE podDump'[p] # NoPod
  <2>0. p \in Nat
    BY DEF Pods
  <2>1. CASE \E gen \in Nat, d \in Pods \cup {NoPod} : Creates(gen, d)
    <3>1. PICK gen \in Nat, d \in Pods \cup {NoPod} : Creates(gen, d)
      BY <2>1
    <3>2. created' = created + 1 /\ podDump'[created + 1] = d
          /\ (p # created + 1 => podDump'[p] = podDump[p])
      BY <3>1, CreatedPod
    <3>3. CASE p = created + 1
      <4>1. created # 0
        BY <1>3, <3>3
      <4> QED
        BY <3>1, <3>2, <3>3, <4>1, CalmCreates
    <3>4. CASE p # created + 1
      <4>1. p <= created
        BY <1>0, <1>3, <2>0, <3>2, <3>4
      <4> QED
        BY <1>3, <3>2, <3>4, <4>1 DEF FirstPodInv
    <3> QED
      BY <3>3, <3>4
  <2>2. CASE ~ \E gen \in Nat, d \in Pods \cup {NoPod} : Creates(gen, d)
    <3>1. UNCHANGED <<created, podDump>>
      BY <2>2, PodSteps, MovedPod DEF podVars, Deletes
    <3> QED
      BY <1>3, <3>1 DEF FirstPodInv
  <2> QED
    BY <2>1, <2>2
<1>4. ASSUME created' = 0
      PROVE  api'.stage = "Idle" /\ cache'.stage = "Idle" /\ m'.stage = "Idle"
  <2>0. created = 0 /\ api.stage = "Idle" /\ cache.stage = "Idle" /\ m.stage = "Idle"
    BY <1>0, <1>4 DEF FirstPodInv
  <2>1. api'.stage = "Idle" /\ cache'.stage = "Idle"
    <3>1. CASE UserRequestsRetry
      BY <2>0, <3>1 DEF UserRequestsRetry, IInv, ObjOK, App
    <3>2. CASE UserEdit \/ UNCHANGED objVars \/ Synced \/ Stored
      BY <2>0, <3>2 DEF UserEdit, Synced, objVars, Stored
    <3> QED
      BY <3>1, <3>2, ObjSteps, NoneRecreated
  <2>2. m'.stage = "Idle"
    <3>0. NewApp.stage = "Idle"
      BY DEF NewApp
    <3>1. CASE UNCHANGED ctlVars \/ EndReconcile \/ UserEdit \/ UserRequestsRetry
      BY <2>0, <3>0, <3>1 DEF ctlVars, EndReconcile, UserEdit, UserRequestsRetry
    <3>2. CASE StatusUpdate
      BY <2>0, <3>0, <3>2 DEF StatusUpdate, EndReconcile, GoTo
    <3>3. CASE Begins \/ GoesOn
      BY <2>0, <3>3 DEF Begins, GoesOn
    <3>4. CASE Written
      <4>1. ~startMigration
        <5> SUFFICES ASSUME startMigration PROVE FALSE
          OBVIOUS
        <5>1. pod \in Pods
          BY DEF startMigration, IInv, CtlOK, PodAtStep
        <5> QED
          BY <2>0, <5>1 DEF PodsInv, Pods
      <4> QED
        BY <2>0, <3>4, <4>1 DEF Written, MovesStage
    <3> QED
      BY <3>1, <3>2, <3>3, <3>4, CtlSteps
  <2> QED
    BY <2>1, <2>2
<1> QED
  BY <1>1, <1>2, <1>3, <1>4 DEF FirstPodInv

-----------------------------------------------------------------------------
(***************************************************************************)
(* TargetInv: the target of a restore is known and stays up.               *)
(***************************************************************************)
\* The copy the reconcile holds after a step.
LEMMA CopySteps ==
    ASSUME IInv, [Next]_vars
    PROVE  m' = m \/ m' = NewApp \/ (m' = cache /\ Begins) \/ Written
<1>1. CASE UNCHANGED ctlVars \/ EndReconcile \/ UserEdit \/ UserRequestsRetry
  BY <1>1 DEF ctlVars, EndReconcile, UserEdit, UserRequestsRetry
<1>2. CASE StatusUpdate
  BY <1>2 DEF StatusUpdate, EndReconcile, GoTo
<1>3. CASE Begins \/ GoesOn \/ Written
  BY <1>3 DEF Begins, GoesOn
<1> QED
  BY <1>1, <1>2, <1>3, CtlSteps

\* A target that was seen stays seen.
LEMMA SeenStays ==
    ASSUME IInv, PodsInv, [Next]_vars, NEW a \in App, TargetKnown(a)
    PROVE  /\ a.target # NoPod => a.target > 1 /\ seen'[a.target] # "free"
           /\ a.stage = "Restoring" => a.target # NoPod
<1>1. ASSUME NEW p \in Pods, seen[p] # "free" PROVE seen'[p] # "free"
  BY <1>1, SeenSteps DEF PodsInv
<1>2. a.target \in Pods \cup {NoPod}
  BY DEF App
<1> QED
  BY <1>1, <1>2 DEF TargetKnown

\* Each copy still names a target the informer has shown.
LEMMA TargetsKnown ==
    ASSUME IInv, PodsInv, OrderInv, FirstPodInv, TargetInv, [Next]_vars, IInv'
    PROVE  (TargetKnown(api) /\ TargetKnown(cache) /\ TargetKnown(m))'
<1>0. api \in App /\ cache \in App /\ m \in App /\ tgt \in Pods \cup {NoPod}
  BY DEF IInv, CtlOK, ObjOK
<1>1. TargetKnown(api) /\ TargetKnown(cache) /\ TargetKnown(m)
  BY DEF TargetInv
<1>a. ASSUME NEW a \in App, TargetKnown(a), NEW b, b.stage = a.stage, b.target = a.target
      PROVE  /\ b.target # NoPod => b.target > 1 /\ seen'[b.target] # "free"
             /\ b.stage = "Restoring" => b.target # NoPod
  BY <1>a, SeenStays
<1>2. TargetKnown(api)'
  <2>1. CASE UserRequestsRetry
    <3>1. api'.stage = api.stage /\ api'.target = api.target
      BY <1>0, <2>1 DEF UserRequestsRetry, App
    <3> QED
      BY <1>0, <1>1, <1>a, <3>1 DEF TargetKnown
  <2>2. CASE api' = api \/ api' = m
    BY <1>0, <1>1, <1>a, <2>2 DEF TargetKnown
  <2> QED
    BY <2>1, <2>2, ObjSteps, NoneRecreated DEF UserEdit, Synced, objVars, Stored
<1>3. TargetKnown(cache)'
  <2>1. cache' = cache \/ cache' = api
    BY ObjSteps, NoneRecreated DEF UserEdit, UserRequestsRetry, Synced, objVars, Stored
  <2> QED
    BY <1>0, <1>1, <1>a, <2>1 DEF TargetKnown
<1>4. TargetKnown(m)'
  <2>1. CASE m' = m \/ m' = cache
    BY <1>0, <1>1, <1>a, <2>1 DEF TargetKnown
  <2>2. CASE m'.target = NoPod /\ m'.stage # "Restoring"
    BY <2>2 DEF TargetKnown
  <2>3. CASE m' = NewApp
    <3>1. m'.target = NoPod /\ m'.stage # "Restoring"
      BY <2>3 DEF NewApp
    <3> QED
      BY <2>2, <3>1
  <2>4. CASE Written
    <3>1. CASE m'.target = m.target /\ (m'.stage = m.stage \/ m'.stage # "Restoring")
      BY <1>0, <1>1, <3>1, SeenStays DEF TargetKnown
    <3>2. CASE targetRunning /\ m'.target = tgt
      <4>1. pc = "waitRunning" /\ seen[tgt] = "running" /\ seen' = seen
        BY <3>2 DEF targetRunning, waitForPodRunning
      <4>2. tgt > 1 /\ tgt \in Pods
        BY <4>1 DEF TargetInv
      <4> QED
        BY <3>2, <4>1, <4>2 DEF TargetKnown, Pods, NoPod
    <3> QED
      BY <2>2, <2>4, <3>1, <3>2 DEF Written, MovesStage
  <2> QED
    BY <2>1, <2>3, <2>4, CopySteps
<1> QED
  BY <1>2, <1>3, <1>4

\* Whoever deletes pods spares the target of a restore that is under way.
LEMMA TargetSpared ==
    ASSUME IInv, PodsInv, OrderInv, FirstPodInv, TargetInv, [Next]_vars, Calm, Calm',
           NEW p \in Pods, podSt[p] \in Up,
           \/ api.stage = "Restoring" /\ p = api.target
           \/ pc = "write"
           \/ pc = "waitRunning" /\ ~targetNotRunning
    PROVE  podSt'[p] \in Up
<1>1. CASE UNCHANGED podVars
  BY <1>1 DEF podVars
<1>2. ASSUME NEW q \in Pods \cup {NoPod}, Deletes(q) PROVE podSt'[p] \in Up
  <2>1. pc \in {"waitRunning", "cleanup", "restoreFailed", "retry"}
    BY <1>2, NoneRecreated
       DEF Deletes, targetNotRunning, cleanupSource, deleteStaleTarget,
           checkRetryAnnotation
  <2>2. CASE pc = "waitRunning" /\ ~targetNotRunning
    BY <1>2, <2>2, NoneRecreated
       DEF Deletes, cleanupSource, deleteStaleTarget, checkRetryAnnotation
  <2>3. CASE api.stage = "Restoring" /\ p = api.target
    <3>1. pc # "cleanup"
      BY <2>3 DEF OrderInv
    <3>2. pc # "retry"
      BY <2>3 DEF OrderInv, Asked, Terminal
    <3>3. pc # "restoreFailed"
      <4> SUFFICES ASSUME pc = "restoreFailed" PROVE FALSE
        OBVIOUS
      <4>1. m.stage = "RestoreFailed" /\ Behind(m, api)
        BY DEF IInv, CtlOK, StageAtStep, OrderInv
      <4> QED
        BY <2>3, <4>1 DEF Behind, Follows
    <3>4. q = tgt /\ tgt # api.target
      BY <1>2, <2>1, <3>1, <3>2, <3>3, NoneRecreated
         DEF Deletes, cleanupSource, deleteStaleTarget, checkRetryAnnotation, TargetInv
    <3> QED
      BY <1>2, <2>3, <3>4, DeletedPod
  <2> QED
    BY <2>1, <2>2, <2>3
<1>3. ASSUME NEW q \in Pods, Moves(q) PROVE podSt'[p] \in Up
  <2>1. ~PodLost(q)
    BY CalmBefore
  <2> QED
    BY <1>3, <2>1, MovedPod DEF Moves, Up
<1>4. ASSUME NEW gen \in Nat, NEW d \in Pods \cup {NoPod}, Creates(gen, d)
      PROVE  podSt'[p] \in Up
  BY <1>4, CreatedPod DEF Up
<1> QED
  BY <1>1, <1>2, <1>3, <1>4, PodSteps

\* TargetInv is kept as long as nothing is lost or reset.
LEMMA TargetStep ==
    ASSUME IInv, IInv', PodsInv, OrderInv, FirstPodInv, TargetInv, LiveInv, [Next]_vars,
           Calm, Calm'
    PROVE  TargetInv'
<1>0. /\ api \in App /\ m \in App /\ cache \in App
      /\ api.target \in Pods \cup {NoPod} /\ m.target \in Pods \cup {NoPod}
      /\ cache.target \in Pods \cup {NoPod}
      /\ tgt \in Pods \cup {NoPod} /\ pod \in Pods \cup {NoPod}
  BY DEF IInv, CtlOK, ObjOK, App
<1>1. (TargetKnown(api) /\ TargetKnown(cache) /\ TargetKnown(m))'
  BY TargetsKnown
<1>2. ASSUME api'.stage = "Restoring" PROVE podSt'[api'.target] \in Up
  <2>1. CASE api'.stage = api.stage /\ api'.target = api.target
    <3>1. api.target \in Pods /\ podSt[api.target] \in Up
      BY <1>0, <1>2, <2>1 DEF TargetInv, TargetKnown
    <3> QED
      BY <1>2, <2>1, <3>1, TargetSpared
  <2>2. CASE Stored
    <3>1. pc = "write" /\ snapOK /\ api' = m
      BY <2>2 DEF Stored, StatusUpdate
    <3>2. m.target \in Pods /\ podSt[m.target] \in Up
      BY <1>0, <1>2, <3>1 DEF TargetInv, TargetKnown
    <3> QED
      BY <3>1, <3>2, TargetSpared
  <2>3. CASE UserRequestsRetry
    <3>1. api'.stage = api.stage /\ api'.target = api.target
      BY <1>0, <2>3 DEF UserRequestsRetry, App
    <3> QED
      BY <2>1, <3>1
  <2> QED
    BY <2>1, <2>2, <2>3, ObjSteps, NoneRecreated DEF UserEdit, Synced, objVars
<1>3. ASSUME pc' = "write", snapOK', m'.stage = "Restoring"
      PROVE  podSt'[m'.target] \in Up
  <2>1. CASE Written
    <3>1. CASE createInitialPod
      <4>1. CanCreate(0) \/ EndReconcile
        BY <3>1 DEF createInitialPod
      <4>2. m.stage = "Idle"
        BY <1>3, <3>1, <4>1, OnlyFirst DEF createInitialPod, EndReconcile
      <4>3. m'.stage = m.stage
        BY <1>0, <1>3, <3>1 DEF createInitialPod, EndReconcile, UpdateStatusTo, App
      <4> QED
        BY <1>3, <4>2, <4>3
    <3>2. CASE ~createInitialPod
      <4>1. targetRunning /\ m'.target = tgt
        BY <1>3, <2>1, <3>2, NoneRecreated DEF Written, MovesStage
      <4>2. podSt[tgt] \in Up /\ podSt' = podSt
        BY <4>1 DEF targetRunning, TargetInv, podVars
      <4> QED
        BY <4>1, <4>2
    <3> QED
      BY <3>1, <3>2
  <2>2. CASE ~Written
    <3>1. pc = "write" /\ m' = m /\ (snapOK' => snapOK)
      <4>1. ~EndReconcile
        BY <1>3 DEF EndReconcile
      <4>2. ~StatusUpdate
        BY <1>3, <4>1 DEF StatusUpdate, GoTo, IInv, CtlOK
      <4>3. ~Begins
        BY <1>0, <1>3 DEF Begins, advanceMigrationFSM
      <4>4. ~GoesOn
        BY <1>3 DEF GoesOn
      <4> QED
        BY <1>3, <2>2, <4>1, <4>2, <4>3, <4>4, CtlSteps
           DEF ctlVars, UserEdit, UserRequestsRetry
    <3>2. m.target \in Pods /\ podSt[m.target] \in Up
      BY <1>0, <1>3, <3>1 DEF TargetInv, TargetKnown
    <3> QED
      BY <3>1, <3>2, TargetSpared
  <2> QED
    BY <2>1, <2>2
<1>4. ASSUME pc' = "waitRunning"
      PROVE  tgt' \in Pods /\ tgt' > 1 /\ tgt' # api'.target /\ podSt'[tgt'] \in Up
  <2>1. CASE GoesOn
    <3>1. createTarget /\ tgt' = created + 1 /\ UNCHANGED objVars
      BY <1>4, <2>1 DEF GoesOn
    <3>2. CanCreate(m.gen + 1) /\ CreatePod(m.gen + 1, m.dump)
      BY <1>4, <3>1 DEF createTarget, fsmTransitionToRestoreFailed, UpdateStatusTo
    <3>3. Creates(m.gen + 1, m.dump) /\ m.gen + 1 \in Nat /\ m.dump \in Pods \cup {NoPod}
      BY <1>0, <1>4, <3>1, <3>2 DEF Creates, App
    <3>4. created + 1 \in Pods /\ podSt'[created + 1] = "pending" /\ created # 0
      <4>1. m.stage = "Uploaded"
        BY <3>1 DEF createTarget, IInv, CtlOK, StageAtStep
      <4>2. created # 0
        BY <4>1 DEF FirstPodInv
      <4> QED
        BY <3>3, <4>2, CreatedPod
    <3>5. created \in Nat /\ api.target # created + 1
      <4>1. created \in Nat
        BY CreatedGrows
      <4>2. podSt[created + 1] = "free"
        BY <3>4, <4>1 DEF PodsInv
      <4> QED
        BY <3>4, <4>1, <4>2 DEF PodsInv, TargetInv, TargetKnown, NoPod
    <3> QED
      BY <3>1, <3>4, <3>5 DEF objVars, Up
  <2>2. CASE ~GoesOn
    <3>1. pc = "waitRunning" /\ tgt' = tgt
      <4>1. ~EndReconcile
        BY <1>4 DEF EndReconcile
      <4>2. ~StatusUpdate
        BY <1>4, <4>1 DEF StatusUpdate, GoTo, IInv, CtlOK
      <4>3. ~Begins
        BY <1>0, <1>4 DEF Begins, advanceMigrationFSM
      <4>4. ~Written
        BY <1>4 DEF Written
      <4> QED
        BY <1>4, <2>2, <4>1, <4>2, <4>3, <4>4, CtlSteps
           DEF ctlVars, UserEdit, UserRequestsRetry
    <3>2. api'.target = api.target
      <4>1. ~Stored
        BY <3>1 DEF Stored, StatusUpdate
      <4> QED
        BY <1>0, <4>1, ObjSteps, NoneRecreated
           DEF UserEdit, UserRequestsRetry, Synced, objVars, App
    <3>3. ~targetNotRunning
      BY <1>4 DEF targetNotRunning, fsmTransitionToRestoreFailed, UpdateStatusTo
    <3>4. tgt \in Pods /\ tgt > 1 /\ tgt # api.target /\ podSt[tgt] \in Up
      BY <3>1 DEF TargetInv
    <3> QED
      BY <3>1, <3>2, <3>3, <3>4, TargetSpared
  <2> QED
    BY <2>1, <2>2
<1>5. /\ pc' = "restore" /\ snapOK' => pod' > 1
      /\ pc' = "write" /\ snapOK' /\ after' = "cleanup" => pod' > 1
      /\ pc' = "cleanup" => pod' > 1
  <2>1. CASE UNCHANGED ctlVars \/ UserEdit \/ UserRequestsRetry
    <3>1. UNCHANGED <<pc, after, pod>> /\ (snapOK' => snapOK)
      BY <2>1 DEF ctlVars, UserEdit, UserRequestsRetry
    <3> QED
      BY <3>1 DEF TargetInv
  <2>2. CASE EndReconcile
    BY <2>2 DEF EndReconcile
  <2>3. CASE StatusUpdate
    BY <2>3 DEF StatusUpdate, EndReconcile, GoTo, TargetInv, IInv, CtlOK
  <2>4. CASE Begins
    <3>1. pc' \notin {"write", "cleanup"}
      BY <1>0, <2>4 DEF Begins, advanceMigrationFSM
    <3>2. ASSUME pc' = "restore", snapOK' PROVE pod' > 1
      <4>1. cache.stage = "Restoring" /\ cacheOK /\ getCurrentPod(pod') /\ pod' # NoPod
        BY <1>0, <2>4, <3>2 DEF Begins, advanceMigrationFSM, App, Stages, InFlight, Terminal
      <4>2. api.stage = "Restoring" /\ api.target \in Pods /\ api.target > 1
            /\ seen[api.target] # "free" /\ podSt[api.target] \in Up
        BY <1>0, <4>1 DEF IInv, ObjOK, TargetInv, TargetKnown
      <4>3. seen[api.target] \in Up
        BY <4>2 DEF PodsInv, Up, IInv, RestOK, PodStates
      <4>4. api.target <= pod'
        BY <4>1, <4>2, <4>3 DEF getCurrentPod
      <4>5. pod' \in Nat /\ api.target \in Nat
        BY <4>2 DEF IInv, CtlOK, Pods, NoPod
      <4> QED
        BY <4>2, <4>4, <4>5
    <3> QED
      BY <3>1, <3>2
  <2>5. CASE GoesOn
    BY <2>5 DEF GoesOn
  <2>6. CASE Written
    <3>1. ASSUME after' = "cleanup" PROVE pc = "restore"
      BY <2>6, <3>1 DEF Written, restoreOK
    <3> QED
      BY <2>6, <3>1 DEF Written, TargetInv
  <2> QED
    BY <2>1, <2>2, <2>3, <2>4, <2>5, <2>6, CtlSteps
<1> QED
  BY <1>1, <1>2, <1>3, <1>4, <1>5 DEF TargetInv

-----------------------------------------------------------------------------
(***************************************************************************)
(* LiveInv: the workload lives in one pod, the one the object names.       *)
(***************************************************************************)
\* A reconcile that neither begins, goes on nor computes a new copy stays where
\* it is.
LEMMA StaysPut ==
    ASSUME IInv, [Next]_vars, pc' \notin {"idle", "cleanup", "dropAnn"},
           ~Begins, ~GoesOn, ~Written
    PROVE  UNCHANGED <<pc, m, pod, tgt, after>> /\ (snapOK' => snapOK)
<1>1. ~EndReconcile
  BY DEF EndReconcile
<1>2. ~StatusUpdate
  BY <1>1 DEF StatusUpdate, GoTo, IInv, CtlOK
<1>3. UNCHANGED ctlVars \/ UserEdit \/ UserRequestsRetry
  BY <1>1, <1>2, CtlSteps
<1> QED
  BY <1>3 DEF ctlVars, UserEdit, UserRequestsRetry

\* Where a reconcile that begins goes.
LEMMA BeginsAt ==
    ASSUME IInv, Begins
    PROVE  /\ pc' \notin {"idle", "write", "cleanup", "dropAnn", "finalDump", "createTarget",
                          "waitRunning", "recreate"}
           /\ pc' = "restore" => cache.stage = "Restoring"
           /\ pc' = "uploaded" => cache.stage = "Uploaded"
           /\ pc' = "dump" => cache.stage = "Dumping"
<1>1. cache.stage \in Stages
  BY DEF IInv, ObjOK, App
<1> QED
  BY <1>1 DEF Begins, advanceMigrationFSM, Stages, InFlight, Terminal

\* Before the first upload no copy of the object is in a stage that restores.
LEMMA NothingUploaded ==
    ASSUME IInv, s3 = {}
    PROVE  /\ api.stage \notin Restorable /\ cache.stage \notin Restorable
           /\ m.stage \notin Restorable /\ pc # "restore"
  BY DEF IInv, CtlOK, ObjOK, Sound, StageAtStep, Restorable

\* The workload comes to life in the first pod, when there is no checkpoint yet,
\* or in the target of the restore under way.
LEMMA LiveSteps ==
    ASSUME IInv, PodsInv, FirstPodInv, LiveInv, [Next]_vars, Calm, Calm'
    PROVE  \/ Live' \subseteq Live
           \/ s3 = {} /\ Live' \subseteq {1} /\ podSt'[1] = "running" /\ pc # "restore"
           \/ Restores /\ Live' \subseteq {m.target}
<1>0. proc \in [Pods -> {"none", "live", "dead"}] /\ 1 \in Pods
  BY ControllerAssumptions DEF IInv, RestOK, Pods
<1>1. CASE UNCHANGED workVars
  BY <1>1 DEF workVars, Live
<1>2. CASE FinalDumps
  BY <1>0, <1>2 DEF FinalDumps, Live
<1>3. CASE Restores
  <2>1. Live \subseteq {m.target}
    BY <1>3 DEF LiveInv, Restores
  <2> QED
    BY <1>0, <1>3, <2>1 DEF Restores, Live
<1>4. ASSUME NEW p \in Pods, Moves(p), ~(Live' \subseteq Live)
      PROVE  s3 = {} /\ Live' \subseteq {1} /\ podSt'[1] = "running" /\ pc # "restore"
  <2>1. PICK q \in Pods : proc'[q] = "live" /\ proc[q] # "live"
    BY <1>4 DEF Live
  <2>2. q = p /\ PodStart(p) /\ podDump[p] = NoPod
    BY <1>4, <2>1, MovedPod, CalmBefore DEF Moves
  <2>3. podSt[p] = "pending" /\ podSt'[p] = "running"
    BY <1>4, <2>2, MovedPod
  <2>4. p = 1
    <3>1. p <= created /\ p \in Nat /\ p >= 1
      BY <2>3 DEF PodsInv, Pods
    <3> QED
      BY <2>2, <3>1 DEF FirstPodInv
  <2>5. s3 = {} /\ Live = {}
    BY <2>3, <2>4 DEF LiveInv
  <2>6. Live' \subseteq {1}
    <3>1. \A r \in Pods : r # 1 => proc'[r] = proc[r]
      BY <1>4, <2>4, MovedPod
    <3> QED
      BY <2>5, <3>1 DEF Live
  <2> QED
    BY <2>3, <2>4, <2>5, <2>6, NothingUploaded
<1> QED
  BY <1>1, <1>2, <1>3, <1>4, WorkSteps

\* A final dump leaves no workload alive.
LEMMA DumpKills ==
    ASSUME IInv, LiveInv, FinalDumps
    PROVE  Live' = {} /\ Live # {}
<1>1. pod \in Pods /\ proc \in [Pods -> {"none", "live", "dead"}]
  BY DEF IInv, CtlOK, RestOK, PodAtStep, FinalDumps
<1>2. pod \in Live
  BY <1>1 DEF FinalDumps, Live
<1>3. \A p \in Live : p = pod
  BY <1>2 DEF LiveInv
<1>4. \A p \in Pods : proc'[p] = "live" => p # pod /\ p \in Live
  BY <1>1 DEF FinalDumps, Live
<1> QED
  BY <1>2, <1>3, <1>4 DEF Live

\* The first pod has started before a workload lives or a checkpoint exists.
LEMMA FirstStarted ==
    ASSUME IInv, PodsInv, FirstPodInv, LiveInv, [Next]_vars, Calm, Calm',
           Live' # {} \/ s3' # {}
    PROVE  podSt'[1] \notin {"free", "pending"}
<1>0. 1 \in Pods
  BY ControllerAssumptions DEF Pods
<1>1. CASE Live # {} \/ s3 # {}
  <2>1. podSt[1] \notin {"free", "pending"}
    BY <1>1 DEF LiveInv
  <2> QED
    BY <1>0, <2>1, AllMoveOn DEF PodMovesOn
<1>2. CASE Live = {} /\ s3 = {}
  <2>1. s3' = {}
    <3>1. ~FinalDumps
      BY <1>2, DumpKills
    <3> QED
      BY <1>2, <3>1, WorkSteps, MovedPod DEF workVars, Restores
  <2>2. ~Restores
    BY <1>2, NothingUploaded DEF Restores
  <2> QED
    BY <1>2, <2>1, <2>2, LiveSteps
<1> QED
  BY <1>1, <1>2

\* Where the workload lives, as the stored object tells it.
LEMMA ApiHolds ==
    ASSUME IInv, PodsInv, OrderInv, FirstPodInv, LiveInv, [Next]_vars, Calm, Calm'
    PROVE  Holds(api)'
<1>1. CASE Stored
  <2>1. api' = m /\ Holds(m) /\ Live' = Live
    BY <1>1 DEF Stored, StatusUpdate, LiveInv, workVars, Live
  <2> QED
    BY <2>1 DEF Holds
<1>2. CASE ~Stored
  <2>1. api'.stage = api.stage /\ api'.target = api.target
    BY <1>2, ObjSteps, NoneRecreated
       DEF UserEdit, UserRequestsRetry, Synced, objVars, IInv, ObjOK, App
  <2>2. Holds(api)
    BY DEF LiveInv
  <2>3. CASE Live' \subseteq Live
    BY <2>1, <2>2, <2>3 DEF Holds
  <2>4. CASE s3 = {}
    BY <2>1, <2>4, NothingUploaded DEF Holds, Restorable
  <2>5. CASE Restores /\ Live' \subseteq {m.target}
    <3>1. m.stage = "Restoring" /\ Behind(m, api)
      BY <2>5 DEF Restores, IInv, CtlOK, StageAtStep, OrderInv
    <3>2. /\ api.stage \in {"Restoring", "RestoreFailed", "Idle"}
          /\ api.stage # "Idle" => api.target = m.target
      BY <3>1 DEF Behind, Follows
    <3> QED
      BY <2>1, <2>5, <3>2 DEF Holds
  <2> QED
    BY <2>3, <2>4, <2>5, LiveSteps
<1> QED
  BY <1>1, <1>2

\* And as the copy about to replace it tells it.
LEMMA CopyHolds ==
    ASSUME IInv, PodsInv, OrderInv, FirstPodInv, TargetInv, LiveInv, [Next]_vars,
           Calm, Calm', pc' = "write", snapOK'
    PROVE  Holds(m)'
<1>1. CASE ~Written
  <2>1. pc = "write" /\ m' = m /\ snapOK
    BY <1>1, StaysPut, BeginsAt DEF GoesOn
  <2>2. Holds(m)
    BY <2>1 DEF LiveInv
  <2>3. CASE Live' \subseteq Live
    BY <2>1, <2>2, <2>3 DEF Holds
  <2>4. CASE s3 = {}
    BY <2>1, <2>4, NothingUploaded DEF Holds, Restorable
  <2> QED
    BY <2>1, <2>3, <2>4, LiveSteps DEF Restores
<1>2. CASE Written
  <2>1. m = api /\ Holds(m)
    BY <1>2 DEF Written, IInv, CtlOK, SnapshotCurrent, LiveInv
  <2>2. CASE createInitialPod \/ recreatePodCreate
    <3>1. CASE createInitialPod
      <4>1. CanCreate(0) \/ EndReconcile
        BY <3>1 DEF createInitialPod
      <4>2. m.stage = "Idle"
        BY <3>1, <4>1, OnlyFirst DEF createInitialPod, EndReconcile
      <4>3. m'.stage = m.stage
        BY <3>1 DEF createInitialPod, EndReconcile, UpdateStatusTo, IInv, CtlOK, App
      <4> QED
        BY <4>2, <4>3 DEF Holds
    <3> QED
      BY <2>2, <3>1, NoneRecreated
  <2>3. CASE finalDumpOK
    <3>1. FinalDumps
      BY <2>3 DEF finalDumpOK, FinalDumps
    <3> QED
      BY <3>1, DumpKills DEF Holds
  <2>4. CASE retryRestore
    <3>1. pc = "restoreFailed" /\ m.stage = "RestoreFailed" /\ ~staleTargetSeen
          /\ proc' = proc
      BY <2>4 DEF retryRestore, IInv, CtlOK, StageAtStep, workVars
    <3>2. Live \subseteq {m.target}
      BY <2>1, <3>1 DEF Holds
    <3>3. ASSUME NEW p \in Live PROVE FALSE
      <4>1. p \in Pods /\ p = m.target /\ podSt[p] \in Reachable
        BY <3>2, <3>3 DEF Live, PodsInv
      <4>2. seen[p] \notin Exists /\ seen[p] # "free" /\ seen[p] \in PodStates
        BY <3>1, <4>1 DEF staleTargetSeen, TargetInv, TargetKnown, Pods, NoPod, IInv, RestOK
      <4>3. seen[p] = "gone"
        BY <4>2 DEF Exists, Up, PodStates
      <4> QED
        BY <4>1, <4>3 DEF PodsInv, Reachable
    <3>4. Live' = {}
      BY <3>1, <3>3 DEF Live
    <3> QED
      BY <3>4 DEF Holds
  <2>5. CASE restoreError /\ MovesStage({"Restoring"}, "RestoreFailed")
    <3>1. pc = "restore" /\ m.stage = "Restoring"
      BY <2>5 DEF restoreError, IInv, CtlOK, StageAtStep
    <3>2. m'.stage = "RestoreFailed" /\ m'.target = m.target
      BY <2>5 DEF MovesStage
    <3>3. Live' \subseteq {m.target}
      BY <3>1, LiveSteps DEF LiveInv
    <3> QED
      BY <3>2, <3>3 DEF Holds
  <2>6. CASE targetRunning \/ createTarget \/ targetNotRunning
    <3>1. m.stage = "Uploaded" /\ proc' = proc
      BY <2>6 DEF targetRunning, createTarget, targetNotRunning, IInv, CtlOK, StageAtStep,
                  workVars
    <3>2. Live' = {}
      BY <2>1, <3>1 DEF Holds, Live
    <3> QED
      BY <3>2 DEF Holds
  <2>7. CASE giveUp /\ MovesStage({"RestoreFailed"}, "Failed")
    <3>1. m.stage = "RestoreFailed" /\ proc' = proc
      BY <2>7 DEF giveUp, IInv, CtlOK, StageAtStep, workVars
    <3>2. Live' \subseteq {m.target}
      BY <2>1, <3>1 DEF Holds, Live
    <3> QED
      BY <2>7, <3>2 DEF Holds, MovesStage
  <2>8. CASE m'.stage \in {"Idle", "Quiescing", "Dumping", "FinalDumpFailed"}
    BY <2>8 DEF Holds
  <2> QED
    BY <1>2, <2>2, <2>3, <2>4, <2>5, <2>6, <2>7, <2>8 DEF Written, MovesStage
<1> QED
  BY <1>1, <1>2

\* LiveInv is kept.
LEMMA LiveStep ==
    ASSUME IInv, PodsInv, OrderInv, FirstPodInv, TargetInv, LiveInv, [Next]_vars,
           Calm, Calm'
    PROVE  LiveInv'
<1>1. \A p, q \in Live' : p = q
  BY LiveSteps DEF LiveInv
<1>2. Holds(api)'
  BY ApiHolds
<1>3. cache' = cache \/ (cache' = api' /\ api' = api)
  BY ObjSteps, NoneRecreated DEF UserEdit, UserRequestsRetry, Synced, objVars, Stored
<1>4. ASSUME cache'.stage = "Restoring" PROVE Live' \subseteq {cache'.target}
  <2>1. CASE cache' = api'
    BY <1>2, <1>4, <2>1 DEF Holds
  <2>2. CASE cache' = cache
    <3>1. Live \subseteq {cache.target} /\ (pc = "restore" => cache.target = m.target)
      BY <1>4, <2>2 DEF LiveInv
    <3>2. s3 # {}
      BY <1>4, <2>2, NothingUploaded DEF Restorable
    <3> QED
      BY <2>2, <3>1, <3>2, LiveSteps DEF Restores
  <2> QED
    BY <1>3, <2>1, <2>2
<1>5. ASSUME pc' = "restore"
      PROVE  /\ Live' \subseteq {m'.target}
             /\ cache'.stage = "Restoring" => cache'.target = m'.target
  <2>1. CASE Begins
    <3>1. m' = cache' /\ cache'.stage = "Restoring"
      BY <1>5, <2>1, BeginsAt DEF Begins, objVars
    <3> QED
      BY <1>4, <3>1
  <2>2. CASE ~Begins
    <3>1. pc = "restore" /\ m' = m /\ m.stage = "Restoring" /\ Behind(m, api)
      BY <1>5, <2>2, StaysPut DEF GoesOn, Written, IInv, CtlOK, StageAtStep, OrderInv
    <3>2. Live' \subseteq {m'.target}
      BY <3>1, LiveSteps DEF LiveInv
    <3>3. api.stage = "Restoring" => api.target = m.target
      BY <3>1 DEF Behind, Follows
    <3> QED
      BY <1>3, <3>1, <3>2, <3>3 DEF LiveInv
  <2> QED
    BY <2>1, <2>2
<1> QED
  BY <1>1, <1>2, <1>4, <1>5, FirstStarted, CopyHolds DEF LiveInv

-----------------------------------------------------------------------------
(***************************************************************************)
(* One workload.                                                           *)
(***************************************************************************)
\* The first layer holds in the initial state,
LEMMA InitCalmInv == ASSUME Init PROVE PodsInv /\ CalmInv
<1>0. /\ NewApp.stage = "Idle" /\ NewApp.target = NoPod /\ NewApp.ann = FALSE
      /\ NewApp.phase = ""
  BY DEF NewApp
<1>a. created = 0 /\ \A p \in Pods : p \in Nat /\ ~(p <= created)
  BY DEF Init, Pods
<1>1. PodsInv
  BY <1>a DEF Init, PodsInv, NoPod
<1>2. OrderInv
  BY <1>0 DEF Init, OrderInv, Behind, Follows, Asked
<1>3. FirstPodInv
  BY <1>0, <1>a DEF Init, FirstPodInv
<1>4. TargetInv
  BY <1>0 DEF Init, TargetInv, TargetKnown
<1>5. Live = {} /\ s3 = {}
  BY DEF Init, Live
<1>6. LiveInv
  BY <1>0, <1>5 DEF Init, LiveInv, Holds
<1> QED
  BY <1>1, <1>2, <1>3, <1>4, <1>6 DEF CalmInv

\* and every step keeps it.
LEMMA StepCalmInv ==
    ASSUME IInv, PodsInv, CalmInv, [Next]_vars
    PROVE  PodsInv' /\ CalmInv'
<1>1. PodsInv'
  BY PodsInvStep
<1>2. IInv'
  BY StepIInv
<1>3. ASSUME Calm' PROVE (OrderInv /\ FirstPodInv /\ TargetInv /\ LiveInv)'
  <2>1. Calm /\ OrderInv /\ FirstPodInv /\ TargetInv /\ LiveInv
    BY <1>3, CalmBefore DEF CalmInv
  <2> QED
    BY <1>2, <1>3, <2>1, OrderStep, FirstPodStep, TargetStep, LiveStep
<1> QED
  BY <1>1, <1>3 DEF CalmInv

\* A set whose members are all equal.
LEMMA AtMostOne ==
    ASSUME NEW S, \A x, y \in S : x = y
    PROVE  Cardinality(S) <= 1
<1>1. CASE S = {}
  BY <1>1, FS_EmptySet
<1>2. CASE S # {}
  <2>1. PICK x \in S : S = {x}
    BY <1>2
  <2>2. Cardinality({x}) = 1
    BY FS_Singleton
  <2> QED
    BY <2>1, <2>2
<1> QED
  BY <1>1, <1>2

\* The first layer is an invariant of the controller: between two reads of a
\* lagging cache the object moved on by at most one of the controller's writes.
THEOREM CalmInvariance == Spec => [](IInv /\ PodsInv /\ CalmInv)
  BY InitIInv, StepIInv, InitCalmInv, StepCalmInv, PTL DEF Spec

\* As long as no pod is lost and no terminal stage is reset, at most one pod
\* runs the workload, one that is being deleted included (SingleWorkload): whatever
\* calls fail, whoever edits the object, wherever the controller crashes.
THEOREM OneWorkload == Spec => []SingleWorkload
<1>1. ASSUME IInv, PodsInv, CalmInv PROVE SingleWorkload
  <2> SUFFICES ASSUME ~lost, resets = 0
               PROVE  Cardinality({p \in Pods : proc[p] = "live"}) <= 1
    BY DEF SingleWorkload
  <2> DEFINE S == {p \in Pods : proc[p] = "live"}
  <2>1. \A p, q \in S : p = q
    BY <1>1 DEF CalmInv, Calm, LiveInv, Live
  <2> QED
    BY <2>1, AtMostOne
<1> QED
  BY <1>1, CalmInvariance, PTL

-----------------------------------------------------------------------------
(***************************************************************************)
(* The undisturbed controller.                                             *)
(***************************************************************************)
\* No call failed, nobody edited the object, no crash, no pod lost.
Undisturbed == trouble = 0

\* A copy that is not the newest is behind by exactly one write of the
\* controller: it shows, by its stage, that it is.  So the uncached read of the
\* two guards lets only the newest copy pass.
LagInv ==
    /\ Calm /\ ~api.ann /\ ~cache.ann /\ ~m.ann
    /\ cacheOK \/ Follows(cache, api)
    /\ snapOK \/ pc \in {"idle", "write", "cleanup"} \/ Follows(m, api)
    /\ pc = "finalDump" => api.stage = "Dumping" /\ snapOK
    /\ pc \in {"createTarget", "waitRunning"} => api.stage = "Uploaded" /\ snapOK

\* A pod that was dumped is not brought to life again, and no final dump is
\* called with a checkpoint uploaded, but after a success.
OnceInv ==
    /\ api.stage = "Restoring" => api.target \notin s3
    /\ cache.stage = "Restoring" => cache.target \notin s3
    /\ m.stage = "Restoring" => m.target \notin s3
    /\ pc = "waitRunning" => tgt \notin s3
    /\ Live \cap s3 = {}
    /\ api.ok = 0 /\ api.stage \in {"Idle", "Quiescing", "Dumping"} /\ s3 # {} =>
         pc = "write" /\ snapOK /\ m.stage \in {"Uploaded", "FinalDumpFailed"}

\* The pods built to restore checkpoint d, and those of them not being deleted.
Tries(d) == {p \in Pods : podDump[p] = d}
UpTries(d) == {p \in Pods : podDump[p] = d /\ podSt[p] \in Up}

\* The object a allows one more try; or its last one is, at most, pod p.
Untried(a) == UpTries(a.dump) = {} /\ Cardinality(Tries(a.dump)) <= a.retry
TriedOn(a, p) == UpTries(a.dump) \subseteq {p} /\ Cardinality(Tries(a.dump)) <= a.retry + 1

\* The tries of a's checkpoint are those its stage and retry count tell of.
TriedAs(a) ==
    /\ a.stage = "Uploaded" => Untried(a)
    /\ a.stage \in {"Restoring", "RestoreFailed", "Failed"} => TriedOn(a, a.target)

\* A try is under way that the stored object does not show.
Trying == pc = "waitRunning" \/ (pc = "write" /\ snapOK)

\* The tries of every checkpoint are one at a time and bounded, and the object
\* counts them - except for the one under way.
TriesInv ==
    /\ \A d \in Pods : \A p, q \in UpTries(d) : p = q
    /\ \A d \in Pods : Cardinality(Tries(d)) <= MaxRetries + 1
    /\ api.stage # "Uploaded" \/ ~Trying => TriedAs(api)
    /\ pc = "waitRunning" => TriedOn(api, tgt)
    /\ pc = "write" /\ snapOK => TriedAs(m)

\* The second layer.
QuietInv == Undisturbed => LagInv /\ OnceInv /\ TriesInv

\* A step that leaves the controller undisturbed is no disturbance.
LEMMA UndisturbedBefore ==
    ASSUME IInv, [Next]_vars, Undisturbed'
    PROVE  Undisturbed /\ ~Trouble
<1>0. trouble \in Nat
  BY DEF IInv, RestOK
<1>1. ASSUME Controller PROVE Trouble \/ trouble' = trouble
  BY <1>1
     DEF Controller, Reconcile, StatusUpdate, createInitialPod, startMigration,
         recreatePodDelete, recreatePodCreate, refreshStatus, quiesceDone,
         quiesceAct, dumpingGuard, uploadedGuard, freshGuard, finalDumpOK,
         finalDumpError, createTarget, targetRunning, targetNotRunning, restoreOK,
         restoreError, cleanupSource, giveUp, awaitBackoff, deleteStaleTarget,
         retryRestore, checkRetryAnnotation, dropRetryAnnotation
<1>2. ASSUME Cluster PROVE trouble' = trouble
  BY <1>2 DEF Cluster, CacheSync, PodSync, TimePasses, PodStart, PodGone, LoadPodGone
<1>3. ASSUME Disturbance PROVE Trouble
  BY <1>3 DEF Disturbance, PodLost, LoadPodReplaced, UserEdit, UserRequestsRetry,
              Crash, WriteError
<1>4. Trouble \/ trouble' = trouble
  BY <1>1, <1>2, <1>3 DEF Next, vars
<1>5. Trouble => trouble' = trouble + 1
  BY DEF Trouble
<1> QED
  BY <1>0, <1>4, <1>5 DEF Undisturbed

\* What is left of the steps.
LEMMA QuietSteps ==
    ASSUME IInv, [Next]_vars, ~Trouble
    PROVE  /\ ~ \E p \in Pods : PodLost(p)
           /\ ~UserEdit /\ ~UserRequestsRetry /\ ~Crash /\ ~WriteError
           /\ Controller \/ (Cluster /\ UNCHANGED <<api, ctlVars>>) \/ UNCHANGED vars
<1>1. ~Disturbance
  BY DEF Disturbance, PodLost, LoadPodReplaced, UserEdit, UserRequestsRetry, Crash,
         WriteError
<1>2. ASSUME Cluster PROVE UNCHANGED <<api, ctlVars>>
  BY <1>2 DEF Cluster, CacheSync, PodSync, TimePasses, PodStart, PodGone, LoadPodGone,
              objVars
<1> QED
  BY <1>1, <1>2 DEF Next, Disturbance

\* A copy to be stored is stored, or refused as stale.
LEMMA QuietWrite ==
    ASSUME IInv, [Next]_vars, ~Trouble, pc = "write"
    PROVE  StatusUpdate \/ UNCHANGED <<api, ctlVars>>
<1>1. CASE Controller
  BY <1>1
     DEF Controller, Reconcile, createInitialPod, startMigration,
         recreatePodDelete, recreatePodCreate, refreshStatus, quiesceDone,
         quiesceAct, dumpingGuard, uploadedGuard, freshGuard, finalDumpOK,
         finalDumpError, createTarget, targetRunning, targetNotRunning, restoreOK,
         restoreError, cleanupSource, giveUp, awaitBackoff, deleteStaleTarget,
         retryRestore, checkRetryAnnotation, dropRetryAnnotation
<1> QED
  BY <1>1, QuietSteps DEF vars, objVars

\* A wait for the target ends in its success or with the target deleted.
LEMMA QuietWait ==
    ASSUME IInv, [Next]_vars, ~Trouble, pc = "waitRunning"
    PROVE  \/ targetRunning
           \/ targetNotRunning /\ podSt' = Deleted(tgt)
           \/ UNCHANGED <<api, ctlVars>>
<1>1. CASE Controller
  <2>1. targetRunning \/ targetNotRunning
    BY <1>1
       DEF Controller, Reconcile, StatusUpdate, createInitialPod, startMigration,
           recreatePodDelete, recreatePodCreate, refreshStatus, quiesceDone,
           quiesceAct, dumpingGuard, uploadedGuard, freshGuard, finalDumpOK,
           finalDumpError, createTarget, restoreOK, restoreError, cleanupSource, giveUp,
           awaitBackoff, deleteStaleTarget, retryRestore, checkRetryAnnotation,
           dropRetryAnnotation
  <2> QED
    BY <2>1 DEF targetNotRunning
<1> QED
  BY <1>1, QuietSteps DEF vars, objVars

\* The reconcile in other steps.
LEMMA QuietStays ==
    ASSUME IInv, [Next]_vars, ~Trouble, pc' \notin {"idle", "cleanup", "dropAnn"},
           ~Begins, ~GoesOn, ~Written
    PROVE  UNCHANGED ctlVars
<1>1. ~EndReconcile
  BY DEF EndReconcile
<1>2. ~StatusUpdate
  BY <1>1 DEF StatusUpdate, GoTo, IInv, CtlOK
<1> QED
  BY <1>1, <1>2, CtlSteps, QuietSteps

\* The object.
LEMMA QuietObject ==
    ASSUME IInv, OrderInv, FirstPodInv, [Next]_vars, ~Trouble
    PROVE  \/ UNCHANGED objVars
           \/ cache' = api /\ cacheOK' = TRUE /\ api' = api
           \/ Stored /\ pc = "write" /\ snapOK /\ api' = m /\ UNCHANGED cache
  BY ObjSteps, QuietSteps, NoneRecreated DEF Synced, Stored, StatusUpdate

-----------------------------------------------------------------------------
\* Nobody asks for a retry.
LEMMA NoRetry ==
    ASSUME IInv, OrderInv, LagInv
    PROVE  pc # "retry" /\ (pc = "write" => after # "dropAnn")
  BY DEF OrderInv, LagInv, Asked

\* LagInv is kept.
LEMMA LagStep ==
    ASSUME IInv, PodsInv, OrderInv, FirstPodInv, LagInv, [Next]_vars, ~Trouble
    PROVE  LagInv'
<1>0. m \in App /\ after \in {"idle", "cleanup", "dropAnn"}
  BY DEF IInv, CtlOK
<1>1. Calm'
  <2>1. UNCHANGED <<lost, resets>>
    <3>1. CASE StatusUpdate
      <4>1. pc = "write" /\ after # "dropAnn"
        BY <3>1, NoRetry DEF StatusUpdate
      <4> QED
        BY <3>1, <4>1 DEF StatusUpdate
    <3> QED
      BY <3>1, HistorySteps, QuietSteps
  <2> QED
    BY <2>1 DEF LagInv, Calm
<1>2. ~api'.ann /\ ~cache'.ann /\ ~m'.ann
  <2>1. ~api.ann /\ ~cache.ann /\ ~m.ann /\ ~NewApp.ann
    BY DEF LagInv, NewApp
  <2>2. ~api'.ann /\ ~cache'.ann
    BY <2>1, QuietObject DEF objVars
  <2>3. ~m'.ann
    <3>1. CASE Written
      BY <2>1, <3>1 DEF Written
    <3> QED
      BY <2>1, <3>1, CopySteps
  <2> QED
    BY <2>2, <2>3
<1>3. cacheOK' \/ Follows(cache', api')
  <2>1. CASE UNCHANGED objVars
    BY <2>1 DEF objVars, LagInv, Follows
  <2>2. CASE Stored /\ pc = "write" /\ snapOK /\ api' = m /\ UNCHANGED cache
    <3>1. cache = api /\ Follows(api, m)
      BY <2>2, NoRetry DEF OrderInv, IInv, ObjOK
    <3> QED
      BY <2>2, <3>1 DEF Follows
  <2> QED
    BY <2>1, <2>2, QuietObject
<1>4. snapOK' \/ pc' \in {"idle", "write", "cleanup"} \/ Follows(m', api')
  <2> SUFFICES ASSUME ~snapOK', pc' \notin {"idle", "write", "cleanup"}
               PROVE  Follows(m', api')
    OBVIOUS
  <2>0. pc' # "dropAnn"
    <3>1. (OrderInv)'
      BY <1>1, OrderStep DEF LagInv
    <3> QED
      BY <3>1 DEF OrderInv
  <2>1. CASE Begins
    <3>1. ~cacheOK /\ m' = cache /\ api' = api
      BY <2>1 DEF Begins, objVars
    <3> QED
      BY <3>1 DEF LagInv, Follows
  <2>2. CASE GoesOn
    <3>1. m' = m /\ api' = api /\ ~snapOK /\ pc \notin {"idle", "write", "cleanup"}
      BY <2>2 DEF GoesOn, objVars
    <3> QED
      BY <3>1 DEF LagInv, Follows
  <2>3. CASE ~Begins /\ ~GoesOn
    <3>1. UNCHANGED ctlVars
      BY <2>0, <2>3, QuietStays DEF Written
    <3>2. m' = m /\ ~snapOK /\ pc \notin {"idle", "write", "cleanup"}
      BY <3>1 DEF ctlVars
    <3>3. api' = api
      BY <3>2, QuietObject DEF objVars
    <3> QED
      BY <3>2, <3>3 DEF LagInv, Follows
  <2> QED
    BY <2>1, <2>2, <2>3
<1>5. ASSUME pc' \in {"finalDump", "createTarget", "waitRunning"}
      PROVE  /\ pc' = "finalDump" => api'.stage = "Dumping" /\ snapOK'
             /\ pc' \in {"createTarget", "waitRunning"} => api'.stage = "Uploaded" /\ snapOK'
  <2>1. CASE GoesOn
    <3>1. snapOK' = snapOK /\ api' = api
      BY <2>1 DEF GoesOn, objVars
    <3>2. CASE pc = "dump" /\ dumpingGuard /\ pc' = "finalDump"
      <4>1. api.stage = "Dumping"
        BY <3>2 DEF dumpingGuard, freshGuard, EndReconcile
      <4>2. m.stage = "Dumping"
        BY <3>2 DEF IInv, CtlOK, StageAtStep
      <4> QED
        BY <3>1, <3>2, <4>1, <4>2 DEF LagInv, Follows
    <3>3. CASE pc = "uploaded" /\ uploadedGuard /\ pc' = "createTarget"
      <4>1. api.stage = "Uploaded"
        BY <3>3 DEF uploadedGuard, freshGuard, EndReconcile
      <4>2. m.stage = "Uploaded"
        BY <3>3 DEF IInv, CtlOK, StageAtStep
      <4> QED
        BY <3>1, <3>3, <4>1, <4>2 DEF LagInv, Follows
    <3>4. CASE pc = "createTarget" /\ pc' = "waitRunning"
      BY <3>1, <3>4 DEF LagInv
    <3> QED
      BY <1>5, <2>1, <3>2, <3>3, <3>4 DEF GoesOn
  <2>2. CASE ~GoesOn
    <3>1. UNCHANGED ctlVars
      BY <1>5, <2>2, QuietStays, BeginsAt DEF Written
    <3>2. pc' = pc /\ snapOK' = snapOK
      BY <3>1 DEF ctlVars
    <3>3. api' = api
      BY <1>5, <3>2, QuietObject DEF objVars
    <3> QED
      BY <1>5, <3>2, <3>3 DEF LagInv
  <2> QED
    BY <2>1, <2>2
<1> QED
  BY <1>1, <1>2, <1>3, <1>4, <1>5 DEF LagInv

\* A final dump is called on the newest copy, all others being equal to it.
LEMMA DumpAlone ==
    ASSUME IInv, OrderInv, LagInv, pc = "finalDump"
    PROVE  snapOK /\ m = api /\ cache = api /\ api.stage = "Dumping"
  BY DEF IInv, CtlOK, ObjOK, SnapshotCurrent, OrderInv, LagInv

\* OnceInv is kept by a final dump.
LEMMA OnceAtDump ==
    ASSUME IInv, OrderInv, FirstPodInv, LiveInv, LagInv, OnceInv, [Next]_vars, ~Trouble,
           FinalDumps, finalDumpOK \/ finalDumpError
    PROVE  OnceInv'
<1>1. snapOK /\ m = api /\ cache = api /\ api.stage = "Dumping"
  BY DumpAlone DEF FinalDumps
<1>2. /\ pc' = "write" /\ snapOK' = snapOK /\ UNCHANGED objVars
      /\ m'.stage \in {"Uploaded", "FinalDumpFailed"}
  <2>1. /\ pc' = "write" /\ snapOK' = snapOK /\ UNCHANGED objVars
    BY DEF finalDumpOK, finalDumpError, UpdateStatusTo
  <2>2. m'.stage \in {"Uploaded", "FinalDumpFailed"}
    <3>1. m \in App /\ pod \in Pods \cup {NoPod} /\ m.bad + 1 \in Nat
      BY DEF IInv, CtlOK, App
    <3>2. [m EXCEPT !.dump = pod, !.latch = FALSE] \in App
          /\ [m EXCEPT !.bad = @ + 1, !.latch = TRUE] \in App
      BY <3>1 DEF App
    <3> QED
      BY <3>2, SetStageKeeps DEF finalDumpOK, finalDumpError, UpdateStatusTo, dumpRecorded
  <2> QED
    BY <2>1, <2>2
<1>3. Live' = {}
  BY DumpKills
<1>4. api'.stage = "Dumping" /\ cache'.stage = "Dumping"
  BY <1>1, <1>2 DEF objVars
<1> QED
  BY <1>1, <1>2, <1>3, <1>4 DEF OnceInv

\* The rest leaves the uploads alone.
LEMMA UploadsKept ==
    ASSUME IInv, [Next]_vars, ~((finalDumpOK \/ finalDumpError) /\ FinalDumps)
    PROVE  s3' = s3
  BY WorkSteps, MovedPod DEF workVars, Restores

\* OnceInv is kept.
LEMMA OnceStep ==
    ASSUME IInv, PodsInv, OrderInv, FirstPodInv, LiveInv, LagInv, OnceInv, [Next]_vars,
           Calm', ~Trouble
    PROVE  OnceInv'
<1>1. CASE (finalDumpOK \/ finalDumpError) /\ FinalDumps
  BY <1>1, OnceAtDump
<1>2. CASE ~((finalDumpOK \/ finalDumpError) /\ FinalDumps)
  <2>0. s3' = s3 /\ Calm
    BY <1>2, UploadsKept DEF LagInv
  <2>1. /\ api'.stage = "Restoring" => api'.target \notin s3
        /\ cache'.stage = "Restoring" => cache'.target \notin s3
    BY QuietObject DEF objVars, OnceInv
  <2>2. ASSUME m'.stage = "Restoring" PROVE m'.target \notin s3
    <3>1. CASE Written
      <4>1. \/ m'.stage = m.stage /\ m'.target = m.target
            \/ targetRunning /\ m'.target = tgt
        BY <2>2, <3>1 DEF Written, MovesStage
      <4> QED
        BY <2>2, <4>1 DEF OnceInv, targetRunning
    <3>2. NewApp.stage # "Restoring"
      BY DEF NewApp
    <3> QED
      BY <2>2, <3>1, <3>2, CopySteps DEF OnceInv
  <2>3. ASSUME pc' = "waitRunning" PROVE tgt' \notin s3
    <3>1. CASE GoesOn
      <4>1. tgt' = created + 1
        BY <2>3, <3>1 DEF GoesOn
      <4>2. created \in Nat /\ \A p \in s3 : p <= created /\ p \in Nat
        BY DEF PodsInv, IInv, PodsOK, RestOK, Pods
      <4> QED
        BY <4>1, <4>2
    <3>2. CASE ~GoesOn
      <4>1. UNCHANGED ctlVars
        BY <2>3, <3>2, QuietStays, BeginsAt DEF Written
      <4> QED
        BY <2>3, <4>1 DEF ctlVars, OnceInv
    <3> QED
      BY <3>1, <3>2
  <2>4. Live' \cap s3 = {}
    <3>1. Restores => m.target \notin s3
      BY DEF Restores, IInv, CtlOK, StageAtStep, OnceInv
    <3> QED
      BY <2>0, <3>1, LiveSteps DEF OnceInv
  <2>5. ASSUME api'.ok = 0, api'.stage \in {"Idle", "Quiescing", "Dumping"}, s3 # {}
        PROVE  pc' = "write" /\ snapOK' /\ m'.stage \in {"Uploaded", "FinalDumpFailed"}
    <3>1. ~Stored
      <4> SUFFICES ASSUME Stored PROVE FALSE
        OBVIOUS
      <4>1. pc = "write" /\ snapOK /\ api' = m /\ after # "dropAnn"
        BY NoRetry DEF Stored, StatusUpdate
      <4>2. Advances(api, m) /\ api.ok \in Nat
        BY <4>1 DEF IInv, CtlOK, ObjOK, SnapshotCurrent, App
      <4>3. m.ok = 0 /\ m.stage \in {"Idle", "Quiescing", "Dumping"}
        BY <2>5, <4>1
      <4>4. api.ok = 0 /\ api.stage \in {"Idle", "Quiescing", "Dumping"}
        BY <4>2, <4>3 DEF Advances, Kept
      <4> QED
        BY <2>5, <4>3, <4>4 DEF OnceInv
    <3>2. api' = api
      BY <3>1, QuietObject DEF objVars
    <3>3. pc = "write" /\ snapOK /\ m.stage \in {"Uploaded", "FinalDumpFailed"}
      BY <2>5, <3>2 DEF OnceInv
    <3>4. ~StatusUpdate
      BY <3>1, <3>3, ObjSteps DEF Stored, StatusUpdate
    <3>5. UNCHANGED ctlVars
      BY <3>3, <3>4, QuietWrite
    <3> QED
      BY <3>3, <3>5 DEF ctlVars
  <2> QED
    BY <2>0, <2>1, <2>2, <2>3, <2>4, <2>5 DEF OnceInv
<1> QED
  BY <1>1, <1>2

-----------------------------------------------------------------------------
(***************************************************************************)
(* TriesInv: the pods a checkpoint is tried on.                            *)
(***************************************************************************)
\* There are finitely many pods.
LEMMA FiniteTries ==
    ASSUME NEW d
    PROVE  IsFiniteSet(Tries(d)) /\ Cardinality(Tries(d)) \in Nat
<1>1. IsFiniteSet(Pods)
  BY ControllerAssumptions, FS_Interval DEF Pods
<1>2. Tries(d) \subseteq Pods
  BY DEF Tries
<1>3. IsFiniteSet(Tries(d))
  BY <1>1, <1>2, FS_Subset
<1> QED
  BY <1>3, FS_CardinalityType

\* A step that starts no try.
NoNewTry ==
    \A p \in Pods : /\ podDump'[p] = podDump[p]
                    /\ podDump[p] # NoPod /\ podSt'[p] \in Up => podSt[p] \in Up

\* Only createTarget starts one.
LEMMA TriesKept ==
    ASSUME IInv, PodsInv, OrderInv, FirstPodInv, [Next]_vars,
           ~(createTarget /\ pc' = "waitRunning")
    PROVE  NoNewTry
<1> SUFFICES ASSUME NEW p \in Pods
             PROVE  /\ podDump'[p] = podDump[p]
                    /\ podDump[p] # NoPod /\ podSt'[p] \in Up => podSt[p] \in Up
  BY DEF NoNewTry
<1>1. CASE UNCHANGED podVars
  BY <1>1 DEF podVars
<1>2. ASSUME NEW q \in Pods \cup {NoPod}, Deletes(q)
      PROVE  podDump'[p] = podDump[p] /\ (podSt'[p] \in Up => podSt[p] \in Up)
  BY <1>2, DeletedPod DEF Deletes, Up
<1>3. ASSUME NEW q \in Pods, Moves(q)
      PROVE  podDump'[p] = podDump[p] /\ (podSt'[p] \in Up => podSt[p] \in Up)
  BY <1>3, MovedPod DEF Moves, Up
<1>4. ASSUME NEW gen \in Nat, NEW d \in Pods \cup {NoPod}, Creates(gen, d)
      PROVE  /\ podDump'[p] = podDump[p]
             /\ podDump[p] # NoPod /\ podSt'[p] \in Up => podSt[p] \in Up
  <2>1. d = NoPod
    BY <1>4, NoneRecreated DEF Creates
  <2>2. created \in Nat /\ (p = created + 1 => podDump[p] = NoPod)
    BY DEF PodsInv, IInv, PodsOK
  <2> QED
    BY <1>4, <2>1, <2>2, CreatedPod
<1> QED
  BY <1>1, <1>2, <1>3, <1>4, PodSteps

\* Then the tries of each checkpoint are the same, and no more of them are up.
LEMMA TriesSame ==
    ASSUME NoNewTry, NEW d \in Pods
    PROVE  /\ {p \in Pods : podDump'[p] = d} = Tries(d)
           /\ {p \in Pods : podDump'[p] = d /\ podSt'[p] \in Up} \subseteq UpTries(d)
<1>1. d # NoPod
  BY DEF Pods, NoPod
<1> QED
  BY <1>1 DEF NoNewTry, Tries, UpTries

\* An object in a stage that restores names a checkpoint.
LEMMA NamesDump ==
    ASSUME IInv, NEW a, Sound(a, s3), a.stage \in Restorable
    PROVE  a.dump \in Pods
  BY DEF IInv, RestOK, Sound

\* So what an object says of its tries stays true.
LEMMA TriedStays ==
    ASSUME IInv, NoNewTry, NEW a, NEW b, Sound(a, s3), TriedAs(a),
           b.stage = a.stage, b.dump = a.dump, b.retry = a.retry, b.target = a.target
    PROVE  LET t == {p \in Pods : podDump'[p] = b.dump}
               u == {p \in Pods : podDump'[p] = b.dump /\ podSt'[p] \in Up}
           IN  /\ b.stage = "Uploaded" => u = {} /\ Cardinality(t) <= b.retry
               /\ b.stage \in {"Restoring", "RestoreFailed", "Failed"} =>
                    u \subseteq {b.target} /\ Cardinality(t) <= b.retry + 1
<1> DEFINE t == {p \in Pods : podDump'[p] = b.dump}
           u == {p \in Pods : podDump'[p] = b.dump /\ podSt'[p] \in Up}
<1>1. CASE a.stage \in Restorable
  <2>1. a.dump \in Pods
    BY <1>1, NamesDump
  <2>2. t = Tries(a.dump) /\ u \subseteq UpTries(a.dump)
    BY <2>1, TriesSame
  <2> HIDE DEF t, u
  <2>3. /\ b.stage = "Uploaded" => u = {} /\ Cardinality(t) <= b.retry
        /\ b.stage \in {"Restoring", "RestoreFailed", "Failed"} =>
             u \subseteq {b.target} /\ Cardinality(t) <= b.retry + 1
    BY <2>2 DEF TriedAs, Untried, TriedOn
  <2> QED
    BY <2>3 DEF t, u
<1>2. CASE a.stage \notin Restorable
  BY <1>2 DEF Restorable
<1> QED
  BY <1>1, <1>2

\* A try is started from the newest copy of an object that allows one.
LEMMA NewTry ==
    ASSUME IInv, PodsInv, OrderInv, FirstPodInv, LagInv, TriesInv, [Next]_vars,
           createTarget, pc' = "waitRunning"
    PROVE  TriesInv'
<1> DEFINE d0 == api.dump
           c == created + 1
<1>1. /\ pc = "createTarget" /\ m = api /\ api.stage = "Uploaded" /\ tgt' = c
      /\ UNCHANGED objVars
  BY DEF createTarget, LagInv, IInv, CtlOK, SnapshotCurrent, fsmTransitionToRestoreFailed,
         UpdateStatusTo
<1>2. Untried(api)
  BY <1>1 DEF TriesInv, Trying, TriedAs
<1>3. d0 \in Pods /\ api.retry \in Nat /\ api.retry <= MaxRetries /\ MaxRetries \in Nat
  BY <1>1, NamesDump, ControllerAssumptions DEF IInv, ObjOK, App, Sound, Restorable
<1>4. Creates(m.gen + 1, d0) /\ m.gen + 1 \in Nat
  BY <1>1 DEF createTarget, fsmTransitionToRestoreFailed, UpdateStatusTo, Creates, IInv,
              CtlOK, App
<1>5. /\ c \in Pods /\ podDump'[c] = d0
      /\ \A p \in Pods : p # c => podSt'[p] = podSt[p] /\ podDump'[p] = podDump[p]
  BY <1>3, <1>4, CreatedPod
<1>6. podDump[c] = NoPod /\ NoPod \notin Pods
  BY <1>5 DEF PodsInv, IInv, PodsOK, Pods, NoPod
<1> HIDE DEF d0, c
<1>7. ASSUME NEW d \in Pods, d # d0
      PROVE  /\ {p \in Pods : podDump'[p] = d} = Tries(d)
             /\ {p \in Pods : podDump'[p] = d /\ podSt'[p] \in Up} = UpTries(d)
  BY <1>5, <1>6, <1>7 DEF Tries, UpTries
<1>8. /\ {p \in Pods : podDump'[p] = d0} = Tries(d0) \cup {c}
      /\ {p \in Pods : podDump'[p] = d0 /\ podSt'[p] \in Up} \subseteq {c}
  <2>1. UpTries(d0) = {}
    BY <1>2 DEF Untried, d0
  <2> QED
    BY <1>3, <1>5, <2>1 DEF Tries, UpTries
<1>9. Cardinality({p \in Pods : podDump'[p] = d0}) <= api.retry + 1
  <2>1. IsFiniteSet(Tries(d0)) /\ Cardinality(Tries(d0)) \in Nat
    BY FiniteTries
  <2>2. Cardinality(Tries(d0)) <= api.retry
    BY <1>2 DEF Untried, d0
  <2>3. c \notin Tries(d0)
    BY <1>3, <1>6 DEF Tries
  <2>4. Cardinality(Tries(d0) \cup {c}) = Cardinality(Tries(d0)) + 1
    BY <2>1, <2>3, FS_AddElement
  <2> QED
    BY <1>3, <1>8, <2>1, <2>2, <2>4
<1>10. \A d \in Pods : \A p, q \in {r \in Pods : podDump'[r] = d /\ podSt'[r] \in Up} : p = q
  <2> SUFFICES ASSUME NEW d \in Pods
               PROVE  \A p, q \in {r \in Pods : podDump'[r] = d /\ podSt'[r] \in Up} : p = q
    OBVIOUS
  <2>1. CASE d = d0
    BY <1>8, <2>1
  <2>2. CASE d # d0
    BY <1>7, <2>2 DEF TriesInv
  <2> QED
    BY <2>1, <2>2
<1>11. \A d \in Pods : Cardinality({p \in Pods : podDump'[p] = d}) <= MaxRetries + 1
  <2> SUFFICES ASSUME NEW d \in Pods
               PROVE  Cardinality({p \in Pods : podDump'[p] = d}) <= MaxRetries + 1
    OBVIOUS
  <2>1. CASE d = d0
    <3>1. Cardinality({p \in Pods : podDump'[p] = d0}) \in Nat
      <4>1. IsFiniteSet(Tries(d0) \cup {c})
        BY FiniteTries, FS_AddElement
      <4> QED
        BY <1>8, <4>1, FS_CardinalityType
    <3> QED
      BY <1>3, <1>9, <2>1, <3>1
  <2>2. CASE d # d0
    <3>1. Cardinality(Tries(d)) <= MaxRetries + 1
      BY DEF TriesInv
    <3> QED
      BY <1>7, <2>2, <3>1
  <2> QED
    BY <2>1, <2>2
<1>12. api'.dump = d0 /\ api'.retry = api.retry /\ api'.stage = "Uploaded"
  BY <1>1 DEF objVars, d0
<1>13. TriedOn(api, tgt)'
  BY <1>1, <1>8, <1>9, <1>12 DEF TriedOn, Tries, UpTries
<1> QED
  BY <1>10, <1>11, <1>12, <1>13 DEF TriesInv, Trying, Tries, UpTries

\* What the reconcile is about to store follows from what is stored.
LEMMA CopyTried ==
    ASSUME IInv, IInv', PodsInv, OrderInv, FirstPodInv, TargetInv, LagInv, OnceInv,
           TriesInv, [Next]_vars, ~Trouble, NoNewTry, Written, snapOK'
    PROVE  TriedAs(m)'
<1>1. m = api /\ snapOK /\ api' = api /\ api \in App /\ Sound(api, s3) /\ m' \in App
  BY DEF Written, objVars, IInv, CtlOK, ObjOK, SnapshotCurrent
<1>2. Advances(m, m')
  <2>1. pc # "retry" /\ pc' = "write"
    BY NoRetry DEF Written
  <2>2. after' # "dropAnn"
    BY <2>1 DEF Written
  <2> QED
    BY <1>1, <2>1, <2>2 DEF IInv, CtlOK, SnapshotCurrent
<1> DEFINE t == {p \in Pods : podDump'[p] = m'.dump}
           u == {p \in Pods : podDump'[p] = m'.dump /\ podSt'[p] \in Up}
<1>3. ASSUME m.stage \in Restorable, m'.dump = m.dump
      PROVE  t = Tries(m.dump) /\ u \subseteq UpTries(m.dump)
  <2>1. m.dump \in Pods
    BY <1>1, <1>3, NamesDump
  <2> QED
    BY <1>3, <2>1, TriesSame
<1>a. SUFFICES /\ m'.stage = "Uploaded" => u = {} /\ Cardinality(t) <= m'.retry
               /\ m'.stage \in {"Restoring", "RestoreFailed", "Failed"} =>
                    u \subseteq {m'.target} /\ Cardinality(t) <= m'.retry + 1
  BY DEF TriedAs, Untried, TriedOn, Tries, UpTries
<1> HIDE DEF t, u
<1>b. m'.retry \in Nat /\ m.retry \in Nat
  BY <1>1 DEF App
<1>4. CASE finalDumpOK /\ m'.dump = pod /\ m'.stage = "Uploaded"
  <2>1. pod \in Pods /\ pod \notin s3
    <3>1. pod \in Pods /\ proc[pod] = "live"
      BY <1>4 DEF finalDumpOK, IInv, CtlOK, PodAtStep
    <3> QED
      BY <3>1 DEF OnceInv, Live
  <2>2. t = {} /\ u = {}
    BY <1>4, <2>1 DEF t, u, NoNewTry, IInv, PodsOK, Pods, NoPod
  <2>3. Cardinality(t) = 0
    BY <2>2, FS_EmptySet
  <2> QED
    BY <1>4, <1>b, <2>2, <2>3
<1>5. CASE retryRestore /\ m.stage = "RestoreFailed" /\ m'.stage = "Uploaded"
  <2>1. m'.dump = m.dump /\ m'.retry = m.retry + 1
    BY <1>2, <1>5 DEF Advances
  <2>2. TriedOn(m, m.target)
    BY <1>1, <1>5 DEF TriesInv, TriedAs
  <2>3. UpTries(m.dump) = {}
    <3> SUFFICES ASSUME NEW p \in UpTries(m.dump) PROVE FALSE
      OBVIOUS
    <3>1. p \in Pods /\ p = m.target /\ podSt[p] \in Up
      BY <2>2 DEF TriedOn, UpTries
    <3>2. seen[p] \notin Exists /\ seen[p] # "free" /\ seen[p] \in PodStates
      BY <1>5, <3>1 DEF retryRestore, staleTargetSeen, TargetInv, TargetKnown, Pods, NoPod,
                        IInv, RestOK
    <3>3. seen[p] = "gone"
      BY <3>2 DEF Exists, Up, PodStates
    <3> QED
      BY <3>1, <3>3 DEF PodsInv, Up
  <2> QED
    BY <1>3, <1>5, <1>b, <2>1, <2>2, <2>3 DEF TriedOn, Restorable
<1>6. CASE targetRunning /\ m.stage = "Uploaded" /\ m'.stage = "Restoring" /\ m'.target = tgt
  <2>1. m'.dump = m.dump /\ m'.retry = m.retry
    BY <1>2, <1>6 DEF Advances, Kept
  <2>2. TriedOn(m, tgt)
    BY <1>1, <1>6 DEF TriesInv, targetRunning
  <2> QED
    BY <1>3, <1>6, <1>b, <2>1, <2>2 DEF TriedOn, Restorable
<1>7. CASE targetNotRunning /\ MovesStage({"Uploaded"}, "RestoreFailed")
  <2>1. m.stage = "Uploaded" /\ m'.stage = "RestoreFailed"
    BY <1>7 DEF MovesStage
  <2>2. m'.dump = m.dump /\ m'.retry = m.retry
    BY <1>2, <2>1 DEF Advances, Kept
  <2>3. TriedOn(m, tgt) /\ podSt' = Deleted(tgt)
    BY <1>1, <1>7 DEF TriesInv, targetNotRunning
  <2>4. u = {}
    <3>1. tgt \in Pods
      BY <1>7 DEF targetNotRunning, TargetInv
    <3>2. podSt'[tgt] \notin Up
      BY <2>3, <3>1 DEF Deleted, Up, IInv, PodsOK
    <3>3. u \subseteq {tgt}
      BY <1>3, <2>1, <2>2, <2>3 DEF TriedOn, Restorable
    <3>4. \A p \in u : podSt'[p] \in Up
      BY DEF u
    <3> QED
      BY <3>2, <3>3, <3>4
  <2> QED
    BY <1>3, <1>b, <2>1, <2>2, <2>3, <2>4 DEF TriedOn, Restorable
<1>8. CASE createTarget /\ MovesStage({"Uploaded"}, "RestoreFailed")
  <2>1. m.stage = "Uploaded" /\ m'.stage = "RestoreFailed"
    BY <1>8 DEF MovesStage
  <2>2. m'.dump = m.dump /\ m'.retry = m.retry
    BY <1>2, <2>1 DEF Advances, Kept
  <2>3. Untried(m)
    BY <1>1, <1>8, <2>1 DEF TriesInv, Trying, TriedAs, createTarget
  <2>4. Cardinality(Tries(m.dump)) \in Nat
    BY FiniteTries
  <2> QED
    BY <1>3, <1>b, <2>1, <2>2, <2>3, <2>4 DEF Untried, Restorable
<1>9. CASE \/ restoreError /\ MovesStage({"Restoring"}, "RestoreFailed")
           \/ giveUp /\ MovesStage({"RestoreFailed"}, "Failed")
  <2>1. /\ m.stage \in {"Restoring", "RestoreFailed"} /\ m'.target = m.target
        /\ m'.stage \in {"RestoreFailed", "Failed"} /\ m'.stage # m.stage
    BY <1>9 DEF MovesStage
  <2>2. m'.dump = m.dump /\ m'.retry = m.retry
    BY <1>2, <2>1 DEF Advances, Kept
  <2>3. TriedOn(m, m.target)
    BY <1>1, <2>1 DEF TriesInv, TriedAs
  <2> QED
    BY <1>3, <1>b, <2>1, <2>2, <2>3 DEF TriedOn, Restorable
<1>10. CASE m'.stage \in {"Idle", "Quiescing", "Dumping", "FinalDumpFailed"}
  BY <1>10
<1>11. CASE createInitialPod
  <2>1. CanCreate(0) \/ EndReconcile
    BY <1>11 DEF createInitialPod
  <2>2. m.stage = "Idle"
    BY <1>11, <2>1, OnlyFirst DEF createInitialPod, EndReconcile, Written
  <2>3. m'.stage = m.stage
    BY <1>11 DEF createInitialPod, EndReconcile, UpdateStatusTo, IInv, CtlOK, App, Written
  <2> QED
    BY <1>10, <2>2, <2>3
<1> QED
  BY <1>4, <1>5, <1>6, <1>7, <1>8, <1>9, <1>10, <1>11, NoneRecreated
     DEF Written, MovesStage

\* TriesInv is kept.
LEMMA TriesStep ==
    ASSUME IInv, IInv', PodsInv, OrderInv, FirstPodInv, TargetInv, LagInv, OnceInv,
           TriesInv, [Next]_vars, ~Trouble
    PROVE  TriesInv'
<1>1. CASE createTarget /\ pc' = "waitRunning"
  BY <1>1, NewTry
<1>2. CASE ~(createTarget /\ pc' = "waitRunning")
  <2>0. NoNewTry /\ Sound(api, s3) /\ Sound(m, s3)
    BY <1>2, TriesKept DEF IInv, CtlOK, ObjOK
  <2>1. \A d \in Pods : \A p, q \in {r \in Pods : podDump'[r] = d /\ podSt'[r] \in Up} : p = q
    BY <2>0, TriesSame DEF TriesInv
  <2>2. ASSUME NEW d \in Pods
        PROVE  Cardinality({p \in Pods : podDump'[p] = d}) <= MaxRetries + 1
    <3>1. {p \in Pods : podDump'[p] = d} = Tries(d)
      BY <2>0, TriesSame
    <3> QED
      BY <3>1 DEF TriesInv
  <2>3. ASSUME api'.stage # "Uploaded" \/ ~Trying' PROVE TriedAs(api)'
    <3>1. CASE Stored
      <4>1. pc = "write" /\ snapOK /\ api' = m
        BY <3>1 DEF Stored, StatusUpdate
      <4>2. TriedAs(m)
        BY <4>1 DEF TriesInv
      <4> QED
        BY <2>0, <4>1, <4>2, TriedStays DEF TriedAs, Untried, TriedOn, Tries, UpTries
    <3>2. CASE ~Stored
      <4>1. api' = api
        BY <3>2, QuietObject DEF objVars
      <4>2. api.stage # "Uploaded" \/ ~Trying
        <5> SUFFICES ASSUME api.stage = "Uploaded", Trying PROVE Trying'
          BY <2>3, <4>1
        <5>1. CASE pc = "waitRunning"
          <6>1. snapOK
            BY <5>1 DEF LagInv
          <6>2. CASE targetRunning \/ targetNotRunning
            BY <6>1, <6>2 DEF targetRunning, targetNotRunning, UpdateStatusTo, Trying,
                              fsmTransitionToRestoreFailed
          <6>3. CASE UNCHANGED ctlVars
            BY <5>1, <6>3 DEF ctlVars, Trying
          <6> QED
            BY <5>1, <6>2, <6>3, QuietWait
        <5>2. CASE pc = "write" /\ snapOK
          <6>1. ~StatusUpdate
            BY <3>2, <5>2, ObjSteps DEF StatusUpdate, Stored
          <6>2. UNCHANGED ctlVars
            BY <5>2, <6>1, QuietWrite
          <6> QED
            BY <5>2, <6>2 DEF ctlVars, Trying
        <5> QED
          BY <5>1, <5>2 DEF Trying
      <4>3. TriedAs(api)
        BY <4>2 DEF TriesInv
      <4> QED
        BY <2>0, <4>1, <4>3, TriedStays DEF TriedAs, Untried, TriedOn, Tries, UpTries
    <3> QED
      BY <3>1, <3>2
  <2>4. ASSUME pc' = "waitRunning" PROVE TriedOn(api, tgt)'
    <3>1. UNCHANGED ctlVars
      BY <1>2, <2>4, QuietStays, BeginsAt DEF Written, GoesOn
    <3>2. pc = "waitRunning" /\ tgt' = tgt
      BY <2>4, <3>1 DEF ctlVars
    <3>3. api' = api /\ api.stage = "Uploaded" /\ TriedOn(api, tgt)
      BY <3>2, QuietObject DEF objVars, LagInv, TriesInv
    <3>4. api.dump \in Pods
      BY <2>0, <3>3, NamesDump DEF Restorable
    <3>5. /\ {p \in Pods : podDump'[p] = api.dump} = Tries(api.dump)
          /\ {p \in Pods : podDump'[p] = api.dump /\ podSt'[p] \in Up} \subseteq UpTries(api.dump)
      BY <2>0, <3>4, TriesSame
    <3>6. /\ {p \in Pods : podDump'[p] = api.dump /\ podSt'[p] \in Up} \subseteq {tgt}
          /\ Cardinality({p \in Pods : podDump'[p] = api.dump}) <= api.retry + 1
      BY <3>3, <3>5 DEF TriedOn
    <3> QED
      BY <3>2, <3>3, <3>6 DEF TriedOn, Tries, UpTries
  <2>5. ASSUME pc' = "write", snapOK' PROVE TriedAs(m)'
    <3>1. CASE Written
      BY <2>0, <2>5, <3>1, CopyTried
    <3>2. CASE ~Written
      <4>1. UNCHANGED ctlVars
        BY <2>5, <3>2, QuietStays, BeginsAt DEF GoesOn
      <4>2. m' = m /\ TriedAs(m)
        BY <2>5, <4>1 DEF ctlVars, TriesInv
      <4> QED
        BY <2>0, <4>2, TriedStays DEF TriedAs, Untried, TriedOn, Tries, UpTries
    <3> QED
      BY <3>1, <3>2
  <2>6. /\ \A d \in Pods : \A p, q \in UpTries(d)' : p = q
        /\ \A d \in Pods : Cardinality(Tries(d)') <= MaxRetries + 1
    BY <2>1, <2>2 DEF Tries, UpTries
  <2> QED
    BY <2>3, <2>4, <2>5, <2>6 DEF TriesInv
<1> QED
  BY <1>1, <1>2

\* The second layer holds in the initial state,
LEMMA InitQuietInv == ASSUME Init PROVE QuietInv
<1>0. NewApp.stage = "Idle" /\ NewApp.ann = FALSE
  BY DEF NewApp
<1>1. LagInv
  BY <1>0 DEF Init, LagInv, Calm
<1>2. OnceInv
  BY <1>0 DEF Init, OnceInv, Live
<1>3. TriesInv
  <2>1. \A d \in Pods : Tries(d) = {} /\ UpTries(d) = {}
    BY DEF Init, Tries, UpTries, Pods, NoPod
  <2>2. \A d \in Pods : Cardinality(Tries(d)) <= MaxRetries + 1
    <3>1. Cardinality({}) = 0
      BY FS_EmptySet
    <3>2. 0 <= MaxRetries + 1
      BY ControllerAssumptions
    <3> QED
      BY <2>1, <3>1, <3>2
  <2>3. \A d \in Pods : \A p, q \in UpTries(d) : p = q
    BY <2>1
  <2>4. TriedAs(api) /\ pc = "idle"
    BY <1>0 DEF Init, TriedAs
  <2> QED
    BY <2>2, <2>3, <2>4 DEF TriesInv
<1> QED
  BY <1>1, <1>2, <1>3 DEF QuietInv

\* and every step keeps it.
LEMMA StepQuietInv ==
    ASSUME IInv, PodsInv, CalmInv, QuietInv, [Next]_vars
    PROVE  QuietInv'
<1> SUFFICES ASSUME Undisturbed' PROVE (LagInv /\ OnceInv /\ TriesInv)'
  BY DEF QuietInv
<1>1. ~Trouble /\ LagInv /\ OnceInv /\ TriesInv
  BY UndisturbedBefore DEF QuietInv
<1>2. OrderInv /\ FirstPodInv /\ TargetInv /\ LiveInv
  BY <1>1 DEF LagInv, CalmInv
<1>3. LagInv'
  BY <1>1, <1>2, LagStep
<1>4. OnceInv'
  BY <1>1, <1>2, <1>3, OnceStep DEF LagInv
<1>5. IInv'
  BY StepIInv
<1>6. TriesInv'
  BY <1>1, <1>2, <1>5, TriesStep
<1> QED
  BY <1>3, <1>4, <1>6

\* The second layer is an invariant of the controller: undisturbed, the uncached
\* read in the handlers of Dumping and Uploaded suffices to stop stale copies.
THEOREM QuietInvariance == Spec => []QuietInv
  BY InitQuietInv, StepQuietInv, CalmInvariance, PTL DEF Spec

\* Undisturbed and before the first success, FinalDump is never called on a pod
\* whose dump is uploaded (NeverDumpTwice): fsmDumpingHandler's uncached read
\* stops every reconcile whose copy does not show the upload yet.
THEOREM DumpedOnce == Spec => []NeverDumpTwice
<1>1. ASSUME IInv, QuietInv PROVE NeverDumpTwice
  BY <1>1 DEF QuietInv, Undisturbed, LagInv, OnceInv, NeverDumpTwice
<1> QED
  BY <1>1, Invariance, QuietInvariance, PTL

\* Undisturbed, a checkpoint has one target pod at a time that is not being
\* deleted (OneTargetAtATime, the purpose of the guard in fsmUploadedHandler),
\* however far the caches lag.
THEOREM OneTarget == Spec => []OneTargetAtATime
<1>1. ASSUME QuietInv PROVE OneTargetAtATime
  <2> SUFFICES ASSUME trouble = 0, NEW d \in Pods
               PROVE  Cardinality({p \in Pods : podDump[p] = d /\ podSt[p] \in Up}) <= 1
    BY DEF OneTargetAtATime
  <2> DEFINE S == {p \in Pods : podDump[p] = d /\ podSt[p] \in Up}
  <2>1. \A p, q \in S : p = q
    BY <1>1 DEF QuietInv, Undisturbed, TriesInv, UpTries
  <2> QED
    BY <2>1, AtMostOne
<1> QED
  BY <1>1, QuietInvariance, PTL

\* Undisturbed, a checkpoint is tried on at most MaxRetries + 1 pods
\* (AttemptsBounded): every pod built for it is counted by a retry.
THEOREM BoundedAttempts == Spec => []AttemptsBounded
<1>1. ASSUME QuietInv PROVE AttemptsBounded
  BY <1>1 DEF QuietInv, Undisturbed, TriesInv, Tries, AttemptsBounded
<1> QED
  BY <1>1, QuietInvariance, PTL
=============================================================================
