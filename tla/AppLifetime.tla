---------------------------- MODULE AppLifetime ----------------------------
(***************************************************************************)
(* The life of the MigratableApp of one name, from its creation to its     *)
(* deletion and on to the next one of that name: Reconcile's finalizer and *)
(* cleanupS3Checkpoints (pkg/controller/reconciler.go), and the admission  *)
(* webhook that creates MigratableApps for injected pods (pkg/webhook).    *)
(*                                                                         *)
(* Controller and webhook read a cache that lags behind; an update of a    *)
(* copy that is not the object any more is refused.  An object never       *)
(* returns to an earlier value, so values stand for resourceVersions.      *)
(* Pods the controller creates are owned by the app and garbage-collected  *)
(* after it is gone; injected pods are their ReplicaSet's.  Agents upload  *)
(* under a prefix made of the app's name.  Between the first pod and the   *)
(* deletion MigrationController takes over.                                *)
(***************************************************************************)
EXTENDS Naturals

CONSTANTS
    MaxApps,     \* bound: MigratableApps created
    MaxPods,     \* bound: pods created
    Admissions,  \* bound: admission requests
    Dumps,       \* dumps a pod may upload
    MaxFaults    \* bound: failed API calls and restarts of the controller

ASSUME LifetimeAssumptions == MaxApps \in Nat /\ MaxPods \in Nat /\ MaxFaults \in Nat

VARIABLES
    obj,       \* the MigratableApp; uid 0: there is none
    cache,     \* what the cache holds of it
    apps,      \* uids given out
    pods,      \* pod -> none, running, terminating, gone
    owner,     \* pod -> uid of the owner; 0: a ReplicaSet
    used,      \* pods created
    bucket,    \* objects on S3 under the name's prefix: <<pod, dump>>
    pc, copy,  \* the running reconcile and the copy it works on
    objectsToDelete, \* listed, and not yet asked to be deleted
    adm,       \* admission -> none, create, inject, done
    faults,    \* how much of MaxFaults is used
    stale,     \* the reconcile's copy was outdated when it was read
    listed, cleaned, failed, \* uids whose clean-up has listed, returned, failed
    late,      \* objects uploaded after their app's clean-up had listed
    quiet      \* admissions without create-cr "false" that met no error, deletion or
               \* outdated cache

reconcile == <<pc, copy, objectsToDelete, stale>>
cluster   == <<obj, cache, apps, pods, owner, used, bucket>>
history   == <<listed, cleaned, failed, late>>
webhook   == <<adm, quiet>>
vars      == <<reconcile, cluster, history, webhook, faults>>

PodIds  == 1..MaxPods
Objects == PodIds \X Dumps
NoApp   == [uid |-> 0, fin |-> FALSE, del |-> FALSE, managed |-> FALSE]

-----------------------------------------------------------------------------
(***************************************************************************)
(* The API server and the user.                                            *)
(***************************************************************************)
\* Something fails that need not.
Fault == faults < MaxFaults /\ faults' = faults + 1

NewApp(m) == [uid |-> apps + 1, fin |-> FALSE, del |-> FALSE, managed |-> m]

CreateApp ==
    /\ obj = NoApp /\ apps < MaxApps
    /\ obj' = NewApp(FALSE) /\ apps' = apps + 1
    /\ UNCHANGED <<cache, pods, owner, used, bucket, reconcile, history, webhook, faults>>

\* With a finalizer the object stays, marked as being deleted.
DeleteApp ==
    /\ obj # NoApp /\ ~obj.del
    /\ obj' = IF obj.fin THEN [obj EXCEPT !.del = TRUE] ELSE NoApp
    /\ quiet' = {}
    /\ UNCHANGED <<cache, apps, pods, owner, used, bucket, reconcile, history, adm,
                   faults>>

\* The cache catches up.
Sync ==
    /\ cache # obj /\ cache' = obj
    /\ UNCHANGED <<obj, apps, pods, owner, used, bucket, reconcile, history, webhook,
                   faults>>

Present(p) == pods[p] \in {"running", "terminating"}

NewPod(o) ==
    /\ used < MaxPods /\ used' = used + 1
    /\ pods' = [pods EXCEPT ![used + 1] = "running"]
    /\ owner' = [owner EXCEPT ![used + 1] = o]

Terminate(p) ==
    /\ pods[p] = "running"
    /\ pods' = [pods EXCEPT ![p] = "terminating"]
    /\ UNCHANGED <<obj, cache, apps, owner, used, bucket, reconcile, history, webhook,
                   faults>>

\* The ReplicaSet of an injected pod deletes it.
scaleDown(p) == owner[p] = 0 /\ Terminate(p)

\* The owner is gone.
garbageCollect(p) == owner[p] # 0 /\ owner[p] # obj.uid /\ Terminate(p)

podEnds(p) ==
    /\ pods[p] = "terminating"
    /\ pods' = [pods EXCEPT ![p] = "gone"]
    /\ UNCHANGED <<obj, cache, apps, owner, used, bucket, reconcile, history, webhook,
                   faults>>

\* The agent of a pod, terminating or not, uploads a dump.
uploadDump(p, d) ==
    /\ Present(p) /\ <<p, d>> \notin bucket
    /\ bucket' = bucket \cup {<<p, d>>}
    /\ late' = IF owner[p] \in listed THEN late \cup {<<p, d>>} ELSE late
    /\ UNCHANGED <<obj, cache, apps, pods, owner, used, reconcile, listed, cleaned,
                   failed, webhook, faults>>

-----------------------------------------------------------------------------
(***************************************************************************)
(* Reconcile.                                                              *)
(***************************************************************************)
\* getCurrentPod finds a pod: any that has the label and is not terminating.
HasCurrentPod == \E p \in PodIds : pods[p] = "running"

\* MUTANT of Dispatch: the pod is created before the finalizer is there.
createFirst(m) ==
    CASE m = NoApp           -> "idle"
      [] m # NoApp /\ m.del  -> IF m.fin THEN "list" ELSE "idle"
      [] OTHER -> IF ~HasCurrentPod /\ ~m.managed THEN "create"
                  ELSE IF m.fin THEN "idle" ELSE "addFinalizer"

\* MUTANT of Dispatch: the clean-up waits until the object is gone.
cleanupWhenGone(m) ==
    CASE m = NoApp           -> "list"
      [] m # NoApp /\ m.del  -> IF m.fin THEN "removeFinalizer" ELSE "idle"
      [] OTHER -> IF ~m.fin THEN "addFinalizer"
                  ELSE IF HasCurrentPod \/ m.managed THEN "idle" ELSE "create"

\* Reconcile returns.
Return ==
    /\ pc' = "idle" /\ copy' = NoApp /\ stale' = FALSE /\ objectsToDelete' = {}

\* What Reconcile does with an object it has read.  For a webhook-managed app
\* without a pod it waits for one.
Dispatch(m) ==
    CASE m = NoApp           -> "idle"
      [] m # NoApp /\ m.del  -> IF m.fin THEN "list" ELSE "idle"
      [] OTHER -> IF ~m.fin THEN "addFinalizer"
                  ELSE IF HasCurrentPod \/ m.managed THEN "idle" ELSE "create"

Reconcile ==
    /\ pc = "idle" /\ Dispatch(cache) # "idle"
    /\ copy' = cache /\ pc' = Dispatch(cache) /\ stale' = (cache # obj)
    /\ UNCHANGED <<objectsToDelete, cluster, history, webhook, faults>>

\* MUTANT of withFinalizer: the copy is changed but not stored.
finalizerNotStored(m) == m

withFinalizer(m) == [m EXCEPT !.fin = TRUE]

\* Stored, or refused because the copy is outdated, or failed.
addFinalizer ==
    /\ pc = "addFinalizer" /\ Return
    /\ \/ copy = obj /\ obj' = withFinalizer(obj) /\ UNCHANGED faults
       \/ copy # obj /\ UNCHANGED <<obj, faults>>
       \/ Fault /\ UNCHANGED obj
    /\ UNCHANGED <<cache, apps, pods, owner, used, bucket, history, webhook>>

\* createInitialPod: the name of the first pod is the app's.
createInitialPod ==
    /\ pc = "create" /\ Return
    /\ \/ /\ \A p \in PodIds : Present(p) => owner[p] = 0
          /\ NewPod(copy.uid) /\ UNCHANGED faults
       \/ /\ \E p \in PodIds : Present(p) /\ owner[p] # 0
          /\ UNCHANGED <<pods, owner, used, faults>>
       \/ used = MaxPods /\ UNCHANGED <<pods, owner, used, faults>>
       \/ Fault /\ UNCHANGED <<pods, owner, used>>
    /\ UNCHANGED <<obj, cache, apps, bucket, history, webhook>>

\* MUTANTS of listFailed and prefix: the error of the listing is returned; only
\* the objects of one pod are listed.
listErrorReturned == "idle"
newestPodOnly == {o \in bucket : o[1] = used}

\* cleanupS3Checkpoints goes on without an error when it cannot list.
listFailed == "delete"

\* All generations of the name.
prefix == bucket

\* The beginning of cleanupS3Checkpoints: the listing, or no credentials, no
\* session or no listing.
listObjects ==
    /\ pc = "list"
    /\ \/ /\ objectsToDelete' = prefix /\ listed' = listed \cup {copy.uid}
          /\ pc' = "delete" /\ UNCHANGED failed
       \/ /\ objectsToDelete' = {} /\ failed' = failed \cup {copy.uid}
          /\ pc' = listFailed /\ UNCHANGED listed
    /\ UNCHANGED <<copy, stale, cluster, cleaned, late, webhook, faults>>

\* A batch, one object here; an error is only logged.
deleteBatch(o) ==
    /\ pc = "delete" /\ o \in objectsToDelete
    /\ objectsToDelete' = objectsToDelete \ {o}
    /\ \/ bucket' = bucket \ {o} /\ UNCHANGED failed
       \/ failed' = failed \cup {copy.uid} /\ UNCHANGED bucket
    /\ UNCHANGED <<pc, copy, stale, obj, cache, apps, pods, owner, used, listed, cleaned,
                   late, webhook, faults>>

cleanupReturns ==
    /\ pc = "delete" /\ objectsToDelete = {}
    /\ pc' = "removeFinalizer" /\ cleaned' = cleaned \cup {copy.uid}
    /\ UNCHANGED <<copy, objectsToDelete, stale, cluster, listed, failed, late, webhook,
                   faults>>

\* Without its finalizer an object being deleted is gone.
removeFinalizer ==
    /\ pc = "removeFinalizer" /\ Return
    /\ \/ copy = obj /\ obj' = NoApp /\ UNCHANGED faults
       \/ copy # obj /\ UNCHANGED <<obj, faults>>
       \/ Fault /\ UNCHANGED obj
    /\ UNCHANGED <<cache, apps, pods, owner, used, bucket, history, webhook>>

\* The controller's process ends in the middle of a reconcile and is restarted.
Restart ==
    /\ pc # "idle" /\ Return /\ Fault
    /\ UNCHANGED <<cluster, history, webhook>>

-----------------------------------------------------------------------------
(***************************************************************************)
(* The webhook: Handle of pod_mutator.go for pods that opted in.           *)
(***************************************************************************)
\* The pod's annotation migration.io/create-cr; "" when it has none.
ShouldCreateCR(v) == v # "false"

\* EnsureMigratableApp's Get, if the pod is to have an app; no config, no
\* injection.  Errors are only logged.
Handle(a) ==
    /\ adm[a] = "none"
    /\ \/ \E v \in {"", "true", "false"} :
            /\ adm' = [adm EXCEPT ![a] = IF ShouldCreateCR(v) /\ cache = NoApp THEN "create"
                                         ELSE "inject"]
            /\ quiet' = IF v # "false" /\ cache = obj /\ ~obj.del THEN quiet \cup {a}
                        ELSE quiet
            /\ UNCHANGED faults
       \/ adm' = [adm EXCEPT ![a] = "done"] /\ UNCHANGED <<quiet, faults>>
       \/ adm' = [adm EXCEPT ![a] = "inject"] /\ Fault /\ UNCHANGED quiet
    /\ UNCHANGED <<reconcile, cluster, history>>

\* MUTANT of EnsureMigratableApp: an app that does not exist is only reported.
notFoundReturned(a) ==
    /\ adm[a] = "create"
    /\ adm' = [adm EXCEPT ![a] = "inject"]
    /\ UNCHANGED <<quiet, obj, apps, faults, cache, pods, owner, used, bucket, reconcile,
                   history>>

\* Create; that it exists already is no error.
EnsureMigratableApp(a) ==
    /\ adm[a] = "create"
    /\ adm' = [adm EXCEPT ![a] = "inject"]
    /\ \/ /\ obj = NoApp /\ apps < MaxApps
          /\ obj' = NewApp(TRUE) /\ apps' = apps + 1 /\ UNCHANGED <<quiet, faults>>
       \/ obj # NoApp /\ UNCHANGED <<quiet, obj, apps, faults>>
       \/ Fault /\ quiet' = quiet \ {a} /\ UNCHANGED <<obj, apps>>
    /\ UNCHANGED <<cache, pods, owner, used, bucket, reconcile, history>>

\* InjectSidecar; then the pod is created, unless it was a dry run or another
\* admission plugin refuses it.
InjectSidecar(a) ==
    /\ adm[a] = "inject"
    /\ adm' = [adm EXCEPT ![a] = "done"]
    /\ NewPod(0) \/ UNCHANGED <<pods, owner, used>>
    /\ UNCHANGED <<quiet, obj, cache, apps, bucket, reconcile, history, faults>>

-----------------------------------------------------------------------------
Init ==
    /\ obj = NoApp /\ cache = NoApp /\ apps = 0
    /\ pods = [p \in PodIds |-> "none"] /\ owner = [p \in PodIds |-> 0] /\ used = 0
    /\ bucket = {}
    /\ pc = "idle" /\ copy = NoApp /\ objectsToDelete = {} /\ stale = FALSE
    /\ listed = {} /\ cleaned = {} /\ failed = {} /\ late = {}
    /\ adm = [a \in Admissions |-> "none"] /\ quiet = {}
    /\ faults = 0

Controller ==
    \/ Reconcile \/ addFinalizer \/ createInitialPod
    \/ listObjects \/ cleanupReturns \/ removeFinalizer
    \/ \E o \in Objects : deleteBatch(o)

Next ==
    \/ Controller \/ Restart \/ Sync
    \/ CreateApp \/ DeleteApp
    \/ \E p \in PodIds : scaleDown(p) \/ garbageCollect(p) \/ podEnds(p)
    \/ \E p \in PodIds, d \in Dumps : uploadDump(p, d)
    \/ \E a \in Admissions : Handle(a) \/ EnsureMigratableApp(a) \/ InjectSidecar(a)

\* The controller reconciles again as long as there is something to do, the
\* cache catches up, and pods that are to go end.
Spec ==
    /\ Init /\ [][Next]_vars
    /\ WF_vars(Controller) /\ WF_vars(Sync)
    /\ \A p \in PodIds : WF_vars(garbageCollect(p)) /\ WF_vars(podEnds(p))

-----------------------------------------------------------------------------
(***************************************************************************)
(* Properties.                                                             *)
(***************************************************************************)
App == [uid : 0..MaxApps, fin : BOOLEAN, del : BOOLEAN, managed : BOOLEAN]

\* Every variable holds a value of the code's type for it.
TypeOK ==
    /\ obj \in App /\ cache \in App /\ copy \in App /\ apps \in 0..MaxApps
    /\ pods \in [PodIds -> {"none", "running", "terminating", "gone"}]
    /\ owner \in [PodIds -> 0..MaxApps] /\ used \in 0..MaxPods
    /\ bucket \subseteq Objects /\ objectsToDelete \subseteq Objects
    /\ late \subseteq Objects
    /\ pc \in {"idle", "addFinalizer", "create", "list", "delete", "removeFinalizer"}
    /\ stale \in BOOLEAN
    /\ listed \subseteq 0..MaxApps /\ cleaned \subseteq 0..MaxApps
    /\ failed \subseteq 0..MaxApps
    /\ adm \in [Admissions -> {"none", "create", "inject", "done"}]
    /\ quiet \subseteq Admissions /\ faults \in Nat

\* An app that ever had a pod of its own is not gone before its clean-up has
\* run: the finalizer is stored before the first pod is created, whatever the
\* cache shows and wherever the controller restarts.
CleanedBeforeGone ==
    \A p \in 1..used : owner[p] = 0 \/ owner[p] = obj.uid \/ owner[p] \in cleaned

\* Of an app that is gone S3 keeps nothing but what a failed request left, or
\* what a pod of it uploaded after the listing: its pods live on until they are
\* garbage-collected, and nobody lists again.
NothingElseLeft ==
    \A o \in bucket :
      owner[o[1]] \in cleaned /\ owner[o[1]] # obj.uid =>
        owner[o[1]] \in failed \/ o \in late

\* A clean-up never deletes what a pod of the next app of the name has uploaded,
\* unless the reconcile began with an outdated cache.
OnlyOwnDeleted ==
    [][\A o \in bucket \ bucket' :
         owner[o[1]] \in 0..copy.uid \/ stale]_vars

\* If the webhook met no error, no deletion and no outdated cache, the pod it
\* injects has its MigratableApp, whoever else creates it meanwhile, unless the
\* pod's annotation migration.io/create-cr is "false".
InjectedHasApp == \A a \in quiet : adm[a] = "inject" => obj # NoApp /\ ~obj.del

\* A deletion ends, also when S3 cannot be reached at all.
DeletionEnds ==
    \A n \in 1..MaxApps : obj.uid = n /\ obj.del ~> obj.uid # n

\* An app gets a pod of its own, although it takes an old pod of the same label
\* for its own at first and the name may be in use until that one is gone.
AppGetsPod ==
    \A n \in 1..MaxApps :
      obj.uid = n /\ ~obj.del /\ ~obj.managed ~>
        \/ \E p \in PodIds : owner[p] = n
        \/ obj.uid # n \/ obj.del
        \/ used = MaxPods \/ \E p \in PodIds : Present(p) /\ owner[p] = 0
=============================================================================
