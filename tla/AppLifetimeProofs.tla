------------------------- MODULE AppLifetimeProofs -------------------------
(***************************************************************************)
(* Proofs about AppLifetime, for any number of apps, pods, admissions and  *)
(* faults.  The inductive invariant has one part per concern: which uids   *)
(* there are, whose finalizer was stored, what a clean-up in progress      *)
(* works on, what it has left, and what an admission relies on.            *)
(***************************************************************************)
EXTENDS AppLifetime, TLAPS

CleaningUp == pc \in {"list", "delete", "removeFinalizer"}

\* uids are given out in order, and the object has the last one.
UidInv ==
    /\ obj = NoApp \/ (obj.uid = apps /\ obj.uid # 0)
    /\ \A p \in PodIds : owner[p] <= apps

\* The copies are of apps there are or were, and the reconcile has one.
PcInv ==
    /\ cache.uid <= apps /\ copy.uid <= apps
    /\ pc = "addFinalizer" => copy # NoApp

\* The finalizer of app n is stored, or was until its clean-up had run.
Finalized(n) == (n = obj.uid /\ obj.fin) \/ n \in cleaned

FinalizerInv ==
    /\ cache.fin => Finalized(cache.uid)
    /\ copy.fin => Finalized(copy.uid)
    /\ pc = "create" => copy.fin
    /\ \A p \in PodIds : owner[p] # 0 => Finalized(owner[p])

\* A clean-up that began with the object itself still has it.
CleanupInv ==
    /\ CleaningUp => copy.del /\ copy.fin
    /\ pc = "removeFinalizer" => copy.uid \in cleaned
    /\ CleaningUp /\ ~stale => copy = obj

Owner(o) == owner[o[1]]

\* What was there when a clean-up listed is deleted, or about to be.
LeftInv ==
    /\ \A p \in PodIds : Present(p) => p <= used
    /\ \A o \in bucket : o[1] <= used
    /\ cleaned \subseteq listed \cup failed
    /\ \A o \in bucket : Owner(o) \in cleaned => Owner(o) \in failed \/ o \in late
    /\ pc = "delete" =>
         /\ copy.uid \in listed \cup failed
         /\ \A o \in bucket : Owner(o) = copy.uid =>
              copy.uid \in failed \/ o \in late \cup objectsToDelete

\* No app is being deleted as long as an admission is quiet.
QuietInv ==
    \A a \in quiet : /\ adm[a] # "none" /\ ~obj.del
                     /\ adm[a] = "inject" => obj # NoApp

IInv == TypeOK /\ UidInv /\ PcInv /\ FinalizerInv /\ CleanupInv /\ LeftInv /\ QuietInv

-----------------------------------------------------------------------------
LEMMA AppType == NoApp \in App /\ NoApp.uid = 0 /\ ~NoApp.fin /\ ~NoApp.del
  BY LifetimeAssumptions DEF NoApp, App

\* What NewApp makes.
LEMMA NewAppIs ==
    ASSUME TypeOK, apps < MaxApps, NEW m \in BOOLEAN
    PROVE  /\ NewApp(m) \in App /\ NewApp(m) # NoApp /\ apps + 1 \in 0..MaxApps
           /\ NewApp(m).uid = apps + 1 /\ ~NewApp(m).fin /\ ~NewApp(m).del
<1>1. apps + 1 \in 0..MaxApps /\ apps + 1 # 0
  BY LifetimeAssumptions DEF TypeOK
<1> QED
  BY <1>1 DEF NewApp, NoApp, App

\* What NewPod adds.
LEMMA NewPodIs ==
    ASSUME TypeOK, NEW o \in 0..MaxApps, NewPod(o)
    PROVE  /\ used + 1 \in PodIds /\ used' = used + 1 /\ used' \in 0..MaxPods
           /\ pods' \in [PodIds -> {"none", "running", "terminating", "gone"}]
           /\ owner' \in [PodIds -> 0..MaxApps]
           /\ owner'[used + 1] = o
           /\ \A p \in PodIds : p # used + 1 => owner'[p] = owner[p] /\ pods'[p] = pods[p]
  BY LifetimeAssumptions DEF TypeOK, NewPod, PodIds

LEMMA FaultIs == ASSUME TypeOK, Fault \/ UNCHANGED faults PROVE faults' \in Nat
  BY DEF TypeOK, Fault

\* The steps of Next, by what they may change.
LEMMA TypeStep == ASSUME TypeOK, [Next]_vars PROVE TypeOK'
<1> USE DEF TypeOK, reconcile, cluster, history, webhook
<1>1. CASE Reconcile
  BY <1>1 DEF Reconcile, Dispatch
<1>2. CASE addFinalizer
  <2>1. withFinalizer(obj) \in App
    BY DEF withFinalizer, App
  <2>2. faults' \in Nat
    BY <1>2 DEF addFinalizer, Fault
  <2> QED
    BY <1>2, <2>1, <2>2, AppType DEF addFinalizer, Return
<1>3. CASE createInitialPod
  <2>1. faults' \in Nat
    BY <1>3 DEF createInitialPod, Fault
  <2>2. copy.uid \in 0..MaxApps
    BY DEF App
  <2>3. /\ used' \in 0..MaxPods
        /\ pods' \in [PodIds -> {"none", "running", "terminating", "gone"}]
        /\ owner' \in [PodIds -> 0..MaxApps]
    BY <1>3, <2>2, NewPodIs DEF createInitialPod
  <2> QED
    BY <1>3, <2>1, <2>3, AppType DEF createInitialPod, Return
<1>4. CASE listObjects
  <2>1. copy.uid \in 0..MaxApps
    BY DEF App
  <2>2. /\ objectsToDelete' \subseteq Objects
        /\ listed' \subseteq 0..MaxApps /\ failed' \subseteq 0..MaxApps
    BY <1>4, <2>1 DEF listObjects, prefix
  <2>3. pc' = "delete"
    BY <1>4 DEF listObjects, listFailed
  <2> QED
    BY <1>4, <2>2, <2>3 DEF listObjects
<1>5. ASSUME NEW o \in Objects, deleteBatch(o) PROVE TypeOK'
  <2>1. copy.uid \in 0..MaxApps
    BY DEF App
  <2>2. /\ objectsToDelete' \subseteq Objects /\ bucket' \subseteq Objects
        /\ failed' \subseteq 0..MaxApps
    BY <1>5, <2>1 DEF deleteBatch
  <2> QED
    BY <1>5, <2>2 DEF deleteBatch
<1>6. CASE cleanupReturns
  <2>1. copy.uid \in 0..MaxApps
    BY DEF App
  <2>2. cleaned' \subseteq 0..MaxApps
    BY <1>6, <2>1 DEF cleanupReturns
  <2> QED
    BY <1>6, <2>2 DEF cleanupReturns
<1>7. CASE removeFinalizer
  <2>1. faults' \in Nat
    BY <1>7 DEF removeFinalizer, Fault
  <2> QED
    BY <1>7, <2>1, AppType DEF removeFinalizer, Return
<1>8. CASE Restart
  <2>1. faults' \in Nat
    BY <1>8 DEF Restart, Fault
  <2> QED
    BY <1>8, <2>1, AppType DEF Restart, Return
<1>9. CASE Sync
  BY <1>9 DEF Sync
<1>10. CASE CreateApp
  BY <1>10, NewAppIs DEF CreateApp
<1>11. CASE DeleteApp
  <2>1. [obj EXCEPT !.del = TRUE] \in App
    BY DEF App
  <2>2. obj' \in App
    BY <1>11, <2>1, AppType DEF DeleteApp
  <2> QED
    BY <1>11, <2>2 DEF DeleteApp
<1>12. ASSUME NEW p \in PodIds, scaleDown(p) \/ garbageCollect(p) \/ podEnds(p)
       PROVE  TypeOK'
  BY <1>12 DEF scaleDown, garbageCollect, Terminate, podEnds
<1>13. ASSUME NEW p \in PodIds, NEW d \in Dumps, uploadDump(p, d) PROVE TypeOK'
  <2>1. <<p, d>> \in Objects
    BY <1>13 DEF Objects
  <2>2. bucket' \subseteq Objects /\ late' \subseteq Objects
    BY <1>13, <2>1 DEF uploadDump
  <2> QED
    BY <1>13, <2>2 DEF uploadDump
<1>14. ASSUME NEW a \in Admissions, Handle(a) PROVE TypeOK'
  <2>0. UNCHANGED faults \/ Fault
    BY <1>14 DEF Handle
  <2>1. faults' \in Nat
    BY <2>0 DEF Fault
  <2> QED
    BY <1>14, <2>1 DEF Handle
<1>15. ASSUME NEW a \in Admissions, EnsureMigratableApp(a) PROVE TypeOK'
  <2>0. Fault \/ UNCHANGED faults
    BY <1>15, Zenon DEF EnsureMigratableApp
  <2>1. faults' \in Nat
    BY <2>0, FaultIs
  <2>2. CASE apps < MaxApps /\ obj' = NewApp(TRUE) /\ apps' = apps + 1
    <3>1. obj' \in App /\ apps' \in 0..MaxApps
      BY <2>2, NewAppIs
    <3> QED
      BY <1>15, <2>1, <3>1 DEF EnsureMigratableApp
  <2>3. CASE UNCHANGED <<obj, apps>>
    BY <1>15, <2>1, <2>3 DEF EnsureMigratableApp
  <2> QED
    BY <1>15, <2>2, <2>3 DEF EnsureMigratableApp
<1>16. ASSUME NEW a \in Admissions, InjectSidecar(a) PROVE TypeOK'
  <2>1. /\ used' \in 0..MaxPods
        /\ pods' \in [PodIds -> {"none", "running", "terminating", "gone"}]
        /\ owner' \in [PodIds -> 0..MaxApps]
    BY <1>16, NewPodIs, LifetimeAssumptions DEF InjectSidecar
  <2> QED
    BY <1>16, <2>1 DEF InjectSidecar
<1>17. CASE UNCHANGED vars
  BY <1>17 DEF vars
<1> HIDE DEF TypeOK, reconcile, cluster, history, webhook
<1> QED
  BY <1>1, <1>2, <1>3, <1>4, <1>5, <1>6, <1>7, <1>8, <1>9, <1>10, <1>11, <1>12, <1>13,
     <1>14, <1>15, <1>16, <1>17
     DEF Next, Controller

-----------------------------------------------------------------------------
(***************************************************************************)
(* Who changes what.                                                       *)
(***************************************************************************)
LEMMA ObjSteps ==
    ASSUME [Next]_vars
    PROVE  \/ UNCHANGED <<obj, apps>>
           \/ /\ obj = NoApp /\ apps < MaxApps /\ apps' = apps + 1
              /\ \E m \in BOOLEAN : obj' = NewApp(m)
           \/ DeleteApp /\ UNCHANGED <<apps, cleaned>>
           \/ pc = "addFinalizer" /\ copy = obj /\ obj' = withFinalizer(obj) /\ UNCHANGED apps
           \/ pc = "removeFinalizer" /\ copy = obj /\ obj' = NoApp /\ UNCHANGED apps
<1> USE DEF cluster
<1>1. CASE Controller
  BY <1>1 DEF Controller, Reconcile, addFinalizer, createInitialPod, listObjects,
     deleteBatch, cleanupReturns, removeFinalizer
<1>2. CASE Restart \/ Sync
  BY <1>2 DEF Restart, Sync
<1>3. CASE CreateApp
  BY <1>3 DEF CreateApp
<1>4. CASE DeleteApp
  BY <1>4 DEF DeleteApp, history
<1>5. CASE \/ \E p \in PodIds : scaleDown(p) \/ garbageCollect(p) \/ podEnds(p)
           \/ \E p \in PodIds, d \in Dumps : uploadDump(p, d)
  BY <1>5 DEF scaleDown, garbageCollect, Terminate, podEnds, uploadDump
<1>6. CASE \E a \in Admissions : Handle(a) \/ EnsureMigratableApp(a) \/ InjectSidecar(a)
  BY <1>6 DEF Handle, EnsureMigratableApp, InjectSidecar
<1>7. CASE UNCHANGED vars
  BY <1>7 DEF vars
<1> QED
  BY <1>1, <1>2, <1>3, <1>4, <1>5, <1>6, <1>7 DEF Next

LEMMA OwnerSteps ==
    ASSUME [Next]_vars
    PROVE  \/ UNCHANGED <<owner, used>>
           \/ NewPod(0) /\ UNCHANGED apps
           \/ pc = "create" /\ NewPod(copy.uid) /\ UNCHANGED apps
<1> USE DEF cluster
<1>1. CASE Controller
  BY <1>1 DEF Controller, Reconcile, addFinalizer, createInitialPod, listObjects,
     deleteBatch, cleanupReturns, removeFinalizer
<1>2. CASE Restart \/ Sync \/ CreateApp \/ DeleteApp
  BY <1>2 DEF Restart, Sync, CreateApp, DeleteApp
<1>3. CASE \/ \E p \in PodIds : scaleDown(p) \/ garbageCollect(p) \/ podEnds(p)
           \/ \E p \in PodIds, d \in Dumps : uploadDump(p, d)
  BY <1>3 DEF scaleDown, garbageCollect, Terminate, podEnds, uploadDump
<1>4. CASE \E a \in Admissions : Handle(a) \/ EnsureMigratableApp(a) \/ InjectSidecar(a)
  BY <1>4 DEF Handle, EnsureMigratableApp, InjectSidecar
<1>5. CASE UNCHANGED vars
  BY <1>5 DEF vars
<1> QED
  BY <1>1, <1>2, <1>3, <1>4, <1>5 DEF Next

\* The reconcile's own state, and what the clean-ups have done.
LEMMA ReconcileSteps ==
    ASSUME [Next]_vars
    PROVE  \/ Controller \/ Restart
           \/ UNCHANGED <<pc, copy, objectsToDelete, stale, listed, cleaned, failed>>
<1> USE DEF reconcile, history
<1>1. CASE Sync \/ CreateApp \/ DeleteApp
  BY <1>1 DEF Sync, CreateApp, DeleteApp
<1>2. CASE \/ \E p \in PodIds : scaleDown(p) \/ garbageCollect(p) \/ podEnds(p)
           \/ \E p \in PodIds, d \in Dumps : uploadDump(p, d)
  BY <1>2 DEF scaleDown, garbageCollect, Terminate, podEnds, uploadDump
<1>3. CASE \E a \in Admissions : Handle(a) \/ EnsureMigratableApp(a) \/ InjectSidecar(a)
  BY <1>3 DEF Handle, EnsureMigratableApp, InjectSidecar
<1>4. CASE UNCHANGED vars
  BY <1>4 DEF vars
<1> QED
  BY <1>1, <1>2, <1>3, <1>4 DEF Next

LEMMA CacheSteps ==
    ASSUME [Next]_vars
    PROVE  cache' = cache \/ (cache' = obj /\ UNCHANGED <<obj, cleaned>>)
<1> USE DEF cluster
<1>1. CASE Controller
  BY <1>1 DEF Controller, Reconcile, addFinalizer, createInitialPod, listObjects,
     deleteBatch, cleanupReturns, removeFinalizer
<1>2. CASE Restart \/ Sync \/ CreateApp \/ DeleteApp
  BY <1>2 DEF Restart, Sync, CreateApp, DeleteApp, history
<1>3. CASE \/ \E p \in PodIds : scaleDown(p) \/ garbageCollect(p) \/ podEnds(p)
           \/ \E p \in PodIds, d \in Dumps : uploadDump(p, d)
  BY <1>3 DEF scaleDown, garbageCollect, Terminate, podEnds, uploadDump
<1>4. CASE \E a \in Admissions : Handle(a) \/ EnsureMigratableApp(a) \/ InjectSidecar(a)
  BY <1>4 DEF Handle, EnsureMigratableApp, InjectSidecar
<1>5. CASE UNCHANGED vars
  BY <1>5 DEF vars
<1> QED
  BY <1>1, <1>2, <1>3, <1>4, <1>5 DEF Next

LEMMA CopySteps ==
    ASSUME [Next]_vars
    PROVE  \/ UNCHANGED <<pc, copy>>
           \/ pc' = Dispatch(cache) /\ copy' = cache
           \/ pc' \in {"idle", "list", "delete", "removeFinalizer"} /\ copy' \in {copy, NoApp}
<1>1. CASE Controller
  BY <1>1 DEF Controller, Reconcile, addFinalizer, createInitialPod, listObjects,
     listFailed, deleteBatch, cleanupReturns, removeFinalizer, Return
<1>2. CASE Restart
  BY <1>2 DEF Restart, Return
<1> QED
  BY <1>1, <1>2, ReconcileSteps

LEMMA CleanedSteps ==
    ASSUME [Next]_vars
    PROVE  \/ UNCHANGED cleaned
           \/ cleanupReturns /\ cleaned' = cleaned \cup {copy.uid}
<1>1. CASE Controller
  BY <1>1 DEF Controller, Reconcile, addFinalizer, createInitialPod, listObjects,
     deleteBatch, cleanupReturns, removeFinalizer, history
<1>2. CASE Restart
  BY <1>2 DEF Restart, history
<1> QED
  BY <1>1, <1>2, ReconcileSteps

LEMMA RemoveSteps ==
    ASSUME [Next]_vars, pc = "removeFinalizer", obj # NoApp, obj.del, obj' = NoApp
    PROVE  removeFinalizer
<1> USE DEF cluster
<1>1. CASE Controller
  BY <1>1 DEF Controller, Reconcile, addFinalizer, createInitialPod, listObjects,
     deleteBatch, cleanupReturns
<1>2. CASE Restart \/ Sync \/ CreateApp \/ DeleteApp
  BY <1>2 DEF Restart, Sync, CreateApp, DeleteApp
<1>3. CASE \/ \E p \in PodIds : scaleDown(p) \/ garbageCollect(p) \/ podEnds(p)
           \/ \E p \in PodIds, d \in Dumps : uploadDump(p, d)
  BY <1>3 DEF scaleDown, garbageCollect, Terminate, podEnds, uploadDump
<1>4. CASE \E a \in Admissions : Handle(a) \/ EnsureMigratableApp(a) \/ InjectSidecar(a)
  BY <1>4 DEF Handle, EnsureMigratableApp, InjectSidecar
<1>5. CASE UNCHANGED vars
  BY <1>5 DEF vars
<1> QED
  BY <1>1, <1>2, <1>3, <1>4, <1>5 DEF Next

LEMMA AdmissionSteps ==
    ASSUME [Next]_vars
    PROVE  \/ UNCHANGED <<adm, quiet>> \/ DeleteApp
           \/ \E a \in Admissions : Handle(a) \/ EnsureMigratableApp(a) \/ InjectSidecar(a)
<1> USE DEF webhook
<1>1. CASE Controller
  BY <1>1 DEF Controller, Reconcile, addFinalizer, createInitialPod, listObjects,
     deleteBatch, cleanupReturns, removeFinalizer
<1>2. CASE Restart \/ Sync \/ CreateApp
  BY <1>2 DEF Restart, Sync, CreateApp
<1>3. CASE \/ \E p \in PodIds : scaleDown(p) \/ garbageCollect(p) \/ podEnds(p)
           \/ \E p \in PodIds, d \in Dumps : uploadDump(p, d)
  BY <1>3 DEF scaleDown, garbageCollect, Terminate, podEnds, uploadDump
<1>4. CASE UNCHANGED vars
  BY <1>4 DEF vars
<1> QED
  BY <1>1, <1>2, <1>3, <1>4 DEF Next

\* Only deleteBatch takes objects from S3.
LEMMA DeleteSteps ==
    ASSUME [Next]_vars, NEW o \in bucket, o \notin bucket'
    PROVE  pc = "delete"
<1> USE DEF cluster
<1>1. CASE Controller
  BY <1>1 DEF Controller, Reconcile, addFinalizer, createInitialPod, listObjects,
     deleteBatch, cleanupReturns, removeFinalizer
<1>2. CASE Restart \/ Sync \/ CreateApp \/ DeleteApp
  BY <1>2 DEF Restart, Sync, CreateApp, DeleteApp
<1>3. CASE \/ \E p \in PodIds : scaleDown(p) \/ garbageCollect(p) \/ podEnds(p)
           \/ \E p \in PodIds, d \in Dumps : uploadDump(p, d)
  BY <1>3 DEF scaleDown, garbageCollect, Terminate, podEnds, uploadDump
<1>4. CASE \E a \in Admissions : Handle(a) \/ EnsureMigratableApp(a) \/ InjectSidecar(a)
  BY <1>4 DEF Handle, EnsureMigratableApp, InjectSidecar
<1>5. CASE UNCHANGED vars
  BY <1>5 DEF vars
<1> QED
  BY <1>1, <1>2, <1>3, <1>4, <1>5 DEF Next

-----------------------------------------------------------------------------
(***************************************************************************)
(* The parts of the invariant.                                             *)
(***************************************************************************)
LEMMA UidStep == ASSUME IInv, [Next]_vars PROVE UidInv'
<1>0. /\ apps \in 0..MaxApps /\ apps' \in 0..MaxApps /\ MaxApps \in Nat
      /\ owner \in [PodIds -> 0..MaxApps] /\ copy.uid \in 0..MaxApps
      /\ TypeOK /\ UidInv
  BY TypeStep, LifetimeAssumptions DEF IInv, TypeOK, App
<1>1. obj' = NoApp \/ (obj'.uid = apps' /\ obj'.uid # 0)
  <2>1. CASE UNCHANGED <<obj, apps>>
    BY <1>0, <2>1 DEF UidInv
  <2>2. ASSUME apps < MaxApps, apps' = apps + 1, NEW m \in BOOLEAN, obj' = NewApp(m)
        PROVE  obj'.uid = apps' /\ obj'.uid # 0
    BY <1>0, <2>2, NewAppIs
  <2>3. CASE DeleteApp /\ UNCHANGED <<apps, cleaned>>
    BY <1>0, <2>3 DEF DeleteApp, UidInv, TypeOK, App
  <2>4. CASE obj' = withFinalizer(obj) /\ copy = obj /\ UNCHANGED apps /\ pc = "addFinalizer"
    <3>1. obj # NoApp
      BY <2>4 DEF IInv, PcInv
    <3> QED
      BY <1>0, <2>4, <3>1 DEF withFinalizer, UidInv, TypeOK, App
  <2> QED
    BY <2>1, <2>2, <2>3, <2>4, ObjSteps
<1>2. apps <= apps'
  BY <1>0, ObjSteps
<1>3. ASSUME NEW p \in PodIds PROVE owner'[p] <= apps'
  <2>1. CASE UNCHANGED <<owner, used>>
    BY <1>0, <1>2, <2>1 DEF UidInv
  <2>2. ASSUME NEW n \in 0..MaxApps, n <= apps, NewPod(n), UNCHANGED apps
        PROVE  owner'[p] <= apps'
    BY <1>0, <2>2, NewPodIs DEF UidInv
  <2>3. copy.uid <= apps
    BY DEF IInv, PcInv
  <2> QED
    BY <1>0, <2>1, <2>2, <2>3, OwnerSteps
<1> QED
  BY <1>1, <1>3 DEF UidInv

LEMMA PcStep == ASSUME IInv, [Next]_vars PROVE PcInv'
<1>0. /\ apps \in 0..MaxApps /\ apps' \in 0..MaxApps /\ MaxApps \in Nat
      /\ obj.uid \in 0..MaxApps /\ cache.uid \in 0..MaxApps /\ copy.uid \in 0..MaxApps
      /\ cache.uid <= apps /\ copy.uid <= apps /\ obj.uid <= apps
  BY TypeStep, LifetimeAssumptions, AppType DEF IInv, TypeOK, App, PcInv, UidInv
<1>1. apps <= apps'
  BY <1>0, ObjSteps
<1>2. cache' = cache \/ cache' = obj
  BY CacheSteps
<1>3. \/ UNCHANGED <<pc, copy>>
      \/ pc' = Dispatch(cache) /\ copy' = cache
      \/ pc' \in {"idle", "list", "delete", "removeFinalizer"} /\ copy' \in {copy, NoApp}
  BY CopySteps
<1>4. Dispatch(cache) = "addFinalizer" => cache # NoApp
  BY DEF Dispatch
<1>5. cache'.uid <= apps'
  BY <1>0, <1>1, <1>2
<1>6. copy'.uid <= apps'
  BY <1>0, <1>1, <1>3, AppType
<1>7. pc' = "addFinalizer" => copy' # NoApp
  BY <1>3, <1>4 DEF IInv, PcInv
<1> QED
  BY <1>5, <1>6, <1>7 DEF PcInv

\* Finalized(n) in the next state.
StillFinalized(n) == (n = obj'.uid /\ obj'.fin) \/ n \in cleaned'

\* A stored finalizer stays until the clean-up has run.
LEMMA FinalizedStays ==
    ASSUME IInv, [Next]_vars, NEW n, Finalized(n)
    PROVE  StillFinalized(n)
<1>1. n \in cleaned => n \in cleaned'
  BY CleanedSteps
<1>2. ASSUME n = obj.uid, obj.fin PROVE StillFinalized(n)
  <2>1. obj # NoApp
    BY <1>2, AppType
  <2>2. CASE UNCHANGED obj
    BY <1>2, <2>2 DEF Finalized, StillFinalized
  <2>3. CASE DeleteApp
    <3>1. obj' = [obj EXCEPT !.del = TRUE]
      BY <1>2, <2>3 DEF DeleteApp
    <3>2. obj'.uid = obj.uid /\ obj'.fin = obj.fin
      BY <3>1 DEF IInv, TypeOK, App
    <3> QED
      BY <1>2, <3>2 DEF Finalized, StillFinalized
  <2>4. CASE obj' = withFinalizer(obj)
    <3>1. obj'.uid = obj.uid /\ obj'.fin
      BY <2>4 DEF IInv, TypeOK, App, withFinalizer
    <3> QED
      BY <1>2, <3>1 DEF Finalized, StillFinalized
  <2>5. CASE pc = "removeFinalizer" /\ copy = obj
    <3>1. n \in cleaned
      BY <1>2, <2>5 DEF IInv, CleanupInv
    <3> QED
      BY <1>1, <3>1 DEF Finalized, StillFinalized
  <2> QED
    BY <2>1, <2>2, <2>3, <2>4, <2>5, ObjSteps
<1> QED
  BY <1>1, <1>2 DEF Finalized, StillFinalized

LEMMA FinalizerStep == ASSUME IInv, [Next]_vars PROVE FinalizerInv'
<1>0. FinalizerInv /\ TypeOK
  BY DEF IInv
<1>1. \/ cache' = cache
      \/ cache' = obj /\ UNCHANGED <<obj, cleaned>>
  BY CacheSteps
<1>2. cache'.fin => StillFinalized(cache'.uid)
  <2>1. CASE cache' = cache
    BY <1>0, <2>1, FinalizedStays DEF FinalizerInv
  <2>2. CASE cache' = obj /\ UNCHANGED <<obj, cleaned>>
    BY <2>2 DEF Finalized, StillFinalized
  <2> QED
    BY <1>1, <2>1, <2>2
<1>3. \/ UNCHANGED <<pc, copy>>
      \/ pc' = Dispatch(cache) /\ copy' = cache
      \/ pc' \in {"idle", "list", "delete", "removeFinalizer"} /\ copy' \in {copy, NoApp}
  BY CopySteps
<1>4. copy'.fin => StillFinalized(copy'.uid)
  <2>1. CASE copy' = copy
    BY <1>0, <2>1, FinalizedStays DEF FinalizerInv
  <2>2. CASE copy' = cache
    BY <1>0, <2>2, FinalizedStays DEF FinalizerInv
  <2>3. CASE copy' = NoApp
    BY <2>3, AppType
  <2> QED
    BY <1>3, <2>1, <2>2, <2>3
<1>5. pc' = "create" => copy'.fin
  <2>1. Dispatch(cache) = "create" => cache.fin
    BY DEF Dispatch
  <2> QED
    BY <1>0, <1>3, <2>1 DEF FinalizerInv
<1>6. ASSUME NEW p \in PodIds, owner'[p] # 0 PROVE StillFinalized(owner'[p])
  <2>1. CASE owner'[p] = owner[p]
    BY <1>0, <1>6, <2>1, FinalizedStays DEF FinalizerInv
  <2>2. ASSUME pc = "create", owner'[p] = copy.uid PROVE StillFinalized(owner'[p])
    BY <1>0, <2>2, FinalizedStays DEF FinalizerInv
  <2>3. 0 \in 0..MaxApps /\ copy.uid \in 0..MaxApps
    BY <1>0, LifetimeAssumptions DEF TypeOK, App
  <2>4. CASE NewPod(0)
    BY <1>0, <1>6, <2>1, <2>3, <2>4, NewPodIs
  <2>5. CASE pc = "create" /\ NewPod(copy.uid)
    BY <1>0, <2>1, <2>2, <2>3, <2>5, NewPodIs
  <2> QED
    BY <2>1, <2>4, <2>5, OwnerSteps
<1> QED
  BY <1>2, <1>4, <1>5, <1>6 DEF FinalizerInv, Finalized, StillFinalized

LEMMA CleanupStep == ASSUME IInv, [Next]_vars PROVE CleanupInv'
<1>0. CleanupInv /\ TypeOK
  BY DEF IInv
<1>1. ASSUME UNCHANGED <<pc, copy, stale>>, pc # "idle" PROVE CleanupInv'
  <2>1. ASSUME CleaningUp, ~stale PROVE copy = obj'
    <3>1. copy = obj /\ obj.del /\ obj # NoApp /\ pc # "addFinalizer"
      BY <1>0, <2>1, AppType DEF CleanupInv, CleaningUp
    <3>2. ~DeleteApp
      BY <3>1 DEF DeleteApp
    <3>3. CASE pc = "removeFinalizer" /\ obj' = NoApp
      <4>1. removeFinalizer \/ UNCHANGED obj
        BY <3>1, <3>3, RemoveSteps
      <4>2. pc' = "idle" \/ UNCHANGED obj
        BY <4>1 DEF removeFinalizer, Return
      <4> QED
        BY <1>1, <3>1, <4>2
    <3> QED
      BY <3>1, <3>2, <3>3, ObjSteps
  <2>2. cleaned \subseteq cleaned'
    BY CleanedSteps
  <2> QED
    BY <1>0, <1>1, <2>1, <2>2 DEF CleanupInv, CleaningUp
<1>2. ASSUME pc' = "idle" PROVE CleanupInv'
  BY <1>2 DEF CleanupInv, CleaningUp
<1>3. CASE Reconcile
  <2>1. pc' = Dispatch(cache) /\ copy' = cache /\ stale' = (cache # obj) /\ obj' = obj
    BY <1>3 DEF Reconcile, cluster
  <2>2. Dispatch(cache) # "delete" /\ Dispatch(cache) # "removeFinalizer"
    BY DEF Dispatch
  <2>3. Dispatch(cache) = "list" => cache.del /\ cache.fin
    BY DEF Dispatch
  <2>4. ~stale' => copy' = obj'
    BY <2>1
  <2> QED
    BY <2>1, <2>2, <2>3, <2>4 DEF CleanupInv, CleaningUp
<1>4. CASE listObjects \/ (\E o \in Objects : deleteBatch(o)) \/ cleanupReturns
  <2>1. /\ CleaningUp /\ UNCHANGED <<copy, stale, obj>>
        /\ pc' = "removeFinalizer" => copy.uid \in cleaned'
    BY <1>4 DEF listObjects, listFailed, deleteBatch, cleanupReturns, CleaningUp, cluster
  <2> QED
    BY <1>0, <2>1 DEF CleanupInv, CleaningUp
<1>5. CASE addFinalizer \/ createInitialPod \/ removeFinalizer \/ Restart
  BY <1>2, <1>5 DEF addFinalizer, createInitialPod, removeFinalizer, Restart, Return
<1>6. CASE UNCHANGED <<pc, copy, stale>>
  BY <1>1, <1>2, <1>6
<1> QED
  BY <1>3, <1>4, <1>5, <1>6, ReconcileSteps DEF Controller

LEMMA QuietStep == ASSUME IInv, [Next]_vars PROVE QuietInv'
<1>0. QuietInv /\ CleanupInv /\ TypeOK
  BY DEF IInv
<1>1. ASSUME UNCHANGED <<adm, quiet>>, quiet # {}
      PROVE  ~obj'.del /\ (obj # NoApp => obj' # NoApp)
  <2>0. ~obj.del
    BY <1>0, <1>1 DEF QuietInv
  <2>1. CASE UNCHANGED obj
    BY <2>0, <2>1
  <2>2. ASSUME apps < MaxApps, NEW m \in BOOLEAN, obj' = NewApp(m)
        PROVE  ~obj'.del /\ obj' # NoApp
    BY <1>0, <2>2, NewAppIs
  <2>3. CASE DeleteApp
    BY <1>1, <2>3 DEF DeleteApp
  <2>4. CASE obj' = withFinalizer(obj)
    <3>1. obj'.fin /\ ~obj'.del
      BY <1>0, <2>0, <2>4 DEF withFinalizer, TypeOK, App
    <3> QED
      BY <3>1, AppType
  <2>5. CASE pc = "removeFinalizer" /\ copy = obj
    BY <1>0, <2>0, <2>5 DEF CleanupInv, CleaningUp
  <2> QED
    BY <2>1, <2>2, <2>3, <2>4, <2>5, ObjSteps
<1>2. CASE UNCHANGED <<adm, quiet>>
  BY <1>0, <1>1, <1>2 DEF QuietInv
<1>3. CASE DeleteApp
  BY <1>3 DEF DeleteApp, QuietInv
<1>4. ASSUME NEW a \in Admissions, Handle(a) PROVE QuietInv'
  <2>1. /\ adm[a] = "none" /\ obj' = obj /\ a \notin quiet
        /\ \A b \in Admissions : b # a => adm'[b] = adm[b]
    BY <1>0, <1>4 DEF Handle, cluster, TypeOK, QuietInv
  <2>2. CASE quiet' = quiet
    BY <1>0, <2>1, <2>2 DEF QuietInv, TypeOK
  <2>3. ASSUME NEW v \in {"", "true", "false"}, v # "false",
               adm' = [adm EXCEPT ![a] = IF ShouldCreateCR(v) /\ cache = NoApp THEN "create"
                                         ELSE "inject"],
               quiet' = quiet \cup {a}, cache = obj, ~obj.del
        PROVE  QuietInv'
    <3>1. adm'[a] # "none" /\ (adm'[a] = "inject" => obj # NoApp)
      BY <1>0, <2>3 DEF TypeOK, ShouldCreateCR
    <3> QED
      BY <1>0, <2>1, <2>3, <3>1 DEF QuietInv, TypeOK
  <2> QED
    BY <1>4, <2>2, <2>3 DEF Handle
<1>5. ASSUME NEW a \in Admissions, EnsureMigratableApp(a) PROVE QuietInv'
  <2>1. /\ adm'[a] = "inject" /\ quiet' \subseteq quiet
        /\ \A b \in Admissions : b # a => adm'[b] = adm[b]
    BY <1>0, <1>5 DEF EnsureMigratableApp, TypeOK
  <2>2. CASE \/ obj = NoApp /\ apps < MaxApps /\ obj' = NewApp(TRUE)
             \/ obj # NoApp /\ obj' = obj
    <3>1. obj' # NoApp
      BY <1>0, <2>2, NewAppIs
    <3>2. quiet' # {} => ~obj'.del
      BY <1>0, <2>1, <2>2, NewAppIs DEF QuietInv
    <3> QED
      BY <1>0, <2>1, <3>1, <3>2 DEF QuietInv, TypeOK
  <2>3. CASE quiet' = quiet \ {a} /\ obj' = obj
    BY <1>0, <2>1, <2>3 DEF QuietInv, TypeOK
  <2> QED
    BY <1>5, <2>2, <2>3 DEF EnsureMigratableApp
<1>6. ASSUME NEW a \in Admissions, InjectSidecar(a) PROVE QuietInv'
  <2>1. /\ adm'[a] = "done" /\ quiet' = quiet /\ obj' = obj
        /\ \A b \in Admissions : b # a => adm'[b] = adm[b]
    BY <1>0, <1>6 DEF InjectSidecar, TypeOK
  <2> QED
    BY <1>0, <2>1 DEF QuietInv, TypeOK
<1> QED
  BY <1>2, <1>3, <1>4, <1>5, <1>6, AdmissionSteps

\* A step that leaves S3 and the clean-ups alone, or ends the reconcile, and may
\* create a pod.
LEMMA LeftSame ==
    ASSUME TypeOK, LeftInv,
           UNCHANGED <<bucket, listed, cleaned, failed, late>>,
           UNCHANGED <<pc, copy, objectsToDelete>> \/ pc' # "delete",
           \/ UNCHANGED <<pods, owner, used>>
           \/ NewPod(0) \/ NewPod(copy.uid)
           \/ /\ UNCHANGED <<owner, used>>
              /\ \A p \in PodIds : pods'[p] = pods[p] \/ (Present(p) /\ pods'[p] # "none")
    PROVE  LeftInv'
<1>0. 0 \in 0..MaxApps /\ copy.uid \in 0..MaxApps /\ used \in Nat /\ MaxPods \in Nat
  BY LifetimeAssumptions DEF TypeOK, App
<1>1. used <= used' /\ used' \in Nat
  BY <1>0, NewPodIs DEF TypeOK
<1>2. ASSUME NEW p \in PodIds, p <= used PROVE owner'[p] = owner[p]
  BY <1>0, <1>2, NewPodIs DEF PodIds
<1>3. ASSUME NEW p \in PodIds, Present(p)' PROVE p <= used'
  <2>1. CASE UNCHANGED <<pods, owner, used>>
    BY <1>3, <2>1 DEF LeftInv, Present
  <2>2. CASE NewPod(0) \/ NewPod(copy.uid)
    BY <1>0, <1>3, <2>2, NewPodIs DEF LeftInv, Present, PodIds
  <2>3. CASE /\ UNCHANGED <<owner, used>>
             /\ \A q \in PodIds : pods'[q] = pods[q] \/ (Present(q) /\ pods'[q] # "none")
    BY <1>3, <2>3 DEF LeftInv, Present
  <2> QED
    BY <2>1, <2>2, <2>3
<1>4. ASSUME NEW o \in bucket PROVE Owner(o)' = Owner(o) /\ o[1] <= used'
  <2>1. o[1] \in PodIds /\ o[1] <= used
    BY DEF TypeOK, LeftInv, Objects
  <2> QED
    BY <1>0, <1>1, <1>2, <2>1 DEF Owner, PodIds
<1>5. /\ cleaned' \subseteq listed' \cup failed'
      /\ \A o \in bucket' : Owner(o)' \in cleaned' => Owner(o)' \in failed' \/ o \in late'
  BY <1>4 DEF LeftInv
<1>6. pc' = "delete" =>
         /\ copy'.uid \in listed' \cup failed'
         /\ \A o \in bucket' : Owner(o)' = copy'.uid =>
              copy'.uid \in failed' \/ o \in late' \cup objectsToDelete'
  BY <1>4 DEF LeftInv
<1> QED
  BY <1>3, <1>4, <1>5, <1>6 DEF LeftInv

LEMMA LeftStep == ASSUME IInv, [Next]_vars PROVE LeftInv'
<1>0. LeftInv /\ TypeOK
  BY DEF IInv
<1> USE DEF reconcile, cluster, history, webhook
<1>1. CASE Sync \/ CreateApp \/ DeleteApp
  BY <1>0, <1>1, LeftSame DEF Sync, CreateApp, DeleteApp
<1>2. CASE \E p \in PodIds : scaleDown(p) \/ garbageCollect(p) \/ podEnds(p)
  <2>1. /\ UNCHANGED <<bucket, listed, cleaned, failed, late, pc, copy, objectsToDelete>>
        /\ UNCHANGED <<owner, used>>
    BY <1>2 DEF scaleDown, garbageCollect, Terminate, podEnds
  <2>2. \A p \in PodIds : pods'[p] = pods[p] \/ (Present(p) /\ pods'[p] # "none")
    BY <1>0, <1>2 DEF scaleDown, garbageCollect, Terminate, podEnds, TypeOK, Present
  <2> QED
    BY <1>0, <2>1, <2>2, LeftSame
<1>3. CASE \E a \in Admissions : Handle(a) \/ EnsureMigratableApp(a) \/ InjectSidecar(a)
  <2>1. /\ UNCHANGED <<bucket, listed, cleaned, failed, late, pc, copy, objectsToDelete>>
        /\ UNCHANGED <<pods, owner, used>> \/ NewPod(0)
    BY <1>3 DEF Handle, EnsureMigratableApp, InjectSidecar
  <2> QED
    BY <1>0, <2>1, LeftSame
<1>4. CASE Reconcile
  <2>1. pc' # "delete"
    BY <1>4 DEF Reconcile, Dispatch
  <2> QED
    BY <1>0, <1>4, <2>1, LeftSame DEF Reconcile
<1>5. CASE addFinalizer \/ createInitialPod \/ removeFinalizer \/ Restart
  <2>1. /\ pc' # "delete"
        /\ UNCHANGED <<bucket, listed, cleaned, failed, late>>
        /\ UNCHANGED <<pods, owner, used>> \/ NewPod(copy.uid)
    BY <1>5 DEF addFinalizer, createInitialPod, removeFinalizer, Restart, Return
  <2> QED
    BY <1>0, <2>1, LeftSame
<1>6. CASE UNCHANGED vars
  BY <1>0, <1>6, LeftSame DEF vars
<1>7. CASE listObjects
  BY <1>0, <1>7 DEF listObjects, prefix, listFailed, LeftInv, Present, Owner
<1>8. ASSUME NEW o \in Objects, deleteBatch(o) PROVE LeftInv'
  <2>1. /\ UNCHANGED <<pods, owner, used, listed, cleaned, late, pc, copy>>
        /\ pc = "delete" /\ objectsToDelete' = objectsToDelete \ {o}
        /\ \/ bucket' = bucket \ {o} /\ failed' = failed
           \/ bucket' = bucket /\ failed' = failed \cup {copy.uid}
    BY <1>8 DEF deleteBatch
  <2> QED
    BY <1>0, <2>1 DEF LeftInv, Present, Owner
<1>9. CASE cleanupReturns
  BY <1>0, <1>9 DEF cleanupReturns, LeftInv, Present, Owner
<1>10. ASSUME NEW p \in PodIds, NEW d \in Dumps, uploadDump(p, d) PROVE LeftInv'
  <2>1. /\ UNCHANGED <<pods, owner, used, listed, cleaned, failed, pc, copy, objectsToDelete>>
        /\ Present(p) /\ bucket' = bucket \cup {<<p, d>>}
        /\ late' = IF owner[p] \in listed THEN late \cup {<<p, d>>} ELSE late
    BY <1>10 DEF uploadDump
  <2>2. p <= used /\ Owner(<<p, d>>) = owner[p] /\ <<p, d>>[1] = p
    BY <1>0, <2>1 DEF LeftInv, Owner
  <2>3. late \subseteq late' /\ (owner[p] \in listed => <<p, d>> \in late')
    BY <2>1
  <2>4. \A o \in bucket' : Owner(o)' = Owner(o)
    BY <2>1 DEF Owner
  <2>5. \A o \in bucket' : o[1] <= used
    BY <1>0, <2>1, <2>2 DEF LeftInv
  <2>6. \A o \in bucket' : Owner(o) \in cleaned => Owner(o) \in failed \/ o \in late'
    BY <1>0, <2>1, <2>2, <2>3 DEF LeftInv
  <2>7. pc = "delete" => \A o \in bucket' : Owner(o) = copy.uid =>
              copy.uid \in failed \/ o \in late' \cup objectsToDelete
    BY <1>0, <2>1, <2>2, <2>3 DEF LeftInv
  <2> QED
    BY <1>0, <2>1, <2>4, <2>5, <2>6, <2>7 DEF LeftInv, Present
<1> HIDE DEF reconcile, cluster, history, webhook
<1> QED
  BY <1>1, <1>2, <1>3, <1>4, <1>5, <1>6, <1>7, <1>8, <1>9, <1>10 DEF Next, Controller

-----------------------------------------------------------------------------
LEMMA InitIInv == Init => IInv
<1> SUFFICES ASSUME Init PROVE IInv
  OBVIOUS
<1>1. TypeOK
  <2>1. /\ obj \in App /\ cache \in App /\ copy \in App
        /\ apps \in 0..MaxApps /\ used \in 0..MaxPods /\ faults \in Nat
        /\ owner \in [PodIds -> 0..MaxApps]
    BY AppType, LifetimeAssumptions DEF Init
  <2>2. /\ pods \in [PodIds -> {"none", "running", "terminating", "gone"}]
        /\ adm \in [Admissions -> {"none", "create", "inject", "done"}]
        /\ pc \in {"idle", "addFinalizer", "create", "list", "delete", "removeFinalizer"}
        /\ stale \in BOOLEAN
    BY DEF Init
  <2> QED
    BY <2>1, <2>2 DEF Init, TypeOK
<1>2. UidInv /\ PcInv
  BY AppType DEF Init, UidInv, PcInv
<1>3. FinalizerInv /\ CleanupInv
  BY AppType DEF Init, FinalizerInv, CleanupInv, CleaningUp
<1>4. LeftInv /\ QuietInv
  BY DEF Init, LeftInv, QuietInv, Present
<1> QED
  BY <1>1, <1>2, <1>3, <1>4 DEF IInv

LEMMA NextIInv == IInv /\ [Next]_vars => IInv'
<1> SUFFICES ASSUME IInv, [Next]_vars PROVE IInv'
  OBVIOUS
<1>1. TypeOK'
  BY TypeStep DEF IInv
<1> QED
  BY <1>1, UidStep, PcStep, FinalizerStep, CleanupStep, LeftStep, QuietStep DEF IInv

\* The inductive invariant holds always.
THEOREM LifetimeInvariance == Spec => []IInv
  BY InitIInv, NextIInv, PTL DEF Spec

\* The code's types; an app that had a pod is cleaned up before it is gone; S3
\* keeps nothing of it but what failed or came late; an injected pod has its app.
THEOREM LifetimeSafe ==
    Spec => [](TypeOK /\ CleanedBeforeGone /\ NothingElseLeft /\ InjectedHasApp)
<1>1. IInv => TypeOK /\ CleanedBeforeGone /\ NothingElseLeft /\ InjectedHasApp
  <2> SUFFICES ASSUME IInv PROVE CleanedBeforeGone /\ NothingElseLeft /\ InjectedHasApp
    BY DEF IInv
  <2>1. 1..used \subseteq PodIds
    BY LifetimeAssumptions DEF IInv, TypeOK, PodIds
  <2>2. CleanedBeforeGone
    BY <2>1 DEF IInv, FinalizerInv, Finalized, CleanedBeforeGone
  <2>3. NothingElseLeft
    BY DEF IInv, LeftInv, Owner, NothingElseLeft
  <2>4. InjectedHasApp
    BY DEF IInv, QuietInv, InjectedHasApp
  <2> QED
    BY <2>2, <2>3, <2>4
<1> QED
  BY <1>1, LifetimeInvariance, PTL

\* No app that had a pod of its own is gone before its clean-up has run.
THEOREM NeverGoneUncleaned == Spec => []CleanedBeforeGone
  BY LifetimeSafe, PTL

\* After a clean-up only what failed or came late is left on S3.
THEOREM LeftoversExplained == Spec => []NothingElseLeft
  BY LifetimeSafe, PTL

\* An injection that nothing disturbed finds its MigratableApp, unless the pod asked
\* for none.
THEOREM InjectionFindsApp == Spec => []InjectedHasApp
  BY LifetimeSafe, PTL

\* A clean-up that began with a current copy deletes nothing of a later app of the
\* same name.
THEOREM OthersKept == Spec => OnlyOwnDeleted
<1> DEFINE A == \A o \in bucket \ bucket' : owner[o[1]] \in 0..copy.uid \/ stale
<1>1. ASSUME IInv, [Next]_vars PROVE [A]_vars
  <2> SUFFICES ASSUME NEW o \in bucket, o \notin bucket', ~stale
               PROVE  owner[o[1]] \in 0..copy.uid
    OBVIOUS
  <2>1. pc = "delete"
    BY <1>1, DeleteSteps
  <2>2. copy = obj /\ copy.del
    BY <1>1, <2>1 DEF IInv, CleanupInv, CleaningUp
  <2>3. copy.uid = apps
    BY <1>1, <2>2, AppType DEF IInv, UidInv
  <2>4. o[1] \in PodIds /\ owner[o[1]] \in Nat
    BY <1>1, LifetimeAssumptions DEF IInv, TypeOK, Objects
  <2>5. owner[o[1]] <= apps
    BY <1>1, <2>4 DEF IInv, UidInv
  <2> QED
    BY <1>1, <2>3, <2>4, <2>5, LifetimeAssumptions DEF IInv, TypeOK
<1> QED
  BY <1>1, LifetimeInvariance, PTL DEF Spec, OnlyOwnDeleted
=============================================================================
