# CRIU migration operator in TLA+

The operator moves a running process from one Kubernetes node to another. A
controller watches `MigratableApp` objects; an agent beside every workload dumps
it with CRIU, uploads the images to S3 and, in a target pod, restores it. A
monitor on every spot node asks for the migration of its pods when the provider
announces that the node goes away. This directory holds TLA+ models of the parts
in which order, concurrency and failure decide whether the workload survives, the
TLC runs that check them on small instances, and TLAPS proofs of their main
safety properties for all instances.

* [Inventory](#inventory): the parts of the system
* [Modules](#modules): how state and actions correspond to the code
* [Runs](#runs): what is checked, bounds, fairness
* [Proofs](#proofs): what is proved, and along which argument
* [Where the code disagrees with its documents](#where-the-code-disagrees-with-its-documents)
* [What is not modelled](#what-is-not-modelled) and [Plan](#plan)

Paths below are relative to `src/`. `PROJECT.json` maps each definition to the
source lines it models and lists the hazards each property is aimed at.

## Inventory

| Part | State it keeps | Operations | Talks to |
|---|---|---|---|
| Reconciler and FSM, `pkg/controller/{reconciler,migration_fsm}.go` | none between reconciles: all is in the object's status and in labels, annotations and the finalizer | `Reconcile`, `performMigrationFSM` with one handler per stage, `setStage`, the records of terminal failures, the retry annotation, quiescing of load pods, `cleanupS3Checkpoints` | API server (cached and uncached reads, updates with optimistic concurrency), agents by gRPC, S3 |
| `MigratableApp` status, `api/v1alpha1` | phase, `migration.stage`, retry count, last checkpoint, chain depth, failure records | written by the reconciler only | — |
| Pod builder, `pkg/controller/pod_builder.go` | — | initial pod, restore target (generation, checkpoint to restore) | API server |
| Pre-checkpoints, `performPreCheckpoint` | `LastCheckpointID`, `ChainDepth` in the status | one pre-dump per interval, unless `autoAdjust` | agent |
| Agent, dump side, `pkg/agent/{server,checkpoint}.go` | `lastCheckpointID`, `prevExcludeSet`, the profiler | `PreCheckpoint`, `FinalDump`, `StopProfiling`, background uploads | CRIU, S3, the kernel's soft-dirty bits |
| Invariant scheduler, `pkg/agent/deadline_scheduler.go` | its own goroutine, the last parent | initial pre-dump, sampling, pre-dumps of its own, `Stop` | checkpoint manager, profiler |
| Write profiler, `pkg/profiler/profiler.go` | a userfaultfd injected into the workload, heat of regions | `Start`, samples, `CleanupBeforeCRIU`, `ReinitAfterCRIU`, `Close` | system call injection |
| System call injection, `pkg/profiler/ptrace.go` | saved registers and instruction of the seized workload | `setupUffdWP`, `closeTargetUffd`: seize, inject one call at a time, put back, detach | the kernel's ptrace |
| S3 transfers, `pkg/agent/s3.go` | — | `UploadCheckpoint`, `DownloadMetadataOnly`, `DownloadFullCheckpoint`, each a pool of goroutines with a semaphore and a channel of errors | S3 |
| Agent, restore side, `pkg/agent/{server,restore}.go` | `restoreCmd`, `restoreLazyPagesCmd`, `restorePidNsFd`, `lazyPagesActive` | `Restore`, a reaper and a waiter goroutine per call | `criu lazy-pages`, `criu restore` |
| Spot monitor, `pkg/monitor` | none: the process ends after a handled notice and is restarted | polls the metadata server, cordons the node, annotates its pods | API server |
| Admission webhook, `pkg/webhook` | — | `Handle`: finds the configuration, creates the `MigratableApp`, injects the agent | API server (cached reads) |
| Heat classifier, `pkg/profiler/heat.go` | heat per region | classification of samples | profiler |
| Scanning, namespaces, mounts, metrics, entry points, generated code | — | I/O | — |

What is hard about it:

* **The object is read from a cache that lags.** Every handler decides from a
  snapshot; only the Dumping and Uploaded handlers re-read the stage uncached.
  Status updates conflict; some conflicts are retried, some are dropped.
* **Effects precede their record.** A final dump kills the source, a pod is
  created, a process is restored, each before the status says so. A crash or a
  conflict in between runs the handler again.
* **Two counters of one thing.** The kernel counts dirty pages since CRIU's last
  dump, the controller or the scheduler names the parent of the next one. If
  they differ the image is silently wrong.
* **Goroutines share fields.** A second `Restore`, the reaper of the first, the
  waiter of the lazy-pages daemon and a dump meet on four fields of the agent.
  The scheduler dumps beside the RPC handlers.
* **A foreign process is rewritten while it lives.** The profiler replaces an
  instruction and the registers of the workload; signals, failing calls and a
  change of threads come between any two requests.
* **Pools of goroutines fail in part.** A transfer must not answer before, or
  without, its last file, and no goroutine may be left waiting.
* **Names are reused.** Checkpoints are found by the name of the app; the next
  app of the name, pods that outlive their app and late uploads share a prefix.
* **Something must happen eventually**: a migration ends, a deletion ends, every
  pod of a dying node is triggered, a stopped workload runs again, dumps are
  allowed again after a restore, CRIU processes are reaped, transfers return.

What makes each part correct:

* controller: the checkpoint a stage or a pod names is completely uploaded; the
  stored status follows the documented lifecycle; at most one copy of the
  workload runs; a source is dumped once and has one target at a time; one
  record per outcome; attempts are bounded; a migration ends;
* life of an app: nothing it stored is left without a reason, nothing of its
  successor is deleted, an injected pod has its app, deletion and creation end;
* dump side: no image takes an outdated page from its parent, no page is
  forgotten, chains are bounded, CRIU finds no userfaultfd in the process;
* injection: the workload is released as it was found, no descriptor is
  forgotten in it;
* transfers: an answer without an error means that the files are there, and stay;
* restore side: no dump freezes a process whose pages are still delivered, the
  pid namespace stays open, processes are reaped, dumps resume;
* spot monitor: no trigger on an open node or for mere maintenance, none
  overwritten, none missed.

## Modules

| Module | What it is |
|---|---|
| `MigrationLifecycle` | abstract: the life of a migration as the status documents it |
| `MigrationController` | the reconciler, caches, API server, pods, faults; implements `MigrationLifecycle` |
| `AppLifetime` | the apps of one name: webhook, finalizer, clean-up of S3, the next app |
| `CheckpointAgent` | the agent beside a running workload, its scheduler, the controller's pre-checkpoints |
| `SyscallInjection` | how the profiler's userfaultfd gets into the workload and out again |
| `CheckpointTransfer` | the images of a chain on their way to S3 and to the target |
| `RestoreAgent` | the agent of a target pod |
| `SpotMonitor` | the node monitor of a spot node |
| `…Proofs` | theorems about each, in a module of their own |
| `MigrationTargetsProofs` | further theorems about the controller: the workload and the pods it is restored on |
| `MCController`, `MCLifetime`, `MCAgent`, `MCInjection`, `MCTransfer`, `MCRestore`, `MCSpot` | what TLC instantiates |

The modules meet in few facts. `CheckpointTransfer!UploadedWhole` is what lets
`MigrationController` put a checkpoint into `s3` when `FinalDump` answers.
`SpotMonitor` writes the annotation that `MigrationController` takes as a
trigger. `SyscallInjection` refines what `CheckpointAgent` sees as one step,
`uffd` set or cleared. `AppLifetime` covers an app before its first migration and
from its deletion on, `MigrationController` the time between.

### MigrationController

One reconcile is a sequence of steps, cut wherever the code leaves the process:
a read or write of the API server, an RPC, a wait. `pc` is the next step, `m`
the reconcile's copy (`mapp`), `pod` the pod `getCurrentPod` returned
(`sourcePod`), `tgt` the created `targetPod`, `after` where the handler goes on
once its status update succeeds. Nothing else survives between steps; nothing at
all survives a `Crash`. controller-runtime never reconciles one object twice at
a time, so there is one `pc`.

`api` is the stored object, `cache` the informer's copy, `podSt` and `seen` the
same for pods. A resource version is only compared for equality, so it is two
bits: `cacheOK` (the cache is current) and `snapOK` (`m` was read from the
version the server holds). An update with `snapOK` false conflicts; the code's
reaction (retry, requeue, ignore) is in the action that follows.

Pods are numbered in order of creation. A dump kills its workload, so a
checkpoint is named by its pod. `proc` says whether a pod runs the workload,
`s3` which checkpoints are uploaded, `load` the pods the quiesce selector
matches, `due` whether time has passed the deadline the current wait measures.

`Controller` has one action per handler step, `Cluster` the kubelets, watches,
clock and spot notices, `Disturbance` what may go wrong at any time: a lost pod, a
user's edit, a retry request, a crash, a refused write. RPCs answer, fail, or
succeed with the answer lost to a crash. The code never stores
`StagePreCheckpointing`, so the model has no such stage.

### MigrationLifecycle

Stage, retry count, checkpoint, the number of successes and failure records, and
the retry request. Its actions are the documented transitions: a dump starts,
fails, is uploaded; a restore starts, succeeds, fails and is retried from the
uploaded checkpoint at most `MaxRetries` times, or gives up with one record; a
terminal stage is left only on request. `MigrationController` instantiates it
with the fields of `api`.

### AppLifetime

`obj` is the stored `MigratableApp` of the name (uid 0: there is none), `cache`
the informer's copy, `pc` and `copy` the running reconcile. An object never
returns to an earlier value, so an update is refused exactly if `copy # obj`.
`Dispatch` is the beginning of `Reconcile`: finalizer, deletion, first pod. The
clean-up is `listObjects`, `deleteBatch` and `cleanupReturns`, which the code
leaves without an error whatever S3 says, then `removeFinalizer`. Pods the
controller creates are owned by the app and garbage-collected only after it is
gone; injected pods belong to a ReplicaSet. Objects on S3 are pairs of pod and dump, all
under the prefix of the name. `Handle`, `EnsureMigratableApp` and
`InjectSidecar` are one admission request; its errors are only logged. A pod
annotated `migration.io/create-cr: "false"` (`ShouldCreateCR`) is injected without a
look at the app. `stale`,
`listed`, `cleaned`, `failed`, `late` and `quiet` are histories the properties
need.

### CheckpointAgent

A page always holds a value it never had before, so an image is two sets:
`has[d]`, the pages a restore of `d` finds in it or through its parents, and
`cur[d]`, those found with their present value. `Write` removes a page from
every `cur` and marks it dirty. `excl[d]` are the pages a dump was told to
exclude (hot regions), `len[d]` its chain. A region (`Regions`) is a chunk known by its
start, as in `heat.go`; where it ends follows its VMA, so from one sample to the next
it may grow, shrink, vanish or become part of another. `noParentRanges` compares only the
starts, as the code does; `shrunk` remembers what a region that stayed hot gave up by
that, until a pre-dump writes it. `stale` collects dumps that took an
outdated page from their parent.

`status` is what the controller records (`LastCheckpointID`, `ChainDepth`) and
`cached` what its cache shows of it, from which `performPreCheckpoint` chooses
the parent; `lastCheckpointID` and `prevExcludeSet` are the agent's fields,
`profiler`, `uffd`, `loop`, `hot` the profiler. `rpc`/`args` is the RPC in
progress (the controller issues one at a time), `sched`/`schedArgs` the
scheduler's goroutine; the two interleave. In `auto` mode the scheduler dumps and the controller does
not, so the status never names a parent and the final dump is full. Whether a
region turns hot or cold, and whether the scheduler's formula asks for a dump,
is a free choice. `faults` is the set of kinds of faults that have happened; a
record that the cache does not show in time is the kind `"lag"`.
`Foreign` is a dump of an earlier pod: after a migration the status still names
one, and it is on another disk. `StartProfiling` has no caller in the repository.

### SyscallInjection

One step is one ptrace request or one injected system call. `caller` is the
Profiler method, `pc` its next request, `ok` whether all has gone well so far.
The workload is `traced`, `stop` (running, or why it is stopped), `code` and
`regs` (its own or the injector's), `pending` signals, and `fds`, the
userfaultfds in it by the call that made them. The rules of ptrace are external
and stated in the module's header: requests succeed only from the seizing thread
on a stopped process; a signal's stop, or the stop of the interrupt that is
still due, ends a single step before its instruction. `Outcomes` are the ways
one `injectSyscall` can end. `onTracer` is false once the goroutine is on another thread,
possible only in `ReinitAfterCRIU`, which does not lock its thread.
`trackerUffdFd` and `targetUffdFd` are the profiler's fields.

### CheckpointTransfer

A call is an upload of one dump or one call of `Restore`, which downloads the chain. Its goroutines are
`worker[c]`, one per file: waiting for a place of the semaphore, active, overtaken
(its file was truncated by another call since it opened it), failed (with an
error to send), done. `errChan` is its channel, `call[c]` what
it has come to. `UploadCheckpoint` also covers `DIRECT_UPLOAD`, where CRIU stores
the files, and a walk of the directory that fails. `PreCheckpoint` leaves its
upload in the background, `FinalDumpAnswers` waits for its own. `SourceEnds`
kills what still runs.

`Restore` cancels the calls before it and waits for none of them. In the same
pod their goroutines go on over the same `disk`: those that have their file open end
or fail; those that have not create it anew (`create`), which truncates it, and
then their request fails. In another pod the directory is new and the earlier
goroutines are gone. A call lists page by page what the bucket holds at that
moment, then downloads over whatever the earlier ones have left. `late` are the
dumps whose upload had not succeeded when the current listing began, `torn` the files
a cancelled call has truncated since the current one opened them.

With a page server (`lazy-direct`, `lazy-hybrid`) CRIU still runs when the upload
begins: `waitForCheckpointFiles` has seen `core-*.img` and `inventory.img` and
slept half a second (`checkpoint.go:354,506-537`). The model takes the files to be
complete then, which rests on CRIU writing `inventory.img` last.

### RestoreAgent

Every `Restore` call is a handler with the steps download, daemon, ready, start,
check, record, pid, answered or error; it leaves a reaper and, with a lazy
strategy, a waiter. The controller calls again after a restart, after an answer
it could not store and from a stale cache, so calls follow each other or
overlap. The fields name the call that set them, 0 for nil. `criu` and `daemon`
are the processes of each call (`"exited"` until reaped), `workload` the call
whose process runs, `pages` whether its memory is complete, `source` the daemon
that delivers it, `fds` the open descriptors of the pid namespace. All calls use
one directory, so `lazy-pages.log` may be an earlier daemon's (`logReady`). A
descriptor no field names any more is closed by Go's finalizer. A dump is
refused while `lazyPagesActive`; `dumping` is one that was let in.

The error branch of the `/proc` check in `CheckRestore` is written down as in
the code and is never taken: see the findings.

### SpotMonitor

`pc` is the monitor's step: poll, get the node, cordon it, list the pods, mark
them, exited. It reads uncached but writes copies: `nodeOK` and `podOK` say which
copies are still the newest version. `notice` is what the metadata server announces,
`check` what each provider's check makes of it, with or without `--cloud-type`.
`mark` holds a pod's annotations: none, a user's, or the time of the detection
that wrote them. `Killed` and `Restarted` are the container's life; the process
also ends by itself after each handled notice, so handling is repeated for as long as
the notice stands. Pods come, go and are edited, the node is edited, at any step.

## Runs

Passing runs:

| Run | Instance | States | Question |
|---|---|---|---|
| `safety` | `MaxRetries` 1, 4 pods, 2 triggers, 1 disturbance, no quiesce | 1.85 M | `TypeOK`, `CheckpointUploaded`, `MigratingIsInFlight`, `AttemptsBounded`, `OneRecordPerOutcome`, `SingleWorkload`, `NeverDumpTwice`, `OneTargetAtATime`, `ImplementsLifecycle` |
| `quiesce` | fair; `MaxRetries` 2, quiesce with one load pod, debug-preserve, 3 pods, 1 trigger, 1 disturbance | 0.51 M | `MigrationEnds` |
| `lifetime` | fair; 2 apps, 2 pods, 1 admission, 1 dump per pod, 1 fault | 0.21 M | `CleanedBeforeGone`, `NothingElseLeft`, `InjectedHasApp`, `OnlyOwnDeleted`, `DeletionEnds`, `AppGetsPod` |
| `chain` | 2 pages (symmetric), depth 2, 3 dumps, 1 kind of fault | 2.2 M | `TypeOK`, `NoOutdatedPage`, `LastDumpCovers`, `ChainBounded`, `NoUffdInDump` |
| `injection` | fair; 2 regions, 5 calls, 2 signals | 0.25 M | `LeftAsFound`, `NoForgottenUffd`, `TrackerFd`, `Released` |
| `transfer` | fair; a pre-dump and the final dump, 1 file each, 1 place, 2 restores | 0.12 M | `UploadedWhole`, `ChainDownloaded`, `ImagesStay`, `TransfersReturn` |
| `restore` | fair; 2 calls, either strategy | 12.8 k | `TypeOK`, `NoFreezeWhileLazy`, `NsFdHeld`, `CriuReaped`, `DumpsResume` |
| `spot_notice` | fair; 2 pods, 2 edits, every provider | 0.53 M | `CordonBeforeTrigger`, `FirstTriggerStays`, `NoTriggerWhileDeleted`, `AllTriggered` |

The other four runs each show one disagreement (below).

**Bounds.**

* *Controller*: a failed migration from pod 1 uses two targets
  (`MaxRetries` + 1), a reset a fourth pod, and two triggers allow a migration of
  the migrated pod; one disturbance may come at any step, which is what the
  code's guards against conflicts and restarts are written for. The caches may
  lag arbitrarily in every run. `quiesce` allows two retries, because the first
  has no back-off; a target past `MaxPods` is refused, which the code treats as a
  failed attempt.
* *Lifetime*: two apps of a name are what confusion of one with the next needs; two
  pods are an old and a new one, owned or injected; one admission meets each of
  the two apps (two admissions are beyond five minutes). One
  fault may come at any step; requests to S3 may fail without limit.
* *Dumps*: two pages separate "written" from "not written", "hot"
  from "cold" and a region of both from one that has shrunk; three dumps at depth 2 include a chain that is full, the root after
  it, and a final dump on either. One kind of fault, repeated freely, keeps the
  run within minutes; two kinds were checked with two dumps (2.3 M states), and the
  proofs have no such bound.
* *Injection*: five calls are start, cleanup, re-initialisation, cleanup and one
  more after it; two regions are one registered before a failure and one not;
  two signals interrupt two steps of one injection, or one each of two.
* *Transfers*: two files, one of each dump, and one place are enough for a goroutine
  that waits for its place while its call is cancelled, and for one that holds the
  place while the other waits; two restores are one that overlaps the other. Two files per dump,
  `Images` and `Pages`, were checked with two places and one restore (33 k
  states), where the two strategies download different files; both together are beyond
  five minutes, and the proofs have no such bound. `AgentFiles` is
  empty, since the agent's own files are only listed and downloaded like the others.
* *Restore*: two calls meet on every field; the inductive invariant was also
  checked with three (1.8 M states).
* *Spot*: two pods are one whose update fails and one whose does not; two edits
  are a conflict in each of two handlings, or a failed call and a kill.

**Conditions in the properties.** Each excludes a case in which the code is known
not to keep the promise; all of these cases are in the models and reached, and
are listed as hazards.

* `AttemptsBounded`, `NeverDumpTwice` and `OneTargetAtATime` are stated for
  histories without trouble: a lost write can repeat an attempt.
  `NeverDumpTwice` ends with the first success, after which the dead
  source may be the current pod again (`RestoredPodKept`). `SingleWorkload` excludes
  lost pods (the code then starts a fresh workload) and resets (the code deletes
  the newest pod, which need not be the dead one). `MigrationEnds` lets a
  behaviour end when `MaxPods` pods were created and none is left, which the real
  cluster has no counterpart of.
* `NothingElseLeft` excludes failed requests and uploads after the listing,
  `OnlyOwnDeleted` a clean-up begun with an outdated cache, `InjectedHasApp`
  admissions that met an error, a deletion or an outdated cache, and pods annotated
  `migration.io/create-cr: "false"`, which are to have no app
  (`docs/webhook-injection.md:108,114,217`). `AppGetsPod`
  ends when an injected pod carries the app's label or `MaxPods` is used up.
* `NoOutdatedPage` and `LastDumpCovers` exclude a failed pre-dump, a lost record
  and a lagging cache, after which the code has no parent to rely on;
  `LastDumpCovers` also excludes a stopped profiler, and pages that a region which
  stayed hot has given up (`shrunk`). `ChainBounded` excludes a
  conflict on the status update that records the depth, and a lagging cache.
  `NoUffdInDump` is about `auto` mode, and excludes failed injections, a stopped
  profiler and, for the final dump, a scheduler that missed its stop. Without
  `auto`, the goroutine that starts the profiler may inject in the middle of an
  RPC, and no flag keeps it from that.
* `LeftAsFound` and `Released` hold if no goroutine changes its thread;
  `NoForgottenUffd` also excludes signals, after which the code may take a result that
  is none, and `Close` of a running profiler, which leaves the descriptor in the
  workload.
* `ChainDownloaded` speaks of the pre-dumps whose upload had succeeded when the
  listing began; the code waits for no other. It and `ImagesStay` except the files a
  goroutine of a cancelled call has truncated since the current call opened them
  (`torn`).
* `NoFreezeWhileLazy` and `NsFdHeld` are about a workload no other call had a part
  in (`Undisturbed`).

**Fairness.** Controller: weak fairness of the reconcile (requeues are
guaranteed by the work queue), of the watches, of the clock and, per pod, of
start-up and removal by the kubelet. Users, triggers and faults are never
forced. Lifetime: the same, with the garbage collector; requests to S3 need not ever
succeed. Restore: weak fairness of each handler, reaper and waiter, since
goroutines are scheduled and each wait of a handler has a timeout; CRIU and its daemon
are not assumed to end or to answer. Injection: an injection that has begun takes
its next step. Transfer: weak fairness per upload and, for each call of `Restore`, of its
downloads and its listing, cancelled or not, since every S3 request ends, in success or error; a place of the
semaphore is given to some goroutine, not to each in turn. Spot: the monitor ticks
and the kubelet restarts the container of the DaemonSet; edits are bounded, as
otherwise every update could conflict for ever.

**Deadlock** is checked for the controller and the spot monitor, which always
have something to do. It is not checked for the agents, injections, transfers and
the life of an app: after the final dump, the last call or the last app they may
be idle for good.

**Mutants.** For every property of a passing run `PROJECT.json` names a mutated
definition (a dropped guard, a missing wait, an off-by-one) that TLC finds to
violate it. The mutated forms are defined beside the definitions they replace.

## Proofs

All are checked by TLAPS with Z3, Zenon and LS4, from the named assumptions on the
constants only: `ControllerAssumptions` (`MaxRetries` and `MaxPods` positive, the
others naturals, a quiesce selector matches something), `LifetimeAssumptions`,
`AgentAssumptions`, `InjectionAssumptions`, `CallsAssumption`, `SpotAssumptions`
(bounds are naturals), `TransferAssumptions` (at least one place; the kinds of
files are disjoint, and so are dumps and calls of `Restore`).

**Controller** (`MigrationControllerProofs`). None of the properties is
inductive: a write is computed from `m`, which may be stale. `IInv` says of
every copy (`api`, `cache`, `m`) that it is *sound* - its checkpoint is uploaded
if its stage says so, its phase fits its stage - even when stale; of every step
`pc` which stages `m` can be in; and, when `snapOK` holds, that `m` is the stored
object or exactly one documented step ahead of it, which is what makes a
successful write a lifecycle step. Theorems for every value of the constants:

* `TypeCorrect`, `CheckpointIsUploaded`, `MigratingNeverStuck`, `OneRecordEach`;
* `ControllerImplementsLifecycle`: `Spec => Lifecycle!Spec`, from the initial
  states and one lemma per action.

**Workload and targets** (`MigrationTargetsProofs`). The properties that count
pods need to know how old a copy may be, and where the workload is meanwhile. The
invariant has two layers above `IInv`, and `PodsInv` for what always holds of the
pods (numbered without gaps; what the informer shows was true; a live process is
in a pod that can be reached).

* `CalmInv`, while no pod was lost and no terminal stage reset: every copy of the
  object is at most one write behind (`OrderInv`, with `Follows` the order of the
  writes); the first pod alone starts the workload by itself, and keeps its name
  taken until a reset, so `createInitialPod` makes no second one even if the
  informer shows no pod (`FirstPodInv`); the target of a restore was seen and
  stays up until its failure is recorded, so the pod the Restoring handler deletes
  in the end is not the first one (`TargetInv`); in Uploaded nothing lives, from
  Restoring on at most the recorded target (`LiveInv`). Hence `OneWorkload`. It
  holds through failed calls, edits, conflicts and crashes, and counts pods that are
  being deleted too.
* `QuietInv`, while nothing disturbed the controller: a copy that is not the newest
  *shows* it, because every write over the stages from Dumping to RestoreFailed changes
  the stage; so whoever passes the uncached read of the Dumping or the Uploaded handler
  has the newest copy (`LagInv`). That is why comparing the stage alone suffices
  there. Hence a dumped pod is not revived, nor dumped again before the first
  success (`OnceInv`), and the object counts every try but the one under way (`TriesInv`). Hence `DumpedOnce`,
  `OneTarget` and `BoundedAttempts`.

The module first proves what a step can do to the pods (`PodSteps`), processes
(`WorkSteps`), object (`ObjSteps`) and reconcile (`CtlSteps`); the proofs of the
layers split on these effects and not on the thirty actions. Both layers were
checked with TLC before they were proved.

**Life of an app** (`AppLifetimeProofs`). The heart of `IInv` is `Finalized`: of
every copy that shows a finalizer, and of every app that owns a pod, the
finalizer is stored or the clean-up has run (`FinalizerInv`). With it go the order
of uids (`UidInv`), that a clean-up begun with the object itself still has it
(`CleanupInv`), that what it listed is deleted or about to be (`LeftInv`), and
that no app is being deleted while an admission is quiet (`QuietInv`). Theorems:
`NeverGoneUncleaned`, `LeftoversExplained`, `InjectionFindsApp`, `OthersKept`,
for any number of apps, pods, admissions and faults.

**Dumps** (`CheckpointAgentProofs`). `AgentInv` adds to the types: which modes
of RPC and scheduler go together (`Modes`); that, while no fault broke the
agreement, the parent about to be used and the one remembered are the dump the
dirty bits count from (`Parents`); that every page outside `dirty` which that
dump holds is current (`Current`); that what it lacks is dirty, excluded, in
the ranges the next dump is told to take without parent, or in `shrunk` (`Covers`;
`RangesCover` is what comparing only the starts of regions gives); and that the
recorded depth is the length of the chain (`Depths`). Theorems:
`AgentTypeCorrect`, `NoOutdatedPageEver`, `LastDumpAlwaysCovers`,
`ChainAlwaysBounded`, `NoUffdInAnyDump`, for any set of pages, depth and number
of dumps.

**Injection** (`SyscallInjectionProofs`). `Safe` says, for a goroutine that has
not changed its thread, at which requests the workload is held stopped by it,
and up to which its instruction and registers may differ from its own.
`CopyAtStep` says at which steps the tracker has its own copy of the descriptor;
`Quiet` that without a signal only the stops asked for are reported, so that
every injected call is run and its result is the call's; `UffdAtStep` which
descriptors are open in the workload at each step. Theorems: `TypesKept`,
`TargetLeftAsFound`, `CopyFollowsDescriptor`, `UffdsKnown`, for any regions, calls
and signals.

**Transfers** (`CheckpointTransferProofs`). `IInv` follows a file through its
goroutine: one that is done has stored its object or left an error (`UploadInv`),
what the listing is to find is in the bucket (`StoredInv`), one call of `Restore`
at most is current and only calls that began have goroutines (`CurrentInv`), and
what the current one has found is waiting, on the disk, torn, or an error in the channel
(`DownloadInv`). What other calls may do to the current one is one lemma
(`DownloadKept`): fill a file, or truncate it, which `torn` remembers.
Theorems: `UploadsAreWhole`, `ChainIsDownloaded`, `DownloadedStay`, for any
files, dumps, places and calls, overlapping or not.

**Restore** (`RestoreAgentProofs`). `RestoreInv` relates the step of each call to
its processes, goroutines and fields (`Held`, `Order`, `Procs`), the daemon to
the pages it delivers (`Delivery`), the flag to the waiters (`Flag`), a dump to
the flag it was let in by (`Frozen`), and the descriptor to the field that keeps
it open (`Open`). Theorems: `RestoreTypeCorrect` (with it, that the field never
names a closed descriptor), `NeverFrozenWhileLazy`, `NsFdAlwaysHeld`, for any
number of calls.

**Spot monitor** (`SpotMonitorProofs`). `IInv`: past the poll there is an
interruption, past the cordon the node is cordoned (`Known`), and a listed copy
that is still the newest version is of a pod that is here and not triggered
(`CopiesTrue`). Theorems: `SpotSafe`, `TriggerStays`, `DeletedNotTriggered`, for
any pods and any number of edits and restarts.

Every invariant and action property of a passing run is stated by a theorem.
**Only model-checked** are the liveness properties (`MigrationEnds`,
`DeletionEnds`, `AppGetsPod`, `Released`, `TransfersReturn`, `CriuReaped`,
`DumpsResume`, `AllTriggered`): liveness under fairness and `ENABLED` are beyond
this version of the prover.

## Where the code disagrees with its documents

Each is a run in which TLC finds the sentence violated; `PROJECT.json` quotes it.

| Run | What happens |
|---|---|
| `restored_pod_deleted` | On success the handler deletes `sourcePod`, which is the newest pod of the app: the restored target. No fault is needed. |
| `final_incomplete` | A region excluded by the last pre-dump and cold at the final dump, not written since, is in no image. |
| `failed_restore_answers_success` | The check whether `criu restore` still runs looks for `/proc/<pid>`; a child nobody waited for is a zombie and is always found. |
| `reinit_changes_thread` | `ReinitAfterCRIU` injects without locking its thread; once the goroutine moves, every ptrace request fails and the workload stays stopped. |

Cases the models reach and the properties exclude, seen while modelling:

* A crash or conflict after `FinalDump` answered leaves stage Dumping; the dead
  source is dumped again, although "once dump succeeds we never re-call dump"
  (`docs/migration_fsm_plan.md:114`).
* A target is created before its name is stored (`migration_fsm.go:525`); a
  conflict makes a second one beside it.
* The Restoring handler reads the stage from the cache and may call `Restore`
  again after the success was stored (`migration_fsm.go:678`).
* After `restored_pod_deleted` the source, dead and still annotated, is the
  current pod again, and may be migrated anew.
* `FinalDump` answers, and the stage becomes Uploaded ("S3 upload done",
  `migratableapp_types.go:311`), while a parent's upload still runs or has failed.
* A scheduler in the middle of a dump misses `Stop` and injects a userfaultfd
  again before CRIU's final dump (`server.go:274`).
* Hot regions are compared by their start only (`server.go:203`). One that stays hot
  and ends earlier, since its VMA was cut or split, gives up pages that no image of
  the chain holds, though what was excluded before and is not now is to be dumped in
  full (`docs/write_profiler.md:474-476`). No fault is needed.
* `prevExcludeSet` is replaced before the pre-dump it describes (`server.go:209`), not
  after it (`docs/write_profiler.md:505-511`): if the pre-dump fails, what the last
  image left out is forgotten.
* A second `Restore` does not wait for the goroutines of the first
  (`server.go:427-435`). One that creates its file late (`s3.go:362`) truncates an image
  the second call has downloaded, which goes on with the restore, although "all pages
  must be available locally before restore" (`s3.go:271`).
* With a lagging cache a second pre-dump names the parent of the first, so
  the dirty bits count from another dump than the one it refers to.
* Pods are garbage-collected only after the finalizer is removed, so they upload
  after the clean-up has listed; nobody deletes that. The prefix is the app's
  name without its namespace (`reconciler.go:552`), so apps of the same name in two
  namespaces share it.
* `EnsureMigratableApp` takes an app that is being deleted for an existing one;
  the injected pod is left without an app. A mirrored secret is never refreshed.
* The webhook is declared `sideEffects: NoneOnDryRun` (`webhook.yaml:26`), but
  `Handle` never looks at `req.DryRun` and creates the app in a dry run too
  (`pod_mutator.go:72`).
* The comment on `CleanupBeforeCRIU` (`profiler.go:255`) says the userfaultfd
  stays open and can be dumped; the code closes it.
* `UploadCheckpoint` skips symbolic links (`s3.go:73`), so CRIU's link to the
  parent's directory is not on S3, and no code of the repository makes it on the
  target; whether the patched CRIU finds the parent otherwise is outside it.
* The documented back-off of retries (`docs/migration_fsm_plan.md:64`) is 0, 2
  and 5 seconds in the code, and the comment on the retry budget says `>` where
  the code says `>=`.

## What is not modelled

* *Migrations of webhook-managed apps*, whose source a ReplicaSet replaces:
  planned. (That the controller creates no first pod for them is in `AppLifetime`.)
* *The classification of regions and the scheduler's formula*: their outcome is a free choice
  here, so every decision they could make is covered; that they decide well is
  not. The classifier works on floating-point ratios.
* *Page scanning, namespaces, mounts, metrics*: I/O without protocol state.
* *Restore start-up mode* (`performRestoreOnStartup`): ends at once without a
  checkpoint id. *Pids, CRIU's arguments, pipes, volumes, security contexts,
  TLS, metrics, logs, the content of an injected pod, the parsing of the
  webhook's ConfigMap, CloudWatch*: data no property is about.
* *Downloads with `lazy-storage`* are CRIU's own. Functions of `s3.go` without a
  caller (`DeleteCheckpoint`, `GetCheckpointSize`, `CheckpointExists`,
  `UploadMetadataOnly`, `DownloadCheckpoint`, the metadata files).
* *The monitor with `--enable-imds=false`*: its process ends at once.
* *Interval scheduler* (`pkg/scheduler`) and *legacy migration*: no callers.
* *Generated code and entry points*.

## Plan

Done, in this order: the controller and its lifecycle (the most important
behaviour: a workload is not lost or doubled), the dump chain, the restore side,
the spot monitor, the injection of system calls, the transfers, the life of an
app with its webhook and clean-up, and the proofs of each.

Next:

1. Proofs: retry bound and stability of terminal stages on `MigrationLifecycle`,
   carried over by refinement.
2. Webhook-managed migrations with the ReplicaSet that owns the source: who
   creates a pod when both may.
3. `HeatClassifier`: `heat.go` as a pure operator over integers, against a
   reference definition over bounded samples.
