---------------------------- MODULE RestoreAgent ----------------------------
(***************************************************************************)
(* The agent of a restore target: the Restore RPC (pkg/agent/server.go)    *)
(* and RestoreManager (pkg/agent/restore.go), the two goroutines each call *)
(* leaves behind, and the flag lazyPagesActive that holds back dumps.      *)
(*                                                                         *)
(* gRPC runs every call in a goroutine of its own, and Restore works under *)
(* a context that outlives its caller.  The controller calls Restore again *)
(* after a restart, after an answer it could not store, and from a stale   *)
(* cache, so calls follow each other and overlap on the same fields.  They *)
(* name the same dump: it belongs to the stage, hence the same directory.  *)
(***************************************************************************)
EXTENDS Naturals

CONSTANT MaxCalls  \* bound: Restore calls this target receives

ASSUME CallsAssumption == MaxCalls \in Nat

Calls == 1..MaxCalls

VARIABLES
    strategy,   \* "full", or "lazy" for each of the three lazy strategies
    call,       \* step of each Restore handler
    calling,    \* the call the controller waits for, 0 if none
    daemon,     \* criu lazy-pages of each call
    criu,       \* criu restore of each call: "waiting" for what it restored
    logReady,   \* lazy-pages.log says that a daemon waits for connections
    fds,        \* calls whose descriptor of the pid namespace is open
    restoreLazyPagesCmd, restoreCmd, restorePidNsFd, \* fields: a call, 0: nil
    lazyPagesActive,
    reaper,     \* goroutine of each call that waits for criu restore
    waiter,     \* goroutine of each call that waits for criu lazy-pages
    workload,   \* the call that restored the process, 0 if none runs
    pages,      \* of that process: "some" are still to come, or "all", or "lost"
    source,     \* the call whose daemon delivers them, 0 if none does
    dumping     \* a pre-dump or a dump has frozen the process

procs  == <<daemon, criu, logReady, workload, pages, source>>
fields == <<fds, restoreLazyPagesCmd, restoreCmd, restorePidNsFd, lazyPagesActive>>
vars   == <<strategy, call, calling, procs, fields, reaper, waiter, dumping>>

Alive(d) == daemon[d] \in {"starting", "serving"}

-----------------------------------------------------------------------------
(***************************************************************************)
(* The Restore RPC.                                                        *)
(***************************************************************************)
Step(i, from, to) == call[i] = from /\ call' = [call EXCEPT ![i] = to]

\* The handler returns; nobody reads the answer if its caller is gone.
Return(i, from, to) ==
    Step(i, from, to) /\ calling' = IF calling = i THEN 0 ELSE calling

\* The workload loses the pages it still waits for when their daemon d ends.
DaemonEnds(d) ==
    /\ daemon' = IF d = 0 THEN daemon ELSE [daemon EXCEPT ![d] = "exited"]
    /\ pages'  = IF d # 0 /\ source = d THEN "lost" ELSE pages
    /\ source' = IF d # 0 /\ source = d THEN 0 ELSE source

\* MUTANT of closePidNsFd: the field keeps naming the closed descriptor.
closeOnly == fds' = fds \ {restorePidNsFd} /\ UNCHANGED restorePidNsFd

\* Whatever descriptor the field names now is closed.
closePidNsFd == fds' = fds \ {restorePidNsFd} /\ restorePidNsFd' = 0

\* Kill what an earlier call recorded.  CRIU's end leaves what it restored.
Restore(i) ==
    /\ calling = 0 /\ \A j \in Calls : j < i => call[j] # "none"
    /\ Step(i, "none", "download") /\ calling' = i
    /\ DaemonEnds(restoreLazyPagesCmd)
    /\ criu' = IF restoreCmd = 0 THEN criu
               ELSE [criu EXCEPT ![restoreCmd] = "exited"]
    /\ closePidNsFd
    /\ UNCHANGED <<strategy, logReady, workload, restoreLazyPagesCmd, restoreCmd,
                   lazyPagesActive, reaper, waiter, dumping>>

\* RestoreManager.Restore gets the images, or their metadata, from S3.
Download(i) ==
    /\ \/ /\ Step(i, "download", IF strategy = "full" THEN "start" ELSE "daemon")
          /\ UNCHANGED calling
       \/ Return(i, "download", "error")
    /\ UNCHANGED <<strategy, procs, fields, reaper, waiter, dumping>>

\* StartPageServer starts the daemon.
StartPageServer(i) ==
    /\ \/ /\ Step(i, "daemon", "ready") /\ UNCHANGED calling
          /\ daemon' = [daemon EXCEPT ![i] = "starting"]
       \/ Return(i, "daemon", "error") /\ UNCHANGED daemon
    /\ UNCHANGED <<strategy, criu, logReady, workload, pages, source, fields, reaper,
                   waiter, dumping>>

\* It is ready when the log says so and pgrep finds a daemon: any log and any
\* daemon of that directory.  A daemon that is not ready in time is killed.
waitForLazyPagesReady(i) ==
    /\ \/ /\ logReady /\ \E d \in Calls : Alive(d)
          /\ Step(i, "ready", "start")
          /\ UNCHANGED <<calling, daemon, pages, source>>
       \/ Return(i, "ready", "error") /\ DaemonEnds(i)
    /\ UNCHANGED <<strategy, criu, logReady, workload, fields, reaper, waiter,
                   dumping>>

\* Find the main container, open its pid namespace, start CRIU.  After an
\* error the daemon goes on and the open descriptor is left to its finalizer.
StartRestore(i) ==
    /\ \/ /\ Step(i, "start", "check") /\ UNCHANGED calling
          /\ criu' = [criu EXCEPT ![i] = "running"]
          /\ fds' = fds \cup {i}
       \/ Return(i, "start", "error") /\ UNCHANGED <<criu, fds>>
    /\ UNCHANGED <<strategy, daemon, logReady, workload, pages, source,
                   restoreLazyPagesCmd, restoreCmd, restorePidNsFd, lazyPagesActive,
                   reaper, waiter, dumping>>

\* MUTANT of procExists: an exited process counts as gone before it is reaped.
procRuns(i) == criu[i] \in {"running", "waiting"}

\* /proc/<pid> exists: also for a process that exited and was not waited for.
procExists(i) == criu[i] # "none" /\ reaper[i] # "done"

\* Half a second later: if CRIU's process exists the restore is a success.
CheckRestore(i) ==
    /\ Step(i, "check", IF procExists(i) THEN "record" ELSE "error")
    /\ calling' = IF calling = i /\ ~procExists(i) THEN 0 ELSE calling
    /\ UNCHANGED <<strategy, procs, fields, reaper, waiter, dumping>>

\* The fields are stored and the reaper is started.
RecordRestore(i) ==
    /\ Step(i, "record", "pid")
    /\ restoreLazyPagesCmd' = IF strategy = "full" THEN 0 ELSE i
    /\ restoreCmd' = i /\ restorePidNsFd' = i
    /\ lazyPagesActive' = (strategy # "full" \/ lazyPagesActive)
    /\ reaper' = [reaper EXCEPT ![i] = "waiting"]
    /\ UNCHANGED <<strategy, calling, procs, fds, waiter, dumping>>

\* The pid is found (or not), the second goroutine is started, and the answer
\* is a success.
AnswerRestore(i) ==
    /\ Return(i, "pid", "answered")
    /\ waiter' = IF strategy = "full" THEN waiter ELSE [waiter EXCEPT ![i] = "waiting"]
    /\ UNCHANGED <<strategy, procs, fields, reaper, dumping>>

\* MUTANT of criuOver: the goroutine does not wait for CRIU.
criuNotAwaited(i) == TRUE

criuOver(i) == criu[i] = "exited"

\* The reaper.
Reap(i) ==
    /\ reaper[i] = "waiting" /\ criuOver(i)
    /\ reaper' = [reaper EXCEPT ![i] = "done"]
    /\ closePidNsFd
    /\ UNCHANGED <<strategy, call, calling, procs, restoreLazyPagesCmd, restoreCmd,
                   lazyPagesActive, waiter, dumping>>

\* MUTANT of lazyPagesOver: the goroutine does not wait for the daemon.
lazyPagesNotAwaited(i) == TRUE

\* MUTANT of lazyPagesOver: the goroutine gives up on a daemon that was killed.
lazyPagesCompleted(i) == daemon[i] = "exited" /\ pages = "all"

lazyPagesOver(i) == daemon[i] = "exited"

\* The second goroutine: from now on dumps are allowed.
AllowDumps(i) ==
    /\ waiter[i] = "waiting" /\ lazyPagesOver(i)
    /\ waiter' = [waiter EXCEPT ![i] = "done"]
    /\ lazyPagesActive' = FALSE
    /\ UNCHANGED <<strategy, call, calling, procs, fds, restoreLazyPagesCmd,
                   restoreCmd, restorePidNsFd, reaper, dumping>>

-----------------------------------------------------------------------------
(***************************************************************************)
(* PreCheckpoint and FinalDump on this pod: refused while lazyPagesActive. *)
(* The controller calls them once a Restore was answered.                  *)
(***************************************************************************)
StartDump ==
    /\ calling = 0 /\ \E i \in Calls : call[i] = "answered"
    /\ ~lazyPagesActive
    /\ workload # 0 /\ ~dumping /\ dumping' = TRUE
    /\ UNCHANGED <<strategy, call, calling, procs, fields, reaper, waiter>>

\* CRIU cannot read a page that has not come: it waits, and so does the frozen
\* process.
EndDump ==
    /\ dumping /\ pages # "some" /\ dumping' = FALSE
    /\ UNCHANGED <<strategy, call, calling, procs, fields, reaper, waiter>>

-----------------------------------------------------------------------------
(***************************************************************************)
(* The CRIU processes, the workload and the controller.                    *)
(***************************************************************************)
DaemonServes(d) ==
    /\ daemon[d] = "starting"
    /\ daemon' = [daemon EXCEPT ![d] = "serving"] /\ logReady' = TRUE
    /\ UNCHANGED <<strategy, call, calling, criu, workload, pages, source, fields,
                   reaper, waiter, dumping>>

DaemonCrashes(d) ==
    /\ Alive(d) /\ DaemonEnds(d)
    /\ UNCHANGED <<strategy, call, calling, criu, logReady, workload, fields, reaper,
                   waiter, dumping>>

\* The last page is delivered; a frozen process takes none.
TransferDone(d) ==
    /\ source = d /\ pages = "some" /\ ~dumping
    /\ daemon' = [daemon EXCEPT ![d] = "exited"] /\ pages' = "all" /\ source' = 0
    /\ UNCHANGED <<strategy, call, calling, criu, logReady, workload, fields, reaper,
                   waiter, dumping>>

\* CRIU restores the process under its old pids, which must be free, and
\* hands its memory to a daemon that serves the directory.
RestoreSucceeds(i) ==
    /\ criu[i] = "running" /\ workload = 0
    /\ criu' = [criu EXCEPT ![i] = "waiting"] /\ workload' = i
    /\ \/ strategy = "full" /\ pages' = "all" /\ source' = 0
       \/ \E d \in Calls : /\ daemon[d] = "serving"
                           /\ pages' = "some" /\ source' = d
    /\ UNCHANGED <<strategy, call, calling, daemon, logReady, fields, reaper, waiter,
                   dumping>>

RestoreFails(i) ==
    /\ criu[i] = "running" /\ criu' = [criu EXCEPT ![i] = "exited"]
    /\ UNCHANGED <<strategy, call, calling, daemon, logReady, workload, pages, source,
                   fields, reaper, waiter, dumping>>

\* The workload ends, and CRIU and the daemon with it.
WorkloadExits ==
    /\ workload # 0 /\ ~dumping
    /\ workload' = 0 /\ pages' = "none" /\ source' = 0
    /\ criu' = [criu EXCEPT ![workload] = "exited"]
    /\ daemon' = IF source = 0 THEN daemon ELSE [daemon EXCEPT ![source] = "exited"]
    /\ UNCHANGED <<strategy, call, calling, logReady, fields, reaper, waiter, dumping>>

\* The controller restarts: the handler goes on without it.
CallerGone ==
    /\ calling # 0 /\ calling' = 0
    /\ UNCHANGED <<strategy, call, procs, fields, reaper, waiter, dumping>>

-----------------------------------------------------------------------------
\* An agent in mode restore has no CHECKPOINT_ID, so performRestoreOnStartup
\* fails and leaves it idle.
Init ==
    /\ strategy \in {"full", "lazy"}
    /\ call = [i \in Calls |-> "none"] /\ calling = 0
    /\ daemon = call /\ criu = call /\ logReady = FALSE
    /\ fds = {} /\ restoreLazyPagesCmd = 0 /\ restoreCmd = 0 /\ restorePidNsFd = 0
    /\ lazyPagesActive = FALSE
    /\ reaper = call /\ waiter = call
    /\ workload = 0 /\ pages = "none" /\ source = 0
    /\ dumping = FALSE

Handler(i) ==
    \/ Download(i) \/ StartPageServer(i) \/ waitForLazyPagesReady(i)
    \/ StartRestore(i) \/ CheckRestore(i) \/ RecordRestore(i) \/ AnswerRestore(i)

Next ==
    \/ \E i \in Calls :
          \/ Restore(i) \/ Handler(i) \/ Reap(i) \/ AllowDumps(i)
          \/ DaemonServes(i) \/ DaemonCrashes(i) \/ TransferDone(i)
          \/ RestoreSucceeds(i) \/ RestoreFails(i)
    \/ StartDump \/ EndDump \/ WorkloadExits \/ CallerGone

\* Goroutines run, and every wait of a handler has a timeout.
Fairness ==
    \A i \in Calls : WF_vars(Handler(i)) /\ WF_vars(Reap(i)) /\ WF_vars(AllowDumps(i))

Spec == Init /\ [][Next]_vars

FairSpec == Spec /\ Fairness

-----------------------------------------------------------------------------
(***************************************************************************)
(* Properties.                                                             *)
(***************************************************************************)
CallSteps == {"none", "download", "daemon", "ready", "start", "check", "record",
              "pid", "answered", "error"}

\* Every variable holds a value of the code's type for it.
TypeOK ==
    /\ strategy \in {"full", "lazy"}
    /\ call \in [Calls -> CallSteps] /\ calling \in 0..MaxCalls
    /\ daemon \in [Calls -> {"none", "starting", "serving", "exited"}]
    /\ criu \in [Calls -> {"none", "running", "waiting", "exited"}]
    /\ logReady \in BOOLEAN
    /\ fds \subseteq Calls
    /\ restoreLazyPagesCmd \in 0..MaxCalls /\ restoreCmd \in 0..MaxCalls
    /\ restorePidNsFd \in fds \cup {0}
    /\ lazyPagesActive \in BOOLEAN
    /\ reaper \in [Calls -> {"none", "waiting", "done"}]
    /\ waiter \in [Calls -> {"none", "waiting", "done"}]
    /\ workload \in 0..MaxCalls /\ pages \in {"none", "some", "all", "lost"}
    /\ source \in 0..MaxCalls
    /\ dumping \in BOOLEAN

\* No other call had a part in the workload: none came later, and those that
\* came before ended with an error and without a daemon.
Undisturbed ==
    \A j \in Calls \ {workload} :
      \/ call[j] = "none"
      \/ j < workload /\ call[j] = "error" /\ ~Alive(j)

\* server.go:169 - a dump that freezes the process while lazy-pages delivers
\* is a deadlock: none is let in before the last page has come.
NoFreezeWhileLazy == Undisturbed /\ dumping => pages # "some"

\* server.go:47 - the descriptor of the pid namespace "must stay open for
\* restored process lifetime": from the moment it is recorded, unless another
\* Restore comes.
NsFdHeld ==
    Undisturbed /\ workload # 0 /\ call[workload] \in {"pid", "answered"} =>
      workload \in fds

\* resolved_issues.md, issue 1 - a criu restore that has exited is reaped,
\* however its call went on and whatever other calls do.
CriuReaped == \A i \in Calls : criu[i] = "exited" ~> reaper[i] = "done"

\* When no call is under way and no daemon is left, dumps are allowed again.
DumpsResume ==
    (\A i \in Calls : call[i] \in {"none", "answered", "error"} /\ ~Alive(i))
      ~> ~lazyPagesActive

\* restore.go:292 - only a criu restore that "still runs" after half a second
\* is taken for a success.
SuccessStillRuns ==
    [][\A i \in Calls : call[i] = "check" /\ call'[i] = "record" =>
          criu[i] \in {"running", "waiting"}]_vars
=============================================================================
