-------------------------- MODULE SyscallInjection --------------------------
(***************************************************************************)
(* How the write profiler puts a userfaultfd into the workload and takes   *)
(* it out again: pkg/profiler/ptrace.go, called by Start, ReinitAfterCRIU  *)
(* and CleanupBeforeCRIU of pkg/profiler/profiler.go.                      *)
(*                                                                         *)
(* The workload is seized and interrupted, its next instruction replaced   *)
(* by a syscall instruction, and system calls are run in it one at a time  *)
(* by single steps; then instruction and registers are put back.  Between  *)
(* any two requests the workload may be sent signals.                      *)
(*                                                                         *)
(* ptrace is the kernel's: a request succeeds if it comes from the thread  *)
(* that seized the workload while the workload is stopped.  A stop that    *)
(* reports a signal comes before the instruction of the step; resuming     *)
(* the workload then discards the signal.  If the workload had stopped for *)
(* a signal when it was interrupted, the stop for the interrupt is still   *)
(* to come (trap): it ends the next step before its instruction, with the  *)
(* same SIGTRAP as a finished step.                                        *)
(*                                                                         *)
(* A goroutine that is not locked to its thread may go on on another one.  *)
(* Start and closeTargetUffd lock theirs; ReinitAfterCRIU does not.        *)
(***************************************************************************)
EXTENDS Naturals

CONSTANTS
    VMAs,       \* writable anonymous regions of the workload
    MaxCalls,   \* bound: calls that inject
    MaxSignals  \* bound: signals sent to the seized workload

ASSUME InjectionAssumptions == MaxCalls \in Nat /\ MaxSignals \in Nat

VARIABLES
    caller,  \* "none", or the Profiler method whose injection is running
    pc,      \* its next request
    ok,      \* the injection has succeeded so far
    onTracer,\* the goroutine runs on the thread that seized the workload
    moved,   \* it has changed its thread at some time
    traced, stop, \* the workload: seized; running, or why it is stopped
    trap,    \* the stop for the interrupt has not been reported yet
    code, regs,   \* the instruction at RIP and the registers are its own
    pending, \* signals waiting for the stopped workload
    fds,     \* userfaultfds open in the workload, by the call that made them
    page,    \* inj.scratch: "none", "mapped", or "bad": no such page
    todo, registered, \* regions still to register, and registered
    trackerUffdFd,    \* the profiler's copy of the descriptor is open
    targetUffdFd,     \* its number in the workload; 0 stands for -1
    loop,    \* the sampling loop runs
    inst,    \* the agent holds a Profiler
    calls, signals,   \* how much of the bounds is used
    odd      \* what has happened that the code only logs or ignores

target   == <<traced, stop, trap, code, regs, pending>>
injector == <<page, todo, registered>>
profiler == <<trackerUffdFd, targetUffdFd, loop, inst>>
thread   == <<onTracer, moved>>
vars     == <<caller, pc, ok, thread, target, fds, injector, profiler, calls,
              signals, odd>>

Methods == {"Start", "ReinitAfterCRIU", "CleanupBeforeCRIU"}

-----------------------------------------------------------------------------
(***************************************************************************)
(* ptrace and threads.                                                     *)
(***************************************************************************)
CanTrace == traced /\ onTracer /\ stop # "running"

\* runtime.LockOSThread is in effect.
Locked == caller # "ReinitAfterCRIU"

\* The Go scheduler moves the goroutine to another thread, or back.
ChangeThread ==
    /\ caller # "none" /\ ~Locked /\ traced
    /\ onTracer' = ~onTracer /\ moved' = TRUE
    /\ UNCHANGED <<caller, pc, ok, target, fds, injector, profiler, calls, signals, odd>>

\* A signal for the seized workload.
Signal ==
    /\ traced /\ signals < MaxSignals
    /\ signals' = signals + 1
    /\ IF stop = "running" THEN stop' = "signal" /\ UNCHANGED pending
       ELSE pending' = pending + 1 /\ UNCHANGED stop
    /\ odd' = odd \cup {"signal"}
    /\ UNCHANGED <<caller, pc, ok, thread, traced, trap, code, regs, fds, injector,
                   profiler, calls>>

\* What one injectSyscall comes to: the kernel refuses the requests; the stop
\* for the interrupt is taken for the end of the step; a signal's stop comes
\* first; the call is done; it returns an error number, if it can; or it is
\* done but the goroutine, on another thread by then, cannot read the result.
Outcomes(canFail) ==
    IF ~CanTrace THEN {"refused"}
    ELSE IF trap THEN {"skipped"}
    ELSE IF pending > 0 THEN {"signal"}
    ELSE {"done"} \cup (IF canFail THEN {"errno"} ELSE {})
                  \cup (IF Locked THEN {} ELSE {"unread"})

injectSyscall(o, canFail) ==
    /\ o \in Outcomes(canFail)
    /\ regs' = IF o = "refused" THEN regs ELSE "other"
    /\ stop' = CASE o = "refused" -> stop [] o = "signal" -> "signal" [] OTHER -> "trap"
    /\ trap' = (trap /\ o # "skipped")
    /\ pending' = IF o = "signal" THEN pending - 1 ELSE pending
    /\ onTracer' = (onTracer /\ o # "unread")
    /\ moved' = (moved \/ o = "unread")
    /\ UNCHANGED <<traced, code>>

\* No error, and a result that is not negative.
Success(o) == o \in {"done", "skipped"}
\* The system call took effect in the workload.
Effect(o) == o \in {"done", "unread"}

-----------------------------------------------------------------------------
(***************************************************************************)
(* The callers, up to the injection.                                       *)
(***************************************************************************)
Begin(method) ==
    /\ caller = "none" /\ calls < MaxCalls
    /\ caller' = method /\ calls' = calls + 1
    /\ pc' = "seize" /\ ok' = FALSE /\ onTracer' = FALSE
    /\ page' = "none" /\ todo' = VMAs /\ registered' = {}

Start ==
    /\ ~inst
    /\ Begin("Start")
    /\ inst' = TRUE
    /\ UNCHANGED <<moved, target, fds, trackerUffdFd, targetUffdFd, loop, signals, odd>>

\* Stop the loop and unregister the regions, then closeTargetUffd.  (Without a
\* descriptor there is nothing to stop or to close.)
CleanupBeforeCRIU ==
    /\ inst /\ targetUffdFd # 0
    /\ Begin("CleanupBeforeCRIU")
    /\ loop' = FALSE
    /\ UNCHANGED <<moved, target, fds, trackerUffdFd, targetUffdFd, inst, signals, odd>>

\* After the dump.
ReinitAfterCRIU ==
    /\ inst /\ ~loop /\ targetUffdFd = 0
    /\ Begin("ReinitAfterCRIU")
    /\ UNCHANGED <<moved, target, fds, profiler, signals, odd>>

-----------------------------------------------------------------------------
(***************************************************************************)
(* The requests setupUffdWP and closeTargetUffd have in common.            *)
(***************************************************************************)
At(step) == caller # "none" /\ pc = step

seize ==
    /\ At("seize")
    /\ IF ~traced THEN traced' = TRUE /\ onTracer' = TRUE /\ pc' = "interrupt"
       ELSE pc' = "return" /\ UNCHANGED <<traced, onTracer>>
    /\ UNCHANGED <<caller, ok, moved, stop, trap, code, regs, pending, fds, injector,
                   profiler, calls, signals, odd>>

interrupt ==
    /\ At("interrupt")
    /\ IF onTracer
       THEN /\ pc' = "wait"
            /\ IF stop = "running" THEN stop' = "trap" /\ UNCHANGED trap
               ELSE trap' = TRUE /\ UNCHANGED stop
       ELSE pc' = "detach" /\ UNCHANGED <<stop, trap>>
    /\ UNCHANGED <<caller, ok, thread, traced, code, regs, pending, fds, injector,
                   profiler, calls, signals, odd>>

\* waitpid, which any thread may call, and the reading of what is to be saved.
waitAndSave ==
    /\ At("wait")
    /\ pc' = IF CanTrace THEN "poke" ELSE "detach"
    /\ UNCHANGED <<caller, ok, thread, target, fds, injector, profiler, calls,
                   signals, odd>>

pokeSyscall ==
    /\ At("poke")
    /\ IF CanTrace
       THEN /\ code' = "syscall"
            /\ pc' = IF caller = "CleanupBeforeCRIU" THEN "close" ELSE "mmap"
       ELSE pc' = "detach" /\ UNCHANGED code
    /\ UNCHANGED <<caller, ok, thread, traced, stop, trap, regs, pending, fds,
                   injector, profiler, calls, signals, odd>>

\* restore: each request's error is ignored.
restoreSteps == [pokeBack |-> "setRegs", setRegs |-> "detach", detach |-> "return"]

pokeBack ==
    /\ At("pokeBack")
    /\ code' = IF CanTrace THEN "own" ELSE code
    /\ pc' = restoreSteps.pokeBack
    /\ UNCHANGED <<caller, ok, thread, traced, stop, trap, regs, pending, fds,
                   injector, profiler, calls, signals, odd>>

setRegs ==
    /\ At("setRegs")
    /\ regs' = IF CanTrace THEN "own" ELSE regs
    /\ pc' = restoreSteps.setRegs
    /\ UNCHANGED <<caller, ok, thread, traced, stop, trap, code, pending, fds,
                   injector, profiler, calls, signals, odd>>

\* Pending signals are delivered when the workload runs again.
detach ==
    /\ At("detach")
    /\ IF CanTrace
       THEN traced' = FALSE /\ stop' = "running" /\ trap' = FALSE /\ pending' = 0
       ELSE UNCHANGED <<traced, stop, trap, pending>>
    /\ pc' = restoreSteps.detach
    /\ UNCHANGED <<caller, ok, thread, code, regs, fds, injector, profiler, calls,
                   signals, odd>>

-----------------------------------------------------------------------------
(***************************************************************************)
(* setupUffdWP.                                                            *)
(***************************************************************************)
\* MUTANTS of mmapFailed: detach without putting the instruction back; return
\* without detaching.
mmapFailedDetach == "detach"
mmapFailedReturn == "return"

\* Where the clean-up starts: restore; cleanupMmap; cleanupUffd.
mmapFailed == "pokeBack"

uffdFailed == "munmap"

\* MUTANT of laterFailed: the descriptor is not closed.
laterFailedMmap == "munmap"

laterFailed == "close"

mmap ==
    /\ At("mmap")
    /\ \E o \in Outcomes(TRUE) :
         /\ injectSyscall(o, TRUE)
         /\ pc' = IF Success(o) THEN "uffd" ELSE mmapFailed
         /\ page' = CASE o = "done" -> "mapped" [] o = "skipped" -> "bad" [] OTHER -> page
    /\ UNCHANGED <<caller, ok, fds, todo, registered, profiler, calls, signals, odd>>

\* userfaultfd with UFFD_USER_MODE_ONLY, then without.
userfaultfd ==
    /\ pc \in {"uffd", "uffdAny"} /\ caller # "none"
    /\ \E o \in Outcomes(TRUE) :
         /\ injectSyscall(o, TRUE)
         /\ fds' = IF Effect(o) THEN fds \cup {calls} ELSE fds
         /\ pc' = CASE Success(o)                -> "api"
                    [] ~Success(o) /\ pc = "uffd" -> "uffdAny"
                    [] OTHER                     -> uffdFailed
    /\ UNCHANGED <<caller, ok, injector, profiler, calls, signals, odd>>

\* writeToTarget fails on a page that is not there.
CanWrite == CanTrace /\ page = "mapped"

uffdioAPI ==
    /\ At("api")
    /\ \/ /\ ~CanWrite
          /\ pc' = laterFailed /\ UNCHANGED <<target, thread>>
       \/ /\ CanWrite
          /\ \E o \in Outcomes(TRUE) :
               /\ injectSyscall(o, TRUE)
               /\ pc' = IF Success(o) THEN "register" ELSE laterFailed
    /\ UNCHANGED <<caller, ok, fds, injector, profiler, calls, signals, odd>>

\* One region; whatever fails, the loop goes on.
uffdioRegister(v) ==
    /\ At("register") /\ v \in todo
    /\ todo' = todo \ {v}
    /\ \/ ~CanWrite /\ UNCHANGED <<target, thread, registered>>
       \/ /\ CanWrite
          /\ \E o \in Outcomes(TRUE) :
               /\ injectSyscall(o, TRUE)
               /\ registered' = IF Success(o) THEN registered \cup {v} ELSE registered
    /\ UNCHANGED <<caller, pc, ok, fds, page, profiler, calls, signals, odd>>

\* No region is registered, or the descriptor is copied with pidfd_getfd.
copyDescriptor ==
    /\ At("register") /\ todo = {}
    /\ \/ /\ registered # {}
          /\ trackerUffdFd' = TRUE /\ ok' = TRUE /\ pc' = "munmap"
       \/ /\ pc' = laterFailed          \* none, or pidfd_open or pidfd_getfd fails
          /\ UNCHANGED <<trackerUffdFd, ok>>
    /\ UNCHANGED <<caller, thread, target, fds, injector, targetUffdFd, loop, inst,
                   calls, signals, odd>>

\* close: in cleanupUffd whatever it returns, in closeTargetUffd the result.
closeFd ==
    /\ At("close")
    /\ LET fd == IF caller = "CleanupBeforeCRIU" THEN targetUffdFd ELSE calls
       IN  \E o \in Outcomes(fd \notin fds) :
             /\ injectSyscall(o, fd \notin fds)
             /\ fds' = IF Effect(o) THEN fds \ {fd} ELSE fds
             /\ pc' = IF caller = "CleanupBeforeCRIU" THEN "pokeBack" ELSE "munmap"
             /\ ok' = (caller = "CleanupBeforeCRIU" /\ Success(o))
    /\ UNCHANGED <<caller, injector, profiler, calls, signals, odd>>

\* The result is ignored.
munmap ==
    /\ At("munmap")
    /\ \E o \in Outcomes(page # "mapped") :
         /\ injectSyscall(o, page # "mapped")
         /\ page' = IF Effect(o) THEN "none" ELSE page
    /\ pc' = "pokeBack"
    /\ UNCHANGED <<caller, ok, fds, todo, registered, profiler, calls, signals, odd>>

-----------------------------------------------------------------------------
(***************************************************************************)
(* The callers, after the injection.                                       *)
(***************************************************************************)
Returned == At("return") /\ caller' = "none"

\* The agent drops a Profiler whose Start failed.  If it fails after the
\* injection (write protection not active, baseline), Close closes the
\* profiler's copy of the descriptor only.
startReturns ==
    /\ Returned /\ caller = "Start"
    /\ \/ /\ ok
          /\ targetUffdFd' = calls /\ loop' = TRUE
          /\ UNCHANGED <<trackerUffdFd, inst, odd>>
       \/ /\ ok
          /\ trackerUffdFd' = FALSE /\ inst' = FALSE /\ odd' = odd \cup {"closed"}
          /\ UNCHANGED <<targetUffdFd, loop>>
       \/ /\ ~ok
          /\ inst' = FALSE
          /\ UNCHANGED <<trackerUffdFd, targetUffdFd, loop, odd>>
    /\ UNCHANGED <<pc, ok, thread, target, fds, injector, calls, signals>>

\* The loop may fail to start again after a successful injection.
reinitReturns ==
    /\ Returned /\ caller = "ReinitAfterCRIU"
    /\ \/ ok /\ targetUffdFd' = calls /\ loop' \in BOOLEAN
       \/ ~ok /\ UNCHANGED <<targetUffdFd, loop>>
    /\ UNCHANGED <<pc, ok, thread, target, fds, injector, trackerUffdFd, inst, calls,
                   signals, odd>>

\* MUTANT of cleanupReturns: the profiler's copy stays open.
cleanupKeepsCopy ==
    /\ Returned /\ caller = "CleanupBeforeCRIU"
    /\ targetUffdFd' = 0
    /\ UNCHANGED <<pc, ok, thread, target, fds, injector, trackerUffdFd, loop, inst,
                   calls, signals, odd>>

\* Closed or not, the descriptor is forgotten.
cleanupReturns ==
    /\ Returned /\ caller = "CleanupBeforeCRIU"
    /\ targetUffdFd' = 0 /\ trackerUffdFd' = FALSE
    /\ UNCHANGED <<pc, ok, thread, target, fds, injector, loop, inst, calls, signals, odd>>

\* Close: the loop ends and the profiler's copy is closed; the agent drops the
\* Profiler, and with it the number of the descriptor in the workload.
Close ==
    /\ inst /\ caller = "none"
    /\ loop' = FALSE /\ trackerUffdFd' = FALSE /\ inst' = FALSE /\ targetUffdFd' = 0
    /\ odd' = IF targetUffdFd = 0 THEN odd ELSE odd \cup {"closed"}
    /\ UNCHANGED <<caller, pc, ok, thread, target, fds, injector, calls, signals>>

-----------------------------------------------------------------------------
Init ==
    /\ caller = "none" /\ pc = "return" /\ ok = FALSE
    /\ onTracer = FALSE /\ moved = FALSE
    /\ traced = FALSE /\ stop = "running" /\ trap = FALSE
    /\ code = "own" /\ regs = "own" /\ pending = 0 /\ fds = {}
    /\ page = "none" /\ todo = {} /\ registered = {}
    /\ trackerUffdFd = FALSE /\ targetUffdFd = 0 /\ loop = FALSE /\ inst = FALSE
    /\ calls = 0 /\ signals = 0 /\ odd = {}

Injection ==
    \/ seize \/ interrupt \/ waitAndSave \/ pokeSyscall
    \/ mmap \/ userfaultfd \/ uffdioAPI \/ copyDescriptor \/ closeFd \/ munmap
    \/ \E v \in VMAs : uffdioRegister(v)
    \/ pokeBack \/ setRegs \/ detach
    \/ startReturns \/ reinitReturns \/ cleanupReturns

Next ==
    \/ Injection \/ ChangeThread \/ Signal
    \/ Start \/ CleanupBeforeCRIU \/ ReinitAfterCRIU \/ Close

\* An injection that has begun goes on.
Spec == Init /\ [][Next]_vars /\ WF_vars(Injection)

-----------------------------------------------------------------------------
(***************************************************************************)
(* Properties.                                                             *)
(***************************************************************************)
Steps == {"seize", "interrupt", "wait", "poke", "mmap", "uffd", "uffdAny", "api",
          "register", "close", "munmap", "pokeBack", "setRegs", "detach", "return"}

\* Every variable holds a value of the code's type for it.
TypeOK ==
    /\ caller \in Methods \cup {"none"} /\ pc \in Steps /\ ok \in BOOLEAN
    /\ onTracer \in BOOLEAN /\ moved \in BOOLEAN /\ traced \in BOOLEAN
    /\ stop \in {"running", "trap", "signal"} /\ trap \in BOOLEAN
    /\ code \in {"own", "syscall"} /\ regs \in {"own", "other"}
    /\ pending \in Nat /\ fds \subseteq 1..MaxCalls
    /\ page \in {"none", "mapped", "bad"}
    /\ todo \subseteq VMAs /\ registered \subseteq VMAs
    /\ trackerUffdFd \in BOOLEAN /\ targetUffdFd \in 0..MaxCalls
    /\ loop \in BOOLEAN /\ inst \in BOOLEAN
    /\ calls \in 0..MaxCalls /\ signals \in Nat
    /\ odd \subseteq {"signal", "closed"}

LeftAlone == ~traced /\ stop = "running" /\ code = "own" /\ regs = "own"

\* As long as no injection changes its thread: the workload is released, with
\* its own instruction and registers, on every path of setupUffdWP and
\* closeTargetUffd, and never runs a single step of its own before that -
\* whichever injected call fails and whichever signal interrupts which step.
LeftAsFound ==
    ~moved => /\ caller = "none" => LeftAlone
              /\ stop = "running" => code = "own" /\ regs = "own"

\* The profiler knows every userfaultfd it has left in the workload, which the
\* next dump could not cope with otherwise - unless a signal, a change of
\* threads or a Close of a running profiler got in between.
NoForgottenUffd ==
    caller = "none" /\ ~moved /\ odd = {} =>
      fds = IF targetUffdFd = 0 THEN {} ELSE {targetUffdFd}

\* The profiler's copy of the descriptor is closed before the workload is
\* dumped, and there is one whenever the sampling loop runs.
TrackerFd ==
    caller = "none" => /\ trackerUffdFd <=> targetUffdFd # 0
                       /\ loop => trackerUffdFd

\* A workload that was seized runs again, unless the goroutine changes its
\* thread.
Released == traced ~> ~traced \/ moved

\* ptrace.go:139 - "Cleanup function to restore state and detach": when a
\* method has returned, the workload is restored and detached.
RestoredAndDetached == caller = "none" => LeftAlone
=============================================================================
