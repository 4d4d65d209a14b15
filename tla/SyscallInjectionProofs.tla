---------------------- MODULE SyscallInjectionProofs ----------------------
(***************************************************************************)
(* Proofs about SyscallInjection, for any number of regions, calls and     *)
(* signals.                                                                *)
(***************************************************************************)
EXTENDS SyscallInjection, TLAPS

\* What each step of an injection finds, as long as none has changed its
\* thread: the tracer's requests work from the seizure to the detachment, and
\* what is replaced is put back before the steps that come without it.
Safe ==
    ~moved =>
      /\ caller = "none" \/ pc \in {"seize", "return"} => LeftAlone
      /\ caller # "none" /\ pc \notin {"seize", "return"} => traced /\ onTracer
      /\ caller # "none" /\ pc \notin {"seize", "return", "interrupt"} =>
           stop # "running"
      /\ pc \in {"interrupt", "wait", "poke", "setRegs", "detach"} => code = "own"
      /\ pc \in {"interrupt", "wait", "poke", "detach"} => regs = "own"

-----------------------------------------------------------------------------
Held == traced /\ onTracer /\ stop # "running"

\* An injected system call leaves the workload seized, stopped, and with the
\* injected instruction, unless the goroutine changes its thread.
LEMMA Injected ==
    ASSUME NEW canFail, NEW o \in Outcomes(canFail), injectSyscall(o, canFail),
           ~moved => Held
    PROVE  ~moved' => Held' /\ code' = code
<1> SUFFICES ASSUME ~moved' PROVE Held' /\ code' = code
  OBVIOUS
<1>1. ~moved /\ o # "unread"
  BY Zenon DEF injectSyscall
<1>2. o # "refused"
  BY <1>1 DEF Outcomes, CanTrace, Held
<1>3. traced' = traced /\ code' = code /\ stop' # "running"
  BY <1>2 DEF injectSyscall
<1>4. onTracer'
  BY <1>1, Zenon DEF injectSyscall, Held
<1> QED
  BY <1>1, <1>3, <1>4 DEF Held

\* Safe is kept by every step.
LEMMA SafeStep == ASSUME Safe, [Next]_vars PROVE Safe'
<1> USE DEF Safe, LeftAlone, At, target, injector, profiler, thread
<1>1. CASE seize
  BY <1>1 DEF seize
<1>2. CASE interrupt
  BY <1>2 DEF interrupt
<1>3. CASE waitAndSave
  BY <1>3 DEF waitAndSave, CanTrace
<1>4. CASE pokeSyscall
  BY <1>4 DEF pokeSyscall, CanTrace
<1>5. CASE mmap
  <2>1. ~moved => Held
    BY <1>5 DEF mmap, Held
  <2>2. ~moved' => Held'
    BY <1>5, <2>1, Injected DEF mmap
  <2>3. caller' # "none" /\ pc' \in {"uffd", "pokeBack"}
    BY <1>5 DEF mmap, mmapFailed
  <2> QED
    BY <2>2, <2>3 DEF Held
<1>6. CASE userfaultfd
  <2>1. ~moved => Held
    BY <1>6 DEF userfaultfd, Held
  <2>2. ~moved' => Held'
    BY <1>6, <2>1, Injected DEF userfaultfd
  <2>3. caller' # "none" /\ pc' \in {"api", "uffdAny", "munmap"}
    BY <1>6 DEF userfaultfd, uffdFailed
  <2> QED
    BY <2>2, <2>3 DEF Held
<1>7. CASE uffdioAPI
  <2>1. ~moved => Held
    BY <1>7 DEF uffdioAPI, Held
  <2>a. (\E o \in Outcomes(TRUE) : injectSyscall(o, TRUE)) => (~moved' => Held')
    BY <2>1, Injected
  <2>b. UNCHANGED <<target, thread>> => (~moved' => Held')
    BY <2>1 DEF Held
  <2>2. ~moved' => Held'
    BY <1>7, <2>a, <2>b DEF uffdioAPI
  <2>3. caller' # "none" /\ pc' \in {"register", "close"}
    BY <1>7 DEF uffdioAPI, laterFailed
  <2> QED
    BY <2>2, <2>3 DEF Held
<1>8. CASE copyDescriptor
  BY <1>8 DEF copyDescriptor, laterFailed
<1>9. CASE closeFd
  <2>1. ~moved => Held
    BY <1>9 DEF closeFd, Held
  <2>2. ~moved' => Held'
    BY <1>9, <2>1, Injected DEF closeFd
  <2>3. caller' # "none" /\ pc' \in {"pokeBack", "munmap"}
    BY <1>9 DEF closeFd
  <2> QED
    BY <2>2, <2>3 DEF Held
<1>10. CASE munmap
  <2>1. ~moved => Held
    BY <1>10 DEF munmap, Held
  <2>2. ~moved' => Held'
    BY <1>10, <2>1, Injected DEF munmap
  <2>3. caller' # "none" /\ pc' \in {"pokeBack"}
    BY <1>10 DEF munmap
  <2> QED
    BY <2>2, <2>3 DEF Held
<1>11. CASE pokeBack
  BY <1>11 DEF pokeBack, restoreSteps, CanTrace
<1>12. CASE setRegs
  BY <1>12 DEF setRegs, restoreSteps, CanTrace
<1>13. CASE detach
  BY <1>13 DEF detach, restoreSteps, CanTrace
<1>14. CASE startReturns
  BY <1>14 DEF startReturns, Returned
<1>15. CASE reinitReturns
  BY <1>15 DEF reinitReturns, Returned
<1>16. CASE cleanupReturns
  BY <1>16 DEF cleanupReturns, Returned
<1>17. CASE ChangeThread
  BY <1>17 DEF ChangeThread
<1>18. CASE Signal
  BY <1>18 DEF Signal
<1>19. CASE Start
  BY <1>19 DEF Start, Begin
<1>20. CASE CleanupBeforeCRIU
  BY <1>20 DEF CleanupBeforeCRIU, Begin
<1>21. CASE ReinitAfterCRIU
  BY <1>21 DEF ReinitAfterCRIU, Begin
<1>22. CASE Close
  BY <1>22 DEF Close
<1>23. ASSUME NEW v \in VMAs, uffdioRegister(v) PROVE Safe'
  <2>1. ~moved => Held
    BY <1>23 DEF uffdioRegister, Held
  <2>a. (\E o \in Outcomes(TRUE) : injectSyscall(o, TRUE)) => (~moved' => Held')
    BY <2>1, Injected
  <2>b. UNCHANGED <<target, thread>> => (~moved' => Held')
    BY <2>1 DEF Held
  <2>2. ~moved' => Held'
    BY <1>23, <2>a, <2>b DEF uffdioRegister
  <2>3. caller' # "none" /\ pc' = "register"
    BY <1>23 DEF uffdioRegister
  <2> QED
    BY <2>2, <2>3 DEF Held
<1>24. CASE UNCHANGED vars
  BY <1>24 DEF vars
<1> QED
  BY <1>1, <1>2, <1>3, <1>4, <1>5, <1>6, <1>7, <1>8, <1>9, <1>10, <1>11,
     <1>12, <1>13, <1>14, <1>15, <1>16, <1>17, <1>18, <1>19, <1>20, <1>21,
     <1>22, <1>23, <1>24
     DEF Next, Injection

\* On every path of setupUffdWP and closeTargetUffd the workload is let go as
\* it was found, as long as no injection changes its thread.
THEOREM TargetLeftAsFound == Spec => []LeftAsFound
<1>1. Init => Safe
  BY DEF Init, Safe, LeftAlone
<1>2. Safe /\ [Next]_vars => Safe'
  BY SafeStep
<1>3. Safe => LeftAsFound
  BY DEF Safe, LeftAsFound, LeftAlone
<1> QED
  BY <1>1, <1>2, <1>3, PTL DEF Spec

-----------------------------------------------------------------------------
(***************************************************************************)
(* The types.                                                              *)
(***************************************************************************)
\* TypeOK in two parts: the flags, and the rest with one fact more - the calls
\* are numbered from 1, as 0 stands for no descriptor.
Flags ==
    /\ ok \in BOOLEAN /\ onTracer \in BOOLEAN /\ moved \in BOOLEAN
    /\ traced \in BOOLEAN /\ trap \in BOOLEAN
    /\ trackerUffdFd \in BOOLEAN /\ loop \in BOOLEAN /\ inst \in BOOLEAN

Values ==
    /\ caller \in Methods \cup {"none"} /\ pc \in Steps
    /\ stop \in {"running", "trap", "signal"}
    /\ code \in {"own", "syscall"} /\ regs \in {"own", "other"}
    /\ pending \in Nat /\ fds \subseteq 1..MaxCalls
    /\ page \in {"none", "mapped", "bad"}
    /\ todo \subseteq VMAs /\ registered \subseteq VMAs
    /\ targetUffdFd \in 0..MaxCalls /\ calls \in 0..MaxCalls
    /\ caller # "none" => calls \in 1..MaxCalls
    /\ signals \in Nat /\ odd \subseteq {"signal", "closed"}

Typed == Flags /\ Values

\* What an injected system call leaves of the workload and the thread has
\* its type again; a signal that ends its step was pending.
LEMMA InjectedFlags ==
    ASSUME Flags, NEW canFail, NEW o \in Outcomes(canFail), injectSyscall(o, canFail)
    PROVE  /\ onTracer' \in BOOLEAN /\ moved' \in BOOLEAN
           /\ traced' \in BOOLEAN /\ trap' \in BOOLEAN
  BY Zenon DEF injectSyscall, Flags

LEMMA InjectedValues ==
    ASSUME Values, NEW canFail, NEW o \in Outcomes(canFail), injectSyscall(o, canFail)
    PROVE  /\ stop' \in {"running", "trap", "signal"}
           /\ code' \in {"own", "syscall"} /\ regs' \in {"own", "other"}
           /\ pending' \in Nat
<1>1. stop' \in {"running", "trap", "signal"} /\ regs' \in {"own", "other"}
      /\ code' \in {"own", "syscall"}
  BY DEF injectSyscall, Values
<1>2. pending' \in Nat
  <2>1. CASE o = "signal"
    <3>1. pending > 0
      BY <2>1 DEF Outcomes
    <3> QED
      BY <2>1, <3>1 DEF injectSyscall, Values
  <2>2. CASE o # "signal"
    BY <2>2 DEF injectSyscall, Values
  <2> QED
    BY <2>1, <2>2
<1> QED
  BY <1>1, <1>2

\* The flags keep their type.
LEMMA FlagsStep == ASSUME Flags, [Next]_vars PROVE Flags'
<1> USE DEF Flags, target, injector, profiler, thread
<1>1. CASE seize
  BY <1>1, Zenon DEF seize
<1>2. CASE interrupt
  BY <1>2, Zenon DEF interrupt
<1>3. CASE waitAndSave
  BY <1>3, Zenon DEF waitAndSave
<1>4. CASE pokeSyscall
  BY <1>4, Zenon DEF pokeSyscall
<1>5. CASE mmap
  BY <1>5, InjectedFlags, Zenon DEF mmap, mmapFailed
<1>6. CASE userfaultfd
  BY <1>6, InjectedFlags, Zenon DEF userfaultfd, uffdFailed
<1>7. CASE uffdioAPI
  BY <1>7, InjectedFlags, Zenon DEF uffdioAPI, laterFailed
<1>8. CASE copyDescriptor
  BY <1>8, Zenon DEF copyDescriptor, laterFailed
<1>9. CASE closeFd
  BY <1>9, InjectedFlags, Zenon DEF closeFd
<1>10. CASE munmap
  BY <1>10, InjectedFlags, Zenon DEF munmap
<1>11. CASE pokeBack
  BY <1>11, Zenon DEF pokeBack, restoreSteps
<1>12. CASE setRegs
  BY <1>12, Zenon DEF setRegs, restoreSteps
<1>13. CASE detach
  BY <1>13, Zenon DEF detach, restoreSteps
<1>14. CASE startReturns
  BY <1>14, Zenon DEF startReturns, Returned
<1>15. CASE reinitReturns
  BY <1>15, Zenon DEF reinitReturns, Returned
<1>16. CASE cleanupReturns
  BY <1>16, Zenon DEF cleanupReturns, Returned
<1>17. CASE ChangeThread
  BY <1>17, Zenon DEF ChangeThread
<1>18. CASE Signal
  BY <1>18, Zenon DEF Signal
<1>19. CASE Start
  BY <1>19, Zenon DEF Start, Begin
<1>20. CASE CleanupBeforeCRIU
  BY <1>20, Zenon DEF CleanupBeforeCRIU, Begin
<1>21. CASE ReinitAfterCRIU
  BY <1>21, Zenon DEF ReinitAfterCRIU, Begin
<1>22. CASE Close
  BY <1>22, Zenon DEF Close
<1>23. ASSUME NEW v \in VMAs, uffdioRegister(v) PROVE Flags'
  BY <1>23, InjectedFlags, Zenon DEF uffdioRegister
<1>24. CASE UNCHANGED vars
  BY <1>24, Zenon DEF vars
<1> QED
  BY <1>1, <1>2, <1>3, <1>4, <1>5, <1>6, <1>7, <1>8, <1>9, <1>10, <1>11,
     <1>12, <1>13, <1>14, <1>15, <1>16, <1>17, <1>18, <1>19, <1>20, <1>21,
     <1>22, <1>23, <1>24
     DEF Next, Injection

\* The rest keeps its type.
LEMMA ValuesStep == ASSUME Values, [Next]_vars PROVE Values'
<1> USE InjectionAssumptions DEF Values, Steps, Methods, At, target, injector,
        profiler, thread
<1>1. CASE seize
  BY <1>1 DEF seize
<1>2. CASE interrupt
  BY <1>2 DEF interrupt
<1>3. CASE waitAndSave
  BY <1>3 DEF waitAndSave
<1>4. CASE pokeSyscall
  BY <1>4 DEF pokeSyscall
<1>5. CASE mmap
  BY <1>5, InjectedValues DEF mmap, mmapFailed
<1>6. CASE userfaultfd
  BY <1>6, InjectedValues DEF userfaultfd, uffdFailed
<1>7. CASE uffdioAPI
  BY <1>7, InjectedValues DEF uffdioAPI, laterFailed
<1>8. CASE copyDescriptor
  BY <1>8 DEF copyDescriptor, laterFailed
<1>9. CASE closeFd
  BY <1>9, InjectedValues DEF closeFd
<1>10. CASE munmap
  BY <1>10, InjectedValues DEF munmap
<1>11. CASE pokeBack
  BY <1>11 DEF pokeBack, restoreSteps
<1>12. CASE setRegs
  BY <1>12 DEF setRegs, restoreSteps
<1>13. CASE detach
  BY <1>13 DEF detach, restoreSteps
<1>14. CASE startReturns
  BY <1>14 DEF startReturns, Returned
<1>15. CASE reinitReturns
  BY <1>15 DEF reinitReturns, Returned
<1>16. CASE cleanupReturns
  BY <1>16 DEF cleanupReturns, Returned
<1>17. CASE ChangeThread
  BY <1>17 DEF ChangeThread
<1>18. CASE Signal
  BY <1>18 DEF Signal
<1>19. CASE Start
  BY <1>19 DEF Start, Begin
<1>20. CASE CleanupBeforeCRIU
  BY <1>20 DEF CleanupBeforeCRIU, Begin
<1>21. CASE ReinitAfterCRIU
  BY <1>21 DEF ReinitAfterCRIU, Begin
<1>22. CASE Close
  BY <1>22 DEF Close
<1>23. ASSUME NEW v \in VMAs, uffdioRegister(v) PROVE Values'
  BY <1>23, InjectedValues DEF uffdioRegister
<1>24. CASE UNCHANGED vars
  BY <1>24 DEF vars
<1> QED
  BY <1>1, <1>2, <1>3, <1>4, <1>5, <1>6, <1>7, <1>8, <1>9, <1>10, <1>11,
     <1>12, <1>13, <1>14, <1>15, <1>16, <1>17, <1>18, <1>19, <1>20, <1>21,
     <1>22, <1>23, <1>24
     DEF Next, Injection

LEMMA TypedInit == Init => Typed
<1> SUFFICES ASSUME Init PROVE Flags /\ Values
  BY DEF Typed
<1>1. Flags
  BY Zenon DEF Init, Flags
<1>2. Values
  BY InjectionAssumptions DEF Init, Values, Steps, Methods
<1> QED
  BY <1>1, <1>2

\* Every variable of the profiler, the tracer and the traced workload keeps its
\* type, whatever the bounds.
THEOREM TypesKept == Spec => []TypeOK
<1>1. Typed /\ [Next]_vars => Typed'
  BY FlagsStep, ValuesStep DEF Typed
<1>2. Typed => TypeOK
  BY Zenon DEF Typed, Flags, Values, TypeOK
<1> QED
  BY TypedInit, <1>1, <1>2, PTL DEF Spec

-----------------------------------------------------------------------------
(***************************************************************************)
(* The profiler's copy of the descriptor.                                  *)
(***************************************************************************)
SetUp == {"Start", "ReinitAfterCRIU"}

\* While setupUffdWP runs, the copy is there exactly if it has succeeded,
\* which is known at its clean-up only; closeTargetUffd starts with a copy and
\* leaves it to its caller, and never takes a step of the set-up.
CopyAtStep ==
    /\ caller = "none" => /\ trackerUffdFd <=> targetUffdFd # 0
                          /\ loop => trackerUffdFd
                          /\ ~inst => targetUffdFd = 0
    /\ caller \in SetUp =>
         /\ inst /\ ~loop /\ targetUffdFd = 0
         /\ ok <=> trackerUffdFd
         /\ ok => pc \in {"munmap", "pokeBack", "setRegs", "detach", "return"}
    /\ caller = "CleanupBeforeCRIU" =>
         /\ inst /\ ~loop /\ trackerUffdFd /\ targetUffdFd # 0
         /\ pc \notin {"mmap", "uffd", "uffdAny", "api", "register", "munmap"}

\* CopyAtStep is kept by every step.
LEMMA CopyAtStepStep == ASSUME Values, CopyAtStep, [Next]_vars PROVE CopyAtStep'
<1> USE DEF Values, CopyAtStep, SetUp, Methods, At, target, injector, profiler, thread
<1>1. CASE seize
  BY <1>1 DEF seize
<1>2. CASE interrupt
  BY <1>2 DEF interrupt
<1>3. CASE waitAndSave
  BY <1>3 DEF waitAndSave
<1>4. CASE pokeSyscall
  BY <1>4 DEF pokeSyscall
<1>5. CASE mmap
  BY <1>5 DEF mmap, mmapFailed
<1>6. CASE userfaultfd
  BY <1>6 DEF userfaultfd, uffdFailed
<1>7. CASE uffdioAPI
  BY <1>7 DEF uffdioAPI, laterFailed
<1>8. CASE copyDescriptor
  BY <1>8 DEF copyDescriptor, laterFailed
<1>9. CASE closeFd
  BY <1>9 DEF closeFd
<1>10. CASE munmap
  BY <1>10 DEF munmap
<1>11. CASE pokeBack
  BY <1>11 DEF pokeBack, restoreSteps
<1>12. CASE setRegs
  BY <1>12 DEF setRegs, restoreSteps
<1>13. CASE detach
  BY <1>13 DEF detach, restoreSteps
<1>14. CASE startReturns
  <2>1. /\ caller = "Start" /\ caller' = "none" /\ calls # 0
        /\ inst /\ ~loop /\ targetUffdFd = 0 /\ (ok <=> trackerUffdFd)
    BY <1>14 DEF startReturns, Returned
  <2>2. CASE ok /\ inst'
    <3>1. targetUffdFd' = calls /\ trackerUffdFd'
      BY <1>14, <2>1, <2>2, Zenon DEF startReturns
    <3> QED
      BY <2>1, <2>2, <3>1
  <2>3. CASE ok /\ ~inst'
    <3>1. targetUffdFd' = targetUffdFd /\ loop' = loop
      BY <1>14, <2>1, <2>3, Zenon DEF startReturns
    <3>2. ~trackerUffdFd'
      BY <1>14, <2>1, <2>3, Zenon DEF startReturns
    <3> QED
      BY <2>1, <3>1, <3>2
  <2>4. CASE ~ok
    <3>1. targetUffdFd' = targetUffdFd /\ loop' = loop
      BY <1>14, <2>1, <2>4, Zenon DEF startReturns
    <3>2. ~trackerUffdFd'
      BY <1>14, <2>1, <2>4, Zenon DEF startReturns
    <3> QED
      BY <2>1, <3>1, <3>2
  <2> QED
    BY <2>2, <2>3, <2>4
<1>15. CASE reinitReturns
  BY <1>15 DEF reinitReturns, Returned
<1>16. CASE cleanupReturns
  BY <1>16 DEF cleanupReturns, Returned
<1>17. CASE ChangeThread
  BY <1>17 DEF ChangeThread
<1>18. CASE Signal
  BY <1>18 DEF Signal
<1>19. CASE Start
  BY <1>19 DEF Start, Begin
<1>20. CASE CleanupBeforeCRIU
  BY <1>20 DEF CleanupBeforeCRIU, Begin
<1>21. CASE ReinitAfterCRIU
  BY <1>21 DEF ReinitAfterCRIU, Begin
<1>22. CASE Close
  BY <1>22 DEF Close
<1>23. ASSUME NEW v \in VMAs, uffdioRegister(v) PROVE CopyAtStep'
  BY <1>23 DEF uffdioRegister
<1>24. CASE UNCHANGED vars
  BY <1>24 DEF vars
<1> QED
  BY <1>1, <1>2, <1>3, <1>4, <1>5, <1>6, <1>7, <1>8, <1>9, <1>10, <1>11,
     <1>12, <1>13, <1>14, <1>15, <1>16, <1>17, <1>18, <1>19, <1>20, <1>21,
     <1>22, <1>23, <1>24
     DEF Next, Injection

\* Between calls the profiler holds a copy of the descriptor exactly if it knows
\* one in the workload, and the sampling loop never runs without one.
THEOREM CopyFollowsDescriptor == Spec => []TrackerFd
<1>1. Init => Values /\ CopyAtStep
  BY TypedInit DEF Init, Typed, CopyAtStep, SetUp
<1>2. Values /\ CopyAtStep /\ [Next]_vars => Values' /\ CopyAtStep'
  BY ValuesStep, CopyAtStepStep
<1>3. CopyAtStep => TrackerFd
  BY DEF CopyAtStep, TrackerFd
<1> QED
  BY <1>1, <1>2, <1>3, PTL DEF Spec

-----------------------------------------------------------------------------
(***************************************************************************)
(* The userfaultfds left in the workload.                                  *)
(***************************************************************************)
Undisturbed == ~moved /\ odd = {}

\* Without a signal no stop is reported but the ones that were asked for.
Quiet ==
    Undisturbed => /\ ~trap /\ pending = 0
                   /\ caller # "none" /\ pc = "interrupt" => stop = "running"

\* The descriptors in the workload, step by step: the one of this call from
\* userfaultfd to close, or for good if the set-up succeeds; the known one
\* until closeTargetUffd has closed it.
UffdAtStep ==
    Undisturbed =>
      /\ caller = "none" => fds = IF targetUffdFd = 0 THEN {} ELSE {targetUffdFd}
      /\ caller \in SetUp =>
           fds = IF ok \/ pc \in {"api", "register", "close"} THEN {calls} ELSE {}
      /\ caller = "CleanupBeforeCRIU" =>
           fds = IF pc \in {"seize", "interrupt", "wait", "poke", "close"}
                 THEN {targetUffdFd} ELSE {}

Injecting == caller # "none" /\ pc \notin {"seize", "return", "interrupt"}

\* Undisturbed, every injected call is run and its result is the call's own.
LEMMA UndisturbedOutcome ==
    ASSUME ~moved', odd = {}, Quiet, Safe, Injecting,
           NEW canFail \in BOOLEAN, NEW o \in Outcomes(canFail), injectSyscall(o, canFail)
    PROVE  ~moved /\ (o = "done" \/ (canFail /\ o = "errno")) /\ ~trap' /\ pending' = 0
<1>1. ~moved /\ o # "unread"
  BY Zenon DEF injectSyscall
<1>2. CanTrace /\ ~trap /\ pending = 0
  BY <1>1 DEF Quiet, Undisturbed, Safe, CanTrace, Injecting
<1>3. o \in {"done", "errno"} /\ (o = "errno" => canFail)
  BY <1>1, <1>2 DEF Outcomes
<1>4. ~trap'
  BY <1>2, Zenon DEF injectSyscall
<1>5. pending' = 0
  BY <1>2, <1>3 DEF injectSyscall
<1> QED
  BY <1>1, <1>3, <1>4, <1>5

\* So a successful call took effect, and a failed one did not.
LEMMA UndisturbedEffect ==
    ASSUME ~moved', odd = {}, Quiet, Safe, Injecting,
           NEW canFail \in BOOLEAN, NEW o \in Outcomes(canFail), injectSyscall(o, canFail)
    PROVE  /\ Effect(o) <=> Success(o)
           /\ ~canFail => Success(o)
  BY UndisturbedOutcome DEF Effect, Success

\* Quiet is kept by every step.
LEMMA QuietStep == ASSUME Quiet, Safe, [Next]_vars PROVE Quiet'
<1> SUFFICES ASSUME Undisturbed'
             PROVE  /\ ~trap' /\ pending' = 0
                    /\ caller' # "none" /\ pc' = "interrupt" => stop' = "running"
  BY DEF Quiet
<1> USE DEF Undisturbed, At, target, injector, profiler, thread, Injecting
<1>1. CASE seize
  BY <1>1 DEF seize, Quiet, Safe, LeftAlone
<1>2. CASE interrupt
  BY <1>2 DEF interrupt, Quiet
<1>3. CASE waitAndSave
  BY <1>3 DEF waitAndSave, Quiet
<1>4. CASE pokeSyscall
  BY <1>4 DEF pokeSyscall, Quiet
<1>5. CASE mmap
  <2>1. pc' # "interrupt" /\ Injecting /\ odd = {}
    BY <1>5 DEF mmap, mmapFailed
  <2>2. \E canFail \in BOOLEAN : \E o \in Outcomes(canFail) : injectSyscall(o, canFail)
    BY <1>5, Zenon DEF mmap
  <2> QED
    BY <2>1, <2>2, UndisturbedOutcome
<1>6. CASE userfaultfd
  <2>1. pc' # "interrupt" /\ Injecting /\ odd = {}
    BY <1>6 DEF userfaultfd, uffdFailed
  <2>2. \E canFail \in BOOLEAN : \E o \in Outcomes(canFail) : injectSyscall(o, canFail)
    BY <1>6, Zenon DEF userfaultfd
  <2> QED
    BY <2>1, <2>2, UndisturbedOutcome
<1>7. CASE uffdioAPI
  <2>1. pc' # "interrupt" /\ Injecting /\ odd = {}
    BY <1>7 DEF uffdioAPI, laterFailed
  <2>2. CASE UNCHANGED <<target, thread>>
    BY <2>1, <2>2 DEF Quiet
  <2>3. CASE \E o \in Outcomes(TRUE) : injectSyscall(o, TRUE)
    BY <2>1, <2>3, UndisturbedOutcome
  <2> QED
    BY <1>7, <2>2, <2>3 DEF uffdioAPI
<1>8. CASE copyDescriptor
  BY <1>8 DEF copyDescriptor, laterFailed, Quiet
<1>9. CASE closeFd
  <2>1. pc' # "interrupt" /\ Injecting /\ odd = {}
    BY <1>9 DEF closeFd
  <2>2. \E canFail \in BOOLEAN : \E o \in Outcomes(canFail) : injectSyscall(o, canFail)
    BY <1>9, Zenon DEF closeFd
  <2> QED
    BY <2>1, <2>2, UndisturbedOutcome
<1>10. CASE munmap
  <2>1. pc' # "interrupt" /\ Injecting /\ odd = {}
    BY <1>10 DEF munmap
  <2>2. \E canFail \in BOOLEAN : \E o \in Outcomes(canFail) : injectSyscall(o, canFail)
    BY <1>10, Zenon DEF munmap
  <2> QED
    BY <2>1, <2>2, UndisturbedOutcome
<1>11. CASE pokeBack
  BY <1>11 DEF pokeBack, restoreSteps, Quiet
<1>12. CASE setRegs
  BY <1>12 DEF setRegs, restoreSteps, Quiet
<1>13. CASE detach
  BY <1>13 DEF detach, restoreSteps, Quiet
<1>14. CASE startReturns
  BY <1>14 DEF startReturns, Returned, Quiet
<1>15. CASE reinitReturns
  BY <1>15 DEF reinitReturns, Returned, Quiet
<1>16. CASE cleanupReturns
  BY <1>16 DEF cleanupReturns, Returned, Quiet
<1>17. CASE ChangeThread
  BY <1>17 DEF ChangeThread, Quiet
<1>18. CASE Signal
  BY <1>18 DEF Signal, Quiet
<1>19. CASE Start
  BY <1>19 DEF Start, Begin, Quiet
<1>20. CASE CleanupBeforeCRIU
  BY <1>20 DEF CleanupBeforeCRIU, Begin, Quiet
<1>21. CASE ReinitAfterCRIU
  BY <1>21 DEF ReinitAfterCRIU, Begin, Quiet
<1>22. CASE Close
  BY <1>22 DEF Close, Quiet
<1>23. ASSUME NEW v \in VMAs, uffdioRegister(v)
       PROVE  /\ ~trap' /\ pending' = 0
              /\ caller' # "none" /\ pc' = "interrupt" => stop' = "running"
  <2>1. pc' # "interrupt" /\ Injecting /\ odd = {}
    BY <1>23 DEF uffdioRegister
  <2>2. CASE UNCHANGED <<target, thread>>
    BY <2>1, <2>2 DEF Quiet
  <2>3. CASE \E o \in Outcomes(TRUE) : injectSyscall(o, TRUE)
    BY <2>1, <2>3, UndisturbedOutcome
  <2> QED
    BY <1>23, <2>2, <2>3 DEF uffdioRegister
<1>24. CASE UNCHANGED vars
  BY <1>24 DEF vars, Quiet
<1> QED
  BY <1>1, <1>2, <1>3, <1>4, <1>5, <1>6, <1>7, <1>8, <1>9, <1>10, <1>11,
     <1>12, <1>13, <1>14, <1>15, <1>16, <1>17, <1>18, <1>19, <1>20, <1>21,
     <1>22, <1>23, <1>24
     DEF Next, Injection

\* UffdAtStep is kept by every step.
LEMMA UffdAtStepStep ==
    ASSUME UffdAtStep, CopyAtStep, Values, Quiet, Safe, [Next]_vars
    PROVE  UffdAtStep'
<1> SUFFICES ASSUME Undisturbed' PROVE UffdAtStep'
  BY DEF UffdAtStep
<1> USE DEF UffdAtStep, Undisturbed, SetUp, At, target, injector, profiler, thread
<1>1. CASE seize
  BY <1>1 DEF seize, Safe, LeftAlone
<1>2. CASE interrupt
  BY <1>2 DEF interrupt, Safe
<1>3. CASE waitAndSave
  BY <1>3 DEF waitAndSave, Safe, CanTrace
<1>4. CASE pokeSyscall
  BY <1>4 DEF pokeSyscall, Safe, CanTrace, CopyAtStep, Values, Methods
<1>5. CASE mmap
  <2>1. ~moved
    BY <1>5, Zenon DEF mmap, injectSyscall
  <2>2. odd = {} /\ caller' = caller /\ caller # "CleanupBeforeCRIU"
    BY <1>5 DEF mmap, CopyAtStep
  <2>3. /\ pc = "mmap" /\ pc' \in {"uffd", "pokeBack"} /\ fds' = fds /\ ok' = ok
        /\ calls' = calls
    BY <1>5 DEF mmap, mmapFailed
  <2> QED
    BY <1>5, <2>1, <2>2, <2>3 DEF mmap
<1>6. CASE userfaultfd
  <2>1. PICK o \in Outcomes(TRUE) :
          /\ injectSyscall(o, TRUE)
          /\ fds' = IF Effect(o) THEN fds \cup {calls} ELSE fds
          /\ pc' = CASE Success(o)                -> "api"
                     [] ~Success(o) /\ pc = "uffd" -> "uffdAny"
                     [] OTHER                     -> uffdFailed
    BY <1>6, Zenon DEF userfaultfd
  <2>2. /\ Injecting /\ odd = {} /\ pc \in {"uffd", "uffdAny"} /\ ok' = ok
        /\ caller' = caller /\ calls' = calls /\ caller \in SetUp
    BY <1>6 DEF userfaultfd, Injecting, CopyAtStep, Values, Methods
  <2>3. ~moved /\ (Effect(o) <=> Success(o))
    BY <2>1, <2>2, UndisturbedOutcome, UndisturbedEffect
  <2>4. fds = {} /\ ~ok
    BY <2>2, <2>3 DEF CopyAtStep
  <2>5. CASE Success(o)
    <3>1. pc' = "api" /\ fds' = {calls}
      BY <2>1, <2>3, <2>4, <2>5
    <3> QED
      BY <2>2, <3>1
  <2>6. CASE ~Success(o)
    <3>1. pc' \in {"uffdAny", "munmap"} /\ fds' = {}
      BY <2>1, <2>3, <2>4, <2>6 DEF uffdFailed
    <3> QED
      BY <2>2, <2>4, <3>1
  <2> QED
    BY <2>5, <2>6
<1>7. CASE uffdioAPI
  <2>1. ~moved
    BY <1>7, Zenon DEF uffdioAPI, injectSyscall
  <2>2. odd = {} /\ caller' = caller /\ caller # "CleanupBeforeCRIU"
    BY <1>7 DEF uffdioAPI, CopyAtStep
  <2>3. pc = "api" /\ pc' \in {"register", "close"} /\ fds' = fds /\ calls' = calls
    BY <1>7 DEF uffdioAPI, laterFailed
  <2> QED
    BY <1>7, <2>1, <2>2, <2>3 DEF uffdioAPI
<1>8. CASE copyDescriptor
  BY <1>8 DEF copyDescriptor, laterFailed, CopyAtStep, Values, Methods
<1>9. CASE closeFd
  <2> DEFINE fd == IF caller = "CleanupBeforeCRIU" THEN targetUffdFd ELSE calls
  <2>1. PICK o \in Outcomes(fd \notin fds) :
          /\ injectSyscall(o, fd \notin fds)
          /\ fds' = IF Effect(o) THEN fds \ {fd} ELSE fds
          /\ pc' = IF caller = "CleanupBeforeCRIU" THEN "pokeBack" ELSE "munmap"
          /\ ok' = (caller = "CleanupBeforeCRIU" /\ Success(o))
    BY <1>9, Zenon DEF closeFd
  <2>2. /\ Injecting /\ odd = {} /\ caller' = caller /\ calls' = calls
        /\ pc = "close" /\ targetUffdFd' = targetUffdFd
    BY <1>9 DEF closeFd, Injecting
  <2>3. ~moved
    BY <2>1, <2>2, UndisturbedOutcome
  <2>4. caller \in SetUp \cup {"CleanupBeforeCRIU"}
    BY <2>2 DEF Injecting, Values, Methods
  <2>5. fds = {fd}
    BY <2>2, <2>3, <2>4
  <2>6. Effect(o)
    BY <2>1, <2>2, <2>5, UndisturbedEffect
  <2>7. fds' = {}
    BY <2>1, <2>5, <2>6
  <2>8. caller \in SetUp => ~ok'
    BY <2>1
  <2> QED
    BY <2>1, <2>2, <2>4, <2>7, <2>8
<1>10. CASE munmap
  <2>1. ~moved
    BY <1>10, Zenon DEF munmap, injectSyscall
  <2>2. odd = {} /\ caller' = caller /\ caller # "CleanupBeforeCRIU"
    BY <1>10 DEF munmap, CopyAtStep
  <2>3. /\ pc = "munmap" /\ pc' = "pokeBack" /\ fds' = fds /\ ok' = ok
        /\ calls' = calls
    BY <1>10 DEF munmap
  <2> QED
    BY <1>10, <2>1, <2>2, <2>3 DEF munmap
<1>11. CASE pokeBack
  BY <1>11 DEF pokeBack, restoreSteps, CopyAtStep
<1>12. CASE setRegs
  BY <1>12 DEF setRegs, restoreSteps
<1>13. CASE detach
  BY <1>13 DEF detach, restoreSteps
<1>14. CASE startReturns
  <2>1. /\ caller = "Start" /\ pc = "return" /\ caller' = "none" /\ calls # 0
        /\ targetUffdFd = 0 /\ fds' = fds
    BY <1>14 DEF startReturns, Returned, CopyAtStep, Values
  <2>2. ~moved /\ odd = {}
    BY <1>14 DEF startReturns
  <2>3. CASE ok
    <3>1. odd' # odd \cup {"closed"}
      BY <2>2
    <3>2. targetUffdFd' = calls
      BY <1>14, <2>3, <3>1, Zenon DEF startReturns
    <3> QED
      BY <2>1, <2>2, <2>3, <3>2
  <2>4. CASE ~ok
    <3>1. targetUffdFd' = targetUffdFd
      BY <1>14, <2>4, Zenon DEF startReturns
    <3> QED
      BY <2>1, <2>2, <2>4, <3>1
  <2> QED
    BY <2>3, <2>4
<1>15. CASE reinitReturns
  BY <1>15 DEF reinitReturns, Returned, CopyAtStep, Values
<1>16. CASE cleanupReturns
  BY <1>16 DEF cleanupReturns, Returned, CopyAtStep
<1>17. CASE ChangeThread
  BY <1>17 DEF ChangeThread
<1>18. CASE Signal
  BY <1>18 DEF Signal
<1>19. CASE Start
  BY <1>19 DEF Start, Begin, CopyAtStep
<1>20. CASE CleanupBeforeCRIU
  BY <1>20 DEF CleanupBeforeCRIU, Begin
<1>21. CASE ReinitAfterCRIU
  BY <1>21 DEF ReinitAfterCRIU, Begin
<1>22. CASE Close
  BY <1>22 DEF Close
<1>23. ASSUME NEW v \in VMAs, uffdioRegister(v) PROVE UffdAtStep'
  <2>1. ~moved
    BY <1>23, Zenon DEF uffdioRegister, injectSyscall
  <2>2. odd = {} /\ caller' = caller /\ caller # "CleanupBeforeCRIU"
    BY <1>23 DEF uffdioRegister, CopyAtStep
  <2>3. pc = "register" /\ pc' = pc /\ fds' = fds /\ calls' = calls
    BY <1>23 DEF uffdioRegister
  <2> QED
    BY <1>23, <2>1, <2>2, <2>3 DEF uffdioRegister
<1>24. CASE UNCHANGED vars
  BY <1>24 DEF vars
<1> QED
  BY <1>1, <1>2, <1>3, <1>4, <1>5, <1>6, <1>7, <1>8, <1>9, <1>10, <1>11,
     <1>12, <1>13, <1>14, <1>15, <1>16, <1>17, <1>18, <1>19, <1>20, <1>21,
     <1>22, <1>23, <1>24
     DEF Next, Injection

\* Between calls, and unless a signal, a change of threads or a Close got in
\* between, the profiler knows every userfaultfd there is in the workload.
THEOREM UffdsKnown == Spec => []NoForgottenUffd
<1> DEFINE I == Safe /\ Values /\ CopyAtStep /\ Quiet /\ UffdAtStep
<1>1. Init => I
  BY TypedInit DEF Init, Typed, Safe, LeftAlone, CopyAtStep, SetUp, Quiet, UffdAtStep,
                   Undisturbed
<1>2. I /\ [Next]_vars => I'
  BY SafeStep, ValuesStep, CopyAtStepStep, QuietStep, UffdAtStepStep
<1>3. I => NoForgottenUffd
  BY DEF UffdAtStep, Undisturbed, NoForgottenUffd
<1> QED
  BY <1>1, <1>2, <1>3, PTL DEF Spec
=============================================================================
