------------------------- MODULE RestoreAgentProofs -------------------------
(***************************************************************************)
(* RestoreAgent, for any number of Restore calls.  The fields of the agent *)
(* are shared by all calls, so what a property says of one call only       *)
(* follows from how the calls it does not mention may have touched them:   *)
(* Shared below names the traces they leave for good.                      *)
(***************************************************************************)
EXTENDS RestoreAgent, TLAPS

Recorded(i) == call[i] \in {"pid", "answered"}
Started(i)  == call[i] \in {"check", "record", "pid", "answered"}

\* Another call has written the fields call i works with, or came after it.
Shared(i) ==
    \E j \in Calls : j # i /\ (Recorded(j) \/ (j > i /\ call[j] # "none"))

\* The descriptor of a call is open until the field that names it is closed.
Held ==
    /\ \A i \in Calls : call[i] \in {"check", "record"} => i \in fds
    /\ restorePidNsFd # 0 => Recorded(restorePidNsFd)

\* Calls begin in order, and a step of a call tells which processes and
\* goroutines it has started.
Order == \A i, j \in Calls : i < j /\ call[i] = "none" => call[j] = "none"

Procs ==
    /\ restoreCmd # 0 => Recorded(restoreCmd)
    /\ restoreLazyPagesCmd # 0 => strategy = "lazy" /\ Recorded(restoreLazyPagesCmd)
    /\ \A i \in Calls :
         /\ call[i] \in {"daemon", "ready"} => strategy = "lazy"
         /\ criu[i] # "none" <=> Started(i)
         /\ reaper[i] # "none" <=> Recorded(i)
         /\ waiter[i] # "none" => call[i] = "answered"
         /\ daemon[i] # "none" =>
              strategy = "lazy" /\ call[i] \notin {"none", "download", "daemon"}

\* Pages are on their way exactly while a daemon serves the workload, and CRIU
\* waits for its workload unless a later call has killed it.
Delivery ==
    /\ pages = "some" => source # 0
    /\ source # 0 => daemon[source] = "serving" /\ pages = "some" /\ workload # 0
    /\ workload # 0 => /\ Started(workload)
                       /\ criu[workload] = "waiting" \/ Shared(workload)
    /\ dumping => workload # 0

\* The flag is set while the daemon of the only recorded call lives.
Flag ==
    \A i \in Calls :
      Recorded(i) /\ Alive(i) /\ (\A j \in Calls : j # i => ~Recorded(j)) =>
        lazyPagesActive

\* A dump froze a process whose pages were still to come only if they came
\* from the daemon of another call, or another call was recorded.
Frozen ==
    dumping /\ pages = "some" =>
      source # workload \/ \E j \in Calls : j # workload /\ Recorded(j)

\* The descriptor of a CRIU that has not exited is open, unless calls mixed.
Open == \A i \in Calls : Started(i) /\ criu[i] # "exited" => i \in fds \/ Shared(i)

RestoreInv == TypeOK /\ Held /\ Order /\ Procs /\ Delivery /\ Flag /\ Frozen /\ Open

-----------------------------------------------------------------------------
\* Types: the field is only set to a descriptor that is open.
LEMMA TypeStep ==
    ASSUME TypeOK, Held, [Next]_vars
    PROVE  TypeOK'
<1> USE CallsAssumption DEF Calls, TypeOK, CallSteps, Held, Recorded, Alive
<1>1. ASSUME NEW i \in Calls, Restore(i)
     PROVE  TypeOK'
  BY <1>1 DEF Restore, Step, DaemonEnds, closePidNsFd, procs, fields
<1>2. ASSUME NEW i \in Calls, Download(i)
     PROVE  TypeOK'
  BY <1>2 DEF Download, Step, Return, procs, fields
<1>3. ASSUME NEW i \in Calls, StartPageServer(i)
     PROVE  TypeOK'
  BY <1>3 DEF StartPageServer, Step, Return, procs, fields
<1>4. ASSUME NEW i \in Calls, waitForLazyPagesReady(i)
     PROVE  TypeOK'
  BY <1>4 DEF waitForLazyPagesReady, Step, Return, DaemonEnds, procs, fields
<1>5. ASSUME NEW i \in Calls, StartRestore(i)
     PROVE  TypeOK'
  <2>1. call' \in [Calls -> CallSteps] /\ calling' \in 0..MaxCalls
    BY <1>5 DEF StartRestore, Step, Return
  <2>2. criu' \in [Calls -> {"none", "running", "waiting", "exited"}]
    BY <1>5 DEF StartRestore
  <2>3. fds' \subseteq Calls /\ restorePidNsFd' \in fds' \cup {0}
    BY <1>5 DEF StartRestore
  <2> QED
    BY <1>5, <2>1, <2>2, <2>3 DEF StartRestore
<1>6. ASSUME NEW i \in Calls, CheckRestore(i)
     PROVE  TypeOK'
  BY <1>6 DEF CheckRestore, Step, procExists, procs, fields
<1>7. ASSUME NEW i \in Calls, RecordRestore(i)
     PROVE  TypeOK'
  BY <1>7 DEF RecordRestore, Step, procs, fields
<1>8. ASSUME NEW i \in Calls, AnswerRestore(i)
     PROVE  TypeOK'
  BY <1>8 DEF AnswerRestore, Step, Return, procs, fields
<1>9. ASSUME NEW i \in Calls, Reap(i)
     PROVE  TypeOK'
  BY <1>9 DEF Reap, closePidNsFd, criuOver, procs, fields
<1>10. ASSUME NEW i \in Calls, AllowDumps(i)
     PROVE  TypeOK'
  BY <1>10 DEF AllowDumps, lazyPagesOver, procs, fields
<1>11. ASSUME NEW i \in Calls, DaemonServes(i)
     PROVE  TypeOK'
  BY <1>11 DEF DaemonServes, procs, fields
<1>12. ASSUME NEW i \in Calls, DaemonCrashes(i)
     PROVE  TypeOK'
  BY <1>12 DEF DaemonCrashes, DaemonEnds, procs, fields
<1>13. ASSUME NEW i \in Calls, TransferDone(i)
     PROVE  TypeOK'
  BY <1>13 DEF TransferDone, procs, fields
<1>14. ASSUME NEW i \in Calls, RestoreSucceeds(i)
     PROVE  TypeOK'
  BY <1>14 DEF RestoreSucceeds, procs, fields
<1>15. ASSUME NEW i \in Calls, RestoreFails(i)
     PROVE  TypeOK'
  BY <1>15 DEF RestoreFails, procs, fields
<1>16. CASE StartDump
  BY <1>16 DEF StartDump, procs, fields
<1>17. CASE EndDump
  BY <1>17 DEF EndDump, procs, fields
<1>18. CASE WorkloadExits
  BY <1>18 DEF WorkloadExits, procs, fields
<1>19. CASE CallerGone
  BY <1>19 DEF CallerGone, procs, fields
<1>20. CASE UNCHANGED vars
  BY <1>20 DEF vars, procs, fields
<1> QED
  BY <1>1, <1>2, <1>3, <1>4, <1>5, <1>6, <1>7, <1>8, <1>9,
     <1>10, <1>11, <1>12, <1>13, <1>14, <1>15, <1>16, <1>17, <1>18, <1>19, <1>20 DEF Next, Handler

\* Descriptors are closed through the field only.
LEMMA HeldStep ==
    ASSUME TypeOK, Held, [Next]_vars
    PROVE  Held'
<1> USE CallsAssumption DEF Calls, TypeOK, CallSteps, Held, Recorded
<1>1. ASSUME NEW i \in Calls, Restore(i)
     PROVE  Held'
  BY <1>1 DEF Restore, Step, DaemonEnds, closePidNsFd, procs, fields
<1>2. ASSUME NEW i \in Calls, Download(i)
     PROVE  Held'
  BY <1>2 DEF Download, Step, Return, procs, fields
<1>3. ASSUME NEW i \in Calls, StartPageServer(i)
     PROVE  Held'
  BY <1>3 DEF StartPageServer, Step, Return, procs, fields
<1>4. ASSUME NEW i \in Calls, waitForLazyPagesReady(i)
     PROVE  Held'
  BY <1>4 DEF waitForLazyPagesReady, Step, Return, DaemonEnds, procs, fields
<1>5. ASSUME NEW i \in Calls, StartRestore(i)
     PROVE  Held'
  BY <1>5 DEF StartRestore, Step, Return, procs, fields
<1>6. ASSUME NEW i \in Calls, CheckRestore(i)
     PROVE  Held'
  BY <1>6 DEF CheckRestore, Step, procExists, procs, fields
<1>7. ASSUME NEW i \in Calls, RecordRestore(i)
     PROVE  Held'
  BY <1>7 DEF RecordRestore, Step, procs, fields
<1>8. ASSUME NEW i \in Calls, AnswerRestore(i)
     PROVE  Held'
  BY <1>8 DEF AnswerRestore, Step, Return, procs, fields
<1>9. ASSUME NEW i \in Calls, Reap(i)
     PROVE  Held'
  BY <1>9 DEF Reap, closePidNsFd, criuOver, procs, fields
<1>10. ASSUME NEW i \in Calls, AllowDumps(i)
     PROVE  Held'
  BY <1>10 DEF AllowDumps, lazyPagesOver, procs, fields
<1>11. ASSUME NEW i \in Calls, DaemonServes(i)
     PROVE  Held'
  BY <1>11 DEF DaemonServes, procs, fields
<1>12. ASSUME NEW i \in Calls, DaemonCrashes(i)
     PROVE  Held'
  BY <1>12 DEF DaemonCrashes, DaemonEnds, procs, fields
<1>13. ASSUME NEW i \in Calls, TransferDone(i)
     PROVE  Held'
  BY <1>13 DEF TransferDone, procs, fields
<1>14. ASSUME NEW i \in Calls, RestoreSucceeds(i)
     PROVE  Held'
  BY <1>14 DEF RestoreSucceeds, procs, fields
<1>15. ASSUME NEW i \in Calls, RestoreFails(i)
     PROVE  Held'
  BY <1>15 DEF RestoreFails, procs, fields
<1>16. CASE StartDump
  BY <1>16 DEF StartDump, procs, fields
<1>17. CASE EndDump
  BY <1>17 DEF EndDump, procs, fields
<1>18. CASE WorkloadExits
  BY <1>18 DEF WorkloadExits, procs, fields
<1>19. CASE CallerGone
  BY <1>19 DEF CallerGone, procs, fields
<1>20. CASE UNCHANGED vars
  BY <1>20 DEF vars, procs, fields
<1> QED
  BY <1>1, <1>2, <1>3, <1>4, <1>5, <1>6, <1>7, <1>8, <1>9,
     <1>10, <1>11, <1>12, <1>13, <1>14, <1>15, <1>16, <1>17, <1>18, <1>19, <1>20 DEF Next, Handler

\* Calls keep beginning in order.
LEMMA OrderStep ==
    ASSUME TypeOK, Order, [Next]_vars
    PROVE  Order'
<1> USE CallsAssumption DEF Calls, TypeOK, CallSteps, Order
<1>1. ASSUME NEW i \in Calls, Restore(i)
     PROVE  Order'
  BY <1>1 DEF Restore, Step, DaemonEnds, closePidNsFd, procs, fields
<1>2. ASSUME NEW i \in Calls, Download(i)
     PROVE  Order'
  BY <1>2 DEF Download, Step, Return, procs, fields
<1>3. ASSUME NEW i \in Calls, StartPageServer(i)
     PROVE  Order'
  BY <1>3 DEF StartPageServer, Step, Return, procs, fields
<1>4. ASSUME NEW i \in Calls, waitForLazyPagesReady(i)
     PROVE  Order'
  BY <1>4 DEF waitForLazyPagesReady, Step, Return, DaemonEnds, procs, fields
<1>5. ASSUME NEW i \in Calls, StartRestore(i)
     PROVE  Order'
  BY <1>5 DEF StartRestore, Step, Return, procs, fields
<1>6. ASSUME NEW i \in Calls, CheckRestore(i)
     PROVE  Order'
  BY <1>6 DEF CheckRestore, Step, procExists, procs, fields
<1>7. ASSUME NEW i \in Calls, RecordRestore(i)
     PROVE  Order'
  BY <1>7 DEF RecordRestore, Step, procs, fields
<1>8. ASSUME NEW i \in Calls, AnswerRestore(i)
     PROVE  Order'
  BY <1>8 DEF AnswerRestore, Step, Return, procs, fields
<1>9. ASSUME NEW i \in Calls, Reap(i)
     PROVE  Order'
  BY <1>9 DEF Reap, closePidNsFd, criuOver, procs, fields
<1>10. ASSUME NEW i \in Calls, AllowDumps(i)
     PROVE  Order'
  BY <1>10 DEF AllowDumps, lazyPagesOver, procs, fields
<1>11. ASSUME NEW i \in Calls, DaemonServes(i)
     PROVE  Order'
  BY <1>11 DEF DaemonServes, procs, fields
<1>12. ASSUME NEW i \in Calls, DaemonCrashes(i)
     PROVE  Order'
  BY <1>12 DEF DaemonCrashes, DaemonEnds, procs, fields
<1>13. ASSUME NEW i \in Calls, TransferDone(i)
     PROVE  Order'
  BY <1>13 DEF TransferDone, procs, fields
<1>14. ASSUME NEW i \in Calls, RestoreSucceeds(i)
     PROVE  Order'
  BY <1>14 DEF RestoreSucceeds, procs, fields
<1>15. ASSUME NEW i \in Calls, RestoreFails(i)
     PROVE  Order'
  BY <1>15 DEF RestoreFails, procs, fields
<1>16. CASE StartDump
  BY <1>16 DEF StartDump, procs, fields
<1>17. CASE EndDump
  BY <1>17 DEF EndDump, procs, fields
<1>18. CASE WorkloadExits
  BY <1>18 DEF WorkloadExits, procs, fields
<1>19. CASE CallerGone
  BY <1>19 DEF CallerGone, procs, fields
<1>20. CASE UNCHANGED vars
  BY <1>20 DEF vars, procs, fields
<1> QED
  BY <1>1, <1>2, <1>3, <1>4, <1>5, <1>6, <1>7, <1>8, <1>9,
     <1>10, <1>11, <1>12, <1>13, <1>14, <1>15, <1>16, <1>17, <1>18, <1>19, <1>20 DEF Next, Handler

\* Processes and goroutines are started by the steps of their call.
LEMMA ProcsStep ==
    ASSUME TypeOK, Procs, Delivery, [Next]_vars
    PROVE  Procs'
<1> USE CallsAssumption DEF Calls, TypeOK, CallSteps, Procs, Delivery, Recorded, Started, Alive
<1>1. ASSUME NEW i \in Calls, Restore(i)
     PROVE  Procs'
  BY <1>1 DEF Restore, Step, DaemonEnds, closePidNsFd, procs, fields
<1>2. ASSUME NEW i \in Calls, Download(i)
     PROVE  Procs'
  BY <1>2 DEF Download, Step, Return, procs, fields
<1>3. ASSUME NEW i \in Calls, StartPageServer(i)
     PROVE  Procs'
  BY <1>3 DEF StartPageServer, Step, Return, procs, fields
<1>4. ASSUME NEW i \in Calls, waitForLazyPagesReady(i)
     PROVE  Procs'
  BY <1>4 DEF waitForLazyPagesReady, Step, Return, DaemonEnds, procs, fields
<1>5. ASSUME NEW i \in Calls, StartRestore(i)
     PROVE  Procs'
  BY <1>5 DEF StartRestore, Step, Return, procs, fields
<1>6. ASSUME NEW i \in Calls, CheckRestore(i)
     PROVE  Procs'
  BY <1>6 DEF CheckRestore, Step, procExists, procs, fields
<1>7. ASSUME NEW i \in Calls, RecordRestore(i)
     PROVE  Procs'
  BY <1>7 DEF RecordRestore, Step, procs, fields
<1>8. ASSUME NEW i \in Calls, AnswerRestore(i)
     PROVE  Procs'
  BY <1>8 DEF AnswerRestore, Step, Return, procs, fields
<1>9. ASSUME NEW i \in Calls, Reap(i)
     PROVE  Procs'
  BY <1>9 DEF Reap, closePidNsFd, criuOver, procs, fields
<1>10. ASSUME NEW i \in Calls, AllowDumps(i)
     PROVE  Procs'
  BY <1>10 DEF AllowDumps, lazyPagesOver, procs, fields
<1>11. ASSUME NEW i \in Calls, DaemonServes(i)
     PROVE  Procs'
  BY <1>11 DEF DaemonServes, procs, fields
<1>12. ASSUME NEW i \in Calls, DaemonCrashes(i)
     PROVE  Procs'
  BY <1>12 DEF DaemonCrashes, DaemonEnds, procs, fields
<1>13. ASSUME NEW i \in Calls, TransferDone(i)
     PROVE  Procs'
  BY <1>13 DEF TransferDone, procs, fields
<1>14. ASSUME NEW i \in Calls, RestoreSucceeds(i)
     PROVE  Procs'
  BY <1>14 DEF RestoreSucceeds, procs, fields
<1>15. ASSUME NEW i \in Calls, RestoreFails(i)
     PROVE  Procs'
  BY <1>15 DEF RestoreFails, procs, fields
<1>16. CASE StartDump
  BY <1>16 DEF StartDump, procs, fields
<1>17. CASE EndDump
  BY <1>17 DEF EndDump, procs, fields
<1>18. CASE WorkloadExits
  BY <1>18 DEF WorkloadExits, procs, fields
<1>19. CASE CallerGone
  BY <1>19 DEF CallerGone, procs, fields
<1>20. CASE UNCHANGED vars
  BY <1>20 DEF vars, procs, fields
<1> QED
  BY <1>1, <1>2, <1>3, <1>4, <1>5, <1>6, <1>7, <1>8, <1>9,
     <1>10, <1>11, <1>12, <1>13, <1>14, <1>15, <1>16, <1>17, <1>18, <1>19, <1>20 DEF Next, Handler

\* CRIU is killed by a later call only.
LEMMA DeliveryStep ==
    ASSUME TypeOK, Order, Procs, Delivery, [Next]_vars
    PROVE  Delivery'
<1> USE CallsAssumption DEF Calls, TypeOK, CallSteps, Order, Procs, Delivery, Recorded, Started, Shared, Alive
<1>1. ASSUME NEW i \in Calls, Restore(i)
     PROVE  Delivery'
  BY <1>1 DEF Restore, Step, DaemonEnds, closePidNsFd, procs, fields
<1>2. ASSUME NEW i \in Calls, Download(i)
     PROVE  Delivery'
  BY <1>2 DEF Download, Step, Return, procs, fields
<1>3. ASSUME NEW i \in Calls, StartPageServer(i)
     PROVE  Delivery'
  BY <1>3 DEF StartPageServer, Step, Return, procs, fields
<1>4. ASSUME NEW i \in Calls, waitForLazyPagesReady(i)
     PROVE  Delivery'
  BY <1>4 DEF waitForLazyPagesReady, Step, Return, DaemonEnds, procs, fields
<1>5. ASSUME NEW i \in Calls, StartRestore(i)
     PROVE  Delivery'
  BY <1>5 DEF StartRestore, Step, Return, procs, fields
<1>6. ASSUME NEW i \in Calls, CheckRestore(i)
     PROVE  Delivery'
  BY <1>6 DEF CheckRestore, Step, procExists, procs, fields
<1>7. ASSUME NEW i \in Calls, RecordRestore(i)
     PROVE  Delivery'
  BY <1>7 DEF RecordRestore, Step, procs, fields
<1>8. ASSUME NEW i \in Calls, AnswerRestore(i)
     PROVE  Delivery'
  BY <1>8 DEF AnswerRestore, Step, Return, procs, fields
<1>9. ASSUME NEW i \in Calls, Reap(i)
     PROVE  Delivery'
  BY <1>9 DEF Reap, closePidNsFd, criuOver, procs, fields
<1>10. ASSUME NEW i \in Calls, AllowDumps(i)
     PROVE  Delivery'
  BY <1>10 DEF AllowDumps, lazyPagesOver, procs, fields
<1>11. ASSUME NEW i \in Calls, DaemonServes(i)
     PROVE  Delivery'
  BY <1>11 DEF DaemonServes, procs, fields
<1>12. ASSUME NEW i \in Calls, DaemonCrashes(i)
     PROVE  Delivery'
  BY <1>12 DEF DaemonCrashes, DaemonEnds, procs, fields
<1>13. ASSUME NEW i \in Calls, TransferDone(i)
     PROVE  Delivery'
  BY <1>13 DEF TransferDone, procs, fields
<1>14. ASSUME NEW i \in Calls, RestoreSucceeds(i)
     PROVE  Delivery'
  BY <1>14 DEF RestoreSucceeds, procs, fields
<1>15. ASSUME NEW i \in Calls, RestoreFails(i)
     PROVE  Delivery'
  BY <1>15 DEF RestoreFails, procs, fields
<1>16. CASE StartDump
  BY <1>16 DEF StartDump, procs, fields
<1>17. CASE EndDump
  BY <1>17 DEF EndDump, procs, fields
<1>18. CASE WorkloadExits
  BY <1>18 DEF WorkloadExits, procs, fields
<1>19. CASE CallerGone
  BY <1>19 DEF CallerGone, procs, fields
<1>20. CASE UNCHANGED vars
  BY <1>20 DEF vars, procs, fields
<1> QED
  BY <1>1, <1>2, <1>3, <1>4, <1>5, <1>6, <1>7, <1>8, <1>9,
     <1>10, <1>11, <1>12, <1>13, <1>14, <1>15, <1>16, <1>17, <1>18, <1>19, <1>20 DEF Next, Handler

\* A step that records no call, starts no daemon of a recorded one and leaves
\* the flag alone preserves Flag.
LEMMA FlagKept ==
    ASSUME Flag, lazyPagesActive' = lazyPagesActive,
           \A j \in Calls : Recorded(j)' <=> Recorded(j),
           \A j \in Calls : Recorded(j) /\ Alive(j)' => Alive(j)
    PROVE  Flag'
BY DEF Flag

\* No call goes back: what it has shared it has shared for good.
LEMMA SharedKept ==
    ASSUME \A j \in Calls : Recorded(j) => Recorded(j)',
           \A j \in Calls : call[j] # "none" => call'[j] # "none"
    PROVE  \A i \in Calls : Shared(i) => Shared(i)'
BY DEF Shared

\* A goroutine clears the flag after the daemon of its own call has ended.
LEMMA FlagStep ==
    ASSUME TypeOK, Procs, Flag, [Next]_vars
    PROVE  Flag'
<1> USE CallsAssumption DEF Calls, TypeOK, CallSteps, Procs, Flag, Recorded, Started, Alive
<1>1. ASSUME NEW i \in Calls, Restore(i)
     PROVE  Flag'
  <2>1. lazyPagesActive' = lazyPagesActive
    BY <1>1 DEF Restore, fields
  <2>2. \A j \in Calls : Recorded(j)' <=> Recorded(j)
    BY <1>1 DEF Restore, Step
  <2>3. \A j \in Calls : Recorded(j) /\ Alive(j)' => Alive(j)
    BY <1>1 DEF Restore, Step, DaemonEnds, procs
  <2> QED
    BY ONLY <2>1, <2>2, <2>3, FlagKept, Flag
<1>2. ASSUME NEW i \in Calls, Download(i)
     PROVE  Flag'
  <2>1. lazyPagesActive' = lazyPagesActive
    BY <1>2 DEF Download, fields
  <2>2. \A j \in Calls : Recorded(j)' <=> Recorded(j)
    BY <1>2 DEF Download, Step, Return
  <2>3. \A j \in Calls : Recorded(j) /\ Alive(j)' => Alive(j)
    BY <1>2 DEF Download, Step, Return, procs
  <2> QED
    BY ONLY <2>1, <2>2, <2>3, FlagKept, Flag
<1>3. ASSUME NEW i \in Calls, StartPageServer(i)
     PROVE  Flag'
  <2>1. lazyPagesActive' = lazyPagesActive
    BY <1>3 DEF StartPageServer, fields
  <2>2. \A j \in Calls : Recorded(j)' <=> Recorded(j)
    BY <1>3 DEF StartPageServer, Step, Return
  <2>3. \A j \in Calls : Recorded(j) /\ Alive(j)' => Alive(j)
    BY <1>3 DEF StartPageServer, Step, Return, procs
  <2> QED
    BY ONLY <2>1, <2>2, <2>3, FlagKept, Flag
<1>4. ASSUME NEW i \in Calls, waitForLazyPagesReady(i)
     PROVE  Flag'
  <2>1. lazyPagesActive' = lazyPagesActive
    BY <1>4 DEF waitForLazyPagesReady, fields
  <2>2. \A j \in Calls : Recorded(j)' <=> Recorded(j)
    BY <1>4 DEF waitForLazyPagesReady, Step, Return
  <2>3. \A j \in Calls : Recorded(j) /\ Alive(j)' => Alive(j)
    BY <1>4 DEF waitForLazyPagesReady, Step, Return, DaemonEnds, procs
  <2> QED
    BY ONLY <2>1, <2>2, <2>3, FlagKept, Flag
<1>5. ASSUME NEW i \in Calls, StartRestore(i)
     PROVE  Flag'
  <2>1. lazyPagesActive' = lazyPagesActive
    BY <1>5 DEF StartRestore, fields
  <2>2. \A j \in Calls : Recorded(j)' <=> Recorded(j)
    BY <1>5 DEF StartRestore, Step, Return
  <2>3. \A j \in Calls : Recorded(j) /\ Alive(j)' => Alive(j)
    BY <1>5 DEF StartRestore, Step, Return, procs
  <2> QED
    BY ONLY <2>1, <2>2, <2>3, FlagKept, Flag
<1>6. ASSUME NEW i \in Calls, CheckRestore(i)
     PROVE  Flag'
  BY <1>6 DEF CheckRestore, Step, procExists, procs, fields
<1>7. ASSUME NEW i \in Calls, RecordRestore(i)
     PROVE  Flag'
  BY <1>7 DEF RecordRestore, Step, procs, fields
<1>8. ASSUME NEW i \in Calls, AnswerRestore(i)
     PROVE  Flag'
  BY <1>8 DEF AnswerRestore, Step, Return, procs, fields
<1>9. ASSUME NEW i \in Calls, Reap(i)
     PROVE  Flag'
  BY <1>9 DEF Reap, closePidNsFd, criuOver, procs, fields
<1>10. ASSUME NEW i \in Calls, AllowDumps(i)
     PROVE  Flag'
  BY <1>10 DEF AllowDumps, lazyPagesOver, procs, fields
<1>11. ASSUME NEW i \in Calls, DaemonServes(i)
     PROVE  Flag'
  BY <1>11 DEF DaemonServes, procs, fields
<1>12. ASSUME NEW i \in Calls, DaemonCrashes(i)
     PROVE  Flag'
  BY <1>12 DEF DaemonCrashes, DaemonEnds, procs, fields
<1>13. ASSUME NEW i \in Calls, TransferDone(i)
     PROVE  Flag'
  BY <1>13 DEF TransferDone, procs, fields
<1>14. ASSUME NEW i \in Calls, RestoreSucceeds(i)
     PROVE  Flag'
  BY <1>14 DEF RestoreSucceeds, procs, fields
<1>15. ASSUME NEW i \in Calls, RestoreFails(i)
     PROVE  Flag'
  BY <1>15 DEF RestoreFails, procs, fields
<1>16. CASE StartDump
  BY <1>16 DEF StartDump, procs, fields
<1>17. CASE EndDump
  BY <1>17 DEF EndDump, procs, fields
<1>18. CASE WorkloadExits
  BY <1>18 DEF WorkloadExits, procs, fields
<1>19. CASE CallerGone
  BY <1>19 DEF CallerGone, procs, fields
<1>20. CASE UNCHANGED vars
  BY <1>20 DEF vars, procs, fields
<1> QED
  BY <1>1, <1>2, <1>3, <1>4, <1>5, <1>6, <1>7, <1>8, <1>9,
     <1>10, <1>11, <1>12, <1>13, <1>14, <1>15, <1>16, <1>17, <1>18, <1>19, <1>20 DEF Next, Handler

\* The flag keeps dumps away from a delivery nobody else disturbs.
LEMMA FrozenStep ==
    ASSUME TypeOK, Procs, Delivery, Flag, Frozen, [Next]_vars
    PROVE  Frozen'
<1> USE CallsAssumption DEF Calls, TypeOK, CallSteps, Procs, Delivery, Flag, Frozen, Recorded, Started, Alive
<1>1. ASSUME NEW i \in Calls, Restore(i)
     PROVE  Frozen'
  BY <1>1 DEF Restore, Step, DaemonEnds, closePidNsFd, procs, fields
<1>2. ASSUME NEW i \in Calls, Download(i)
     PROVE  Frozen'
  BY <1>2 DEF Download, Step, Return, procs, fields
<1>3. ASSUME NEW i \in Calls, StartPageServer(i)
     PROVE  Frozen'
  BY <1>3 DEF StartPageServer, Step, Return, procs, fields
<1>4. ASSUME NEW i \in Calls, waitForLazyPagesReady(i)
     PROVE  Frozen'
  BY <1>4 DEF waitForLazyPagesReady, Step, Return, DaemonEnds, procs, fields
<1>5. ASSUME NEW i \in Calls, StartRestore(i)
     PROVE  Frozen'
  BY <1>5 DEF StartRestore, Step, Return, procs, fields
<1>6. ASSUME NEW i \in Calls, CheckRestore(i)
     PROVE  Frozen'
  BY <1>6 DEF CheckRestore, Step, procExists, procs, fields
<1>7. ASSUME NEW i \in Calls, RecordRestore(i)
     PROVE  Frozen'
  BY <1>7 DEF RecordRestore, Step, procs, fields
<1>8. ASSUME NEW i \in Calls, AnswerRestore(i)
     PROVE  Frozen'
  BY <1>8 DEF AnswerRestore, Step, Return, procs, fields
<1>9. ASSUME NEW i \in Calls, Reap(i)
     PROVE  Frozen'
  BY <1>9 DEF Reap, closePidNsFd, criuOver, procs, fields
<1>10. ASSUME NEW i \in Calls, AllowDumps(i)
     PROVE  Frozen'
  BY <1>10 DEF AllowDumps, lazyPagesOver, procs, fields
<1>11. ASSUME NEW i \in Calls, DaemonServes(i)
     PROVE  Frozen'
  BY <1>11 DEF DaemonServes, procs, fields
<1>12. ASSUME NEW i \in Calls, DaemonCrashes(i)
     PROVE  Frozen'
  BY <1>12 DEF DaemonCrashes, DaemonEnds, procs, fields
<1>13. ASSUME NEW i \in Calls, TransferDone(i)
     PROVE  Frozen'
  BY <1>13 DEF TransferDone, procs, fields
<1>14. ASSUME NEW i \in Calls, RestoreSucceeds(i)
     PROVE  Frozen'
  BY <1>14 DEF RestoreSucceeds, procs, fields
<1>15. ASSUME NEW i \in Calls, RestoreFails(i)
     PROVE  Frozen'
  BY <1>15 DEF RestoreFails, procs, fields
<1>16. CASE StartDump
  BY <1>16 DEF StartDump, procs, fields
<1>17. CASE EndDump
  BY <1>17 DEF EndDump, procs, fields
<1>18. CASE WorkloadExits
  BY <1>18 DEF WorkloadExits, procs, fields
<1>19. CASE CallerGone
  BY <1>19 DEF CallerGone, procs, fields
<1>20. CASE UNCHANGED vars
  BY <1>20 DEF vars, procs, fields
<1> QED
  BY <1>1, <1>2, <1>3, <1>4, <1>5, <1>6, <1>7, <1>8, <1>9,
     <1>10, <1>11, <1>12, <1>13, <1>14, <1>15, <1>16, <1>17, <1>18, <1>19, <1>20 DEF Next, Handler

\* The descriptors that are to be open stay open if no call is less shared and
\* none is closed.
LEMMA OpenKept ==
    ASSUME Open, \A j \in Calls : Shared(j) => Shared(j)',
           \A j \in Calls : Started(j)' /\ criu'[j] # "exited" =>
             j \in fds' \/ (Started(j) /\ criu[j] # "exited" /\ (j \in fds => j \in fds'))
    PROVE  Open'
  BY DEF Open, Calls

\* So do they while the calls stand still.
LEMMA OpenSame ==
    ASSUME Open, UNCHANGED <<call, fds>>,
           \A j \in Calls : criu'[j] # "exited" => criu[j] # "exited"
    PROVE  Open'
  BY DEF Open, Shared, Started, Recorded, Calls

\* A descriptor is closed by its own reaper, another call's, or a later call.
LEMMA OpenStep ==
    ASSUME TypeOK, Held, Order, Procs, Open, [Next]_vars
    PROVE  Open'
<1> USE CallsAssumption DEF Calls, TypeOK, CallSteps, Held, Order, Procs, Open, Recorded, Started, Shared
<1>1. ASSUME NEW i \in Calls, Restore(i)
     PROVE  Open'
  BY <1>1 DEF Restore, Step, DaemonEnds, closePidNsFd, procs, fields
<1>2. ASSUME NEW i \in Calls, Download(i)
     PROVE  Open'
  <2>1. \A j \in Calls : Shared(j) => Shared(j)'
    BY <1>2, SharedKept DEF Download, Step, Return
  <2>2. \A j \in Calls : Started(j)' /\ criu'[j] # "exited" =>
          j \in fds' \/ (Started(j) /\ criu[j] # "exited" /\ (j \in fds => j \in fds'))
    BY <1>2 DEF Download, Step, Return, procs, fields
  <2> QED
    BY ONLY Open, <2>1, <2>2, OpenKept
<1>3. ASSUME NEW i \in Calls, StartPageServer(i)
     PROVE  Open'
  <2>0. /\ \A j \in Calls : Recorded(j) => Recorded(j)'
        /\ \A j \in Calls : call[j] # "none" => call'[j] # "none"
    BY <1>3 DEF StartPageServer, Step, Return
  <2>1. \A j \in Calls : Shared(j) => Shared(j)'
    BY ONLY <2>0, SharedKept
  <2>2. \A j \in Calls : Started(j)' /\ criu'[j] # "exited" =>
          j \in fds' \/ (Started(j) /\ criu[j] # "exited" /\ (j \in fds => j \in fds'))
    BY <1>3 DEF StartPageServer, Step, Return, procs, fields
  <2> QED
    BY ONLY Open, <2>1, <2>2, OpenKept
<1>4. ASSUME NEW i \in Calls, waitForLazyPagesReady(i)
     PROVE  Open'
  <2>1. \A j \in Calls : Shared(j) => Shared(j)'
    BY <1>4, SharedKept DEF waitForLazyPagesReady, Step, Return
  <2>2. \A j \in Calls : Started(j)' /\ criu'[j] # "exited" =>
          j \in fds' \/ (Started(j) /\ criu[j] # "exited" /\ (j \in fds => j \in fds'))
    BY <1>4 DEF waitForLazyPagesReady, Step, Return, procs, fields
  <2> QED
    BY ONLY Open, <2>1, <2>2, OpenKept
<1>5. ASSUME NEW i \in Calls, StartRestore(i)
     PROVE  Open'
  <2>1. \A j \in Calls : Shared(j) => Shared(j)'
    BY <1>5, SharedKept DEF StartRestore, Step, Return
  <2>2. \A j \in Calls : Started(j)' /\ criu'[j] # "exited" =>
          j \in fds' \/ (Started(j) /\ criu[j] # "exited" /\ (j \in fds => j \in fds'))
    BY <1>5 DEF StartRestore, Step, Return, procs, fields
  <2> QED
    BY ONLY Open, <2>1, <2>2, OpenKept
<1>6. ASSUME NEW i \in Calls, CheckRestore(i)
     PROVE  Open'
  BY <1>6 DEF CheckRestore, Step, procExists, procs, fields
<1>7. ASSUME NEW i \in Calls, RecordRestore(i)
     PROVE  Open'
  BY <1>7 DEF RecordRestore, Step, procs, fields
<1>8. ASSUME NEW i \in Calls, AnswerRestore(i)
     PROVE  Open'
  BY <1>8 DEF AnswerRestore, Step, Return, procs, fields
<1>9. ASSUME NEW i \in Calls, Reap(i)
     PROVE  Open'
  BY <1>9 DEF Reap, closePidNsFd, criuOver, procs, fields
<1>10. ASSUME NEW i \in Calls, AllowDumps(i)
     PROVE  Open'
  BY <1>10 DEF AllowDumps, lazyPagesOver, procs, fields
<1>11. ASSUME NEW i \in Calls, DaemonServes(i)
     PROVE  Open'
  <2>1. /\ UNCHANGED <<call, fds>>
        /\ \A j \in Calls : criu'[j] # "exited" => criu[j] # "exited"
    BY <1>11 DEF DaemonServes, procs, fields
  <2> QED
    BY ONLY Open, <2>1, OpenSame
<1>12. ASSUME NEW i \in Calls, DaemonCrashes(i)
     PROVE  Open'
  <2>1. /\ UNCHANGED <<call, fds>>
        /\ \A j \in Calls : criu'[j] # "exited" => criu[j] # "exited"
    BY <1>12 DEF DaemonCrashes, DaemonEnds, procs, fields
  <2> QED
    BY ONLY Open, <2>1, OpenSame
<1>13. ASSUME NEW i \in Calls, TransferDone(i)
     PROVE  Open'
  <2>1. /\ UNCHANGED <<call, fds>>
        /\ \A j \in Calls : criu'[j] # "exited" => criu[j] # "exited"
    BY <1>13 DEF TransferDone, procs, fields
  <2> QED
    BY ONLY Open, <2>1, OpenSame
<1>14. ASSUME NEW i \in Calls, RestoreSucceeds(i)
     PROVE  Open'
  <2>1. /\ UNCHANGED <<call, fds>>
        /\ \A j \in Calls : criu'[j] # "exited" => criu[j] # "exited"
    BY <1>14 DEF RestoreSucceeds, procs, fields
  <2> QED
    BY ONLY Open, <2>1, OpenSame
<1>15. ASSUME NEW i \in Calls, RestoreFails(i)
     PROVE  Open'
  <2>1. /\ UNCHANGED <<call, fds>>
        /\ \A j \in Calls : criu'[j] # "exited" => criu[j] # "exited"
    BY <1>15 DEF RestoreFails, procs, fields
  <2> QED
    BY ONLY Open, <2>1, OpenSame
<1>16. CASE StartDump
  <2>1. /\ UNCHANGED <<call, fds>>
        /\ \A j \in Calls : criu'[j] # "exited" => criu[j] # "exited"
    BY <1>16 DEF StartDump, procs, fields
  <2> QED
    BY ONLY Open, <2>1, OpenSame
<1>17. CASE EndDump
  <2>1. /\ UNCHANGED <<call, fds>>
        /\ \A j \in Calls : criu'[j] # "exited" => criu[j] # "exited"
    BY <1>17 DEF EndDump, procs, fields
  <2> QED
    BY ONLY Open, <2>1, OpenSame
<1>18. CASE WorkloadExits
  <2>1. /\ UNCHANGED <<call, fds>>
        /\ \A j \in Calls : criu'[j] # "exited" => criu[j] # "exited"
    BY <1>18 DEF WorkloadExits, procs, fields
  <2> QED
    BY ONLY Open, <2>1, OpenSame
<1>19. CASE CallerGone
  <2>1. /\ UNCHANGED <<call, fds>>
        /\ \A j \in Calls : criu'[j] # "exited" => criu[j] # "exited"
    BY <1>19 DEF CallerGone, procs, fields
  <2> QED
    BY ONLY Open, <2>1, OpenSame
<1>20. CASE UNCHANGED vars
  BY <1>20 DEF vars, procs, fields
<1> QED
  BY <1>1, <1>2, <1>3, <1>4, <1>5, <1>6, <1>7, <1>8, <1>9,
     <1>10, <1>11, <1>12, <1>13, <1>14, <1>15, <1>16, <1>17, <1>18, <1>19, <1>20 DEF Next, Handler

-----------------------------------------------------------------------------
\* The inductive invariant holds whatever calls follow each other or overlap.
THEOREM RestoreInvariance == Spec => []RestoreInv
<1>1. ASSUME Init PROVE RestoreInv
  <2>0. call = [i \in Calls |-> "none"] /\ daemon = call /\ criu = call
        /\ reaper = call /\ waiter = call
    BY <1>1 DEF Init
  <2>1. TypeOK
    <3>1. call \in [Calls -> CallSteps]
      BY <2>0 DEF CallSteps
    <3>2. /\ daemon \in [Calls -> {"none", "starting", "serving", "exited"}]
          /\ criu \in [Calls -> {"none", "running", "waiting", "exited"}]
      BY <2>0
    <3>3. /\ reaper \in [Calls -> {"none", "waiting", "done"}]
          /\ waiter \in [Calls -> {"none", "waiting", "done"}]
      BY <2>0
    <3>4. logReady \in BOOLEAN /\ lazyPagesActive \in BOOLEAN /\ dumping \in BOOLEAN
      BY <1>1 DEF Init
    <3>5. 0 \in 0..MaxCalls
      BY CallsAssumption
    <3> QED
      BY <1>1, <3>1, <3>2, <3>3, <3>4, <3>5 DEF Init, TypeOK
  <2>2. Held /\ Order /\ Procs
    BY <1>1 DEF Init, Held, Order, Procs, Recorded, Started
  <2>3. Delivery /\ Flag /\ Frozen /\ Open
    BY <1>1 DEF Init, Delivery, Flag, Frozen, Open, Recorded, Started
  <2> QED
    BY <2>1, <2>2, <2>3 DEF RestoreInv
<1>2. RestoreInv /\ [Next]_vars => RestoreInv'
  BY TypeStep, HeldStep, OrderStep, ProcsStep, DeliveryStep, FlagStep, FrozenStep,
     OpenStep DEF RestoreInv
<1> QED
  BY <1>1, <1>2, PTL DEF Spec

\* Every variable of the target's agent keeps its type, and the field for the
\* pid namespace never names a closed descriptor (server.go:429, 484).
THEOREM RestoreTypeCorrect == Spec => []TypeOK
BY RestoreInvariance, PTL DEF RestoreInv

\* The gate at server.go:172 and 246 keeps dumps from freezing a process whose
\* pages a daemon still delivers, unless calls mixed.
THEOREM NeverFrozenWhileLazy == Spec => []NoFreezeWhileLazy
<1>1. ASSUME RestoreInv, Undisturbed, dumping, pages = "some"
      PROVE  FALSE
  <2>1. source \in Calls /\ Alive(source) /\ daemon[source] # "none"
    BY <1>1, CallsAssumption DEF RestoreInv, TypeOK, Delivery, Alive, Calls
  <2>2. call[source] # "none"
    BY <1>1, <2>1 DEF RestoreInv, Procs
  <2>3. source = workload
    BY <1>1, <2>1, <2>2 DEF Undisturbed
  <2>4. \A j \in Calls : j # workload => ~Recorded(j)
    BY <1>1 DEF Undisturbed, Recorded
  <2> QED
    BY <1>1, <2>3, <2>4 DEF RestoreInv, Frozen
<1>2. RestoreInv => NoFreezeWhileLazy
  BY <1>1 DEF NoFreezeWhileLazy
<1> QED
  BY <1>2, RestoreInvariance, PTL

\* The descriptor of the pid namespace stays open as long as the process that
\* was restored into it, unless calls mixed.
THEOREM NsFdAlwaysHeld == Spec => []NsFdHeld
<1>1. RestoreInv => NsFdHeld
  BY CallsAssumption DEF RestoreInv, NsFdHeld, Undisturbed, Delivery, Open, Shared, TypeOK,
     Recorded, Started, Calls
<1> QED
  BY <1>1, RestoreInvariance, PTL
=============================================================================
