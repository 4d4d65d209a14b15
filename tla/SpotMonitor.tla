---------------------------- MODULE SpotMonitor ----------------------------
(***************************************************************************)
(* The node monitor of one spot node: pkg/monitor/spot_monitor.go and its  *)
(* process, cmd/node-monitor/main.go, a container of a DaemonSet           *)
(* (config/manager/manager.yaml): whenever it ends, it is started again.   *)
(*                                                                         *)
(* Unlike the controller the monitor reads uncached, but it updates the    *)
(* copies it has read: the node's between Get and Update, each pod's       *)
(* between List and Update.  The API server refuses an update of a copy    *)
(* that is not the newest version any more, and kubelets, users and the    *)
(* controller write the same objects.  As elsewhere a resourceVersion is   *)
(* one bit: nodeOK, and membership of podOK.                               *)
(*                                                                         *)
(* The pods are the ones with the label the monitor selects.  Nobody       *)
(* uncordons the node: it is about to be reclaimed.                        *)
(***************************************************************************)
EXTENDS Naturals

CONSTANTS
    Pods,      \* migratable pods that are or come to be on the node
    MaxEdits   \* bound: edits by others, failed calls, kills of the monitor

ASSUME SpotAssumptions == MaxEdits \in Nat

VARIABLES
    provider,  \* the cloud the node is in
    cloudType, \* flag --cloud-type; "" if it is not given
    notice,    \* what the provider's metadata server announces
    cordoned,  \* node.Spec.Unschedulable
    nodeOK,    \* the monitor's copy of the node is the newest version
    st,        \* pod -> state
    mark,      \* pod -> annotations: none, manual, or time of the detection
    podOK,     \* pods whose listed copy is the newest version
    pc,        \* step of the monitor
    todo,      \* listed pods still to be annotated
    now,       \* time stamp of this handling; differs from that of the last
    edits      \* how much of MaxEdits is used

cloud == <<provider, cloudType>>
vars  == <<cloud, notice, cordoned, nodeOK, st, mark, podOK, pc, todo, now, edits>>

Providers == {"aws", "gcp", "azure"}
Times == {"t0", "t1"}

-----------------------------------------------------------------------------
(***************************************************************************)
(* The metadata servers.                                                   *)
(***************************************************************************)
\* Azure announces maintenance in the same document; the other providers'
\* endpoints tell of an interruption only.
Announced == IF provider = "azure" THEN {"Terminate", "Preempt", "Reboot"}
             ELSE {"Preempt"}

parseAzureScheduledEvents == notice \cap {"Terminate", "Preempt"} # {}

\* What the check of cloud c finds out; on another cloud, nothing.
check(c) ==
    /\ c = provider
    /\ IF c = "azure" THEN parseAzureScheduledEvents ELSE notice # {}

\* One check, or all of them if the type is not known.
checkSpotInterruption ==
    IF cloudType \in Providers THEN check(cloudType) ELSE \E c \in Providers : check(c)

-----------------------------------------------------------------------------
(***************************************************************************)
(* The monitor.                                                            *)
(***************************************************************************)
Edit == edits < MaxEdits /\ edits' = edits + 1

\* handleSpotInterruption returns an error: the next tick tries again.
Failed == pc' = "poll" /\ UNCHANGED <<cordoned, nodeOK, podOK, todo, now>>

\* A tick of Start that finds the interruption.  (One that does not, or that
\* gets no answer, changes nothing.)
Detect ==
    /\ pc = "poll" /\ checkSpotInterruption
    /\ pc' = "get"
    /\ UNCHANGED <<cloud, notice, cordoned, nodeOK, st, mark, podOK, todo, now, edits>>

\* MUTANT of afterGet: a node that is cordoned already counts as handled.
handledIfCordoned == IF cordoned THEN "exited" ELSE "cordon"

\* A node that is unschedulable already is not written again.
afterGet == IF cordoned THEN "list" ELSE "cordon"

getNode ==
    /\ pc = "get"
    /\ \/ /\ pc' = afterGet /\ nodeOK' = TRUE
          /\ UNCHANGED <<cordoned, podOK, todo, now, edits>>
       \/ Edit /\ Failed
    /\ UNCHANGED <<cloud, notice, st, mark>>

\* MUTANT of cordonFailed: the pods are triggered although the node is open.
triggerAnyway == pc' = "list" /\ UNCHANGED <<cordoned, nodeOK, podOK, todo, now>>

cordonFailed == Failed

cordonNode ==
    /\ pc = "cordon"
    /\ \/ /\ nodeOK
          /\ cordoned' = TRUE /\ pc' = "list"
          /\ UNCHANGED <<nodeOK, podOK, todo, now, edits>>
       \/ ~nodeOK /\ cordonFailed /\ UNCHANGED edits
       \/ Edit /\ cordonFailed
    /\ UNCHANGED <<cloud, notice, st, mark>>

\* MUTANT of toTrigger: pods that have been triggered before are not skipped.
triggeredToo == {p \in Pods : st[p] = "here"}

\* The pods the loop does not skip.
toTrigger == {p \in Pods : st[p] = "here" /\ mark[p] = "none"}

listPods ==
    /\ pc = "list"
    /\ \/ /\ pc' = "mark"
          /\ todo' = toTrigger /\ podOK' = Pods
          /\ now' = CHOOSE t \in Times : t # now
          /\ UNCHANGED <<cordoned, nodeOK, edits>>
       \/ Edit /\ Failed
    /\ UNCHANGED <<cloud, notice, st, mark>>

\* MUTANT of applied: an update that ignores the version it started from.
appliedAnyway(p) == p \in Pods

applied(p) == p \in podOK

\* One pod's update; whatever its error, the loop goes on.
triggerPod(p) ==
    /\ pc = "mark" /\ p \in todo
    /\ todo' = todo \ {p}
    /\ \/ applied(p) /\ mark' = [mark EXCEPT ![p] = now] /\ UNCHANGED edits
       \/ ~applied(p) /\ UNCHANGED <<mark, edits>>
       \/ Edit /\ UNCHANGED mark
    /\ UNCHANGED <<cloud, notice, cordoned, nodeOK, st, podOK, pc, now>>

\* Start returns after a handled interruption, and with it the process.
Handled ==
    /\ pc = "mark" /\ todo = {}
    /\ pc' = "exited"
    /\ UNCHANGED <<cloud, notice, cordoned, nodeOK, st, mark, podOK, todo, now, edits>>

\* The process is killed, or told to stop.
Killed ==
    /\ pc # "exited" /\ Edit
    /\ pc' = "exited" /\ todo' = {}
    /\ UNCHANGED <<cloud, notice, cordoned, nodeOK, st, mark, podOK, now>>

\* The kubelet starts the container again.
Restarted ==
    /\ pc = "exited"
    /\ pc' = "poll"
    /\ UNCHANGED <<cloud, notice, cordoned, nodeOK, st, mark, podOK, todo, now, edits>>

-----------------------------------------------------------------------------
(***************************************************************************)
(* The others.                                                             *)
(***************************************************************************)
Announce(n) ==
    /\ n \in Announced \ notice
    /\ notice' = notice \cup {n}
    /\ UNCHANGED <<cloud, cordoned, nodeOK, st, mark, podOK, pc, todo, now, edits>>

\* The scheduler, whose view of the node may be old, binds a pod to it.
Bound(p) ==
    /\ st[p] = "elsewhere"
    /\ st' = [st EXCEPT ![p] = "here"] /\ podOK' = podOK \ {p}
    /\ UNCHANGED <<cloud, notice, cordoned, nodeOK, mark, pc, todo, now, edits>>

\* The controller, after a migration, or a user deletes a pod.
Deleted(p) ==
    /\ st[p] = "here"
    /\ st' = [st EXCEPT ![p] = "terminating"] /\ podOK' = podOK \ {p}
    /\ UNCHANGED <<cloud, notice, cordoned, nodeOK, mark, pc, todo, now, edits>>

Gone(p) ==
    /\ st[p] = "terminating"
    /\ st' = [st EXCEPT ![p] = "gone"] /\ podOK' = podOK \ {p}
    /\ UNCHANGED <<cloud, notice, cordoned, nodeOK, mark, pc, todo, now, edits>>

\* Somebody writes another field of a pod.
PodEdited(p) ==
    /\ st[p] \in {"here", "terminating"} /\ Edit
    /\ podOK' = podOK \ {p}
    /\ UNCHANGED <<cloud, notice, cordoned, nodeOK, st, mark, pc, todo, now>>

\* A user requests the migration of a pod by hand.
UserTriggers(p) ==
    /\ st[p] = "here" /\ mark[p] = "none"
    /\ mark' = [mark EXCEPT ![p] = "manual"] /\ podOK' = podOK \ {p}
    /\ UNCHANGED <<cloud, notice, cordoned, nodeOK, st, pc, todo, now, edits>>

\* The kubelet writes the node's status, or a user cordons the node.
NodeEdited ==
    /\ Edit
    /\ nodeOK' = FALSE /\ cordoned' \in {cordoned, TRUE}
    /\ UNCHANGED <<cloud, notice, st, mark, podOK, pc, todo, now>>

-----------------------------------------------------------------------------
Init ==
    /\ provider \in Providers /\ cloudType \in {provider, ""}
    /\ notice = {} /\ cordoned = FALSE /\ nodeOK = FALSE
    /\ st \in [Pods -> {"elsewhere", "here"}]
    /\ mark = [p \in Pods |-> "none"]
    /\ podOK = {} /\ todo = {}
    /\ pc = "poll" /\ now = "t0" /\ edits = 0

Monitor ==
    \/ Detect \/ getNode \/ cordonNode \/ listPods \/ Handled
    \/ \E p \in Pods : triggerPod(p)

Others ==
    \/ Killed \/ Restarted \/ NodeEdited
    \/ \E n \in Announced : Announce(n)
    \/ \E p \in Pods : Bound(p) \/ Deleted(p) \/ Gone(p) \/ PodEdited(p)
                           \/ UserTriggers(p)

Next == Monitor \/ Others

\* The monitor keeps running and the metadata server answers it some time;
\* the kubelet restarts it.
Fairness == WF_vars(Monitor) /\ WF_vars(Restarted)

Spec == Init /\ [][Next]_vars /\ Fairness

-----------------------------------------------------------------------------
(***************************************************************************)
(* Properties.                                                             *)
(***************************************************************************)
\* Every variable holds a value of the code's type for it.
TypeOK ==
    /\ provider \in Providers /\ cloudType \in Providers \cup {""}
    /\ notice \subseteq {"Terminate", "Preempt", "Reboot"}
    /\ cordoned \in BOOLEAN /\ nodeOK \in BOOLEAN
    /\ st \in [Pods -> {"elsewhere", "here", "terminating", "gone"}]
    /\ mark \in [Pods -> {"none", "manual"} \cup Times]
    /\ podOK \subseteq Pods /\ todo \subseteq Pods
    /\ pc \in {"poll", "get", "cordon", "list", "mark", "exited"}
    /\ now \in Times /\ edits \in Nat

\* handleSpotInterruption triggers a migration only on a node it knows to be
\* cordoned, and only for an interruption: the target of the migration is not
\* scheduled onto the node that is going away, whoever else writes the node.
CordonBeforeTrigger ==
    \A p \in Pods : mark[p] \in Times =>
        cordoned /\ notice \cap {"Terminate", "Preempt"} # {}

\* A pod's trigger - reason and time of the first detection, or a user's own
\* request - is never overwritten, although the process ends after each
\* handling, starts again and finds the same interruption again.
FirstTriggerStays ==
    [][\A p \in Pods : mark[p] # "none" => mark'[p] = mark[p]]_vars

\* The monitor never asks for the migration of a pod that is being deleted,
\* also if the deletion comes between its list and its update.
NoTriggerWhileDeleted ==
    [][\A p \in Pods : st[p] # "here" => mark'[p] = mark[p]]_vars

\* Every pod on an interrupted node is triggered or leaves the node: one whose
\* update failed, or that came to the node after the list, is found when the
\* restarted process handles the interruption anew.
AllTriggered ==
    \A p \in Pods :
        checkSpotInterruption /\ st[p] = "here" ~> mark[p] # "none" \/ st[p] # "here"
=============================================================================
