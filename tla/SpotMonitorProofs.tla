------------------------- MODULE SpotMonitorProofs -------------------------
(***************************************************************************)
(* Proofs about SpotMonitor, for every set of pods and any number of       *)
(* edits, failures and restarts.                                           *)
(***************************************************************************)
EXTENDS SpotMonitor, TLAPS

Interrupted == notice \cap {"Terminate", "Preempt"} # {}

\* The monitor lists and annotates only after it has found the interruption
\* and the node was found or made unschedulable.
Known ==
    /\ pc \in {"get", "cordon", "list", "mark"} => Interrupted
    /\ pc \in {"list", "mark"} => cordoned

\* As long as the copy of a pod that is still to be annotated is the newest
\* version, the pod is as it was when the loop decided not to skip it.
CopiesTrue ==
    pc = "mark" => \A p \in todo \cap podOK : st[p] = "here" /\ mark[p] = "none"

\* Each provider's metadata server announces what that provider does.
Genuine == notice \subseteq Announced

IInv == TypeOK /\ Genuine /\ Known /\ CopiesTrue /\ CordonBeforeTrigger

-----------------------------------------------------------------------------
\* What a check reports is an interruption, on every cloud and for either way
\* of giving its type.
LEMMA CheckedIsInterrupted ==
    ASSUME TypeOK, Genuine, checkSpotInterruption
    PROVE  Interrupted
<1>1. PICK c \in Providers : check(c)
  BY DEF checkSpotInterruption
<1>2. CASE provider = "azure"
  BY <1>1, <1>2 DEF check, parseAzureScheduledEvents, Interrupted
<1>3. CASE provider # "azure"
  BY <1>1, <1>3 DEF check, Genuine, Announced, Interrupted
<1> QED
  BY <1>2, <1>3

\* The count of edits stays a number.
LEMMA EditsStep == ASSUME TypeOK, [Next]_vars PROVE edits' \in Nat
<1>1. edits' = edits \/ Edit
  BY DEF Next, Monitor, Others, vars, Detect, getNode, cordonNode, listPods,
     triggerPod, Handled, Killed, Restarted, NodeEdited, Announce, Bound, Deleted,
     Gone, PodEdited, UserTriggers
<1>2. edits \in Nat
  BY DEF TypeOK
<1> QED
  BY <1>1, <1>2 DEF Edit

\* The types are kept by every step.
LEMMA TypeStep == ASSUME TypeOK, [Next]_vars PROVE TypeOK'
<1>0. edits' \in Nat
  BY EditsStep
<1> USE <1>0 DEF TypeOK, cloud, Times
<1>1. CASE Detect
  BY <1>1 DEF Detect
<1>2. CASE getNode
  BY <1>2 DEF getNode, afterGet, Failed
<1>3. CASE cordonNode
  BY <1>3 DEF cordonNode, cordonFailed, Failed
<1>4. CASE listPods
  <2>1. now' \in Times
    BY <1>4 DEF listPods, Failed
  <2> QED
    BY <1>4, <2>1 DEF listPods, toTrigger, Failed
<1>5. CASE Handled
  BY <1>5 DEF Handled
<1>6. CASE Killed
  BY <1>6 DEF Killed
<1>7. CASE Restarted
  BY <1>7 DEF Restarted
<1>8. CASE NodeEdited
  BY <1>8 DEF NodeEdited
<1>9. ASSUME NEW x \in Announced, Announce(x) PROVE TypeOK'
  BY <1>9 DEF Announce, Announced
<1>10. ASSUME NEW q \in Pods, triggerPod(q) PROVE TypeOK'
  BY <1>10 DEF triggerPod, applied
<1>11. ASSUME NEW q \in Pods, Bound(q) PROVE TypeOK'
  BY <1>11 DEF Bound
<1>12. ASSUME NEW q \in Pods, Deleted(q) PROVE TypeOK'
  BY <1>12 DEF Deleted
<1>13. ASSUME NEW q \in Pods, Gone(q) PROVE TypeOK'
  BY <1>13 DEF Gone
<1>14. ASSUME NEW q \in Pods, PodEdited(q) PROVE TypeOK'
  BY <1>14 DEF PodEdited
<1>15. ASSUME NEW q \in Pods, UserTriggers(q) PROVE TypeOK'
  BY <1>15 DEF UserTriggers
<1>16. CASE UNCHANGED vars
  BY <1>16 DEF vars
<1> QED
  BY <1>1, <1>2, <1>3, <1>4, <1>5, <1>6, <1>7, <1>8, <1>9, <1>10, <1>11,
     <1>12, <1>13, <1>14, <1>15, <1>16
     DEF Next, Monitor, Others

\* What is announced stays announced, by the provider of the node.
LEMMA NoticeStep ==
    ASSUME Genuine, [Next]_vars
    PROVE  Genuine' /\ (Interrupted => Interrupted')
<1>1. /\ provider' = provider
      /\ notice' = notice \/ \E n \in Announced : notice' = notice \cup {n}
  BY DEF Next, Monitor, Others, vars, cloud, Detect, getNode, cordonNode, listPods,
     triggerPod, Handled, Killed, Restarted, NodeEdited, Announce, Bound, Deleted,
     Gone, PodEdited, UserTriggers
<1>2. Announced' = Announced
  BY <1>1 DEF Announced
<1> QED
  BY <1>1, <1>2 DEF Genuine, Interrupted

\* The monitor goes on only with what it has made sure of.
LEMMA KnownStep == ASSUME IInv, [Next]_vars PROVE Known'
<1> USE DEF IInv, Known, cloud
<1>0. Interrupted => Interrupted'
  BY NoticeStep
<1>1. CASE Detect
  <2>1. Interrupted'
    BY <1>0, <1>1, CheckedIsInterrupted DEF Detect
  <2> QED
    BY <1>1, <2>1 DEF Detect
<1>2. CASE getNode
  BY <1>0, <1>2 DEF getNode, afterGet, Failed
<1>3. CASE cordonNode
  BY <1>0, <1>3 DEF cordonNode, cordonFailed, Failed
<1>4. CASE listPods
  BY <1>0, <1>4 DEF listPods, toTrigger, Failed
<1>5. CASE Handled
  BY <1>0, <1>5 DEF Handled
<1>6. CASE Killed
  BY <1>0, <1>6 DEF Killed
<1>7. CASE Restarted
  BY <1>0, <1>7 DEF Restarted
<1>8. CASE NodeEdited
  <2>1. cordoned => cordoned'
    BY <1>8, Zenon DEF NodeEdited
  <2> QED
    BY <1>0, <1>8, <2>1 DEF NodeEdited
<1>9. ASSUME NEW x \in Announced, Announce(x) PROVE Known'
  BY <1>0, <1>9 DEF Announce, Announced
<1>10. ASSUME NEW q \in Pods, triggerPod(q) PROVE Known'
  BY <1>0, <1>10 DEF triggerPod, applied
<1>11. ASSUME NEW q \in Pods, Bound(q) PROVE Known'
  BY <1>0, <1>11 DEF Bound
<1>12. ASSUME NEW q \in Pods, Deleted(q) PROVE Known'
  BY <1>0, <1>12 DEF Deleted
<1>13. ASSUME NEW q \in Pods, Gone(q) PROVE Known'
  BY <1>0, <1>13 DEF Gone
<1>14. ASSUME NEW q \in Pods, PodEdited(q) PROVE Known'
  BY <1>0, <1>14 DEF PodEdited
<1>15. ASSUME NEW q \in Pods, UserTriggers(q) PROVE Known'
  BY <1>0, <1>15 DEF UserTriggers
<1>16. CASE UNCHANGED vars
  BY <1>0, <1>16 DEF vars
<1> QED
  BY <1>1, <1>2, <1>3, <1>4, <1>5, <1>6, <1>7, <1>8, <1>9, <1>10, <1>11,
     <1>12, <1>13, <1>14, <1>15, <1>16
     DEF Next, Monitor, Others

\* A copy that is still the newest version is still true.
LEMMA CopiesStep == ASSUME IInv, [Next]_vars PROVE CopiesTrue'
<1> USE DEF IInv, TypeOK, CopiesTrue, cloud
<1>1. CASE Detect
  BY <1>1 DEF Detect
<1>2. CASE getNode
  BY <1>2 DEF getNode, afterGet, Failed
<1>3. CASE cordonNode
  BY <1>3 DEF cordonNode, cordonFailed, Failed
<1>4. CASE listPods
  BY <1>4 DEF listPods, toTrigger, Failed
<1>5. CASE Handled
  BY <1>5 DEF Handled
<1>6. CASE Killed
  BY <1>6 DEF Killed
<1>7. CASE Restarted
  BY <1>7 DEF Restarted
<1>8. CASE NodeEdited
  BY <1>8 DEF NodeEdited
<1>9. ASSUME NEW x \in Announced, Announce(x) PROVE CopiesTrue'
  BY <1>9 DEF Announce, Announced
<1>10. ASSUME NEW q \in Pods, triggerPod(q) PROVE CopiesTrue'
  BY <1>10 DEF triggerPod, applied
<1>11. ASSUME NEW q \in Pods, Bound(q) PROVE CopiesTrue'
  BY <1>11 DEF Bound
<1>12. ASSUME NEW q \in Pods, Deleted(q) PROVE CopiesTrue'
  BY <1>12 DEF Deleted
<1>13. ASSUME NEW q \in Pods, Gone(q) PROVE CopiesTrue'
  BY <1>13 DEF Gone
<1>14. ASSUME NEW q \in Pods, PodEdited(q) PROVE CopiesTrue'
  BY <1>14 DEF PodEdited
<1>15. ASSUME NEW q \in Pods, UserTriggers(q) PROVE CopiesTrue'
  BY <1>15 DEF UserTriggers
<1>16. CASE UNCHANGED vars
  BY <1>16 DEF vars
<1> QED
  BY <1>1, <1>2, <1>3, <1>4, <1>5, <1>6, <1>7, <1>8, <1>9, <1>10, <1>11,
     <1>12, <1>13, <1>14, <1>15, <1>16
     DEF Next, Monitor, Others

\* The annotation of a pod is written on a cordoned node.
LEMMA CordonStep == ASSUME IInv, [Next]_vars PROVE CordonBeforeTrigger'
<1> USE DEF IInv, TypeOK, CordonBeforeTrigger, Interrupted, cloud
<1>1. CASE Detect
  BY <1>1 DEF Detect
<1>2. CASE getNode
  BY <1>2 DEF getNode, afterGet, Failed
<1>3. CASE cordonNode
  BY <1>3 DEF cordonNode, cordonFailed, Failed
<1>4. CASE listPods
  BY <1>4 DEF listPods, toTrigger, Failed
<1>5. CASE Handled
  BY <1>5 DEF Handled
<1>6. CASE Killed
  BY <1>6 DEF Killed
<1>7. CASE Restarted
  BY <1>7 DEF Restarted
<1>8. CASE NodeEdited
  <2>1. cordoned => cordoned'
    BY <1>8, Zenon DEF NodeEdited
  <2> QED
    BY <1>8, <2>1 DEF NodeEdited
<1>9. ASSUME NEW x \in Announced, Announce(x) PROVE CordonBeforeTrigger'
  BY <1>9 DEF Announce, Announced
<1>10. ASSUME NEW q \in Pods, triggerPod(q) PROVE CordonBeforeTrigger'
  <2>1. cordoned' /\ Interrupted'
    BY <1>10 DEF triggerPod, Known
  <2> QED
    BY <2>1
<1>11. ASSUME NEW q \in Pods, Bound(q) PROVE CordonBeforeTrigger'
  BY <1>11 DEF Bound
<1>12. ASSUME NEW q \in Pods, Deleted(q) PROVE CordonBeforeTrigger'
  BY <1>12 DEF Deleted
<1>13. ASSUME NEW q \in Pods, Gone(q) PROVE CordonBeforeTrigger'
  BY <1>13 DEF Gone
<1>14. ASSUME NEW q \in Pods, PodEdited(q) PROVE CordonBeforeTrigger'
  BY <1>14 DEF PodEdited
<1>15. ASSUME NEW q \in Pods, UserTriggers(q) PROVE CordonBeforeTrigger'
  <2>1. \A p \in Pods : mark'[p] \in Times => mark[p] \in Times
    BY <1>15 DEF UserTriggers, Times
  <2> QED
    BY <1>15, <2>1 DEF UserTriggers
<1>16. CASE UNCHANGED vars
  BY <1>16 DEF vars
<1> QED
  BY <1>1, <1>2, <1>3, <1>4, <1>5, <1>6, <1>7, <1>8, <1>9, <1>10, <1>11,
     <1>12, <1>13, <1>14, <1>15, <1>16
     DEF Next, Monitor, Others

LEMMA Inductive == ASSUME IInv, [Next]_vars PROVE IInv'
<1> QED
  BY TypeStep, NoticeStep, KnownStep, CopiesStep, CordonStep DEF IInv

\* IInv holds throughout.
THEOREM Invariance == Spec => []IInv
<1>1. Init => IInv
  <2>1. Init => TypeOK
    <3>1. Init => provider \in Providers /\ cloudType \in Providers \cup {""}
      BY DEF Init
    <3>2. Init => st \in [Pods -> {"elsewhere", "here", "terminating", "gone"}]
      BY DEF Init
    <3>3. Init => now \in Times /\ edits \in Nat
      <4>1. Init => now = "t0" /\ edits = 0
        BY Zenon DEF Init
      <4> QED
        BY <4>1 DEF Times
    <3>4. Init => mark \in [Pods -> {"none", "manual"} \cup Times]
      BY DEF Init
    <3>5. Init => /\ notice \subseteq {"Terminate", "Preempt", "Reboot"}
                  /\ podOK \subseteq Pods /\ todo \subseteq Pods
      BY DEF Init
    <3>6. Init => pc \in {"poll", "get", "cordon", "list", "mark", "exited"}
      BY DEF Init
    <3>7. Init => cordoned \in BOOLEAN /\ nodeOK \in BOOLEAN
      BY Zenon DEF Init
    <3> QED
      BY <3>1, <3>2, <3>3, <3>4, <3>5, <3>6, <3>7, Zenon DEF TypeOK
  <2>2. Init => Genuine /\ Known /\ CopiesTrue
    BY DEF Init, Genuine, Known, CopiesTrue
  <2>3. Init => CordonBeforeTrigger
    BY DEF Init, CordonBeforeTrigger, Times
  <2> QED
    BY <2>1, <2>2, <2>3 DEF IInv
<1>2. IInv /\ [Next]_vars => IInv'
  BY Inductive
<1> QED
  BY <1>1, <1>2, PTL DEF Spec

\* Every variable has its type, and a migration is triggered only for an
\* interruption and on a cordoned node.
THEOREM SpotSafe == Spec => [](TypeOK /\ CordonBeforeTrigger)
<1>1. IInv => TypeOK /\ CordonBeforeTrigger
  BY DEF IInv
<1> QED
  BY <1>1, Invariance, PTL

-----------------------------------------------------------------------------
(***************************************************************************)
(* The action properties: only triggerPod and UserTriggers write an        *)
(* annotation, and both write that of a pod that has none and is not being *)
(* deleted - for triggerPod because its copy is the newest version.        *)
(***************************************************************************)
LEMMA Marked ==
    ASSUME IInv, Next
    PROVE  \A p \in Pods : mark'[p] # mark[p] => mark[p] = "none" /\ st[p] = "here"
<1>1. ASSUME NEW q \in Pods, triggerPod(q)
      PROVE  \A p \in Pods : mark'[p] # mark[p] => mark[p] = "none" /\ st[p] = "here"
  BY <1>1 DEF triggerPod, applied, IInv, TypeOK, CopiesTrue
<1>2. ASSUME NEW q \in Pods, UserTriggers(q)
      PROVE  \A p \in Pods : mark'[p] # mark[p] => mark[p] = "none" /\ st[p] = "here"
  BY <1>2 DEF UserTriggers, IInv, TypeOK
<1>3. \/ mark' = mark
      \/ \E q \in Pods : triggerPod(q) \/ UserTriggers(q)
  BY DEF Next, Monitor, Others, Detect, getNode, cordonNode, listPods, Handled,
     Killed, Restarted, NodeEdited, Announce, Bound, Deleted, Gone, PodEdited
<1> QED
  BY <1>1, <1>2, <1>3

\* No trigger is ever overwritten.
THEOREM TriggerStays == Spec => FirstTriggerStays
<1>1. IInv /\ [Next]_vars =>
        [\A p \in Pods : mark[p] # "none" => mark'[p] = mark[p]]_vars
  BY Marked
<1> QED
  BY <1>1, Invariance, PTL DEF Spec, FirstTriggerStays

\* No pod is triggered once it is being deleted.
THEOREM DeletedNotTriggered == Spec => NoTriggerWhileDeleted
<1>1. IInv /\ [Next]_vars =>
        [\A p \in Pods : st[p] # "here" => mark'[p] = mark[p]]_vars
  BY Marked
<1> QED
  BY <1>1, Invariance, PTL DEF Spec, NoTriggerWhileDeleted
=============================================================================
