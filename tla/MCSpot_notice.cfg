SPECIFICATION Spec
CONSTANTS
    Pods = {p1, p2}
    MaxEdits = 2
INVARIANT CordonBeforeTrigger
PROPERTIES FirstTriggerStays NoTriggerWhileDeleted AllTriggered
