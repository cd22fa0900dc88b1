SPECIFICATION Spec
CONSTANTS
    Capacity = 2
    KernelCapacity = 1
    MaxDatagrams = 3
    MaxMessages = 3
    WakeUp = WakeUp
    Aborted = Aborted
    Failed = Failed
INVARIANTS
    NoNullDereference
    WakeUpNeverQueued
    InOrder
    QuietAfterStop
PROPERTIES
    StopCompletes
    QueuesDrain
CHECK_DEADLOCK FALSE
