CONSTANTS
    NTask = 2
    SyscallTasks = {1}
    StackFrames = 10
    Interval = 13
    DiskLatency = 2
    MaxKeys = 1
    EarlyKeys = FALSE
SPECIFICATION Spec
INVARIANTS
    TypeOK
    TimerOnlyInUser
    ContextIntegrity
    OnlyDeadFramesOverrun
    PreemptSavesRunner
    SyscallTruthful
    NoTrapWithoutSaveArea
PROPERTIES
    ImplementsRoundRobin
    ConsoleServed
