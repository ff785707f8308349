CONSTANTS
    NTask = 2
    SyscallTasks = {1}
    StackFrames = 12
    Interval = 14
    DiskLatency = 2
    MaxKeys = 0
    EarlyKeys = FALSE
SPECIFICATION Spec
INVARIANT StacksLast
