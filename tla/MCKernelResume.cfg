CONSTANTS
    NTask = 2
    SyscallTasks = {1}
    StackFrames = 10
    Interval = 14
    DiskLatency = 2
    MaxKeys = 1
    EarlyKeys = FALSE
SPECIFICATION Spec
PROPERTY ResumeWhereInterrupted
