CONSTANTS
    NTask3 = 3
    Word4 = 64
    Interval4 = 9
    Lag4 = 2
    Horizon4 = 50
    NTask5 = 2
    Plain6 <- MCPlain6
    Counter6 = 1
    Printer6 = 2
    Slice6 = 6
    Bytes = 1
    OutSize = 8
    Ints <- MCInts
    Text <- MCText
    Ticks = 2
    Keys = {"a", "cr"}
    CR = "cr"
    MaxTyped = 3
    NUM8 = 8
    PGSIZE8 = 4096
    Pages8 = 40960
    Offered8 <- MCOffered8
    Maxima8 = {0, 4, 1024}
    Reads8 = 2
    HEAP_START9 = 5
    MEMORY_END9 = 525568
    Sizes9 = {0, 257}
    Size = 6
SPECIFICATION Spec
INVARIANTS
    TypeOK
    YieldReturns
    TimerHitsLoopOnly
    TrapLosesOnlyT6
    OnlyEntryBreaksLock
    SectionCounts
    LinePrinted
    PutsStaysInside
    EchoExact
    RingsAgree
    MoveKeepsBytes
PROPERTIES
    CoopTakesTurns
    TicksSpaced
    SwitchKeepsCalleeSaved
    LockReleased
    ReceiverDrained
    ImplementsAlloc
    TesterReturns
