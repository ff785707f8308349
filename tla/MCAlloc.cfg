CONSTANTS
    HEAP_START = 5
    MEMORY_END = 526080
    Sizes = {0, 256, 257, 771}
SPECIFICATION Spec
INVARIANTS
    TypeOK
    DescriptorsExact
    BlocksApart
    BlocksInPool
    RefusesOnlyWhenFull
PROPERTY ImplementsHeap
