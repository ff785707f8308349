CONSTANTS
    HEAP_START = 5
    MEMORY_END = 526080
    Sizes = {1285}
SPECIFICATION Spec
INVARIANT AllPagesAllocatable
