CONSTANTS
    HEAP_START = 5
    MEMORY_END = 526080
    Sizes = {513}
SPECIFICATION Spec
INVARIANT BlockHoldsSize
