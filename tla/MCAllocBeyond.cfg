CONSTANTS
    HEAP_START = 5
    MEMORY_END = 526080
    Sizes = {1542}
SPECIFICATION Spec
INVARIANT NoMoreThanAllPages
