CONSTANTS
    Plain6 <- MCPlain6
    Counter6 = 1
    Printer6 = 2
    Slice6 = 6
SPECIFICATION Spec6
INVARIANT MutualExclusion
