CONSTANTS
    Word4 = 32
    Interval4 = 9
    Lag4 = 2
    Horizon4 = 50
SPECIFICATION Spec4
PROPERTY TicksSpaced
