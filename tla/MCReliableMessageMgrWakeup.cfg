CONSTANTS
    Exchange = {x1, x2, x3}
    TableSize = 2
    TickLen = 2
    InitialWait = 4
    ActiveWait = 2
    AckWait = 2
    MaxRetrans = 1
    MaxTime = 8
SPECIFICATION Spec
SYMMETRY Symmetry
INVARIANT WorkIsScheduled
