SPECIFICATION Spec
CONSTANTS
    Epoch = 2
    MaxValue = 7
INVARIANTS NoReuse NextValueCovered
PROPERTY StartsAtEpoch
CHECK_DEADLOCK FALSE
