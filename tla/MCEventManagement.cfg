SPECIFICATION Spec
CONSTANTS
    NumBuffers = 3
    Capacity <- Bytes
    Sizes = {2, 4}
    MaxTime = 6
INVARIANTS TypeOK RetainedInOrder FetchMissesNothing FetchedTimesAreTrue
PROPERTY NoNeedlessDrop
CHECK_DEADLOCK FALSE
