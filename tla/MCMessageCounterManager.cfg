CONSTANTS
    a = a
    b = b
    Peer = {a, b}
    TableSize = 3
    WindowSize = 2
    MaxCounter = 3
    Challenge <- MCChallenge
    NoChallenge = 0
SPECIFICATION Spec
INVARIANTS TypeOK DeliveredAtMostOnce SyncingHasTimer QueueDrained AttemptsBounded
PROPERTIES PendingDelivered AttemptEnds
