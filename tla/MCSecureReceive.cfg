CONSTANTS
    WindowSize = 3
    MaxCounter = 7
    Challenge = {c1, c2}
    NoChallenge = NoChallenge
SPECIFICATION Spec
INVARIANTS WindowExact NoReplay NoFalseRefusal
PROPERTY ImplementsReplayFilter
