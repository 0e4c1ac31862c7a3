SPECIFICATION SafetySpec
CONSTANTS
    SeqMod = 5
    Window = 3
    Sizes <- FillWindows
    MaxMessages <- TwoOfCentral
    GattFaults = FALSE
    Closers = {}
INVARIANTS TypeOK EnginesAgree NotWedged AckExpectedHasTimer
PROPERTY ImplementsPipe
CHECK_DEADLOCK FALSE
