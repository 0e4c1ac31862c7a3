SPECIFICATION SafetySpec
CONSTANTS
    SeqMod = 5
    Window = 3
    Sizes <- WaitForWindow
    MaxMessages <- OneMessage
    GattFaults = FALSE
    Closers = {}
INVARIANT AcksWhatWasReceived
CHECK_DEADLOCK FALSE
