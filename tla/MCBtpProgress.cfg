SPECIFICATION Spec
CONSTANTS
    SeqMod = 5
    Window = 3
    Sizes <- WaitForWindow
    MaxMessages <- OneMessage
    GattFaults = TRUE
    Closers = {"central"}
PROPERTY DeliveredOrClosed
CHECK_DEADLOCK FALSE
