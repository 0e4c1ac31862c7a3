CONSTANTS
    Initiator = a
    Responder = b
    MaxMsgs = 2
    MaxRetrans = 1
    Shortage = FALSE
    SendErrors = FALSE
    MaxAckFaults = 1
SPECIFICATION Spec
PROPERTY ResponseIsDelivered
CHECK_DEADLOCK FALSE
