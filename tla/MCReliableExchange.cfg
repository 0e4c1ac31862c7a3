CONSTANTS
    Initiator = a
    Responder = b
    MaxMsgs = 2
    MaxRetrans = 1
    Shortage = TRUE
    SendErrors = TRUE
    MaxAckFaults = 1
SPECIFICATION Spec
INVARIANTS TypeOK DeliveredInOrder AckedHasArrived NoLeakedExchange
PROPERTY ExchangesEnd
CHECK_DEADLOCK FALSE
