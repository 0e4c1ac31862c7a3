SPECIFICATION Spec
CONSTANTS
    Offers <- OneMode
    Supports <- BothModes
    Uninitialized <- Other
    CounterMod = 2
    Plans <- FaultsOrAgain
INVARIANTS TypeOK BlocksInOrder DoneMeansReceived NoSpuriousError
PROPERTY TransferEnds
CHECK_DEADLOCK FALSE
