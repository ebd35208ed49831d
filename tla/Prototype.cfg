SPECIFICATION PrototypeSpec
CONSTANTS
    ScanGap <- mcScanGap
    Spread <- mcSpread
    MaxTx <- mcMaxTx
    MaxOutputs <- mcMaxOutputs
INVARIANTS
    NextAddressIsFresh
    FundsAreFound
    WitnessesUnlockInputs
    ScanFindsAddress
CHECK_DEADLOCK FALSE
