SPECIFICATION PrototypeSpec
CONSTANTS
    ScanGap <- mcScanGap
    Spread <- mcSmallSpread
    MaxTx <- mcThreeTx
    MaxOutputs <- mcOneOutput
INVARIANTS
    EveryFundIsFound
CHECK_DEADLOCK FALSE
