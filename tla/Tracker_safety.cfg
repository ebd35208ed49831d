CONSTANTS
    t1 = t1
    t2 = t2
    i1 = i1
    i2 = i2
    c1 = c1
    c2 = c2
    c3 = c3
    None = None
    Tx <- mcTx
    TxIn <- mcTxIn
    Inputs <- mcInputs
    Outputs <- mcOutputs
    Withdraws <- mcWithdraws
    Ttl <- mcTtlMissing
    Genesis <- mcGenesis
    Call <- mcCall
    InitialRewards = 0
    MaxSlot = 3
    MaxAccruals = 0
    MaxRollbacks = 0
SPECIFICATION Spec
SYMMETRY Symmetry
CHECK_DEADLOCK FALSE
INVARIANTS
    TrackerTypeOK
    LivePollRegistered
    PendingIsLive
PROPERTIES
    TimedOutNeverIncludedLater
    ImplementsConfirmation
