CONSTANTS
    t1 = t1
    t2 = t2
    i1 = i1
    i2 = i2
    c1 = c1
    c2 = c2
    c3 = c3
    None = None
    Tx <- mcTx
    TxIn <- mcTxIn
    Inputs <- mcInputs
    Outputs <- mcOutputs
    Withdraws <- mcWithdraws
    Ttl <- mcTtl
    Genesis <- mcGenesis
    Call <- mcTwoCalls
    InitialRewards = 0
    MaxSlot = 3
    MaxAccruals = 0
    MaxRollbacks = 0
SPECIFICATION Spec
CHECK_DEADLOCK FALSE
INVARIANTS
    TimeoutIsFinal
