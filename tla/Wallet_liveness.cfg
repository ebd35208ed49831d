CONSTANTS
    t1 = t1
    t2 = t2
    i1 = i1
    i2 = i2
    c1 = c1
    c2 = c2
    None = None
    Undefined = Undefined
    Tx <- mcOneTx
    TxIn <- mcTxIn
    Inputs <- mcInputs
    Outputs <- mcOutputs
    Withdraws <- mcWithdraws
    Ttl <- mcTtl
    Genesis <- mcGenesis
    Call <- mcCall
    InitialRewards = 0
    MaxSlot = 2
    MaxAccruals = 0
    MaxRollbacks = 1
    MaxUserSyncs = 1
SPECIFICATION FairSpec
CHECK_DEADLOCK FALSE
PROPERTIES
    EveryLockReleased
    EveryCallSettles
