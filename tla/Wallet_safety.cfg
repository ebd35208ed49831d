CONSTANTS
    t1 = t1
    t2 = t2
    i1 = i1
    i2 = i2
    c1 = c1
    c2 = c2
    None = None
    Undefined = Undefined
    Tx <- mcTx
    TxIn <- mcTxIn
    Inputs <- mcInputs
    Outputs <- mcOutputs
    Withdraws <- mcWithdraws
    Ttl <- mcTtl
    Genesis <- mcGenesis
    Call <- mcCall
    InitialRewards = 0
    MaxSlot = 1
    MaxAccruals = 0
    MaxRollbacks = 0
    MaxUserSyncs = 2
SPECIFICATION Spec
CHECK_DEADLOCK FALSE
SYMMETRY Symmetry
INVARIANTS
    OneHandlerPerPoll
    PendingLockedUnlessRelisted
