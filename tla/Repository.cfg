CONSTANTS
    t1 = t1
    t2 = t2
    i1 = i1
    i2 = i2
    o1 = o1
    h1 = h1
    h2 = h2
    None = None
    Undefined = Undefined
    Tx <- mcTx
    TxIn <- mcTxIn
    Inputs <- mcInputs
    Outputs <- mcOutputs
    Withdraws <- mcWithdraws
    Ttl <- mcTtl
    Genesis <- mcGenesis
    Handler <- mcHandler
    InitialRewards = 1
    MaxSlot = 1
    MaxAccruals = 1
    MaxRollbacks = 0
    MaxUserSyncs = 1
SPECIFICATION BalanceSpec
SYMMETRY Symmetry
CHECK_DEADLOCK FALSE
INVARIANTS
    OneObjectPerOutput
    LocksAreHeld
    LockedRewardsAccounted
    StaleBalanceIsReported
    ListsOneReply
    LockedUnlessRelisted
