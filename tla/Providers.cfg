SPECIFICATION Spec
CONSTANTS
  a = a  b = b  t1 = t1  t2 = t2  g = g  o1 = o1  o2 = o2
  p1 = p1  p2 = p2  p3 = p3
  NoArg = NoArg
  Address <- mcAddress
  Tx <- mcTx
  TxIn <- mcTxIn
  Inputs <- mcInputs
  Outputs <- mcOutputs
  Withdraws <- mcWithdraws
  Ttl <- mcTtl
  Genesis <- mcGenesis
  AddressOf <- mcAddressOf
  Content <- mcContent
  Pool <- mcPool
  InitialRewards = 1
  MaxSlot = 2
  MaxAccruals = 0
  MaxRollbacks = 1
  MaxEpoch = 1
  MaxEdits = 1
  PageSize = 2
INVARIANTS
  RewardsNotCountedTwice
  UtxoWasUnspent
  TransactionsAreWhole
  NotFoundMeansAbsent
  ResolvedMeansAccepted
  TallyWithinBounds
  PoolsFoundOnce
CHECK_DEADLOCK FALSE
