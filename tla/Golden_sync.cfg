SPECIFICATION FairSpec
CONSTANTS
  a = a  b = b  t1 = t1  t2 = t2  t3 = t3
  Address <- mcAddress
  Tracked <- mcTracked
  Tx <- mcTx
  Inputs <- mcInputs
  Outputs <- mcOutputs
  Block <- mcBlock
  AtBlocks <- mcAtBlocks
  InFlight = 2
  MaxHeight = 3
  MaxForks = 1
INVARIANTS
  SnapshotsAddUp
  BlocksAreOfOneChain
PROPERTIES
  NothingAfterCompletion
  SyncEnds
CHECK_DEADLOCK FALSE
