SPECIFICATION Spec
CONSTANTS
  r1 = r1  r2 = r2
  RewardAddress <- mcRewardAddress
  Undefined = Undefined
  StakeKeyDeposit = 2
  PoolDeposit = 3
  Quantity = {1, 4}
  Entry = {9}
  MaxParts = 2
  MaxSlot = 1
INVARIANTS
  InputsWitnessed
CHECK_DEADLOCK FALSE
