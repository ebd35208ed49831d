CONSTANTS
    gold = gold
    silver = silver
    bronze = bronze
    coin = coin
    EntryCoins = {3, 12}
    EntryGold = {0, 5}
    OutputCoins = {2, 3}
    OutputGold = {0, 2}
    Implicit = {0}
    MaxOutputs = 3
    MinCoinBase = 1
    MinCoinPerPolicy = 2
    FeeConstant = 1
    FeeCoefficient = 0
    MaxBundleAssets = 2
    MaxTxSize = 100
    DefaultLimit = FALSE
    FixedLimit = 2
    Asset <- mcAsset
    Coin <- coin
    Policy <- mcPolicy
    Utxo <- mcUtxo
    Instance <- mcInstance
SPECIFICATION SelectSpec
CHECK_DEADLOCK FALSE
INVARIANTS
    ChangeMeetsMinCoin
