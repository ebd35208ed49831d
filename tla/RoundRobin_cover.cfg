CONSTANTS
    gold = gold
    silver = silver
    bronze = bronze
    coin = coin
    Coins = {1, 2, 5}
    Amounts = {0, 2}
    RequestedCoins = {1, 4}
    Implicit = {0, 2}
    Asset <- mcAsset
    Coin <- coin
    Policy <- mcPolicy
    Utxo <- mcUtxo
    Instance <- mcInstance
SPECIFICATION FairSpec
CHECK_DEADLOCK FALSE
INVARIANTS
    RoundRobinTypeOK
    ConservationOfUtxo
    DroppedIsCovered
PROPERTIES
    RoundRobinEnds
