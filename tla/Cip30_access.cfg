SPECIFICATION Spec
CONSTANTS
  w1 = w1  w2 = w2  NoWallet = NoWallet
  p1 = p1  p2 = p2
  c1 = c1  c2 = c2  c3 = c3
  shop = shop  swap = swap
  Wallet <- mcWallet
  Page <- mcPage
  Call <- mcCall
  Site <- mcSite
  Host <- mcHost
  CallPage <- mcCallPage
  PersistAllowList = TRUE
  MaxReloads = 2
INVARIANTS
  GrantsAreRemembered
PROPERTIES
  LostOnlyToOverlap
  ImplementsAccess
CHECK_DEADLOCK FALSE
