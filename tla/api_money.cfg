SPECIFICATION Spec
CONSTANTS
  c1 = c1
  c2 = c2
  c3 = c3
  tA = tA
  tB = tB
  tN = tN
  wA = wA
  wB = wB
  k1 = k1
  k2 = k2
  kLong = kLong
  NoToken = NoToken
  AdminToken = AdminToken
  NoKey = NoKey
  NoWallet = NoWallet
  LongKeys = {kLong}
  Calls = {c1, c2, c3}
  Requests <- MoneyRequests
  SeedUsers <- MCUsers
  SeedWallets <- MCWallets
  Seed <- MCSeed
  MaxInt = 3
  MaxFaults = 1
  MaxPanics = 2
SYMMETRY CallSymmetry
INVARIANT RejectionKeepsKey
INVARIANT CreatedIsTrue
INVARIANT CountersMatchTables
INVARIANT EveryRequestCounted
