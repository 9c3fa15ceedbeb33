SPECIFICATION Spec
CONSTANTS
  c1 = c1
  c2 = c2
  c3 = c3
  wA = wA
  wB = wB
  wC = wC
  u1 = u1
  u2 = u2
  u3 = u3
  k1 = k1
  k2 = k2
  m1 = m1
  m2 = m2
  gone = gone
  BadRef = BadRef
  Calls = {c1, c2, c3}
  Users <- MCUsers
  Keys <- MCKeys
  MintKeys <- MCMintKeys
  Wallets <- MCWallets
  Missing <- MCMissing
  Refs <- MCRefs
  RefRow <- MCRefRow
  Canon <- MCCanon
  TransferReqs <- SpellingReqs
  MintReqs <- NoReqs
  Seed <- Funded
  MaxInt = 9
  MaxTxAttempts = 2
  MaxConns = 3
  MaxFaults = 0
SYMMETRY CallSymmetry
INVARIANT NoDeadlock
