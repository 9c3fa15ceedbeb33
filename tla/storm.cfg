SPECIFICATION Spec
CONSTANTS
  c1 = c1
  c2 = c2
  c3 = c3
  c4 = c4
  wA = wA
  wB = wB
  wC = wC
  u1 = u1
  u2 = u2
  u3 = u3
  k1 = k1
  k2 = k2
  m1 = m1
  m2 = m2
  gone = gone
  BadRef = BadRef
  Calls = {c1, c2, c3, c4}
  Users <- MCUsers
  Keys <- MCKeys
  MintKeys <- MCMintKeys
  Wallets <- MCWallets
  Missing <- MCMissing
  Refs <- MCRefs
  RefRow <- MCRefRow
  Canon <- MCCanon
  TransferReqs <- StormReqs
  MintReqs <- StormMints
  Seed <- Funded
  MaxInt = 9
  MaxTxAttempts = 2
  MaxConns = 2
  MaxFaults = 1
SYMMETRY CallSymmetry
INVARIANT ReplayIsDecided
INVARIANT ExactlyOnce
INVARIANT AnswerIsCommitted
PROPERTY ImplementsLedger
