SPECIFICATION Spec
CONSTANTS
  c1 = c1
  c2 = c2
  c3 = c3
  wA = wA
  wB = wB
  wC = wC
  u1 = u1
  u2 = u2
  u3 = u3
  k1 = k1
  k2 = k2
  m1 = m1
  m2 = m2
  gone = gone
  BadRef = BadRef
  Calls = {c1, c2, c3}
  Users <- MCUsers
  Keys <- MCKeys
  MintKeys <- MCMintKeys
  Wallets <- MCWallets
  Missing <- MCMissing
  Refs <- MCRefs
  RefRow <- MCRefRow
  Canon <- MCCanon
  TransferReqs <- CrowdReqs
  MintReqs <- CrowdMints
  Seed <- Funded
  MaxInt = 4
  MaxTxAttempts = 2
  MaxConns = 2
  MaxFaults = 1
SYMMETRY CallSymmetry
INVARIANT TypeOK
INVARIANT NoDeadlock
INVARIANT DebitNeverLost
INVARIANT RefusalLeavesNoTrace
INVARIANT AuditHolds
INVARIANT WalletsReconcile
INVARIANT LedgerMatchesTransfers
INVARIANT MintOnce
INVARIANT IdenticalDocument
