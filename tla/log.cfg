SPECIFICATION FairSpec
CONSTANTS
  s1 = s1
  s2 = s2
  Streams = {s1, s2}
  Size = 3
  Cap = 1
  History = 2
  Recent = 2
  MaxRecent = 4
  MaxLines = 4
INVARIANT TypeOK
INVARIANT SnapshotIsRecent
INVARIANT InOrder
INVARIANT OnlyOwnBacklogDrops
PROPERTY WriteFinishes
