SPECIFICATION FairSpec
CONSTANTS
  Readers = {r1, r2}
  Writers = {w1, w2}
  PoolSize = 2
  MaxUpdates = 2
  Nobody = Nobody
INVARIANTS
  NoUseAfterFree
  HeldSnapshotStable
PROPERTY
  ImplementsAtomicSnapshot
  RetiredWrappersDeleted
