CONSTANTS
  k1 = k1
  k2 = k2
  k3 = k3
  k4 = k4
  k5 = k5
  Keys <- MCKeys
  Hash <- MCHash
  MaxLoadFactor = 1
  ThreadSafe = FALSE
  RehashArgs = {3, 8, 9}
  MaxBuckets = 16
  None = None
SPECIFICATION Spec
INVARIANTS TypeOK UniqueKeys CountIsExact

PROPERTIES ImplementsSet
