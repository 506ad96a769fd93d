CONSTANTS
  Readers = {r1, r2}
  Writers = {w1, w2}
  PoolSize = 1
  NoOne = NoOne
  MaxWrites = 3
SPECIFICATION PoolSpec
INVARIANTS
  StampAtMostOneBehind
