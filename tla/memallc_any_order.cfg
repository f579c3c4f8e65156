\* Three callers that free in any order, on a heap of four bytes.
SPECIFICATION LowestFirstSpec
CONSTANTS
  Owners = {1, 2, 3}
  Nobody = Nobody
  Sizes = {0, 1, 2, 5}
  Ranges = {2, 5}
  DefaultRange = 4
  HeapStart = 1
  HeapRange = 4
  PoolSize = 3
INVARIANTS
  TypeOK
  BlocksInHeap
  HeldInHeap
PROPERTIES
  FirstFit
  LoopsEnd
