\* Callers that never free: the allocator keeps its promise.
SPECIFICATION RequestsSpec
CONSTANTS
  Owners = {o1, o2, o3}
  Nobody = Nobody
  Sizes = {0, 1, 2, 3, 9}
  Ranges = {2, 8}
  DefaultRange = 4
  HeapStart = 1
  HeapRange = 6
  PoolSize = 3
INVARIANTS
  TilesHeap
  GrantsInFull
PROPERTIES
  ImplementsHeap
