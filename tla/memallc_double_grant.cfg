\* Callers that free: two of them end up with the same bytes.
SPECIFICATION Spec
CONSTANTS
  Owners = {o1, o2}
  Nobody = Nobody
  Sizes = {1, 2}
  Ranges = {4}
  DefaultRange = 4
  HeapStart = 1
  HeapRange = 4
  PoolSize = 4
SYMMETRY OwnerSymmetry
INVARIANTS
  HeldDisjoint
