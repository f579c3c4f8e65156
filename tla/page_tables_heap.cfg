\* The heap reaches beyond the kernel's blocks, which are all that is mapped.
SPECIFICATION Spec
CONSTANTS
  PT_ENTRIES = 3
  BlockSize = 4
  PoolTables = 5
  MaxDevices = 1
  RamSize = 8
INVARIANTS
  HeapMapped
