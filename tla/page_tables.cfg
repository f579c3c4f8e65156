\* Regions of three blocks, three tables: the kernel's region and one more, and
\* every layout with up to two devices, which may want a fourth table.
SPECIFICATION Spec
CONSTANTS
  PT_ENTRIES = 3
  BlockSize = 2
  PoolTables = 3
  MaxDevices = 2
  RamSize = 4
INVARIANTS
  TypeOK
  TranslatesExactly
  PoolUsedExactly
