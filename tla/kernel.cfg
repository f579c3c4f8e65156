\* kernel_init and four processes, with objects of one or two bytes.
SPECIFICATION Spec
CONSTANTS
  Nodes = {1, 2, 3, 4, 5, 6}
  Procs = {1, 2, 3, 4}
  Null = Null
  NewStates = {"READY", "SLEEPING"}
  HeapStart = 1
  HeapRange = 25
  PoolSize = 13
  MaxSize = 2
INVARIANTS
  MemoryBacksObjects
  ServedFromTheEnd
PROPERTIES
  KernelImplementsHeap
  KernelGoesOn
