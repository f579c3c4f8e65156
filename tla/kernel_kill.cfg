\* The same kernel, with a call of killScheduler.
SPECIFICATION KillSpec
CONSTANTS
  Nodes = {1, 2, 3, 4}
  Procs = {1, 2}
  Null = Null
  NewStates = {"READY", "SLEEPING"}
  HeapStart = 1
  HeapRange = 9
  PoolSize = 9
  MaxSize = 1
PROPERTIES
  KillReturns
