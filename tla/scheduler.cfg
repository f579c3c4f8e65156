\* Two queue heads and six processes, of which the last finds no memory.
SPECIFICATION LowestFirstSpec
CONSTANTS
  Nodes = {1, 2, 3, 4, 5, 6, 7}
  Procs = {1, 2, 3, 4, 5, 6}
  NULL = NULL
  NewStates = {"READY", "SLEEPING"}
INVARIANTS
  TypeOK
  RingsIntact
  NobodyLost
  StatesMatch
  AllFreed
PROPERTIES
  ImplementsScheduler
  KeepsTurn
  KillEnds
  WaitsForTurn
