\* With nobody current, a switch to a ready process crashes.
SPECIFICATION Spec
CONSTANTS
  Nodes = {n1, n2, n3, n4}
  Procs = {p1, p2}
  NULL = NULL
  NewStates = {"READY", "SLEEPING"}
SYMMETRY MemorySymmetry
PROPERTIES
  SwitchesWhenReady
