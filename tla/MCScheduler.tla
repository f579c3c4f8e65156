---------------------------- MODULE MCScheduler -----------------------------
(***************************************************************************)
(* Scheduler.tla on a few nodes and processes.                             *)
(***************************************************************************)
EXTENDS Scheduler, TLC

(* Memory is interchangeable, and so are processes.  For the run that has  *)
(* no liveness.                                                            *)
MemorySymmetry == Permutations(Nodes) \cup Permutations(Procs)

(* With liveness symmetry is not sound: memory is numbered instead, and    *)
(* the lowest free address is allocated.  The scheduler never compares     *)
(* addresses, nor reads what freed memory contains, so which one it gets   *)
(* makes no difference to it.                                              *)
Lowest(old, new, all) == \A m \in new \ old, n \in all \ new : m < n
LowestFirst == Lowest(nodes, nodes', Nodes) /\ Lowest(procs, procs', Procs)
LowestFirstSpec ==
  Init /\ [][Next /\ LowestFirst]_vars /\ WF_vars(KillSteps)
=============================================================================
