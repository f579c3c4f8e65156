----------------------------- MODULE MCMemallc ------------------------------
(***************************************************************************)
(* Memallc.tla on a small heap.                                            *)
(***************************************************************************)
EXTENDS Memallc, TLC

(* Callers are interchangeable.  Used by runs without liveness only.       *)
OwnerSymmetry == Permutations(Owners)

(* With liveness symmetry is not sound: callers are numbered instead, and  *)
(* the lowest who holds nothing asks.  The allocator never looks at them.  *)
LowestAsks ==
  pc = "idle" /\ pc' = "search"
    => \A o \in Owners : held[o] = NoRegion => caller' <= o
LowestFirstSpec ==
  Init /\ [][Next /\ LowestAsks]_vars /\ WF_vars(AllocSteps \/ FreeSteps)
=============================================================================
