------------------------------ MODULE HeapSpec ------------------------------
(***************************************************************************)
(* What driver/memallc.c promises its callers, with none of its lists: a   *)
(* heap hands out regions of memory, and no two callers ever hold regions  *)
(* that overlap.  Memallc.tla is the detailed specification.               *)
(***************************************************************************)
EXTENDS Naturals

CONSTANTS Owners,      (* the callers: each holds at most one region       *)
          HeapStart,   (* first address of the heap                        *)
          HeapRange    (* its size in bytes                                *)

VARIABLE held          (* the region each caller holds, or NoRegion        *)

NoRegion == [addr |-> 0, size |-> 0]

Regions ==
  {r \in [addr : HeapStart .. HeapStart + HeapRange, size : 1 .. HeapRange] :
     r.addr + r.size <= HeapStart + HeapRange}

Overlap(r, s) == r.addr < s.addr + s.size /\ s.addr < r.addr + r.size

Init == held = [o \in Owners |-> NoRegion]

(* A caller without memory receives any region nobody else holds a byte of. *)
Allocate(o, r) ==
  /\ held[o] = NoRegion
  /\ \A p \in Owners : held[p] # NoRegion => ~ Overlap(held[p], r)
  /\ held' = [held EXCEPT ![o] = r]

Release(o) == held' = [held EXCEPT ![o] = NoRegion]

Next == \E o \in Owners : \/ \E r \in Regions : Allocate(o, r)
                          \/ Release(o)

Spec == Init /\ [][Next]_held
=============================================================================
