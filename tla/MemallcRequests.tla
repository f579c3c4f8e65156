-------------------------- MODULE MemallcRequests ---------------------------
(***************************************************************************)
(* Memallc with a history variable: what each caller asked for, which      *)
(* memallc forgets when it lowers a request to range (memallc.c:72-76).    *)
(* The callers never free.                                                 *)
(***************************************************************************)
EXTENDS Memallc

VARIABLE asked         (* the size each asked for last, and range then     *)

RequestsInit == Init /\ asked = [o \in Owners |-> [size |-> 0, range |-> 0]]

Request(o, size) ==
  /\ Memallc(o, size)
  /\ asked' = [asked EXCEPT ![o] = [size |-> size, range |-> range]]

RequestsNext ==
  \/ \E o \in Owners, size \in Sizes : Request(o, size)
  \/ InitMemallc /\ UNCHANGED asked
  \/ (\E r \in Ranges : SetRange(r)) /\ UNCHANGED asked
  \/ AllocSteps /\ UNCHANGED asked

RequestsSpec == RequestsInit /\ [][RequestsNext]_<<vars, asked>>

(* Behind every grant there is an allocated block that begins where the    *)
(* grant does and has all the bytes that were asked for, or, if these were *)
(* more than range, as many as range was when they were asked for: later   *)
(* splits, and later changes of range, take nothing away from it.          *)
GrantsInFull ==
  \A o \in Owners : held[o] # NoRegion =>
    \E b \in OnList(allc_memblk_list) :
      /\ memblk_pool[b].addr = held[o].addr
      /\ \/ memblk_pool[b].size >= asked[o].size
         \/ asked[o].size > asked[o].range /\ memblk_pool[b].size >= asked[o].range
=============================================================================
