------------------------------ MODULE Memallc -------------------------------
(***************************************************************************)
(* The heap allocator of driver/memallc.c.  A pool of MAX_MEMBLK_COUNT     *)
(* descriptors (memblk_t) is threaded into two singly linked lists, the    *)
(* free and the allocated blocks.  memallc takes the first free block that *)
(* is large enough and splits off what it does not need; free_memallc      *)
(* moves a block back and tries to merge it with a neighbour.              *)
(*                                                                         *)
(* Every list walk is one step per iteration, so that a walk that does not *)
(* end is a behaviour of the model.  Nothing interrupts a call: the IRQ    *)
(* handler (arch/arm64/kernel/irq.c) never allocates.                      *)
(*                                                                         *)
(* Two specifications share the actions.  Spec is a client that frees what *)
(* it holds in any order; AllocOnlySpec is one that never frees.           *)
(***************************************************************************)
EXTENDS Naturals

CONSTANTS Owners,      (* callers of memallc, one live region each         *)
          Nobody,      (* no call in progress                              *)
          Sizes,       (* the sizes they ask for                           *)
          Ranges,      (* arguments of set_range                           *)
          DefaultRange,(* static initial value of range                    *)
          HeapStart,   (* the arguments of init_memallc                    *)
          HeapRange,
          PoolSize     (* MAX_MEMBLK_COUNT                                 *)

ASSUME ConstantsAssumption ==
  /\ Nobody \notin Owners
  /\ Sizes \subseteq Nat
  /\ Ranges \subseteq Nat
  /\ DefaultRange \in Nat
  /\ HeapStart \in Nat \ {0}
  /\ HeapRange \in Nat \ {0}
  /\ PoolSize \in Nat \ {0}

VARIABLES memblk_pool,        (* the descriptors                           *)
          memblk_pool_index,  (* how many of them new_memblk has given out *)
          heap_s,
          range,
          free_memblk_list,   (* heads of the two lists                    *)
          allc_memblk_list,
          pc,                 (* which loop the call in progress is in     *)
          caller,             (* on whose behalf                           *)
          arg,                (* its argument: a size or an address        *)
          prev, current,      (* the iteration variables of that loop      *)
          held                (* history: the region each caller received  *)

lists == <<memblk_pool, memblk_pool_index, free_memblk_list, allc_memblk_list>>
frame == <<pc, caller, arg, prev, current>>
vars == <<lists, heap_s, range, frame, held>>

(* A pointer to a descriptor is its number in the pool; NULL is 0.         *)
NULL == 0
Blocks == 1 .. PoolSize
Pointers == Blocks \cup {NULL}
HeapEnd == HeapStart + HeapRange

Memblk == [addr : Nat, size : Nat, next : Pointers]
Region == [addr : Nat, size : Nat]
NoRegion == [addr |-> NULL, size |-> 0]

Init ==
  /\ memblk_pool = [b \in Blocks |-> [addr |-> 0, size |-> 0, next |-> NULL]]
  /\ memblk_pool_index = 0
  /\ heap_s = NULL
  /\ range = DefaultRange
  /\ free_memblk_list = NULL
  /\ allc_memblk_list = NULL
  /\ pc = "idle" /\ caller = Nobody
  /\ arg = 0 /\ prev = NULL /\ current = NULL
  /\ held = [o \in Owners |-> NoRegion]

(* The assignment b->next = p.                                             *)
SetNext(pool, b, p) == [pool EXCEPT ![b].next = p]

(* The call returns: its frame is popped.                                  *)
Return ==
  /\ pc' = "idle" /\ caller' = Nobody
  /\ arg' = 0 /\ prev' = NULL /\ current' = NULL

(* A call enters a loop over the list that starts at head.                 *)
Enter(loop, o, a, head) ==
  /\ pc' = loop /\ caller' = o
  /\ arg' = a /\ prev' = NULL /\ current' = head

(* One iteration that finds nothing moves both pointers on.                *)
Advance ==
  /\ prev' = current
  /\ current' = memblk_pool[current].next
  /\ UNCHANGED <<pc, caller, arg, lists, heap_s, range, held>>

-----------------------------------------------------------------------------
(* init_memallc, called once, by early_mmu_init: new_memblk hands out the  *)
(* first descriptor and it covers the whole heap.                          *)
InitMemallc ==
  /\ pc = "idle" /\ heap_s = NULL
  /\ heap_s' = HeapStart
  /\ range' = HeapRange
  /\ memblk_pool' = [memblk_pool EXCEPT
       ![1] = [addr |-> HeapStart, size |-> HeapRange, next |-> NULL]]
  /\ memblk_pool_index' = 1
  /\ free_memblk_list' = 1
  /\ allc_memblk_list' = NULL
  /\ UNCHANGED <<frame, held>>

SetRange(r) ==
  /\ pc = "idle"
  /\ range' = r
  /\ UNCHANGED <<lists, heap_s, frame, held>>

-----------------------------------------------------------------------------
(* memallc(size) up to the search loop.  A size above range is lowered to  *)
(* range; without free blocks, or for size 0, the answer is NULL at once.  *)
Memallc(o, size) ==
  /\ pc = "idle" /\ held[o] = NoRegion
  /\ LET wanted == IF size > range THEN range ELSE size
     IN  IF free_memblk_list = NULL \/ wanted = 0
         THEN Return
         ELSE Enter("search", o, wanted, free_memblk_list)
  /\ UNCHANGED <<lists, heap_s, range, held>>

(* A deviation, for the runs' sensitivity: the comparison is off by one.   *)
FitsOffByOne(b) == memblk_pool[b].size + 1 >= arg

Fits(b) == memblk_pool[b].size >= arg

(* Deviations: a search that skips blocks that fit, one that stays.        *)
SearchSkipsFits == pc = "search" /\ current # NULL /\ Advance
SearchStays == pc = "search" /\ current # NULL /\ ~ Fits(current) /\ UNCHANGED vars

(* allc_memblk_impl: the current block is too small.                       *)
Search ==
  /\ pc = "search" /\ current # NULL /\ ~ Fits(current)
  /\ Advance

(* allc_memblk_impl: the list is exhausted, memallc returns NULL.          *)
NoneFits ==
  /\ pc = "search" /\ current = NULL
  /\ Return
  /\ UNCHANGED <<lists, heap_s, range, held>>

(* The pool after the split at the top of allc_memblk_impl_split.  When    *)
(* new_memblk has no descriptor left the block is granted whole.           *)
(* Deviation: the bound check of new_memblk is off by one.                 *)
SplitOverrunsPool ==
  memblk_pool[current].size > arg /\ memblk_pool_index <= PoolSize

SplitNeeded == memblk_pool[current].size > arg /\ memblk_pool_index < PoolSize

(* Deviation: the tail keeps the size of the whole block.                  *)
SplitTailTooLong ==
  LET b   == memblk_pool[current]
      new == memblk_pool_index + 1
  IN  IF ~ SplitNeeded THEN memblk_pool
      ELSE [memblk_pool EXCEPT
              ![new]     = [addr |-> b.addr + arg, size |-> b.size,
                            next |-> b.next],
              ![current] = [addr |-> b.addr, size |-> arg, next |-> new]]

SplitPool ==
  LET b   == memblk_pool[current]
      new == memblk_pool_index + 1
  IN  IF ~ SplitNeeded THEN memblk_pool
      ELSE [memblk_pool EXCEPT
              ![new]     = [addr |-> b.addr + arg, size |-> b.size - arg,
                            next |-> b.next],
              ![current] = [addr |-> b.addr, size |-> arg, next |-> new]]

(* allc_memblk_impl_split: split, unlink from the free list, push on the   *)
(* allocated list, return the address.                                     *)
TakeBlock ==
  /\ pc = "search" /\ current # NULL /\ Fits(current)
  /\ LET split    == SplitPool
         unlinked == IF prev = NULL THEN split
                     ELSE SetNext(split, prev, split[current].next)
     IN  /\ memblk_pool' = SetNext(unlinked, current, allc_memblk_list)
         /\ free_memblk_list' = IF prev = NULL THEN split[current].next
                                ELSE free_memblk_list
  /\ memblk_pool_index' = IF SplitNeeded THEN memblk_pool_index + 1
                          ELSE memblk_pool_index
  /\ allc_memblk_list' = current
  /\ held' = [held EXCEPT
       ![caller] = [addr |-> memblk_pool[current].addr, size |-> arg]]
  /\ Return
  /\ UNCHANGED <<heap_s, range>>

-----------------------------------------------------------------------------
(* free_memallc(addr) up to the lookup loop.  The caller gives its pointer *)
(* up whatever happens next.                                               *)
FreeMemallc(o) ==
  /\ pc = "idle" /\ held[o] # NoRegion
  /\ held' = [held EXCEPT ![o] = NoRegion]
  /\ IF allc_memblk_list = NULL THEN Return
     ELSE Enter("lookup", o, held[o].addr, allc_memblk_list)
  /\ UNCHANGED <<lists, heap_s, range>>

Lookup ==
  /\ pc = "lookup" /\ current # NULL /\ memblk_pool[current].addr # arg
  /\ Advance

NotFound ==
  /\ pc = "lookup" /\ current = NULL
  /\ Return
  /\ UNCHANGED <<lists, heap_s, range, held>>

(* The block is found: unlink it, push it on the free list and start       *)
(* defragment_memblk, whose loop runs over the free list from its head.    *)
Unlink ==
  /\ pc = "lookup" /\ current # NULL /\ memblk_pool[current].addr = arg
  /\ LET after == memblk_pool[current].next
         unlinked == IF prev = NULL THEN memblk_pool
                     ELSE SetNext(memblk_pool, prev, after)
     IN  /\ memblk_pool' = SetNext(unlinked, current, free_memblk_list)
         /\ allc_memblk_list' = IF prev = NULL THEN after ELSE allc_memblk_list
  /\ free_memblk_list' = current
  /\ Enter("defragment", caller, arg, current)
  /\ UNCHANGED <<memblk_pool_index, heap_s, range, held>>

(* The argument of defragment_memblk is the block Unlink just pushed: it   *)
(* stays the head of the free list while the loop runs.                    *)
block == free_memblk_list

Precedes(b, c) ==
  memblk_pool[b].addr + memblk_pool[b].size = memblk_pool[c].addr

(* Block b takes over the bytes and the link of block c.                  *)
Absorb(b, c) ==
  [memblk_pool EXCEPT
     ![b] = [addr |-> @.addr,
             size |-> @.size + memblk_pool[c].size,
             next |-> memblk_pool[c].next]]

Defragment ==
  /\ pc = "defragment" /\ current # NULL
  /\ ~ Precedes(current, block) /\ ~ Precedes(block, current)
  /\ Advance

(* current ends where block begins: current absorbs block.                 *)
MergeIntoPredecessor ==
  /\ pc = "defragment" /\ current # NULL /\ Precedes(current, block)
  /\ memblk_pool' = Absorb(current, block)
  /\ Return
  /\ UNCHANGED <<memblk_pool_index, free_memblk_list, allc_memblk_list,
                 heap_s, range, held>>

(* block ends where current begins: block absorbs current.  The head of    *)
(* the free list is block already, or becomes it.                          *)
MergeSuccessor ==
  /\ pc = "defragment" /\ current # NULL
  /\ ~ Precedes(current, block) /\ Precedes(block, current)
  /\ LET merged == Absorb(block, current)
     IN  memblk_pool' = IF current # free_memblk_list /\ prev # NULL
                        THEN SetNext(merged, prev, block)
                        ELSE merged
  /\ Return
  /\ UNCHANGED <<memblk_pool_index, free_memblk_list, allc_memblk_list,
                 heap_s, range, held>>

(* No neighbour found: the function pushes block once more.                *)
NoNeighbour ==
  /\ pc = "defragment" /\ current = NULL
  /\ memblk_pool' = SetNext(memblk_pool, block, free_memblk_list)
  /\ Return
  /\ UNCHANGED <<memblk_pool_index, free_memblk_list, allc_memblk_list,
                 heap_s, range, held>>

-----------------------------------------------------------------------------
(* Calls start when the kernel makes them; the steps of a started call     *)
(* always run on.                                                          *)
AllocSteps == Search \/ NoneFits \/ TakeBlock
FreeSteps == \/ Lookup \/ NotFound \/ Unlink
             \/ Defragment \/ MergeIntoPredecessor \/ MergeSuccessor \/ NoNeighbour

AllocOnlyNext ==
  \/ InitMemallc
  \/ \E r \in Ranges : SetRange(r)
  \/ \E o \in Owners, size \in Sizes : Memallc(o, size)
  \/ AllocSteps

Next ==
  \/ AllocOnlyNext
  \/ \E o \in Owners : FreeMemallc(o)
  \/ FreeSteps

Spec == Init /\ [][Next]_vars /\ WF_vars(AllocSteps \/ FreeSteps)
AllocOnlySpec == Init /\ [][AllocOnlyNext]_vars /\ WF_vars(AllocSteps)

-----------------------------------------------------------------------------
(* Properties.                                                             *)

TypeOK ==
  /\ memblk_pool \in [Blocks -> Memblk]
  /\ memblk_pool_index \in 0 .. PoolSize
  /\ heap_s \in {NULL, HeapStart}
  /\ range \in Nat
  /\ free_memblk_list \in Pointers
  /\ allc_memblk_list \in Pointers
  /\ pc \in {"idle", "search", "lookup", "defragment"}
  /\ caller \in Owners \cup {Nobody}
  /\ arg \in Nat
  /\ prev \in Pointers /\ current \in Pointers
  /\ held \in [Owners -> Region]

(* Every descriptor in use describes a non-empty part of the heap, however *)
(* blocks were split and merged and even after the lists are damaged: this *)
(* is what splitting (memallc.c:169-181) and merging (205-231) preserve.   *)
InHeap(r) == /\ HeapStart <= r.addr
             /\ 0 < r.size
             /\ r.addr + r.size <= HeapEnd

BlocksInHeap == \A b \in 1 .. memblk_pool_index : InHeap(memblk_pool[b])

(* What memallc hands out lies inside the heap, with all of its bytes.  A  *)
(* request above range is granted range bytes (memallc.c:72-76), fewer     *)
(* than were asked for: MemallcRequests.                                   *)
HeldInHeap == \A o \in Owners : held[o] # NoRegion => InHeap(held[o])

Overlap(r, s) == r.addr < s.addr + s.size /\ s.addr < r.addr + r.size

(* No two callers hold a common byte.                                      *)
HeldDisjoint ==
  \A o, p \in Owners :
    o # p /\ held[o] # NoRegion /\ held[p] # NoRegion
      => ~ Overlap(held[o], held[p])

(* A walk that starts at head and makes n steps is at Walk(head)[n].       *)
Walk(head) ==
  LET at[n \in 0 .. PoolSize] ==
        IF n = 0 THEN head
        ELSE IF at[n-1] = NULL THEN NULL ELSE memblk_pool[at[n-1]].next
  IN  at
OnList(head) == {Walk(head)[n] : n \in 0 .. PoolSize} \ {NULL}
Ends(head) == Walk(head)[PoolSize] = NULL

Bytes(b) == memblk_pool[b].addr .. memblk_pool[b].addr + memblk_pool[b].size - 1

(* Between calls the two lists end, share no block, and their blocks tile  *)
(* the heap: every byte is free or allocated, none is both, none is lost.  *)
TilesHeap ==
  pc = "idle" /\ heap_s # NULL =>
    LET free == OnList(free_memblk_list)
        allc == OnList(allc_memblk_list)
    IN  /\ Ends(free_memblk_list) /\ Ends(allc_memblk_list)
        /\ free \cap allc = {}
        /\ \A b, c \in free \cup allc : b # c => Bytes(b) \cap Bytes(c) = {}
        /\ UNION {Bytes(b) : b \in free \cup allc} = HeapStart .. HeapEnd - 1

(* When memallc gives up after a search, no block on the free list would   *)
(* have done, and it takes a block only when all before it were too small. *)
(* True even of damaged lists, whose walks may meet allocated blocks.      *)
FirstFit ==
  [][/\ NoneFits => \A b \in OnList(free_memblk_list) : ~ Fits(b)
     /\ TakeBlock => \E n \in 0 .. PoolSize :
          /\ Walk(free_memblk_list)[n] = current
          /\ \A m \in 0 .. n - 1 : ~ Fits(Walk(free_memblk_list)[m])]_vars

(* A call does not return only if a loop of it runs on a list without an   *)
(* end (memallc.c:99, 152, 203), and meets nothing there that it looks     *)
(* for.  The lists may have been damaged before, and may have cycles.      *)
SearchEnds ==
  pc = "search"
    /\ (Ends(free_memblk_list) \/ \E b \in OnList(free_memblk_list) : Fits(b))
  ~> pc = "idle"
LookupEnds ==
  pc = "lookup"
    /\ \/ Ends(allc_memblk_list)
       \/ \E b \in OnList(allc_memblk_list) : memblk_pool[b].addr = arg
  ~> pc # "lookup"
DefragmentEnds ==
  pc = "defragment"
    /\ \/ Ends(free_memblk_list)
       \/ \E b \in OnList(free_memblk_list) : Precedes(b, block) \/ Precedes(block, b)
  ~> pc = "idle"
LoopsEnd == SearchEnds /\ LookupEnds /\ DefragmentEnds

(* memallc implements the abstract heap.                                   *)
Heap == INSTANCE HeapSpec
ImplementsHeap == Heap!Spec
=============================================================================
