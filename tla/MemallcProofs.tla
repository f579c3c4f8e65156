--------------------------- MODULE MemallcProofs ----------------------------
(***************************************************************************)
(* Proofs about Memallc.tla, for every heap, pool, set of callers and set  *)
(* of sizes: first about callers that free in any order, what remains true *)
(* when the lists are damaged; then about callers that never free.         *)
(***************************************************************************)
EXTENDS Memallc, InductionProofs, TLAPS

USE ConstantsAssumption DEF NULL

(* Links never lead to a descriptor new_memblk has not handed out.         *)
Issued(p) == p <= memblk_pool_index

LinksIssued ==
  /\ Issued(free_memblk_list) /\ Issued(allc_memblk_list)
  /\ Issued(prev) /\ Issued(current)
  /\ \A b \in 1 .. memblk_pool_index : Issued(memblk_pool[b].next)

(* Before init_memallc there is nothing to search.                         *)
Uninitialised ==
  heap_s = NULL => /\ pc = "idle" /\ prev = NULL /\ current = NULL
                   /\ free_memblk_list = NULL
                   /\ allc_memblk_list = NULL

CallInProgress ==
  /\ pc = "search" => arg > 0 /\ caller \in Owners
  /\ pc = "lookup" => caller \in Owners
  /\ pc = "defragment" => free_memblk_list # NULL /\ caller \in Owners

IInv ==
  /\ TypeOK
  /\ LinksIssued
  /\ Uninitialised
  /\ CallInProgress
  /\ BlocksInHeap
  /\ HeldInHeap

LEMMA InitIInv == Init => IInv
  BY DEF Init, IInv, TypeOK, LinksIssued, Issued, Uninitialised, CallInProgress,
         BlocksInHeap, HeldInHeap, InHeap, Blocks, Pointers, Memblk, Region, NoRegion

(* Setting a link changes that link and nothing else.                      *)
LEMMA SetNextEffect ==
  ASSUME NEW pool \in [Blocks -> Memblk], NEW b \in Blocks, NEW p \in Pointers
  PROVE  /\ SetNext(pool, b, p) \in [Blocks -> Memblk]
         /\ \A c \in Blocks : /\ SetNext(pool, b, p)[c].addr = pool[c].addr
                             /\ SetNext(pool, b, p)[c].size = pool[c].size
                             /\ SetNext(pool, b, p)[c].next =
                                  IF c = b THEN p ELSE pool[c].next
  BY DEF SetNext, Memblk

(* What the invariant says of the numbers a step computes with.            *)
LEMMA Shape ==
  ASSUME IInv
  PROVE  /\ memblk_pool \in [Blocks -> Memblk]
         /\ memblk_pool_index \in Nat /\ memblk_pool_index <= PoolSize
         /\ free_memblk_list \in 0 .. memblk_pool_index
         /\ allc_memblk_list \in 0 .. memblk_pool_index
         /\ prev \in 0 .. memblk_pool_index
         /\ current \in 0 .. memblk_pool_index
         /\ 1 .. memblk_pool_index \subseteq Blocks
         /\ 0 .. memblk_pool_index \subseteq Pointers
         /\ \A b \in 1 .. memblk_pool_index :
              /\ memblk_pool[b] \in Memblk
              /\ memblk_pool[b].next \in 0 .. memblk_pool_index
              /\ InHeap(memblk_pool[b])
<1>1. /\ memblk_pool \in [Blocks -> Memblk]
      /\ memblk_pool_index \in Nat /\ memblk_pool_index <= PoolSize
  BY DEF IInv, TypeOK
<1>2. 1 .. memblk_pool_index \subseteq Blocks /\ 0 .. memblk_pool_index \subseteq Pointers
  BY <1>1 DEF Blocks, Pointers
<1>3. \A p \in Pointers : p <= memblk_pool_index => p \in 0 .. memblk_pool_index
  BY <1>1 DEF Pointers, Blocks
<1>4. \A b \in 1 .. memblk_pool_index : memblk_pool[b] \in Memblk
  BY <1>1, <1>2
<1>5. \A b \in 1 .. memblk_pool_index : memblk_pool[b].next \in 0 .. memblk_pool_index
  BY <1>3, <1>4 DEF IInv, LinksIssued, Issued, Memblk
<1>6. /\ free_memblk_list \in 0 .. memblk_pool_index
      /\ allc_memblk_list \in 0 .. memblk_pool_index
      /\ prev \in 0 .. memblk_pool_index
      /\ current \in 0 .. memblk_pool_index
  BY <1>3 DEF IInv, TypeOK, LinksIssued, Issued
<1> QED BY <1>1, <1>2, <1>4, <1>5, <1>6 DEF IInv, BlocksInHeap

(* What a step that leaves descriptors and regions alone has to show.      *)
LEMMA KeepsBlocks ==
  ASSUME BlocksInHeap, HeldInHeap, UNCHANGED <<lists, held>>
  PROVE  BlocksInHeap' /\ HeldInHeap'
  BY DEF BlocksInHeap, HeldInHeap, InHeap, lists

(* A loop iteration that only moves the iteration variables.               *)
LEMMA IInvAdvance ==
  ASSUME IInv, current # NULL, pc # "idle", Advance PROVE IInv'
<1>1. TypeOK'
  BY DEF Advance, IInv, TypeOK, LinksIssued, Issued, Blocks, Pointers, Memblk, lists
<1>2. LinksIssued'
  BY DEF Advance, IInv, TypeOK, LinksIssued, Issued, Blocks, Pointers, lists
<1>3. Uninitialised' /\ CallInProgress'
  BY DEF Advance, IInv, Uninitialised, CallInProgress, lists
<1>4. BlocksInHeap' /\ HeldInHeap'
  BY KeepsBlocks DEF Advance, IInv
<1> QED BY <1>1, <1>2, <1>3, <1>4 DEF IInv

(* A call that returns without touching the lists.                         *)
LEMMA IInvReturn ==
  ASSUME IInv, Return, UNCHANGED <<lists, heap_s, range, held>> PROVE IInv'
<1>1. TypeOK'
  BY DEF Return, IInv, TypeOK, Pointers, lists
<1>2. LinksIssued'
  BY DEF Return, IInv, TypeOK, LinksIssued, Issued, lists
<1>3. Uninitialised' /\ CallInProgress'
  BY DEF Return, IInv, Uninitialised, CallInProgress, lists
<1>4. BlocksInHeap' /\ HeldInHeap'
  BY KeepsBlocks DEF IInv
<1> QED BY <1>1, <1>2, <1>3, <1>4 DEF IInv

LEMMA IInvInitMemallc == IInv /\ InitMemallc => IInv'
<1> SUFFICES ASSUME IInv, InitMemallc PROVE IInv'
  OBVIOUS
<1>1. TypeOK'
  BY DEF InitMemallc, frame, IInv, TypeOK, Blocks, Pointers, Memblk
<1>2. memblk_pool'[1] = [addr |-> HeapStart, size |-> HeapRange, next |-> NULL]
  BY DEF InitMemallc, IInv, TypeOK, Blocks
<1>3. LinksIssued'
  BY <1>2 DEF InitMemallc, frame, IInv, Uninitialised, LinksIssued, Issued
<1>4. Uninitialised' /\ CallInProgress'
  BY DEF InitMemallc, frame, IInv, Uninitialised, CallInProgress
<1>5. BlocksInHeap' /\ HeldInHeap'
  BY <1>2 DEF InitMemallc, frame, IInv, BlocksInHeap, HeldInHeap, InHeap, HeapEnd
<1> QED BY <1>1, <1>3, <1>4, <1>5 DEF IInv

LEMMA IInvSetRange ==
  ASSUME IInv, NEW r \in Ranges, SetRange(r) PROVE IInv'
<1>1. TypeOK'
  BY DEF SetRange, frame, lists, IInv, TypeOK
<1>2. LinksIssued'
  BY DEF SetRange, frame, lists, IInv, LinksIssued, Issued
<1>3. Uninitialised' /\ CallInProgress'
  BY DEF SetRange, frame, lists, IInv, Uninitialised, CallInProgress
<1>4. BlocksInHeap' /\ HeldInHeap'
  BY KeepsBlocks DEF SetRange, IInv
<1> QED BY <1>1, <1>2, <1>3, <1>4 DEF IInv

LEMMA IInvMemallc ==
  ASSUME IInv, NEW o \in Owners, NEW size \in Sizes, Memallc(o, size) PROVE IInv'
<1> DEFINE wanted == IF size > range THEN range ELSE size
<1>1. wanted \in Nat
  BY DEF IInv, TypeOK
<1>2. CASE free_memblk_list = NULL \/ wanted = 0
  BY <1>2, IInvReturn DEF Memallc
<1>3. CASE ~ (free_memblk_list = NULL \/ wanted = 0)
  <2>1. Enter("search", o, wanted, free_memblk_list) /\ UNCHANGED <<lists, heap_s, range, held>>
    BY <1>3 DEF Memallc
  <2>2. TypeOK'
    BY <2>1, <1>1 DEF Enter, lists, IInv, TypeOK, Pointers
  <2>3. LinksIssued'
    BY <2>1 DEF Enter, lists, IInv, TypeOK, LinksIssued, Issued
  <2>4. Uninitialised' /\ CallInProgress'
    BY <2>1, <1>3, <1>1 DEF Enter, lists, IInv, Uninitialised, CallInProgress
  <2>5. BlocksInHeap' /\ HeldInHeap'
    BY <2>1, KeepsBlocks DEF IInv
  <2> QED BY <2>2, <2>3, <2>4, <2>5 DEF IInv
<1> QED BY <1>2, <1>3

(* The step that splits and grants a block.                                *)
LEMMA IInvTakeBlock == IInv /\ TakeBlock => IInv'
<1> SUFFICES ASSUME IInv, TakeBlock PROVE IInv'
  OBVIOUS
<1> DEFINE new == memblk_pool_index + 1
           b == memblk_pool[current]
           split == SplitPool
           unlinked == IF prev = NULL THEN split
                       ELSE SetNext(split, prev, split[current].next)
<1>1. /\ memblk_pool \in [Blocks -> Memblk] /\ memblk_pool_index \in 0 .. PoolSize
      /\ current \in 1 .. memblk_pool_index /\ prev \in 0 .. memblk_pool_index
      /\ arg \in Nat \ {0} /\ arg <= b.size /\ current \in Blocks
      /\ allc_memblk_list \in 0 .. memblk_pool_index
      /\ caller \in Owners
      /\ free_memblk_list \in 0 .. memblk_pool_index
  <2>1. pc = "search" /\ current # NULL /\ b.size >= arg
    BY DEF TakeBlock, Fits
  <2>2. current \in 1 .. memblk_pool_index /\ current \in Blocks
    BY <2>1, Shape
  <2>3. arg \in Nat \ {0} /\ caller \in Owners
    BY <2>1 DEF IInv, TypeOK, CallInProgress
  <2>4. b.size \in Nat
    BY <2>2, Shape DEF Memblk
  <2> QED BY <2>1, <2>2, <2>3, <2>4, Shape
<1>2. b \in Memblk /\ InHeap(b) /\ b.next <= memblk_pool_index
  BY <1>1 DEF IInv, BlocksInHeap, LinksIssued, Issued
<1>3. /\ split \in [Blocks -> Memblk]
      /\ memblk_pool_index' \in {memblk_pool_index, new} /\ memblk_pool_index' \in 0 .. PoolSize
      /\ \A c \in 1 .. memblk_pool_index' :
           InHeap(split[c]) /\ split[c].next <= memblk_pool_index'
      /\ split[current].addr = b.addr
      /\ arg <= split[current].size
  <2>1. CASE SplitNeeded
    <3>1. new \in Blocks /\ memblk_pool_index' = new /\ arg < b.size /\ new # current
      BY <2>1, <1>1 DEF TakeBlock, SplitNeeded, Blocks
    <3> DEFINE tail == [addr |-> b.addr + arg, size |-> b.size - arg, next |-> b.next]
               front == [addr |-> b.addr, size |-> arg, next |-> new]
    <3>2. split = [memblk_pool EXCEPT ![new] = tail, ![current] = front]
      BY <2>1 DEF SplitPool
    <3>3. tail \in Memblk /\ front \in Memblk
      BY <3>1, <1>1, <1>2 DEF Memblk, Pointers, Blocks
    <3>4. InHeap(tail) /\ InHeap(front)
      BY <3>1, <1>1, <1>2 DEF InHeap, HeapEnd, Memblk
    <3>5. split[new] = tail /\ split[current] = front
           /\ \A c \in Blocks : c # new /\ c # current => split[c] = memblk_pool[c]
      BY <3>1, <3>2, <1>1
    <3>6. split \in [Blocks -> Memblk]
      BY <3>2, <3>3, <1>1
    <3>7. ASSUME NEW c \in 1 .. new PROVE InHeap(split[c]) /\ split[c].next <= new
      <4>1. CASE c = new
        BY <4>1, <3>5, <3>4, <1>1, <1>2 DEF Memblk, Pointers, Blocks
      <4>2. CASE c = current
        BY <4>2, <3>5, <3>4, <1>1
      <4>3. CASE c # new /\ c # current
        <5>1. c \in 1 .. memblk_pool_index /\ c \in Blocks /\ memblk_pool[c] \in Memblk
          BY <4>3, <1>1, <3>1 DEF Blocks
        <5>2. split[c] = memblk_pool[c]
          BY <5>1, <4>3, <3>5
        <5>3. InHeap(memblk_pool[c]) /\ memblk_pool[c].next \in 0 .. memblk_pool_index
          BY <5>1, Shape
        <5> HIDE DEF split
        <5> QED BY <5>2, <5>3, <1>1
      <4> QED BY <4>1, <4>2, <4>3
    <3> HIDE DEF tail, front, split
    <3> QED BY <3>1, <3>5, <3>6, <3>7, <1>1 DEF tail, front, Blocks
  <2>2. CASE ~ SplitNeeded
    <3>1. split = memblk_pool /\ memblk_pool_index' = memblk_pool_index
      BY <2>2 DEF SplitPool, TakeBlock
    <3> QED BY <3>1, <1>1, <1>2 DEF IInv, BlocksInHeap, LinksIssued, Issued
  <2> QED BY <2>1, <2>2
<1> HIDE DEF split
<1>4. /\ unlinked \in [Blocks -> Memblk]
      /\ \A c \in Blocks : unlinked[c].addr = split[c].addr /\ unlinked[c].size = split[c].size
      /\ \A c \in Blocks : unlinked[c].next = split[c].next \/ unlinked[c].next = split[current].next
  <2>1. split[current].next \in Pointers
    BY <1>3, <1>1 DEF Memblk
  <2>2. CASE prev = NULL
    BY <2>2, <1>3
  <2>3. CASE prev # NULL
    <3>1. prev \in Blocks /\ unlinked = SetNext(split, prev, split[current].next)
      BY <2>3, <1>1 DEF Blocks
    <3> QED BY <3>1, <1>3, <2>1, SetNextEffect
  <2> QED BY <2>2, <2>3
<1> HIDE DEF unlinked
<1>5. memblk_pool' = SetNext(unlinked, current, allc_memblk_list)
  BY DEF TakeBlock, unlinked, split
<1>6. /\ memblk_pool' \in [Blocks -> Memblk]
      /\ \A c \in Blocks : memblk_pool'[c].addr = split[c].addr /\ memblk_pool'[c].size = split[c].size
      /\ \A c \in Blocks : memblk_pool'[c].next \in
             {split[c].next, split[current].next, allc_memblk_list}
  <2>1. allc_memblk_list \in Pointers
    BY <1>1 DEF Pointers, Blocks
  <2> QED BY <1>4, <1>5, <1>1, <2>1, SetNextEffect
<1>7. split[current].next \in Pointers /\ split[current].next <= memblk_pool_index'
  BY <1>1, <1>3 DEF Memblk, Blocks
<1>8. free_memblk_list' \in {split[current].next, free_memblk_list} /\ allc_memblk_list' = current
  BY DEF TakeBlock, split
<1>9. TypeOK'
  <2> DEFINE r == [addr |-> b.addr, size |-> arg]
  <2>1. r \in Region
    BY <1>1, <1>2 DEF Region, Memblk
  <2>2. held' = [held EXCEPT ![caller] = r]
    BY DEF TakeBlock
  <2>3. held' \in [Owners -> Region]
    BY <2>1, <2>2 DEF IInv, TypeOK
  <2>4. free_memblk_list' \in Pointers /\ allc_memblk_list' \in Pointers
    BY <1>1, <1>7, <1>8 DEF Pointers, Blocks
  <2>5. /\ heap_s' \in {NULL, HeapStart} /\ range' \in Nat
        /\ pc' = "idle" /\ caller' = Nobody /\ arg' = 0 /\ prev' = NULL /\ current' = NULL
    BY DEF TakeBlock, Return, IInv, TypeOK
  <2> QED BY <2>3, <2>4, <2>5, <1>3, <1>6 DEF TypeOK, Pointers
<1>10. LinksIssued'
  <2>1. \A c \in 1 .. memblk_pool_index' : memblk_pool'[c].next <= memblk_pool_index'
    <3>1. \A c \in 1 .. memblk_pool_index' : c \in Blocks
      BY <1>3 DEF Blocks
    <3>2. allc_memblk_list <= memblk_pool_index'
      BY <1>1, <1>3
    <3> QED BY <3>1, <3>2, <1>3, <1>6, <1>7
  <2>2. prev' = NULL /\ current' = NULL
    BY DEF TakeBlock, Return
  <2>3. free_memblk_list' <= memblk_pool_index' /\ allc_memblk_list' <= memblk_pool_index'
    BY <1>1, <1>3, <1>7, <1>8
  <2>4. 0 <= memblk_pool_index'
    BY <1>3
  <2> QED BY <2>1, <2>2, <2>3, <2>4 DEF LinksIssued, Issued
<1>11. Uninitialised' /\ CallInProgress'
  BY DEF TakeBlock, Return, IInv, Uninitialised, CallInProgress
<1>12. BlocksInHeap'
  <2>1. \A c \in 1 .. memblk_pool_index' : c \in Blocks
    BY <1>3 DEF Blocks
  <2> QED BY <2>1, <1>3, <1>6 DEF BlocksInHeap, InHeap
<1>13. HeldInHeap'
  <2>1. InHeap([addr |-> b.addr, size |-> arg])
    BY <1>1, <1>2 DEF InHeap, HeapEnd, Memblk
  <2>2. held' = [held EXCEPT ![caller] = [addr |-> b.addr, size |-> arg]]
    BY DEF TakeBlock
  <2> QED BY <2>1, <2>2, <1>1 DEF IInv, TypeOK, HeldInHeap
<1> QED BY <1>9, <1>10, <1>11, <1>12, <1>13 DEF IInv

LEMMA IInvFreeMemallc ==
  ASSUME IInv, NEW o \in Owners, FreeMemallc(o) PROVE IInv'
<1>1. /\ held' = [held EXCEPT ![o] = NoRegion]
      /\ UNCHANGED <<lists, heap_s, range>>
      /\ \/ Return
         \/ Enter("lookup", o, held[o].addr, allc_memblk_list) /\ allc_memblk_list # NULL
  BY DEF FreeMemallc
<1>2. held' \in [Owners -> Region] /\ held[o].addr \in Nat
  BY <1>1 DEF IInv, TypeOK, Region, NoRegion
<1>3. TypeOK'
  BY <1>1, <1>2 DEF Return, Enter, lists, IInv, TypeOK, Pointers
<1>4. LinksIssued'
  BY <1>1, Shape DEF Return, Enter, lists, IInv, LinksIssued, Issued
<1>5. Uninitialised' /\ CallInProgress'
  BY <1>1 DEF Return, Enter, lists, IInv, Uninitialised, CallInProgress
<1>6. BlocksInHeap'
  BY <1>1 DEF lists, IInv, BlocksInHeap
<1>7. HeldInHeap'
  BY <1>1 DEF IInv, TypeOK, HeldInHeap
<1> QED BY <1>3, <1>4, <1>5, <1>6, <1>7 DEF IInv

LEMMA IInvUnlink == IInv /\ Unlink => IInv'
<1> SUFFICES ASSUME IInv, Unlink PROVE IInv'
  OBVIOUS
<1> DEFINE after == memblk_pool[current].next
           unlinked == IF prev = NULL THEN memblk_pool
                       ELSE SetNext(memblk_pool, prev, after)
<1>1. /\ pc = "lookup" /\ current # NULL
      /\ memblk_pool' = SetNext(unlinked, current, free_memblk_list)
      /\ allc_memblk_list' \in {after, allc_memblk_list}
      /\ free_memblk_list' = current
      /\ Enter("defragment", caller, arg, current)
      /\ UNCHANGED <<memblk_pool_index, heap_s, range, held>>
  BY DEF Unlink
<1>2. /\ current \in 1 .. memblk_pool_index /\ current \in Blocks
      /\ after \in 0 .. memblk_pool_index /\ after \in Pointers
  BY <1>1, Shape
<1>3. /\ unlinked \in [Blocks -> Memblk]
      /\ \A c \in Blocks : /\ unlinked[c].addr = memblk_pool[c].addr
                           /\ unlinked[c].size = memblk_pool[c].size
                           /\ unlinked[c].next \in {memblk_pool[c].next, after}
  <2>1. CASE prev = NULL
    BY <2>1, Shape
  <2>2. CASE prev # NULL
    <3>1. prev \in Blocks /\ unlinked = SetNext(memblk_pool, prev, after)
      BY <2>2, Shape
    <3> QED BY <3>1, <1>2, Shape, SetNextEffect
  <2> QED BY <2>1, <2>2
<1> HIDE DEF unlinked
<1>4. /\ memblk_pool' \in [Blocks -> Memblk]
      /\ \A c \in Blocks :
           /\ memblk_pool'[c].addr = memblk_pool[c].addr
           /\ memblk_pool'[c].size = memblk_pool[c].size
           /\ memblk_pool'[c].next \in {memblk_pool[c].next, after, free_memblk_list}
  <2>1. free_memblk_list \in Pointers
    BY Shape
  <2> QED BY <2>1, <1>1, <1>2, <1>3, SetNextEffect
<1> HIDE DEF after
<1>5. TypeOK'
  <2>1. allc_memblk_list' \in Pointers
    BY <1>1, <1>2, Shape
  <2> QED BY <2>1, <1>1, <1>2, <1>4 DEF Enter, IInv, TypeOK, Pointers
<1>6. LinksIssued'
  <2>1. \A c \in 1 .. memblk_pool_index : memblk_pool'[c].next <= memblk_pool_index
    BY <1>2, <1>4, Shape
  <2> QED BY <2>1, <1>1, <1>2, Shape DEF Enter, LinksIssued, Issued
<1>7. Uninitialised' /\ CallInProgress'
  BY <1>1 DEF Enter, IInv, Uninitialised, CallInProgress
<1>8. BlocksInHeap' /\ HeldInHeap'
  BY <1>1, <1>4, Shape DEF IInv, BlocksInHeap, HeldInHeap, InHeap
<1> QED BY <1>5, <1>6, <1>7, <1>8 DEF IInv

(* Every end of defragment_memblk: the call returns, the heads stay, and   *)
(* what became of the descriptors is still in order.                       *)
LEMMA IInvDefragmented ==
  ASSUME IInv, pc = "defragment", Return,
         UNCHANGED <<memblk_pool_index, free_memblk_list, allc_memblk_list,
                     heap_s, range, held>>,
         memblk_pool' \in [Blocks -> Memblk],
         \A b \in 1 .. memblk_pool_index :
           /\ memblk_pool'[b].next \in 0 .. memblk_pool_index
           /\ InHeap(memblk_pool'[b])
  PROVE  IInv'
<1>1. TypeOK'
  BY DEF Return, IInv, TypeOK, Pointers
<1>2. LinksIssued'
  BY Shape DEF Return, LinksIssued, Issued
<1>3. Uninitialised' /\ CallInProgress'
  BY DEF Return, IInv, Uninitialised, CallInProgress
<1>4. BlocksInHeap' /\ HeldInHeap'
  BY DEF IInv, BlocksInHeap, HeldInHeap
<1> QED BY <1>1, <1>2, <1>3, <1>4 DEF IInv

(* Setting a link between issued blocks keeps the descriptors in order.    *)
LEMMA SetNextKeeps ==
  ASSUME IInv, NEW pool \in [Blocks -> Memblk],
         \A d \in 1 .. memblk_pool_index :
           pool[d].next \in 0 .. memblk_pool_index /\ InHeap(pool[d]),
         NEW b \in 1 .. memblk_pool_index, NEW p \in 0 .. memblk_pool_index
  PROVE  /\ SetNext(pool, b, p) \in [Blocks -> Memblk]
         /\ \A d \in 1 .. memblk_pool_index :
              /\ SetNext(pool, b, p)[d].next \in 0 .. memblk_pool_index
              /\ InHeap(SetNext(pool, b, p)[d])
<1>1. 1 .. memblk_pool_index \subseteq Blocks /\ p \in Pointers
  BY Shape
<1>2. /\ SetNext(pool, b, p) \in [Blocks -> Memblk]
      /\ \A c \in Blocks : /\ SetNext(pool, b, p)[c].addr = pool[c].addr
                           /\ SetNext(pool, b, p)[c].size = pool[c].size
                           /\ SetNext(pool, b, p)[c].next =
                                IF c = b THEN p ELSE pool[c].next
  BY <1>1, SetNextEffect
<1> QED BY <1>1, <1>2 DEF InHeap

(* Two blocks of which the first ends where the second begins, merged.     *)
LEMMA Merged ==
  ASSUME IInv, NEW b \in 1 .. memblk_pool_index, NEW c \in 1 .. memblk_pool_index,
         Precedes(b, c)
  PROVE  /\ Absorb(b, c) \in [Blocks -> Memblk]
         /\ \A d \in 1 .. memblk_pool_index :
              /\ Absorb(b, c)[d].next \in 0 .. memblk_pool_index
              /\ InHeap(Absorb(b, c)[d])
<1> DEFINE pool == Absorb(b, c)
           p == memblk_pool[c].next
           m == [addr |-> memblk_pool[b].addr,
                 size |-> memblk_pool[b].size + memblk_pool[c].size,
                 next |-> p]
<1>1. /\ memblk_pool[b] \in Memblk /\ memblk_pool[c] \in Memblk
      /\ b \in Blocks /\ p \in Pointers /\ p \in 0 .. memblk_pool_index
  BY Shape
<1>2. m \in Memblk
  BY <1>1 DEF Memblk
<1>3. pool = [memblk_pool EXCEPT ![b] = m]
  BY <1>1, Shape DEF Absorb
<1> HIDE DEF pool
<1>4. pool \in [Blocks -> Memblk]
  BY <1>1, <1>2, <1>3, Shape
<1>5. InHeap(m)
  <2>1. InHeap(memblk_pool[b]) /\ InHeap(memblk_pool[c])
    BY Shape
  <2> QED BY <1>1, <2>1 DEF Precedes, InHeap, HeapEnd, Memblk
<1>6. ASSUME NEW d \in 1 .. memblk_pool_index
      PROVE  pool[d].next \in 0 .. memblk_pool_index /\ InHeap(pool[d])
  <2>1. d \in Blocks
    BY Shape
  <2>2. CASE d = b
    BY <2>1, <2>2, <1>1, <1>3, <1>5, Shape
  <2>3. CASE d # b
    <3>1. pool[d] = memblk_pool[d]
      BY <2>1, <2>3, <1>3, Shape
    <3> QED BY <3>1, Shape
  <2> QED BY <2>2, <2>3
<1> QED BY <1>4, <1>6 DEF pool

LEMMA IInvMergeIntoPredecessor == IInv /\ MergeIntoPredecessor => IInv'
<1> SUFFICES ASSUME IInv, MergeIntoPredecessor PROVE IInv'
  OBVIOUS
<1>1. /\ current \in 1 .. memblk_pool_index /\ block \in 1 .. memblk_pool_index
      /\ memblk_pool[block].next \in 0 .. memblk_pool_index
  BY Shape DEF MergeIntoPredecessor, block, IInv, CallInProgress
<1>2. /\ memblk_pool' \in [Blocks -> Memblk]
      /\ \A d \in 1 .. memblk_pool_index :
           /\ memblk_pool'[d].next \in 0 .. memblk_pool_index
           /\ InHeap(memblk_pool'[d])
  BY <1>1, Merged DEF MergeIntoPredecessor
<1> QED BY <1>2, IInvDefragmented DEF MergeIntoPredecessor

LEMMA IInvMergeSuccessor == IInv /\ MergeSuccessor => IInv'
<1> SUFFICES ASSUME IInv, MergeSuccessor PROVE IInv'
  OBVIOUS
<1> DEFINE merged == Absorb(block, current)
<1>1. /\ current \in 1 .. memblk_pool_index /\ block \in 1 .. memblk_pool_index
      /\ memblk_pool[current].next \in 0 .. memblk_pool_index
      /\ block \in Pointers
  BY Shape DEF MergeSuccessor, block, IInv, CallInProgress
<1>2. /\ merged \in [Blocks -> Memblk]
      /\ \A d \in 1 .. memblk_pool_index :
           /\ merged[d].next \in 0 .. memblk_pool_index
           /\ InHeap(merged[d])
  BY <1>1, Merged DEF MergeSuccessor
<1>3. memblk_pool' \in {merged, SetNext(merged, prev, block)}
       /\ (memblk_pool' = merged \/ prev # NULL)
  BY DEF MergeSuccessor
<1> HIDE DEF merged
<1>4. /\ memblk_pool' \in [Blocks -> Memblk]
      /\ \A d \in 1 .. memblk_pool_index :
           /\ memblk_pool'[d].next \in 0 .. memblk_pool_index
           /\ InHeap(memblk_pool'[d])
  <2>1. CASE memblk_pool' = merged
    BY <2>1, <1>2
  <2>2. CASE memblk_pool' # merged
    <3>1. prev \in 1 .. memblk_pool_index /\ block \in 0 .. memblk_pool_index
      BY <2>2, <1>1, <1>3, Shape
    <3> QED BY <2>2, <3>1, <1>2, <1>3, SetNextKeeps
  <2> QED BY <2>1, <2>2
<1> QED BY <1>4, IInvDefragmented DEF MergeSuccessor

LEMMA IInvNoNeighbour == IInv /\ NoNeighbour => IInv'
<1> SUFFICES ASSUME IInv, NoNeighbour PROVE IInv'
  OBVIOUS
<1>1. /\ block \in 1 .. memblk_pool_index /\ block \in Blocks
      /\ free_memblk_list \in 0 .. memblk_pool_index /\ free_memblk_list \in Pointers
  BY Shape DEF NoNeighbour, block, IInv, CallInProgress
<1>2. /\ memblk_pool' \in [Blocks -> Memblk]
      /\ \A d \in 1 .. memblk_pool_index :
           /\ memblk_pool'[d].next \in 0 .. memblk_pool_index
           /\ InHeap(memblk_pool'[d])
  BY <1>1, Shape, SetNextKeeps DEF NoNeighbour
<1> QED BY <1>2, IInvDefragmented DEF NoNeighbour

LEMMA IInvStep == IInv /\ [Next]_vars => IInv'
<1> SUFFICES ASSUME IInv, [Next]_vars PROVE IInv'
  OBVIOUS
<1>1. CASE InitMemallc
  BY <1>1, IInvInitMemallc
<1>2. CASE \E r \in Ranges : SetRange(r)
  BY <1>2, IInvSetRange
<1>3. CASE \E o \in Owners, size \in Sizes : Memallc(o, size)
  BY <1>3, IInvMemallc
<1>4. CASE Search \/ Lookup \/ Defragment
  BY <1>4, IInvAdvance DEF Search, Lookup, Defragment
<1>5. CASE NoneFits \/ NotFound
  BY <1>5, IInvReturn DEF NoneFits, NotFound
<1>6. CASE TakeBlock
  BY <1>6, IInvTakeBlock
<1>7. CASE \E o \in Owners : FreeMemallc(o)
  BY <1>7, IInvFreeMemallc
<1>8. CASE Unlink
  BY <1>8, IInvUnlink
<1>9. CASE MergeIntoPredecessor
  BY <1>9, IInvMergeIntoPredecessor
<1>10. CASE MergeSuccessor
  BY <1>10, IInvMergeSuccessor
<1>11. CASE NoNeighbour
  BY <1>11, IInvNoNeighbour
<1>12. CASE UNCHANGED vars
  <2>1. TypeOK'
    BY <1>12 DEF vars, lists, frame, IInv, TypeOK
  <2>2. LinksIssued'
    BY <1>12 DEF vars, lists, frame, IInv, LinksIssued, Issued
  <2>3. Uninitialised' /\ CallInProgress'
    BY <1>12 DEF vars, lists, frame, IInv, Uninitialised, CallInProgress
  <2>4. BlocksInHeap' /\ HeldInHeap'
    BY <1>12, KeepsBlocks DEF vars, IInv
  <2> QED BY <2>1, <2>2, <2>3, <2>4 DEF IInv
<1> QED
  BY <1>1, <1>2, <1>3, <1>4, <1>5, <1>6, <1>7, <1>8, <1>9, <1>10, <1>11, <1>12
  DEF Next, AllocOnlyNext, AllocSteps, FreeSteps

LEMMA IInvAlways == Spec => []IInv
  BY InitIInv, IInvStep, PTL DEF Spec

(* Type correctness of memallc.c, for clients that free in any order.      *)
THEOREM TypeCorrect == Spec => []TypeOK
<1>1. IInv => TypeOK
  BY DEF IInv
<1> QED BY <1>1, IInvAlways, PTL

(* However badly the lists are damaged, splitting and merging never make a *)
(* block that reaches outside the heap or is empty (memallc.c:169-231).    *)
THEOREM BlocksStayInHeap == Spec => []BlocksInHeap
<1>1. IInv => BlocksInHeap
  BY DEF IInv
<1> QED BY <1>1, IInvAlways, PTL

(* memallc never returns a region that is not all heap (memallc.c:64-85).  *)
THEOREM RegionsStayInHeap == Spec => []HeldInHeap
<1>1. IInv => HeldInHeap
  BY DEF IInv
<1> QED BY <1>1, IInvAlways, PTL

-----------------------------------------------------------------------------
(* Walks along a list, in any pool: also where the list runs in a circle.  *)

WalkOf(pool, head) ==
  LET at[n \in 0 .. PoolSize] ==
        IF n = 0 THEN head
        ELSE IF at[n-1] = NULL THEN NULL ELSE pool[at[n-1]].next
  IN  at
Hop(pool, p) == IF p = NULL THEN NULL ELSE pool[p].next

LEMMA WalkIsWalk == \A head : Walk(head) = WalkOf(memblk_pool, head)
BY DEF Walk, WalkOf

LEMMA WalkHops ==
  ASSUME NEW pool \in [Blocks -> Memblk], NEW head \in Pointers
  PROVE  /\ WalkOf(pool, head)[0] = head
         /\ \A n \in 0 .. PoolSize : WalkOf(pool, head)[n] \in Pointers
         /\ \A n \in 0 .. PoolSize - 1 :
              WalkOf(pool, head)[n + 1] = Hop(pool, WalkOf(pool, head)[n])
<1>. DEFINE step == [p \in Pointers |-> Hop(pool, p)]
            Hops(w) == w = [n \in 0 .. PoolSize |->
                              IF n = 0 THEN head
                              ELSE IF w[n-1] = NULL THEN NULL ELSE pool[w[n-1]].next]
            Steps(w) == w = [n \in 0 .. PoolSize |->
                               IF n = 0 THEN head ELSE step[w[n-1]]]
            Stays(w) == \A n \in 0 .. PoolSize : w[n] \in Pointers
<1>1. \A p \in Pointers : Hop(pool, p) \in Pointers
  BY DEF Hop, Pointers, Memblk
<1>2. PICK g : Steps(g)
  <2>. DEFINE G == LET f[k \in 0 .. PoolSize] == IF k = 0 THEN head ELSE step[f[k-1]]
                   IN  f
  <2>. HIDE DEF step
  <2>1. G = [k \in 0 .. PoolSize |-> IF k = 0 THEN head ELSE step[G[k-1]]]
    BY RecursiveFunction
  <2>. HIDE DEF G
  <2>2. Steps(G)
    BY <2>1
  <2>. QED  BY <2>2
<1>3. Stays(g)
  <2>. DEFINE A == {n \in Nat : n <= PoolSize => g[n] \in Pointers}
  <2>1. 0 \in A
    BY <1>2
  <2>2. ASSUME NEW n \in Nat, n \in A PROVE n + 1 \in A
    <3>. SUFFICES ASSUME n + 1 <= PoolSize PROVE g[n + 1] \in Pointers
      OBVIOUS
    <3>1. n + 1 \in 0 .. PoolSize /\ (n + 1) - 1 = n /\ n + 1 # 0 /\ g[n] \in Pointers
      BY <2>2
    <3>2. g[n + 1] = step[g[n]]
      BY <1>2, <3>1
    <3>. QED  BY <1>1, <3>1, <3>2
  <2>3. Nat \subseteq A
    <3>. HIDE DEF A
    <3>. QED  BY <2>1, <2>2, SetInduction
  <2>. QED  BY <2>3
<1>4. Hops(g)
  <2>1. \A n \in 0 .. PoolSize : n # 0 => n - 1 \in 0 .. PoolSize
    OBVIOUS
  <2>2. \A n \in 0 .. PoolSize : n # 0 =>
          step[g[n-1]] = IF g[n-1] = NULL THEN NULL ELSE pool[g[n-1]].next
    BY <1>3, <2>1 DEF Hop
  <2>. HIDE DEF step
  <2>. QED  BY <1>2, <2>2
<1>. DEFINE W == WalkOf(pool, head)
<1>5. Hops(W)
  <2>1. W = CHOOSE w : Hops(w)
    BY DEF WalkOf
  <2>. HIDE DEF W, Hops
  <2>. QED  BY <1>4, <2>1
<1>. HIDE DEF W
<1>6. Stays(W)
  <2>. DEFINE A == {n \in Nat : n <= PoolSize => W[n] \in Pointers}
  <2>1. 0 \in A
    BY <1>5
  <2>2. ASSUME NEW n \in Nat, n \in A PROVE n + 1 \in A
    <3>. SUFFICES ASSUME n + 1 <= PoolSize PROVE W[n + 1] \in Pointers
      OBVIOUS
    <3>1. n + 1 \in 0 .. PoolSize /\ (n + 1) - 1 = n /\ n + 1 # 0 /\ W[n] \in Pointers
      BY <2>2
    <3>2. W[n + 1] = Hop(pool, W[n])
      BY <1>5, <3>1 DEF Hop
    <3>. QED  BY <1>1, <3>1, <3>2
  <2>3. Nat \subseteq A
    <3>. HIDE DEF A
    <3>. QED  BY <2>1, <2>2, SetInduction
  <2>. QED  BY <2>3
<1>7. ASSUME NEW n \in 0 .. PoolSize - 1 PROVE W[n + 1] = Hop(pool, W[n])
  <2>1. n + 1 \in 0 .. PoolSize /\ (n + 1) - 1 = n /\ n + 1 # 0
    OBVIOUS
  <2>. QED  BY <1>5, <2>1 DEF Hop
<1>8. W[0] = head
  BY <1>5
<1>. QED  BY <1>6, <1>7, <1>8 DEF W

(* A walk that comes back to a block goes on as it did before.             *)
LEMMA WalkRepeats ==
  ASSUME NEW pool \in [Blocks -> Memblk], NEW head \in Pointers,
         NEW j \in Nat, NEW l \in Nat, j <= l,
         WalkOf(pool, head)[j] = WalkOf(pool, head)[l]
  PROVE  \A d \in Nat : l + d <= PoolSize =>
           WalkOf(pool, head)[j + d] = WalkOf(pool, head)[l + d]
<1>. DEFINE W == WalkOf(pool, head)
            A == {d \in Nat : l + d <= PoolSize => W[j + d] = W[l + d]}
<1>1. \A n \in 0 .. PoolSize - 1 : W[n + 1] = Hop(pool, W[n])
  BY WalkHops
<1>2. W[j] = W[l]
  OBVIOUS
<1>. HIDE DEF W
<1>3. 0 \in A
  BY <1>2
<1>4. ASSUME NEW d \in Nat, d \in A PROVE d + 1 \in A
  <2>. SUFFICES ASSUME l + (d + 1) <= PoolSize PROVE W[j + (d + 1)] = W[l + (d + 1)]
    OBVIOUS
  <2>1. /\ j + d \in 0 .. PoolSize - 1 /\ l + d \in 0 .. PoolSize - 1
        /\ j + (d + 1) = (j + d) + 1 /\ l + (d + 1) = (l + d) + 1
    OBVIOUS
  <2>2. W[j + d] = W[l + d]
    BY <1>4, <2>1
  <2>. QED  BY <1>1, <2>1, <2>2
<1>5. Nat \subseteq A
  <2>. HIDE DEF A
  <2>. QED  BY <1>3, <1>4, SetInduction
<1>. QED  BY <1>5 DEF W

(* A walk that has come to its end stays there.                            *)
LEMMA WalkEnds ==
  ASSUME NEW pool \in [Blocks -> Memblk], NEW head \in Pointers,
         NEW n \in 0 .. PoolSize, WalkOf(pool, head)[n] = NULL
  PROVE  \A m \in n .. PoolSize : WalkOf(pool, head)[m] = NULL
<1>. DEFINE W == WalkOf(pool, head)
            A == {d \in Nat : n + d <= PoolSize => W[n + d] = NULL}
<1>1. \A k \in 0 .. PoolSize - 1 : W[k + 1] = Hop(pool, W[k])
  BY WalkHops
<1>2. W[n] = NULL
  OBVIOUS
<1>. HIDE DEF W
<1>3. 0 \in A
  BY <1>2
<1>4. ASSUME NEW d \in Nat, d \in A PROVE d + 1 \in A
  <2>. SUFFICES ASSUME n + (d + 1) <= PoolSize PROVE W[n + (d + 1)] = NULL
    OBVIOUS
  <2>1. n + d \in 0 .. PoolSize - 1 /\ n + (d + 1) = (n + d) + 1 /\ W[n + d] = NULL
    BY <1>4
  <2>. QED  BY <1>1, <2>1 DEF Hop
<1>5. Nat \subseteq A
  <2>. HIDE DEF A
  <2>. QED  BY <1>3, <1>4, SetInduction
<1>6. \A m \in n .. PoolSize : m - n \in Nat /\ n + (m - n) = m /\ n + (m - n) <= PoolSize
  OBVIOUS
<1>7. \A m \in n .. PoolSize : m - n \in A
  BY <1>5, <1>6
<1>. QED  BY <1>6, <1>7 DEF W

(* A walk reaches p over small blocks only.                                *)
Reaches(pool, head, Small, p) ==
  \E n \in 0 .. PoolSize :
    /\ WalkOf(pool, head)[n] = p
    /\ \A m \in 0 .. n - 1 : WalkOf(pool, head)[m] \in Small

(* One hop further the number of hops still need not exceed the pool: if   *)
(* the walk has met every block, it has met one twice.                     *)
LEMMA ReachesNext ==
  ASSUME NEW pool \in [Blocks -> Memblk], NEW head \in Pointers,
         NEW Small \in SUBSET Blocks, NEW p \in Small, Reaches(pool, head, Small, p)
  PROVE  Reaches(pool, head, Small, pool[p].next)
<1>. DEFINE W == WalkOf(pool, head)
<1>1. PICK n \in 0 .. PoolSize : W[n] = p /\ \A m \in 0 .. n - 1 : W[m] \in Small
  BY DEF Reaches
<1>2. \A m \in 0 .. n : W[m] \in Small
  <2>1. \A m \in 0 .. n : m = n \/ m \in 0 .. n - 1
    OBVIOUS
  <2>. HIDE DEF W
  <2>. QED  BY <1>1, <2>1
<1>3. Hop(pool, p) = pool[p].next
  BY DEF Hop, Blocks
<1>4. \A k \in 0 .. PoolSize - 1 : W[k + 1] = Hop(pool, W[k])
  BY WalkHops
<1>5. ASSUME NEW c \in 0 .. PoolSize - 1, c <= n, W[c] = p
      PROVE  Reaches(pool, head, Small, pool[p].next)
  <2>. HIDE DEF W
  <2>1. W[c + 1] = pool[p].next /\ c + 1 \in 0 .. PoolSize
    BY <1>3, <1>4, <1>5
  <2>2. \A m \in 0 .. (c + 1) - 1 : W[m] \in Small
    BY <1>2, <1>5
  <2>. QED  BY <2>1, <2>2 DEF Reaches, W
<1>6. CASE n < PoolSize
  BY <1>1, <1>5, <1>6
<1>7. CASE n = PoolSize
  <2>. DEFINE f == [k \in 0 .. PoolSize |-> W[k]]
  <2>. HIDE DEF W
  <2>1. f \in [0 .. PoolSize -> Blocks]
    BY <1>2, <1>7
  <2>2. /\ IsFiniteSet(0 .. PoolSize) /\ Cardinality(0 .. PoolSize) = PoolSize + 1
        /\ IsFiniteSet(Blocks) /\ Cardinality(Blocks) = PoolSize
    BY FS_Interval DEF Blocks
  <2>3. \E x, y \in 0 .. PoolSize : x # y /\ f[x] = f[y]
    <3>1. Cardinality(Blocks) < Cardinality(0 .. PoolSize)
      BY <2>2
    <3>2. IsFiniteSet(0 .. PoolSize) /\ IsFiniteSet(Blocks)
      BY <2>2
    <3>. HIDE DEF f
    <3>. QED  BY <2>1, <3>1, <3>2, FS_PigeonHole, Zenon
  <2>4. PICK x \in 0 .. PoolSize, y \in 0 .. PoolSize : x < y /\ W[x] = W[y]
    <3>1. PICK x \in 0 .. PoolSize, y \in 0 .. PoolSize : x # y /\ W[x] = W[y]
      BY <2>3
    <3>. QED  BY <3>1
  <2>. DEFINE d == PoolSize - y
  <2>5. d \in Nat /\ y + d = PoolSize /\ x + d \in 0 .. PoolSize - 1 /\ x <= y
        /\ x \in Nat /\ y \in Nat
    BY <2>4
  <2>. HIDE DEF d
  <2>6. W[x + d] = W[y + d]
    <3>1. y + d <= PoolSize
      BY <2>5
    <3>2. WalkOf(pool, head)[x] = WalkOf(pool, head)[y]
      BY <2>4 DEF W
    <3>3. x \in Nat /\ y \in Nat /\ x <= y
      BY <2>5
    <3>4. \A k \in Nat : y + k <= PoolSize
                        => WalkOf(pool, head)[x + k] = WalkOf(pool, head)[y + k]
      BY <3>2, <3>3, WalkRepeats
    <3>. QED  BY <2>5, <3>1, <3>4 DEF W
  <2>7. W[x + d] = p
    BY <1>1, <1>7, <2>5, <2>6
  <2>. QED  BY <1>5, <1>7, <2>5, <2>7
<1>. QED  BY <1>6, <1>7

(* A search is where a walk gets along the free list over blocks that are  *)
(* too small.                                                              *)
TooSmall == {b \in Blocks : ~ Fits(b)}
Searched == pc = "search" => Reaches(memblk_pool, free_memblk_list, TooSmall, current)

LEMMA InitSearched == Init => Searched
BY DEF Init, Searched

LEMMA SearchedStep == IInv /\ Searched /\ [Next]_vars => Searched'
<1>. SUFFICES ASSUME IInv, Searched, [Next]_vars, pc' = "search" PROVE Searched'
  BY DEF Searched
<1>1. /\ memblk_pool \in [Blocks -> Memblk]
      /\ free_memblk_list \in Pointers /\ current \in Pointers
  BY DEF IInv, TypeOK
<1>2. ASSUME NEW o \in Owners, NEW size \in Sizes, Memallc(o, size) PROVE Searched'
  <2>1. current' = free_memblk_list /\ UNCHANGED <<memblk_pool, free_memblk_list>>
    BY <1>2 DEF Memallc, Return, Enter, lists
  <2>2. WalkOf(memblk_pool, free_memblk_list)[0] = free_memblk_list
    BY <1>1, WalkHops
  <2>3. 0 \in 0 .. PoolSize /\ \A m \in 0 .. 0 - 1 : FALSE
    OBVIOUS
  <2>4. Reaches(memblk_pool, free_memblk_list, TooSmall', free_memblk_list)
    BY <2>2, <2>3 DEF Reaches
  <2>. QED  BY <2>1, <2>4 DEF Searched
<1>3. ASSUME pc = "search", UNCHANGED <<lists, arg>>,
             current' \in {current, memblk_pool[current].next},
             current' # current => current \in TooSmall
      PROVE  Searched'
  <2>1. Reaches(memblk_pool, free_memblk_list, TooSmall, current)
    BY <1>3 DEF Searched
  <2>2. Reaches(memblk_pool, free_memblk_list, TooSmall, current')
    <3>1. CASE current' = current
      BY <2>1, <3>1
    <3>2. CASE current' # current
      <4>1. TooSmall \in SUBSET Blocks
        BY DEF TooSmall
      <4>2. current \in TooSmall /\ current' = memblk_pool[current].next
        BY <1>3, <3>2
      <4>. QED  BY <1>1, <2>1, <4>1, <4>2, ReachesNext, Zenon
    <3>. QED  BY <3>1, <3>2
  <2>3. TooSmall' = TooSmall
    BY <1>3 DEF TooSmall, Fits, lists
  <2>4. memblk_pool' = memblk_pool /\ free_memblk_list' = free_memblk_list
    BY <1>3 DEF lists
  <2>. QED  BY <2>2, <2>3, <2>4 DEF Searched
<1>4. CASE Search
  <2>1. current \in TooSmall
    BY <1>1, <1>4 DEF Search, TooSmall, Pointers
  <2>. QED  BY <1>3, <1>4, <2>1 DEF Search, Advance
<1>5. CASE \E r \in Ranges : SetRange(r)
  BY <1>3, <1>5 DEF SetRange, frame
<1>6. CASE UNCHANGED vars
  BY <1>3, <1>6 DEF vars, frame
<1>7. CASE InitMemallc
  BY <1>7 DEF InitMemallc, frame
<1>8. CASE NoneFits \/ TakeBlock \/ NotFound \/ MergeIntoPredecessor
             \/ MergeSuccessor \/ NoNeighbour
  BY <1>8 DEF NoneFits, TakeBlock, NotFound, MergeIntoPredecessor, MergeSuccessor,
              NoNeighbour, Return
<1>9. CASE Lookup \/ Defragment \/ Unlink \/ \E o \in Owners : FreeMemallc(o)
  BY <1>9 DEF Lookup, Defragment, Unlink, FreeMemallc, Advance, Enter, Return
<1>. QED  BY <1>2, <1>4, <1>5, <1>6, <1>7, <1>8, <1>9
          DEF Next, AllocOnlyNext, AllocSteps, FreeSteps

LEMMA FirstFitStep ==
  ASSUME IInv, Searched
  PROVE  /\ NoneFits => \A b \in OnList(free_memblk_list) : ~ Fits(b)
         /\ TakeBlock => \E n \in 0 .. PoolSize :
              /\ Walk(free_memblk_list)[n] = current
              /\ \A m \in 0 .. n - 1 : ~ Fits(Walk(free_memblk_list)[m])
<1>. DEFINE W == WalkOf(memblk_pool, free_memblk_list)
<1>1. memblk_pool \in [Blocks -> Memblk] /\ free_memblk_list \in Pointers
  BY DEF IInv, TypeOK
<1>2. ASSUME pc = "search"
      PROVE  \E n \in 0 .. PoolSize :
               W[n] = current /\ \A m \in 0 .. n - 1 : W[m] \in TooSmall
  BY <1>2 DEF Searched, Reaches
<1>3. ASSUME NoneFits, NEW b \in OnList(free_memblk_list) PROVE ~ Fits(b)
  <2>1. PICK n \in 0 .. PoolSize : W[n] = NULL /\ \A m \in 0 .. n - 1 : W[m] \in TooSmall
    BY <1>2, <1>3 DEF NoneFits
  <2>2. \A m \in n .. PoolSize : W[m] = NULL
    BY <1>1, <2>1, WalkEnds, Zenon
  <2>3. PICK k \in 0 .. PoolSize : W[k] = b /\ b # NULL
    BY WalkIsWalk DEF OnList
  <2>. HIDE DEF W
  <2>4. k \in 0 .. n - 1
    BY <2>2, <2>3
  <2>. QED  BY <2>1, <2>3, <2>4 DEF TooSmall
<1>4. ASSUME TakeBlock
      PROVE  \E n \in 0 .. PoolSize :
              /\ Walk(free_memblk_list)[n] = current
              /\ \A m \in 0 .. n - 1 : ~ Fits(Walk(free_memblk_list)[m])
  <2>1. PICK n \in 0 .. PoolSize : W[n] = current /\ \A m \in 0 .. n - 1 : W[m] \in TooSmall
    BY <1>2, <1>4 DEF TakeBlock
  <2>2. \A m \in 0 .. n - 1 : ~ Fits(W[m])
    BY <2>1 DEF TooSmall
  <2>. QED  BY <2>1, <2>2, WalkIsWalk, Zenon
<1>. QED  BY <1>3, <1>4

(* memallc takes the first block of the free list that is large enough and *)
(* gives up only when there is none, on whatever list earlier calls of     *)
(* free_memallc have left (memallc.c:64-85 and 138-160).                   *)
THEOREM TakesFirstFit == Spec => FirstFit
<1>1. Spec => []Searched
  BY InitSearched, SearchedStep, IInvAlways, PTL DEF Spec
<1>2. IInv /\ Searched
        => [/\ NoneFits => \A b \in OnList(free_memblk_list) : ~ Fits(b)
            /\ TakeBlock => \E n \in 0 .. PoolSize :
                 /\ Walk(free_memblk_list)[n] = current
                 /\ \A m \in 0 .. n - 1 : ~ Fits(Walk(free_memblk_list)[m])]_vars
  BY FirstFitStep
<1>. QED  BY <1>1, <1>2, IInvAlways, PTL DEF FirstFit

-----------------------------------------------------------------------------
(* Callers that never free: memallc.c keeps the promise of HeapSpec.tla,   *)
(* for every heap, pool size, set of callers and set of sizes.  The free   *)
(* list then holds one block at most, the tail that no split has used yet; *)
(* every grant is cut off its front.                                       *)

OnlyTailFree ==
  free_memblk_list # NULL => /\ free_memblk_list = memblk_pool_index
                             /\ memblk_pool[free_memblk_list].next = NULL

SearchesTail ==
  pc = "search" => /\ held[caller] = NoRegion
                   /\ current # NULL => prev = NULL /\ current = free_memblk_list

BlocksDisjoint ==
  \A b, c \in 1 .. memblk_pool_index :
    b # c => ~ Overlap(memblk_pool[b], memblk_pool[c])

(* A region lies in a block that is not free, at its start.                *)
Backs(b, r) == /\ b # free_memblk_list
               /\ r.addr = memblk_pool[b].addr
               /\ r.size <= memblk_pool[b].size

HeldBacked ==
  \A o \in Owners : held[o] # NoRegion =>
    \E b \in 1 .. memblk_pool_index : Backs(b, held[o])

HInv ==
  /\ IInv
  /\ pc \in {"idle", "search"}
  /\ heap_s = NULL => memblk_pool_index = 0
  /\ OnlyTailFree
  /\ SearchesTail
  /\ BlocksDisjoint
  /\ HeldBacked
  /\ HeldDisjoint

LEMMA InitHInv == Init => HInv
  BY InitIInv DEF Init, HInv, OnlyTailFree, SearchesTail, BlocksDisjoint,
                  HeldBacked, HeldDisjoint

(* A step of the allocator that touches neither descriptors nor regions.   *)
LEMMA KeepsHeap ==
  ASSUME HInv, UNCHANGED <<lists, held>>
  PROVE  OnlyTailFree' /\ BlocksDisjoint' /\ HeldBacked' /\ HeldDisjoint'
<1>1. OnlyTailFree'
  BY DEF HInv, OnlyTailFree, lists
<1>2. BlocksDisjoint'
  BY DEF HInv, BlocksDisjoint, Overlap, lists
<1>3. HeldBacked'
  BY DEF HInv, HeldBacked, Backs, lists
<1>4. HeldDisjoint'
  BY DEF HInv, HeldDisjoint, Overlap
<1> QED BY <1>1, <1>2, <1>3, <1>4

LEMMA HInvInitMemallc ==
  ASSUME HInv, InitMemallc PROVE HInv'
<1>1. IInv'
  BY IInvInitMemallc DEF HInv
<1>2. memblk_pool'[1] = [addr |-> HeapStart, size |-> HeapRange, next |-> NULL]
  BY DEF InitMemallc, HInv, IInv, TypeOK, Blocks
<1>3. OnlyTailFree'
  BY <1>2 DEF InitMemallc, OnlyTailFree
<1>4. BlocksDisjoint'
  BY DEF InitMemallc, BlocksDisjoint
<1>5. \A o \in Owners : held'[o] = NoRegion
  BY DEF InitMemallc, HInv, HeldBacked
<1>6. HeldBacked' /\ HeldDisjoint'
  BY <1>5 DEF HeldBacked, HeldDisjoint
<1>7. pc' = "idle" /\ heap_s' # NULL
  BY DEF InitMemallc, frame
<1> QED BY <1>1, <1>3, <1>4, <1>6, <1>7 DEF HInv, SearchesTail

LEMMA HInvQuiet ==
  ASSUME HInv, IInv', UNCHANGED <<lists, heap_s, held>>,
         pc' \in {"idle", "search"}, SearchesTail'
  PROVE  HInv'
  BY KeepsHeap DEF HInv, lists

LEMMA HInvMemallc ==
  ASSUME HInv, NEW o \in Owners, NEW size \in Sizes, Memallc(o, size) PROVE HInv'
<1>1. IInv'
  BY IInvMemallc DEF HInv
<1>2. SearchesTail' /\ pc' \in {"idle", "search"}
  BY DEF Memallc, Return, Enter, lists, SearchesTail
<1> QED BY <1>1, <1>2, HInvQuiet DEF Memallc

LEMMA HInvSearch ==
  ASSUME HInv, Search PROVE HInv'
<1>1. IInv'
  BY IInvAdvance DEF HInv, Search
<1>2. current' = NULL /\ pc' = "search"
  BY DEF Search, Advance, HInv, OnlyTailFree, SearchesTail
<1>3. SearchesTail'
  BY <1>2 DEF Search, Advance, HInv, SearchesTail
<1> QED BY <1>1, <1>2, <1>3, HInvQuiet DEF Search, Advance

LEMMA HInvNoneFits ==
  ASSUME HInv, NoneFits PROVE HInv'
<1>1. IInv'
  BY IInvReturn DEF HInv, NoneFits
<1> QED BY <1>1, HInvQuiet DEF NoneFits, Return, SearchesTail

(* The descriptors after a grant: the front of the old tail, which is now  *)
(* allocated, and the new tail, if there is one, lie inside the old tail.  *)
LEMMA Split ==
  ASSUME HInv, TakeBlock
  PROVE  /\ current \in 1 .. memblk_pool_index /\ current = memblk_pool_index
         /\ current = free_memblk_list
         /\ caller \in Owners /\ arg \in Nat \ {0} /\ arg <= memblk_pool[current].size
         /\ memblk_pool_index' \in {current, current + 1}
         /\ free_memblk_list' = IF memblk_pool_index' = current THEN NULL
                                ELSE current + 1
         /\ free_memblk_list' # NULL => memblk_pool'[free_memblk_list'].next = NULL
         /\ \A b \in 1 .. memblk_pool_index' :
              memblk_pool'[b] \in Memblk /\ memblk_pool'[b].size > 0
         /\ \A b \in 1 .. memblk_pool_index : b # current =>
              /\ memblk_pool'[b].addr = memblk_pool[b].addr
              /\ memblk_pool'[b].size = memblk_pool[b].size
         /\ memblk_pool'[current].addr = memblk_pool[current].addr
         /\ memblk_pool'[current].size >= arg
         /\ memblk_pool_index' = current =>
              memblk_pool'[current].size = memblk_pool[current].size
         /\ memblk_pool_index' = current + 1 =>
              /\ memblk_pool'[current].size = arg
              /\ memblk_pool'[current + 1].addr = memblk_pool[current].addr + arg
              /\ memblk_pool'[current + 1].size = memblk_pool[current].size - arg
<1> DEFINE b == memblk_pool[current]
<1>1. /\ pc = "search" /\ current # NULL /\ prev = NULL
      /\ current = free_memblk_list /\ current = memblk_pool_index
      /\ b.next = NULL
  BY DEF TakeBlock, HInv, SearchesTail, OnlyTailFree
<1>2. /\ current \in 1 .. memblk_pool_index /\ current \in Blocks
      /\ b \in Memblk /\ InHeap(b) /\ memblk_pool \in [Blocks -> Memblk]
      /\ memblk_pool_index \in Nat
      /\ allc_memblk_list \in Pointers
  BY <1>1, Shape DEF HInv
<1>3. caller \in Owners /\ arg \in Nat \ {0} /\ arg <= b.size
  BY <1>1, <1>2 DEF TakeBlock, Fits, HInv, IInv, TypeOK, CallInProgress, Memblk
<1>4. /\ memblk_pool' = SetNext(SplitPool, current, allc_memblk_list)
      /\ free_memblk_list' = SplitPool[current].next
  BY <1>1 DEF TakeBlock
<1>5. /\ \A c \in 1 .. memblk_pool_index' : memblk_pool'[c] \in Memblk /\ memblk_pool'[c].size > 0
  <2>1. IInv'
    BY IInvTakeBlock DEF HInv
  <2>2. memblk_pool' \in [Blocks -> Memblk] /\ memblk_pool_index' <= PoolSize
        /\ memblk_pool_index' \in Nat
    BY <2>1 DEF IInv, TypeOK
  <2>3. 1 .. memblk_pool_index' \subseteq Blocks
    BY <2>2 DEF Blocks
  <2> QED BY <2>1, <2>2, <2>3 DEF IInv, BlocksInHeap, InHeap
<1>6. CASE SplitNeeded
  <2> DEFINE new == memblk_pool_index + 1
             tail == [addr |-> b.addr + arg, size |-> b.size - arg, next |-> b.next]
             front == [addr |-> b.addr, size |-> arg, next |-> new]
  <2>1. memblk_pool_index' = current + 1 /\ new = current + 1 /\ new \in Blocks /\ new # NULL
        /\ arg < b.size
    BY <1>1, <1>2, <1>6 DEF TakeBlock, SplitNeeded, Blocks
  <2>2. tail \in Memblk /\ front \in Memblk
    BY <2>1, <1>2, <1>3 DEF Memblk, Pointers
  <2>3. SplitPool = [memblk_pool EXCEPT ![new] = tail, ![current] = front]
    BY <1>6 DEF SplitPool
  <2>4. /\ SplitPool \in [Blocks -> Memblk]
        /\ SplitPool[new] = tail /\ SplitPool[current] = front
        /\ \A c \in Blocks : c # new /\ c # current => SplitPool[c] = memblk_pool[c]
    BY <2>1, <2>2, <2>3, <1>1, <1>2
  <2>5. \A c \in Blocks : /\ memblk_pool'[c].addr = SplitPool[c].addr
                          /\ memblk_pool'[c].size = SplitPool[c].size
                          /\ memblk_pool'[c].next = IF c = current THEN allc_memblk_list
                                                    ELSE SplitPool[c].next
    BY <2>4, <1>2, <1>4, SetNextEffect
  <2>6. \A c \in 1 .. memblk_pool_index : c \in Blocks /\ c # new
    BY <1>2, <2>1, Shape DEF HInv
  <2>7. /\ memblk_pool'[current].addr = b.addr /\ memblk_pool'[current].size = arg
        /\ memblk_pool'[new].addr = b.addr + arg /\ memblk_pool'[new].size = b.size - arg
        /\ memblk_pool'[new].next = NULL
        /\ free_memblk_list' = new
    BY <2>1, <2>4, <2>5, <1>1, <1>2, <1>4
  <2>8. \A c \in 1 .. memblk_pool_index : c # current =>
              /\ memblk_pool'[c].addr = memblk_pool[c].addr
              /\ memblk_pool'[c].size = memblk_pool[c].size
    BY <2>4, <2>5, <2>6
  <2> HIDE DEF tail, front
  <2> QED BY <2>1, <2>7, <2>8, <1>1, <1>2, <1>3, <1>5
<1>7. CASE ~ SplitNeeded
  <2>1. SplitPool = memblk_pool /\ memblk_pool_index' = current
    BY <1>1, <1>7 DEF SplitPool, TakeBlock
  <2>2. \A c \in Blocks : /\ memblk_pool'[c].addr = memblk_pool[c].addr
                          /\ memblk_pool'[c].size = memblk_pool[c].size
    BY <2>1, <1>2, <1>4, SetNextEffect
  <2>3. \A c \in 1 .. memblk_pool_index : c \in Blocks
    BY Shape DEF HInv
  <2>4. free_memblk_list' = NULL
    BY <2>1, <1>1, <1>4
  <2> QED BY <2>1, <2>2, <2>3, <2>4, <1>1, <1>2, <1>3, <1>5 DEF Memblk
<1> QED BY <1>6, <1>7

(* Block c after the grant covers no byte that block c, or the tail the    *)
(* grant was cut from, did not cover before.                               *)
Origin(c) == IF c <= current THEN c ELSE current

LEMMA Inside ==
  ASSUME HInv, TakeBlock, NEW c \in 1 .. memblk_pool_index'
  PROVE  /\ Origin(c) \in 1 .. memblk_pool_index
         /\ memblk_pool[Origin(c)].addr <= memblk_pool'[c].addr
         /\ memblk_pool'[c].addr + memblk_pool'[c].size
              <= memblk_pool[Origin(c)].addr + memblk_pool[Origin(c)].size
<1>1. memblk_pool[current] \in Memblk /\ current \in Nat
  BY Split, Shape DEF HInv
<1>2. CASE c = current + 1
  BY <1>1, <1>2, Split DEF Origin, Memblk
<1>3. CASE c = current
  BY <1>1, <1>3, Split DEF Origin, Memblk
<1>4. CASE c \in 1 .. memblk_pool_index /\ c # current
  <2>1. memblk_pool[c] \in Memblk /\ Origin(c) = c
    BY <1>1, <1>4, Split, Shape DEF HInv, Origin
  <2> QED BY <2>1, <1>4, Split DEF Memblk
<1>5. c = current + 1 \/ c = current \/ (c \in 1 .. memblk_pool_index /\ c # current)
  BY <1>1, Split
<1> QED BY <1>2, <1>3, <1>4, <1>5

LEMMA GrantDisjointBlocks ==
  ASSUME HInv, TakeBlock PROVE BlocksDisjoint'
<1> SUFFICES ASSUME NEW c \in 1 .. memblk_pool_index', NEW d \in 1 .. memblk_pool_index',
                    c < d
             PROVE  ~ Overlap(memblk_pool'[c], memblk_pool'[d]) /\ ~ Overlap(memblk_pool'[d], memblk_pool'[c])
  <2>1. \A c \in 1 .. memblk_pool_index' : c \in Nat
    BY Split
  <2> QED BY <2>1 DEF BlocksDisjoint
<1>1. /\ memblk_pool'[c] \in Memblk /\ memblk_pool'[d] \in Memblk
      /\ memblk_pool'[c].size > 0 /\ memblk_pool'[d].size > 0
  BY Split
<1>2. memblk_pool[current] \in Memblk /\ current \in Nat
  BY Split, Shape DEF HInv
<1>3. CASE d = current + 1 /\ c = current
  BY <1>1, <1>2, <1>3, Split DEF Overlap, Memblk
<1>4. CASE ~ (d = current + 1 /\ c = current)
  <2>1. Origin(c) # Origin(d) /\ Origin(c) \in 1 .. memblk_pool_index /\ Origin(d) \in 1 .. memblk_pool_index
    BY <1>2, <1>4, Inside, Split DEF Origin
  <2>2. ~ Overlap(memblk_pool[Origin(c)], memblk_pool[Origin(d)])
    BY <2>1 DEF HInv, BlocksDisjoint
  <2>3. memblk_pool[Origin(c)] \in Memblk /\ memblk_pool[Origin(d)] \in Memblk
    BY <2>1, Shape DEF HInv
  <2>4. /\ memblk_pool[Origin(c)].addr <= memblk_pool'[c].addr
        /\ memblk_pool'[c].addr + memblk_pool'[c].size
             <= memblk_pool[Origin(c)].addr + memblk_pool[Origin(c)].size
        /\ memblk_pool[Origin(d)].addr <= memblk_pool'[d].addr
        /\ memblk_pool'[d].addr + memblk_pool'[d].size
             <= memblk_pool[Origin(d)].addr + memblk_pool[Origin(d)].size
    BY Inside
  <2> HIDE DEF Origin
  <2> QED BY <2>2, <2>3, <2>4, <1>1 DEF Overlap, Memblk
<1> QED BY <1>3, <1>4

(* The region a grant hands out, and how it relates to the others.         *)
Granted == [addr |-> memblk_pool[current].addr, size |-> arg]

LEMMA GrantIsFresh ==
  ASSUME HInv, TakeBlock
  PROVE  /\ held' = [held EXCEPT ![caller] = Granted]
         /\ caller \in Owners /\ held[caller] = NoRegion
         /\ Granted \in Region /\ InHeap(Granted) /\ Granted # NoRegion
         /\ \A p \in Owners : held[p] # NoRegion =>
              ~ Overlap(held[p], Granted) /\ ~ Overlap(Granted, held[p])
<1>1. held' = [held EXCEPT ![caller] = Granted]
  BY DEF TakeBlock, Granted
<1>2. caller \in Owners /\ held[caller] = NoRegion
  BY Split DEF TakeBlock, HInv, SearchesTail
<1>3. memblk_pool[current] \in Memblk /\ InHeap(memblk_pool[current])
  BY Split, Shape DEF HInv
<1>4. Granted \in Region /\ InHeap(Granted) /\ Granted # NoRegion
  BY <1>3, Split DEF Granted, Region, Memblk, InHeap, HeapEnd, NoRegion
<1>5. ASSUME NEW p \in Owners, held[p] # NoRegion
      PROVE  ~ Overlap(held[p], Granted) /\ ~ Overlap(Granted, held[p])
  <2>1. PICK b \in 1 .. memblk_pool_index : Backs(b, held[p])
    BY <1>5 DEF HInv, HeldBacked
  <2>2. ~ Overlap(memblk_pool[b], memblk_pool[current])
    BY <2>1, Split DEF HInv, BlocksDisjoint, Backs
  <2>3. held[p] \in Region /\ memblk_pool[b] \in Memblk
    BY Shape DEF HInv, IInv, TypeOK
  <2> QED BY <2>1, <2>2, <2>3, <1>3, Split DEF Backs, Overlap, Granted, Region, Memblk
<1> QED BY <1>1, <1>2, <1>4, <1>5

LEMMA HInvTakeBlock ==
  ASSUME HInv, TakeBlock PROVE HInv'
<1>1. IInv'
  BY IInvTakeBlock DEF HInv
<1>2. pc' = "idle" /\ heap_s' # NULL
  BY DEF TakeBlock, Return, HInv, IInv, Uninitialised
<1>3. OnlyTailFree'
  BY Split DEF OnlyTailFree
<1>4. HeldBacked'
  <2> SUFFICES ASSUME NEW o \in Owners, held'[o] # NoRegion
               PROVE  \E b \in 1 .. memblk_pool_index' : Backs(b, held[o])'
    BY DEF HeldBacked
  <2>1. current \in 1 .. memblk_pool_index' /\ current # free_memblk_list'
    BY Split
  <2>2. CASE o = caller
    <3>1. held'[o] = Granted
      BY <2>2, GrantIsFresh DEF HInv, IInv, TypeOK
    <3>2. PICK b \in 1 .. memblk_pool_index' : b = current
      BY <2>1
    <3>3. /\ held'[o].addr = memblk_pool'[b].addr
          /\ held'[o].size <= memblk_pool'[b].size
      BY <3>1, <3>2, Split DEF Granted
    <3>4. Backs(b, held[o])'
      BY <3>2, <3>3, <2>1 DEF Backs
    <3> QED BY <3>4
  <2>3. CASE o # caller
    <3>1. held'[o] = held[o]
      BY <2>3, GrantIsFresh DEF HInv, IInv, TypeOK
    <3>2. PICK b \in 1 .. memblk_pool_index : Backs(b, held[o])
      BY <3>1 DEF HInv, HeldBacked
    <3>3. current = free_memblk_list /\ current = memblk_pool_index
      BY Split
    <3>4. b # current /\ held[o].addr = memblk_pool[b].addr /\ held[o].size <= memblk_pool[b].size
      BY <3>2, <3>3 DEF Backs
    <3>5. b \in Nat /\ current \in Nat /\ b < current
      BY <3>3, <3>4, Split
    <3>6. b \in 1 .. memblk_pool_index' /\ b # free_memblk_list'
      BY <3>5, Split
    <3>7. memblk_pool'[b].addr = memblk_pool[b].addr /\ memblk_pool'[b].size = memblk_pool[b].size
      BY <3>4, Split
    <3>8. Backs(b, held[o])'
      BY <3>1, <3>4, <3>6, <3>7 DEF Backs
    <3> QED BY <3>6, <3>8
  <2> QED BY <2>2, <2>3
<1>5. HeldDisjoint'
  BY GrantIsFresh DEF HInv, IInv, TypeOK, HeldDisjoint
<1> QED BY <1>1, <1>2, <1>3, <1>4, <1>5, GrantDisjointBlocks DEF HInv, SearchesTail

LEMMA HInvStep == HInv /\ [AllocOnlyNext]_vars => HInv'
<1> SUFFICES ASSUME HInv, [AllocOnlyNext]_vars PROVE HInv'
  OBVIOUS
<1>1. CASE InitMemallc
  BY <1>1, HInvInitMemallc
<1>2. CASE \E r \in Ranges : SetRange(r)
  <2>1. PICK r \in Ranges : SetRange(r)
    BY <1>2
  <2>2. IInv'
    BY <2>1, IInvSetRange DEF HInv
  <2>3. SearchesTail' /\ pc' \in {"idle", "search"}
    BY <2>1 DEF SetRange, frame, SearchesTail
  <2> QED BY <2>1, <2>2, <2>3, HInvQuiet DEF SetRange
<1>3. CASE \E o \in Owners, size \in Sizes : Memallc(o, size)
  BY <1>3, HInvMemallc
<1>4. CASE Search
  BY <1>4, HInvSearch
<1>5. CASE NoneFits
  BY <1>5, HInvNoneFits
<1>6. CASE TakeBlock
  BY <1>6, HInvTakeBlock
<1>7. CASE UNCHANGED vars
  <2>1. IInv'
    BY <1>7, IInvStep DEF HInv
  <2>2. SearchesTail' /\ pc' \in {"idle", "search"}
    BY <1>7 DEF vars, lists, frame, HInv, SearchesTail
  <2> QED BY <1>7, <2>1, <2>2, HInvQuiet DEF vars
<1> QED BY <1>1, <1>2, <1>3, <1>4, <1>5, <1>6, <1>7 DEF AllocOnlyNext, AllocSteps

LEMMA HInvAlways == AllocOnlySpec => []HInv
  BY InitHInv, HInvStep, PTL DEF AllocOnlySpec

(* As long as nobody frees, no two callers hold a common byte: what the    *)
(* callers of memallc rely on, e.g. sched/scheduler.c:52 and process/proc.c *)
THEOREM GrantsDisjoint == AllocOnlySpec => []HeldDisjoint
<1>1. HInv => HeldDisjoint
  BY DEF HInv
<1> QED BY <1>1, HInvAlways, PTL

(* Every grant is a step of the abstract heap and every other step, of     *)
(* searching and splitting, is invisible to its callers.                   *)
LEMMA HeapStep == HInv /\ [AllocOnlyNext]_vars => [Heap!Next]_held
<1> SUFFICES ASSUME HInv, [AllocOnlyNext]_vars PROVE [Heap!Next]_held
  OBVIOUS
<1>1. CASE TakeBlock
  <2>1. Granted \in Heap!Regions
    <3>1. /\ Granted \in Region /\ HeapStart <= Granted.addr /\ 0 < Granted.size
          /\ Granted.addr + Granted.size <= HeapStart + HeapRange
      BY <1>1, GrantIsFresh DEF InHeap, HeapEnd
    <3>2. /\ Granted.addr \in Nat /\ Granted.size \in Nat
          /\ Granted = [addr |-> Granted.addr, size |-> Granted.size]
      BY <3>1 DEF Region
    <3>3. /\ Granted.addr \in HeapStart .. HeapStart + HeapRange
          /\ Granted.size \in 1 .. HeapRange
      BY <3>1, <3>2
    <3> QED BY <3>1, <3>2, <3>3 DEF Heap!Regions
  <2>2. Heap!Allocate(caller, Granted)
    BY <1>1, GrantIsFresh DEF Heap!Allocate, Heap!Overlap, Heap!NoRegion, Overlap, NoRegion
  <2> QED BY <1>1, <2>1, <2>2, GrantIsFresh DEF Heap!Next
<1>2. CASE ~ TakeBlock
  BY <1>2 DEF AllocOnlyNext, AllocSteps, InitMemallc, SetRange, Memallc, Search,
              NoneFits, Advance, vars
<1> QED BY <1>1, <1>2

(* memallc.c, never asked to free, implements the heap of HeapSpec.tla.    *)
THEOREM RefinesHeap == AllocOnlySpec => ImplementsHeap
<1>1. Init => Heap!Init
  BY DEF Init, Heap!Init, Heap!NoRegion, NoRegion
<1> QED BY <1>1, HeapStep, HInvAlways, PTL DEF AllocOnlySpec, ImplementsHeap, Heap!Spec

-----------------------------------------------------------------------------
(* The lists and the heap between calls: blocks were granted in the order  *)
(* of their numbers, and lie one behind the other.                         *)

ListsInOrder ==
  heap_s # NULL =>
    /\ memblk_pool_index >= 1
    /\ allc_memblk_list = IF free_memblk_list = NULL THEN memblk_pool_index
                          ELSE memblk_pool_index - 1
    /\ \A b \in 1 .. allc_memblk_list : memblk_pool[b].next = b - 1

Contiguous ==
  heap_s # NULL =>
    /\ memblk_pool[1].addr = HeapStart
    /\ \A b \in 1 .. memblk_pool_index - 1 :
         memblk_pool[b + 1].addr = memblk_pool[b].addr + memblk_pool[b].size
    /\ memblk_pool[memblk_pool_index].addr + memblk_pool[memblk_pool_index].size
         = HeapEnd

LEMMA InitTiling == Init => ListsInOrder /\ Contiguous
BY DEF Init, ListsInOrder, Contiguous

LEMMA GrantLinks ==
  ASSUME HInv, TakeBlock
  PROVE  /\ allc_memblk_list' = current
         /\ \A b \in 1 .. memblk_pool_index :
              memblk_pool'[b].next = IF b = current THEN allc_memblk_list
                                     ELSE memblk_pool[b].next
<1>1. /\ current \in 1 .. memblk_pool_index /\ current = memblk_pool_index
      /\ current \in Blocks /\ memblk_pool \in [Blocks -> Memblk]
      /\ memblk_pool_index \in Nat /\ allc_memblk_list \in Pointers
      /\ prev = NULL
  BY Split, Shape DEF HInv, SearchesTail, TakeBlock
<1>2. /\ memblk_pool' = SetNext(SplitPool, current, allc_memblk_list)
      /\ allc_memblk_list' = current
  BY <1>1 DEF TakeBlock
<1>3. /\ DOMAIN SplitPool = Blocks
      /\ \A b \in 1 .. memblk_pool_index : b # current => SplitPool[b] = memblk_pool[b]
  <2>1. \A b \in 1 .. memblk_pool_index : b \in Blocks /\ b # memblk_pool_index + 1
    BY <1>1, Shape DEF HInv
  <2>. QED  BY <1>1, <2>1 DEF SplitPool
<1>4. \A b \in Blocks : memblk_pool'[b].next = IF b = current THEN allc_memblk_list
                                               ELSE SplitPool[b].next
  <2>1. CASE SplitNeeded
    <3>1. SplitPool[current] = [addr |-> memblk_pool[current].addr, size |-> arg,
                                next |-> memblk_pool_index + 1]
      BY <1>1, <2>1 DEF SplitPool
    <3>. QED  BY <1>1, <1>2, <1>3, <3>1 DEF SetNext
  <2>2. CASE ~ SplitNeeded
    <3>1. SplitPool = memblk_pool
      BY <2>2 DEF SplitPool
    <3>. QED  BY <1>1, <1>2, <3>1, SetNextEffect
  <2>. QED  BY <2>1, <2>2
<1>5. \A b \in 1 .. memblk_pool_index : b \in Blocks
  BY Shape DEF HInv
<1>. QED  BY <1>2, <1>3, <1>4, <1>5

LEMMA TilingTakeBlock ==
  ASSUME HInv, ListsInOrder, Contiguous, TakeBlock
  PROVE  ListsInOrder' /\ Contiguous'
<1>. DEFINE n == memblk_pool_index
<1>1. /\ n \in Nat /\ n >= 1 /\ current = n /\ free_memblk_list = n
      /\ heap_s # NULL /\ heap_s' = heap_s
      /\ allc_memblk_list = n - 1
  BY Split, Shape DEF HInv, IInv, Uninitialised, TakeBlock, ListsInOrder
<1>2. memblk_pool_index' \in {n, n + 1}
  BY <1>1, Split
<1>3. \A b \in 1 .. n : memblk_pool[b] \in Memblk
  BY Shape DEF HInv
<1>. HIDE DEF n
<1>4. ListsInOrder'
  <2>1. \A b \in 1 .. n : memblk_pool'[b].next = b - 1
    <3>1. \A b \in 1 .. n : b = n \/ b \in 1 .. n - 1
      BY <1>1
    <3>2. \A b \in 1 .. n - 1 : memblk_pool[b].next = b - 1
      BY <1>1 DEF ListsInOrder
    <3>3. \A b \in 1 .. n : memblk_pool'[b].next = IF b = n THEN n - 1
                                                   ELSE memblk_pool[b].next
      BY <1>1, GrantLinks DEF n
    <3>. QED  BY <1>1, <3>1, <3>2, <3>3
  <2>2. allc_memblk_list' = n
    BY <1>1, GrantLinks
  <2>3. free_memblk_list' = IF memblk_pool_index' = n THEN NULL ELSE n + 1
    BY <1>1, Split
  <2>. QED  BY <1>1, <1>2, <2>1, <2>2, <2>3 DEF ListsInOrder
<1>5. Contiguous'
  <2>1. \A b \in 1 .. n : memblk_pool'[b].addr = memblk_pool[b].addr
    BY <1>1, Split DEF n
  <2>2. \A b \in 1 .. n - 1 : memblk_pool'[b].size = memblk_pool[b].size
    <3>1. \A b \in 1 .. n - 1 : b \in 1 .. n /\ b # n
      BY <1>1
    <3>. QED  BY <1>1, <3>1, Split DEF n
  <2>3. /\ memblk_pool[1].addr = HeapStart
        /\ \A b \in 1 .. n - 1 :
             memblk_pool[b + 1].addr = memblk_pool[b].addr + memblk_pool[b].size
        /\ memblk_pool[n].addr + memblk_pool[n].size = HeapEnd
    BY <1>1 DEF Contiguous, n
  <2>4. 1 \in 1 .. n /\ n \in 1 .. n /\ arg \in Nat /\ memblk_pool[n] \in Memblk
    BY <1>1, <1>3, Split
  <2>5. \A b \in 1 .. n - 1 :
          memblk_pool'[b + 1].addr = memblk_pool'[b].addr + memblk_pool'[b].size
    <3>1. \A b \in 1 .. n - 1 : b \in 1 .. n /\ b + 1 \in 1 .. n
      BY <1>1
    <3>. QED  BY <2>1, <2>2, <2>3, <3>1
  <2>6. CASE memblk_pool_index' = n
    <3>1. memblk_pool'[n].size = memblk_pool[n].size
      BY <1>1, <2>6, Split
    <3>. QED  BY <1>1, <2>1, <2>3, <2>4, <2>5, <2>6, <3>1 DEF Contiguous
  <2>7. CASE memblk_pool_index' = n + 1
    <3>1. /\ memblk_pool'[n].size = arg
          /\ memblk_pool'[n + 1].addr = memblk_pool[n].addr + arg
          /\ memblk_pool'[n + 1].size = memblk_pool[n].size - arg
      BY <1>1, <2>7, Split
    <3>2. arg <= memblk_pool[n].size
      BY <1>1, Split
    <3>3. \A b \in 1 .. n :
            memblk_pool'[b + 1].addr = memblk_pool'[b].addr + memblk_pool'[b].size
      <4>1. \A b \in 1 .. n : b = n \/ b \in 1 .. n - 1
        BY <1>1
      <4>2. memblk_pool'[n + 1].addr = memblk_pool'[n].addr + memblk_pool'[n].size
        BY <2>1, <2>4, <3>1
      <4>. QED  BY <2>5, <4>1, <4>2
    <3>4. memblk_pool'[n + 1].addr + memblk_pool'[n + 1].size = HeapEnd
      <4>1. memblk_pool[n].addr \in Nat /\ memblk_pool[n].size \in Nat
        BY <2>4 DEF Memblk
      <4>. QED  BY <2>3, <2>4, <3>1, <3>2, <4>1
    <3>5. memblk_pool'[1].addr = HeapStart
      BY <2>1, <2>3, <2>4
    <3>6. memblk_pool_index' - 1 = n
      BY <1>1, <2>7
    <3>. QED  BY <2>7, <3>3, <3>4, <3>5, <3>6 DEF Contiguous
  <2>. QED  BY <1>2, <2>6, <2>7
<1>. QED  BY <1>4, <1>5

LEMMA TilingStep ==
  HInv /\ ListsInOrder /\ Contiguous /\ [AllocOnlyNext]_vars
    => ListsInOrder' /\ Contiguous'
<1>. SUFFICES ASSUME HInv, ListsInOrder, Contiguous, [AllocOnlyNext]_vars
              PROVE  ListsInOrder' /\ Contiguous'
  OBVIOUS
<1>1. CASE TakeBlock
  BY <1>1, TilingTakeBlock
<1>2. CASE InitMemallc
  <2>1. memblk_pool'[1] = [addr |-> HeapStart, size |-> HeapRange, next |-> NULL]
    BY <1>2 DEF InitMemallc, HInv, IInv, TypeOK, Blocks
  <2>2. /\ memblk_pool_index' = 1 /\ free_memblk_list' = 1 /\ allc_memblk_list' = 0
    BY <1>2 DEF InitMemallc
  <2>. QED  BY <2>1, <2>2 DEF ListsInOrder, Contiguous, HeapEnd
<1>3. CASE UNCHANGED <<lists, heap_s>>
  BY <1>3 DEF lists, ListsInOrder, Contiguous
<1>4. TakeBlock \/ InitMemallc \/ UNCHANGED <<lists, heap_s>>
  BY DEF AllocOnlyNext, AllocSteps, SetRange, Memallc, Search, NoneFits, Advance, vars
<1>. QED  BY <1>1, <1>2, <1>3, <1>4

(* Where the two walks lead.                                               *)
LEMMA ListsAre ==
  ASSUME HInv, ListsInOrder, heap_s # NULL
  PROVE  /\ OnList(free_memblk_list) = {free_memblk_list} \ {NULL}
         /\ OnList(allc_memblk_list) = 1 .. allc_memblk_list
         /\ Ends(free_memblk_list) /\ Ends(allc_memblk_list)
<1>. DEFINE n == memblk_pool_index
            k == allc_memblk_list
<1>1. /\ n \in Nat /\ n >= 1 /\ n <= PoolSize
      /\ memblk_pool \in [Blocks -> Memblk]
      /\ free_memblk_list \in Pointers /\ k \in Pointers
      /\ k \in 0 .. n /\ k <= PoolSize /\ 1 \in 0 .. PoolSize /\ 0 \in 0 .. PoolSize
      /\ PoolSize \in 0 .. PoolSize
  BY Shape DEF HInv, IInv, TypeOK, ListsInOrder
<1>2. /\ OnList(free_memblk_list) = {free_memblk_list} \ {NULL}
      /\ Ends(free_memblk_list)
  <2>. DEFINE W == WalkOf(memblk_pool, free_memblk_list)
  <2>1. W[0] = free_memblk_list
    BY <1>1, WalkHops
  <2>2. \A m \in 1 .. PoolSize : W[m] = NULL
    <3>1. CASE free_memblk_list = NULL
      <4>1. \A m \in 0 .. PoolSize : W[m] = NULL
        BY <1>1, <2>1, <3>1, WalkEnds
      <4>. QED  BY <4>1
    <3>2. CASE free_memblk_list # NULL
      <4>1. W[0 + 1] = Hop(memblk_pool, W[0])
        BY <1>1, WalkHops
      <4>2. W[1] = NULL
        BY <2>1, <3>2, <4>1 DEF Hop, HInv, OnlyTailFree
      <4>. QED  BY <1>1, <4>2, WalkEnds
    <3>. QED  BY <3>1, <3>2
  <2>3. Walk(free_memblk_list) = W
    BY WalkIsWalk
  <2>. HIDE DEF W
  <2>. QED  BY <1>1, <2>1, <2>2, <2>3 DEF OnList, Ends
<1>3. /\ OnList(k) = 1 .. k
      /\ Ends(k)
  <2>. DEFINE W == WalkOf(memblk_pool, k)
              A == {m \in Nat : m <= k => W[m] = k - m}
  <2>1. W[0] = k /\ \A m \in 0 .. PoolSize - 1 : W[m + 1] = Hop(memblk_pool, W[m])
    BY <1>1, WalkHops
  <2>2. Walk(k) = W
    BY WalkIsWalk
  <2>3. \A b \in 1 .. k : memblk_pool[b].next = b - 1
    BY DEF ListsInOrder
  <2>4. k \in Nat
    BY <1>1
  <2>5. \A m \in k .. PoolSize : W[k] = NULL => W[m] = NULL
    BY <1>1, WalkEnds
  <2>. HIDE DEF W, k
  <2>6. 0 \in A
    BY <2>1, <2>4
  <2>7. ASSUME NEW m \in Nat, m \in A PROVE m + 1 \in A
    <3>. SUFFICES ASSUME m + 1 <= k PROVE W[m + 1] = k - (m + 1)
      OBVIOUS
    <3>1. m \in 0 .. PoolSize - 1 /\ W[m] = k - m /\ k - m \in 1 .. k
      BY <1>1, <2>4, <2>7
    <3>2. W[m + 1] = memblk_pool[k - m].next
      BY <2>1, <3>1 DEF Hop
    <3>. QED  BY <2>3, <2>4, <3>1, <3>2
  <2>8. Nat \subseteq A
    <3>. HIDE DEF A
    <3>. QED  BY <2>6, <2>7, SetInduction
  <2>9. \A m \in 0 .. k : W[m] = k - m
    BY <2>4, <2>8
  <2>10. \A m \in k .. PoolSize : W[m] = NULL
    BY <2>4, <2>5, <2>9
  <2>11. \A m \in 0 .. PoolSize : m \in 0 .. k \/ m \in k .. PoolSize
    BY <2>4
  <2>12. \A b \in 1 .. k : k - b \in 0 .. PoolSize /\ k - b \in 0 .. k /\ k - (k - b) = b
    BY <1>1, <2>4
  <2>13. OnList(k) \subseteq 1 .. k
    <3>1. \A m \in 0 .. k : k - m # NULL => k - m \in 1 .. k
      BY <2>4
    <3>. QED  BY <2>2, <2>9, <2>10, <2>11, <3>1 DEF OnList
  <2>14. 1 .. k \subseteq OnList(k)
    <3>. SUFFICES ASSUME NEW b \in 1 .. k PROVE b \in OnList(k)
      OBVIOUS
    <3>1. W[k - b] = b
      BY <2>9, <2>12
    <3>. QED  BY <2>2, <2>12, <3>1 DEF OnList
  <2>15. Ends(k)
    BY <1>1, <2>2, <2>4, <2>10 DEF Ends
  <2>. QED  BY <2>13, <2>14, <2>15
<1>. QED  BY <1>2, <1>3

(* The blocks cover the heap: a byte lies in the first block that ends     *)
(* behind it.                                                              *)
LEMMA BlocksCover ==
  ASSUME HInv, ListsInOrder, Contiguous, heap_s # NULL,
         NEW x \in HeapStart .. HeapEnd - 1
  PROVE  \E b \in 1 .. memblk_pool_index : x \in Bytes(b)
<1>. DEFINE n == memblk_pool_index
            EndOf(b) == memblk_pool[b].addr + memblk_pool[b].size
            Behind == {b \in 1 .. n : x < EndOf(b)}
<1>1. /\ n \in Nat /\ n >= 1
      /\ memblk_pool[1].addr = HeapStart /\ EndOf(n) = HeapEnd
      /\ \A b \in 1 .. n - 1 : memblk_pool[b + 1].addr = EndOf(b)
  <2>1. n \in Nat /\ n >= 1
    BY Shape DEF HInv, ListsInOrder
  <2>. QED  BY <2>1 DEF Contiguous
<1>2. \A b \in 1 .. n : memblk_pool[b].addr \in Nat /\ memblk_pool[b].size \in Nat
  BY Shape DEF HInv, Memblk
<1>3. x \in Nat
  BY DEF HeapEnd
<1>4. PICK m \in Behind : \A b \in Behind : m <= b
  <2>1. n \in Behind
    BY <1>1, <1>3 DEF HeapEnd
  <2>2. Behind \in SUBSET Nat /\ Behind # {}
    BY <2>1
  <2>. HIDE DEF Behind
  <2>. QED  BY <2>2, LeastNumber
<1>5. memblk_pool[m].addr <= x
  <2>1. CASE m = 1
    BY <1>1, <1>3, <2>1 DEF HeapEnd
  <2>2. CASE m # 1
    <3>1. m - 1 \in 1 .. n - 1 /\ m - 1 \in 1 .. n /\ (m - 1) + 1 = m /\ ~ m <= m - 1
      BY <1>1, <1>4, <2>2
    <3>2. m - 1 \notin Behind
      BY <1>4, <3>1
    <3>3. ~ x < EndOf(m - 1)
      BY <3>1, <3>2
    <3>. QED  BY <1>1, <1>2, <1>3, <3>1, <3>3
  <2>. QED  BY <2>1, <2>2
<1>6. x \in Bytes(m)
  BY <1>2, <1>3, <1>4, <1>5 DEF Bytes
<1>. QED  BY <1>4, <1>6

LEMMA TilingTiles == HInv /\ ListsInOrder /\ Contiguous => TilesHeap
<1>. SUFFICES ASSUME HInv, ListsInOrder, Contiguous, heap_s # NULL
              PROVE  /\ Ends(free_memblk_list) /\ Ends(allc_memblk_list)
                     /\ OnList(free_memblk_list) \cap OnList(allc_memblk_list) = {}
                     /\ \A b, c \in OnList(free_memblk_list) \cup OnList(allc_memblk_list) :
                          b # c => Bytes(b) \cap Bytes(c) = {}
                     /\ UNION {Bytes(b) : b \in OnList(free_memblk_list)
                                                 \cup OnList(allc_memblk_list)}
                          = HeapStart .. HeapEnd - 1
  BY DEF TilesHeap
<1>. DEFINE n == memblk_pool_index
            free == OnList(free_memblk_list)
            allc == OnList(allc_memblk_list)
<1>1. free = {free_memblk_list} \ {NULL} /\ allc = 1 .. allc_memblk_list
      /\ Ends(free_memblk_list) /\ Ends(allc_memblk_list)
  BY ListsAre
<1>2. n \in Nat
  BY Shape DEF HInv
<1>3. free \cap allc = {} /\ free \cup allc = 1 .. n
  BY <1>1, <1>2 DEF HInv, OnlyTailFree, ListsInOrder
<1>4. \A b \in 1 .. n : /\ memblk_pool[b].addr \in Nat /\ memblk_pool[b].size \in Nat
                        /\ HeapStart <= memblk_pool[b].addr
                        /\ memblk_pool[b].addr + memblk_pool[b].size <= HeapEnd
  BY Shape DEF HInv, Memblk, InHeap
<1>5. ASSUME NEW b \in 1 .. n, NEW c \in 1 .. n, b # c
      PROVE  Bytes(b) \cap Bytes(c) = {}
  <2>1. ~ Overlap(memblk_pool[b], memblk_pool[c])
    BY <1>5 DEF HInv, BlocksDisjoint
  <2>. QED  BY <1>4, <2>1 DEF Overlap, Bytes
<1>6. \A b \in 1 .. n : Bytes(b) \subseteq HeapStart .. HeapEnd - 1
  BY <1>4 DEF Bytes, HeapEnd
<1>7. UNION {Bytes(b) : b \in 1 .. n} = HeapStart .. HeapEnd - 1
  BY <1>6, BlocksCover
<1>. HIDE DEF free, allc, n
<1>. QED  BY <1>1, <1>3, <1>5, <1>7 DEF free, allc, n

(* Between calls the free block and the allocated ones tile the heap: no   *)
(* byte is lost and none is in two blocks (memallc.c:138-203).             *)
THEOREM HeapIsTiled == AllocOnlySpec => []TilesHeap
<1>1. AllocOnlySpec => [](ListsInOrder /\ Contiguous)
  BY InitTiling, TilingStep, HInvAlways, PTL DEF AllocOnlySpec
<1>. QED  BY <1>1, TilingTiles, HInvAlways, PTL
=============================================================================
