---------------------------- MODULE KernelProofs ----------------------------
(***************************************************************************)
(* Proofs about Kernel.tla, for any number of nodes and processes and any  *)
(* sizes of theirs that the heap has room for: kernel_init damages the     *)
(* free list, and the scheduler nevertheless gets memory of its own for    *)
(* all that it asks for.                                                   *)
(*                                                                         *)
(* The theorems about its two halves hold of them here.                    *)
(***************************************************************************)
EXTENDS Kernel, FiniteSetTheorems, TLAPS

SchedProofs == INSTANCE SchedulerProofs WITH NULL <- Null
MemProofs == INSTANCE MemallcProofs
  WITH prev <- walker, Owners <- Objects, Nobody <- <<"nobody", 0>>,
       Sizes <- 1 .. MaxSize, Ranges <- {}, DefaultRange <- HeapRange

-----------------------------------------------------------------------------
(* Objects.                                                                *)

LEMMA ObjectsDiffer ==
  /\ \A m, n : Node(m) = Node(n) => m = n
  /\ \A p, q : Proc(p) = Proc(q) => p = q
  /\ \A n, p : Node(n) # Proc(p)
  /\ \A n : Node(n) # Test /\ Node(n) # Scratch /\ Proc(n) # Test /\ Proc(n) # Scratch
  /\ Test # Scratch
BY DEF Node, Proc, Test, Scratch

LEMMA KindsOfObjects ==
  /\ \A o \in Objects : o[1] \in Kinds /\ o # <<"nobody", 0>>
  /\ Test \in Objects /\ Scratch \in Objects
  /\ \A n \in Nodes : Node(n) \in Objects
  /\ \A p \in Procs : Proc(p) \in Objects
BY DEF Objects, Kinds, Node, Proc, Test, Scratch

LEMMA ObjectsBound ==
  IsFiniteSet(Objects) /\ Cardinality(Objects) <= MaxObjects /\ MaxObjects \in Nat
<1>. DEFINE NN == {Node(n) : n \in Nodes}
            PP == {Proc(p) : p \in Procs}
<1>1. IsFiniteSet(NN) /\ Cardinality(NN) <= Cardinality(Nodes)
  <2>. DEFINE f == [n \in Nodes |-> Node(n)]
  <2>1. f \in Surjection(Nodes, NN)
    BY DEF Surjection
  <2>. HIDE DEF f, NN
  <2>. QED  BY <2>1, KernelAssumption, FS_Surjection
<1>2. IsFiniteSet(PP) /\ Cardinality(PP) <= Cardinality(Procs)
  <2>. DEFINE f == [p \in Procs |-> Proc(p)]
  <2>1. f \in Surjection(Procs, PP)
    BY DEF Surjection
  <2>. HIDE DEF f, PP
  <2>. QED  BY <2>1, KernelAssumption, FS_Surjection
<1>3. Objects = (NN \cup PP) \cup {Test} \cup {Scratch}
  BY DEF Objects
<1>. HIDE DEF NN, PP
<1>4. IsFiniteSet(NN \cup PP)
  BY <1>1, <1>2, FS_Union
<1>5. Cardinality(NN \cup PP) = Cardinality(NN) + Cardinality(PP) - Cardinality(NN \cap PP)
  BY <1>1, <1>2, FS_Union
<1>6. IsFiniteSet(NN \cap PP)
  BY <1>1, FS_Intersection
<1>7. /\ Cardinality(NN) \in Nat /\ Cardinality(PP) \in Nat
      /\ Cardinality(NN \cap PP) \in Nat
      /\ Cardinality(Nodes) \in Nat /\ Cardinality(Procs) \in Nat
  BY <1>1, <1>2, <1>6, KernelAssumption, FS_CardinalityType
<1>8. Cardinality(NN \cup PP) \in Nat /\ Cardinality(NN \cup PP) <= Cardinality(Nodes) + Cardinality(Procs)
  BY <1>1, <1>2, <1>4, <1>5, <1>7, FS_CardinalityType
<1>9. ASSUME NEW S, NEW x, IsFiniteSet(S)
       PROVE  /\ IsFiniteSet(S \cup {x}) /\ Cardinality(S \cup {x}) \in Nat
              /\ Cardinality(S) \in Nat
              /\ Cardinality(S \cup {x}) <= Cardinality(S) + 1
  <2>1. IsFiniteSet(S \cup {x})
    BY <1>9, FS_AddElement, Zenon
  <2>2. Cardinality(S \cup {x}) = IF x \in S THEN Cardinality(S) ELSE Cardinality(S) + 1
    BY <1>9, FS_AddElement, Zenon
  <2>3. Cardinality(S \cup {x}) \in Nat /\ Cardinality(S) \in Nat
    BY <1>9, <2>1, FS_CardinalityType, Zenon
  <2>. QED  BY <2>1, <2>2, <2>3
<1>10. /\ IsFiniteSet((NN \cup PP) \cup {Test})
      /\ Cardinality((NN \cup PP) \cup {Test}) \in Nat
      /\ Cardinality((NN \cup PP) \cup {Test}) <= Cardinality(Nodes) + Cardinality(Procs) + 1
  <2>1. /\ IsFiniteSet((NN \cup PP) \cup {Test})
        /\ Cardinality((NN \cup PP) \cup {Test}) \in Nat
        /\ Cardinality((NN \cup PP) \cup {Test}) <= Cardinality(NN \cup PP) + 1
    BY <1>4, <1>9, Zenon
  <2>. QED  BY <1>7, <1>8, <2>1
<1>11. /\ IsFiniteSet(Objects)
       /\ Cardinality(Objects) <= Cardinality(Nodes) + Cardinality(Procs) + 2
  <2>1. /\ IsFiniteSet(Objects)
        /\ Cardinality(Objects) \in Nat
        /\ Cardinality(Objects) <= Cardinality((NN \cup PP) \cup {Test}) + 1
    BY <1>3, <1>9, <1>10, Zenon
  <2>. QED  BY <1>7, <1>10, <2>1
<1>. QED  BY <1>7, <1>11 DEF MaxObjects

(* One more object and one more, and there is still a descriptor for it.   *)
LEMMA RoomForOne ==
  ASSUME NEW S \in SUBSET Objects, NEW o \in Objects \ S
  PROVE  /\ IsFiniteSet(S) /\ Cardinality(S) \in Nat
         /\ IsFiniteSet(S \cup {o}) /\ Cardinality(S \cup {o}) = Cardinality(S) + 1
         /\ Cardinality(S) + 1 <= MaxObjects
<1>1. IsFiniteSet(S) /\ IsFiniteSet(S \cup {o})
  BY ObjectsBound, FS_Subset, FS_AddElement
<1>2. Cardinality(S) \in Nat /\ Cardinality(S \cup {o}) = Cardinality(S) + 1
  BY <1>1, FS_AddElement, FS_CardinalityType
<1>3. S \cup {o} \subseteq Objects
  OBVIOUS
<1>4. Cardinality(S \cup {o}) <= Cardinality(Objects) /\ Cardinality(Objects) \in Nat
  BY <1>3, ObjectsBound, FS_Subset, FS_CardinalityType
<1>. QED  BY <1>1, <1>2, <1>4, ObjectsBound

LEMMA RoomForTwo ==
  ASSUME NEW S \in SUBSET Objects, NEW o \in Objects \ S, NEW p \in Objects \ S, o # p
  PROVE  Cardinality(S) + 2 <= MaxObjects
<1>1. Cardinality(S \cup {o}) = Cardinality(S) + 1 /\ Cardinality(S) \in Nat
  BY RoomForOne
<1>2. S \cup {o} \in SUBSET Objects /\ p \in Objects \ (S \cup {o})
  OBVIOUS
<1>3. Cardinality(S \cup {o}) + 1 <= MaxObjects
  BY <1>2, RoomForOne
<1>. QED  BY <1>1, <1>3, ObjectsBound

-----------------------------------------------------------------------------
(* The two halves.                                                         *)

LEMMA AllocatorAssumption ==
  /\ <<"nobody", 0>> \notin Objects
  /\ 1 .. MaxSize \subseteq Nat /\ {} \subseteq Nat
  /\ HeapRange \in Nat /\ HeapStart \in Nat \ {0} /\ HeapRange \in Nat \ {0}
  /\ PoolSize \in Nat \ {0}
BY KindsOfObjects, KernelAssumption

LEMMA AllocatorInit == Mem!Init => MemProofs!IInv
<1>1. Mem!Init => MemProofs!Init
  BY DEF Mem!Init, MemProofs!Init, Mem!Blocks, MemProofs!Blocks, Mem!NULL, MemProofs!NULL,
         Mem!NoRegion, MemProofs!NoRegion
<1>2. MemProofs!Init => MemProofs!IInv
  BY AllocatorAssumption, MemProofs!InitIInv
<1>. QED  BY <1>1, <1>2

LEMMA SameAllocator ==
  /\ Mem!InitMemallc => MemProofs!InitMemallc
  /\ \A o, s : Mem!Memallc(o, s) => MemProofs!Memallc(o, s)
  /\ \A o : Mem!FreeMemallc(o) => MemProofs!FreeMemallc(o)
  /\ Mem!AllocSteps => MemProofs!AllocSteps
  /\ Mem!FreeSteps => MemProofs!FreeSteps
<1>1. Mem!InitMemallc => MemProofs!InitMemallc
  BY DEF Mem!InitMemallc, MemProofs!InitMemallc, Mem!frame, MemProofs!frame, Mem!NULL, MemProofs!NULL
<1>2. \A o, s : Mem!Memallc(o, s) => MemProofs!Memallc(o, s)
  BY DEF Mem!Memallc, MemProofs!Memallc, Mem!Return, MemProofs!Return, Mem!Enter, MemProofs!Enter,
     Mem!NULL, MemProofs!NULL, Mem!NoRegion, MemProofs!NoRegion, Mem!lists, MemProofs!lists
<1>3. \A o : Mem!FreeMemallc(o) => MemProofs!FreeMemallc(o)
  BY DEF Mem!FreeMemallc, MemProofs!FreeMemallc, Mem!Return, MemProofs!Return, Mem!Enter, MemProofs!Enter,
     Mem!NULL, MemProofs!NULL, Mem!NoRegion, MemProofs!NoRegion, Mem!lists, MemProofs!lists
<1>4. Mem!AllocSteps => MemProofs!AllocSteps
  BY DEF Mem!AllocSteps, MemProofs!AllocSteps, Mem!Search, MemProofs!Search, Mem!Fits, MemProofs!Fits,
     Mem!Advance, MemProofs!Advance, Mem!NoneFits, MemProofs!NoneFits, Mem!Return, MemProofs!Return,
     Mem!TakeBlock, MemProofs!TakeBlock, Mem!SplitPool, MemProofs!SplitPool,
     Mem!SplitNeeded, MemProofs!SplitNeeded, Mem!SetNext, MemProofs!SetNext,
     Mem!NULL, MemProofs!NULL, Mem!lists, MemProofs!lists
<1>5. Mem!FreeSteps => MemProofs!FreeSteps
  BY DEF Mem!FreeSteps, MemProofs!FreeSteps, Mem!Lookup, MemProofs!Lookup, Mem!NotFound, MemProofs!NotFound,
     Mem!Unlink, MemProofs!Unlink, Mem!Defragment, MemProofs!Defragment,
     Mem!MergeIntoPredecessor, MemProofs!MergeIntoPredecessor,
     Mem!MergeSuccessor, MemProofs!MergeSuccessor, Mem!NoNeighbour, MemProofs!NoNeighbour,
     Mem!Advance, MemProofs!Advance, Mem!Return, MemProofs!Return, Mem!Enter, MemProofs!Enter,
     Mem!Precedes, MemProofs!Precedes, Mem!Absorb, MemProofs!Absorb, Mem!block, MemProofs!block,
     Mem!SetNext, MemProofs!SetNext,
     Mem!NULL, MemProofs!NULL, Mem!lists, MemProofs!lists
<1>. QED  BY <1>1, <1>2, <1>3, <1>4, <1>5

LEMMA AllocatorStep ==
  ASSUME MemProofs!IInv, [Next]_vars, size \in [Kinds -> 1 .. MaxSize],
         calls # <<>> => Head(calls).object \in Objects
  PROVE  MemProofs!IInv'
<1>1. CASE Boot
  BY <1>1, SameAllocator, AllocatorAssumption, MemProofs!IInvInitMemallc DEF Boot
<1>2. CASE MakeCall
  <2>. DEFINE o == Head(calls).object
  <2>1. o \in Objects /\ size[o[1]] \in 1 .. MaxSize
    BY <1>2, KindsOfObjects DEF MakeCall
  <2>2. MemProofs!Memallc(o, size[o[1]]) \/ MemProofs!FreeMemallc(o)
    BY <1>2, SameAllocator DEF MakeCall
  <2>3. MemProofs!Next
    BY <2>1, <2>2 DEF MemProofs!Next, MemProofs!AllocOnlyNext
  <2>. QED  BY <2>3, AllocatorAssumption, MemProofs!IInvStep
<1>3. CASE RunCall
  <2>1. MemProofs!Next
    BY <1>3, SameAllocator DEF RunCall, MemProofs!Next, MemProofs!AllocOnlyNext
  <2>. QED  BY <2>1, AllocatorAssumption, MemProofs!IInvStep
<1>4. CASE UNCHANGED mem
  <2>1. UNCHANGED MemProofs!vars
    BY <1>4 DEF mem, MemProofs!vars, MemProofs!lists, MemProofs!frame
  <2>. QED  BY <2>1, AllocatorAssumption, MemProofs!IInvStep
<1>5. StartScheduler \/ NewProcess \/ Switch \/ Trapped \/ UNCHANGED vars => UNCHANGED mem
  BY DEF StartScheduler, NewProcess, Switch, Trapped, Does, vars
<1>. QED  BY <1>1, <1>2, <1>3, <1>4, <1>5 DEF Next, AllocatorRuns

LEMMA SchedulerAssumptions ==
  /\ Null \notin Nodes \cup Procs
  /\ SchedProofs!IsFiniteSet(Nodes)
  /\ NewStates \subseteq {"READY", "SLEEPING"}
BY KernelAssumption DEF SchedProofs!IsFiniteSet, IsFiniteSet

LEMMA SchedulerStarts == Sched!Init => SchedProofs!SInv
<1>1. Sched!Init => SchedProofs!Init
  BY DEF Sched!Init, SchedProofs!Init
<1>2. SchedProofs!Init => SchedProofs!SInv
  BY SchedulerAssumptions, SchedProofs!InitSInv
<1>. QED  BY <1>1, <1>2

LEMMA SameScheduler ==
  /\ Sched!SchedulerInit => SchedProofs!SchedulerInit
  /\ \A p, s : Sched!ScheduleProcess(p, s) => SchedProofs!ScheduleProcess(p, s)
  /\ Sched!ProcSwitch => SchedProofs!ProcSwitch
  /\ Sched!ProcSwitchNull => SchedProofs!ProcSwitchNull
  /\ Sched!AwakenProcess => SchedProofs!AwakenProcess
<1>1. Sched!SchedulerInit => SchedProofs!SchedulerInit
  BY DEF Sched!SchedulerInit, SchedProofs!SchedulerInit, Sched!SetRing, SchedProofs!SetRing,
     Sched!selfLink, SchedProofs!selfLink, Sched!ring, SchedProofs!ring
<1>2. \A p, s : Sched!ScheduleProcess(p, s) => SchedProofs!ScheduleProcess(p, s)
  BY DEF Sched!ScheduleProcess, SchedProofs!ScheduleProcess, Sched!SetRing, SchedProofs!SetRing,
     Sched!selfLink, SchedProofs!selfLink, Sched!ring, SchedProofs!ring,
     Sched!rescheduleProcess, SchedProofs!rescheduleProcess, Sched!queueProc, SchedProofs!queueProc
<1>3. Sched!ProcSwitch => SchedProofs!ProcSwitch
  BY DEF Sched!ProcSwitch, SchedProofs!ProcSwitch, Sched!SetRing, SchedProofs!SetRing,
     Sched!SomeoneReady, SchedProofs!SomeoneReady, Sched!ring, SchedProofs!ring,
     Sched!dequeueProc, SchedProofs!dequeueProc, Sched!endProcess, SchedProofs!endProcess,
     Sched!rescheduleProcess, SchedProofs!rescheduleProcess, Sched!queueProc, SchedProofs!queueProc,
     Sched!memory, SchedProofs!memory
<1>4. Sched!ProcSwitchNull => SchedProofs!ProcSwitchNull
  BY DEF Sched!ProcSwitchNull, SchedProofs!ProcSwitchNull, Sched!SomeoneReady, SchedProofs!SomeoneReady,
     Sched!memory, SchedProofs!memory, Sched!pointers, SchedProofs!pointers
<1>5. Sched!AwakenProcess => SchedProofs!AwakenProcess
  BY DEF Sched!AwakenProcess, SchedProofs!AwakenProcess, Sched!SetRing, SchedProofs!SetRing,
     Sched!dequeueProc, SchedProofs!dequeueProc, Sched!ring, SchedProofs!ring,
     Sched!rescheduleProcess, SchedProofs!rescheduleProcess, Sched!queueProc, SchedProofs!queueProc,
     Sched!memory, SchedProofs!memory, Sched!pointers, SchedProofs!pointers
<1>. QED  BY <1>1, <1>2, <1>3, <1>4, <1>5

(* Which of the scheduler's functions runs in a step of the kernel.        *)
LEMMA SchedulerSteps ==
  ASSUME [Next]_vars
  PROVE  \/ Sched!SchedulerInit
         \/ \E p \in Procs, s \in NewStates : Sched!ScheduleProcess(p, s)
         \/ Sched!ProcSwitch \/ Sched!ProcSwitchNull \/ Sched!AwakenProcess
         \/ UNCHANGED sched
BY DEF Next, AllocatorRuns, Boot, MakeCall, RunCall, StartScheduler, NewProcess,
       Switch, Trapped, Does, vars

LEMMA SchedulerStep == SchedProofs!SInv /\ [Next]_vars => SchedProofs!SInv'
<1>. SUFFICES ASSUME SchedProofs!SInv, [Next]_vars PROVE SchedProofs!SInv'
  OBVIOUS
<1>1. SchedProofs!Next \/ UNCHANGED sched
  BY SchedulerSteps, SameScheduler DEF SchedProofs!Next
<1>2. UNCHANGED sched => UNCHANGED SchedProofs!vars
  BY DEF sched, SchedProofs!vars, SchedProofs!pointers, SchedProofs!memory
<1>. QED  BY <1>1, <1>2, SchedulerAssumptions, SchedProofs!SInvStep

(* No process ever exits, so that none is freed.                           *)
NoneExits == \A p \in Procs : proc_state[p] # "ZOMBIE"

LEMMA SchedulerTypes ==
  ASSUME SchedProofs!SInv
  PROVE  /\ nodes \subseteq Nodes /\ procs \subseteq Procs
         /\ proc_state \in [Procs -> Sched!States]
         /\ status = "up" /\ currentProc # Null => process[currentProc] \in Procs
<1>1. proc_state \in [Procs -> Sched!States] /\ nodes \subseteq Nodes /\ procs \subseteq Procs
  BY DEF SchedProofs!SInv, SchedProofs!TypeOK, SchedProofs!States, Sched!States
<1>2. ASSUME status = "up", currentProc # Null PROVE process[currentProc] \in Procs
  BY <1>1, <1>2 DEF SchedProofs!SInv, SchedProofs!Pointers, SchedProofs!OneEach,
     SchedProofs!Carriers, SchedProofs!Alive
<1>. QED  BY <1>1, <1>2

LEMMA ProcSwitchFreesNone ==
  ASSUME SchedProofs!SInv, NoneExits, Sched!ProcSwitch
  PROVE  NoneExits' /\ UNCHANGED <<nodes, procs>>
<1>1. process[currentProc] \in Procs /\ proc_state \in [Procs -> Sched!States]
  BY SchedulerTypes DEF Sched!ProcSwitch
<1>. DEFINE p == process[currentProc]
            s == IF proc_state[p] = "RUNNING" THEN "READY" ELSE proc_state[p]
<1>2. s # "ZOMBIE"
  BY <1>1 DEF NoneExits
<1>3. /\ proc_state' = [proc_state EXCEPT ![p] = s]
      /\ IF s = "ZOMBIE" THEN Sched!endProcess(currentProc) ELSE UNCHANGED Sched!memory
  BY Zenon DEF Sched!ProcSwitch
<1>4. UNCHANGED <<nodes, procs>>
  BY <1>2, <1>3 DEF Sched!memory
<1>. QED  BY <1>1, <1>2, <1>3, <1>4 DEF NoneExits

LEMMA NoneExitsStep == SchedProofs!SInv /\ NoneExits /\ [Next]_vars => NoneExits'
<1>. SUFFICES ASSUME SchedProofs!SInv, NoneExits, [Next]_vars PROVE NoneExits'
  OBVIOUS
<1>. proc_state \in [Procs -> Sched!States]
  BY SchedulerTypes
<1>1. CASE Sched!ProcSwitch
  BY <1>1, ProcSwitchFreesNone
<1>2. CASE \E p \in Procs, s \in NewStates : Sched!ScheduleProcess(p, s)
  <2>1. PICK p \in Procs, s \in NewStates : Sched!ScheduleProcess(p, s)
    BY <1>2
  <2>2. \E t : t # "ZOMBIE" /\ proc_state' = [proc_state EXCEPT ![p] = t]
    BY <2>1, KernelAssumption DEF Sched!ScheduleProcess
  <2>. QED  BY <2>2 DEF NoneExits
<1>3. CASE Sched!AwakenProcess
  BY <1>3 DEF Sched!AwakenProcess, NoneExits
<1>4. CASE Sched!SchedulerInit \/ Sched!ProcSwitchNull \/ UNCHANGED sched
  BY <1>4 DEF Sched!SchedulerInit, Sched!ProcSwitchNull, sched, NoneExits
<1>. QED  BY <1>1, <1>2, <1>3, <1>4, SchedulerSteps

-----------------------------------------------------------------------------
(* The head of the free list reaches to the end of the heap, lies behind   *)
(* all that has been granted, and has room for what is not granted yet.    *)

FirstFree == memblk_pool[free_memblk_list]
HeapEnd == HeapStart + HeapRange
Holders == {o \in Objects : held[o] # Mem!NoRegion}

Room ==
  /\ free_memblk_list \in 1 .. memblk_pool_index
  /\ FirstFree.addr + FirstFree.size = HeapEnd
  /\ FirstFree.addr <= HeapStart + MaxSize * Cardinality(Holders)
  /\ \A o \in Holders : held[o].addr + held[o].size <= FirstFree.addr

(* A search is at its first iteration, for an object that needs memory.    *)
Searching ==
  pc = "search" => /\ caller \in Objects \ Holders /\ arg = size[caller[1]]
                   /\ walker = 0 /\ current = free_memblk_list

LEMMA AllocatorTypes ==
  ASSUME MemProofs!IInv
  PROVE  /\ memblk_pool \in [1 .. PoolSize -> [addr : Nat, size : Nat, next : 0 .. PoolSize]]
         /\ memblk_pool_index \in 0 .. PoolSize /\ PoolSize \in Nat
         /\ free_memblk_list \in 0 .. memblk_pool_index
         /\ allc_memblk_list \in 0 .. memblk_pool_index
         /\ \A b \in 1 .. memblk_pool_index :
              HeapStart <= memblk_pool[b].addr /\ 0 < memblk_pool[b].size
         /\ held \in [Objects -> [addr : Nat, size : Nat]]
         /\ \A o \in Holders : held[o].size > 0 /\ held[o].addr >= HeapStart
<1>1. MemProofs!Pointers = 0 .. PoolSize /\ MemProofs!Blocks = 1 .. PoolSize
  BY KernelAssumption DEF MemProofs!Pointers, MemProofs!Blocks, MemProofs!NULL
<1>2. MemProofs!TypeOK /\ MemProofs!BlocksInHeap /\ MemProofs!HeldInHeap /\ MemProofs!LinksIssued
  BY DEF MemProofs!IInv
<1>3. /\ memblk_pool \in [1 .. PoolSize -> [addr : Nat, size : Nat, next : 0 .. PoolSize]]
      /\ memblk_pool_index \in 0 .. PoolSize /\ PoolSize \in Nat
      /\ free_memblk_list \in 0 .. PoolSize
      /\ allc_memblk_list \in 0 .. PoolSize
      /\ held \in [Objects -> [addr : Nat, size : Nat]]
  BY <1>1, <1>2, KernelAssumption DEF MemProofs!TypeOK, MemProofs!Memblk, MemProofs!Region
<1>4. /\ free_memblk_list \in 0 .. memblk_pool_index
      /\ allc_memblk_list \in 0 .. memblk_pool_index
  BY <1>2, <1>3 DEF MemProofs!LinksIssued, MemProofs!Issued
<1>5. \A b \in 1 .. memblk_pool_index :
              HeapStart <= memblk_pool[b].addr /\ 0 < memblk_pool[b].size
  BY <1>2 DEF MemProofs!BlocksInHeap, MemProofs!InHeap
<1>6. \A o \in Holders : held[o].size > 0 /\ held[o].addr >= HeapStart
  BY <1>2, <1>3, KernelAssumption DEF MemProofs!HeldInHeap, MemProofs!InHeap, Holders,
     Mem!NoRegion, MemProofs!NoRegion, Mem!NULL, MemProofs!NULL
<1>. QED  BY <1>3, <1>4, <1>5, <1>6

(* A call that enters the search.                                          *)
LEMMA EnterSearch ==
  ASSUME MemProofs!IInv, Room, range = HeapRange, size \in [Kinds -> 1 .. MaxSize],
         NEW o \in Objects, Mem!Memallc(o, size[o[1]]), UNCHANGED size
  PROVE  /\ pc' = "search" /\ caller' = o
         /\ UNCHANGED <<memblk_pool, memblk_pool_index, free_memblk_list, allc_memblk_list,
                        heap_s, range, held>>
         /\ o \notin Holders /\ Searching'
<1>1. size[o[1]] \in 1 .. MaxSize /\ size[o[1]] <= HeapRange
  <2>1. size[o[1]] \in 1 .. MaxSize
    BY KindsOfObjects
  <2>2. MaxObjects \in Nat /\ MaxObjects >= 1
    <3>1. {} \in SUBSET Objects /\ Test \in Objects \ {}
      BY KindsOfObjects
    <3>2. Cardinality({}) + 1 <= MaxObjects
      BY <3>1, RoomForOne, Zenon
    <3>. QED  BY <3>2, ObjectsBound, FS_EmptySet
  <2>3. MaxSize * MaxObjects >= MaxSize
    BY <2>2, KernelAssumption
  <2>4. MaxSize * MaxObjects \in Nat /\ HeapRange \in Nat /\ MaxSize \in Nat
    BY <2>2, KernelAssumption
  <2>. HIDE DEF MaxObjects
  <2>. QED  BY <2>1, <2>3, <2>4, HeapSuffices
<1>2. free_memblk_list # 0
  BY AllocatorTypes DEF Room
<1>3. /\ pc' = "search" /\ caller' = o /\ arg' = size[o[1]]
      /\ walker' = 0 /\ current' = free_memblk_list
      /\ held[o] = Mem!NoRegion
      /\ UNCHANGED <<memblk_pool, memblk_pool_index, free_memblk_list, allc_memblk_list,
                     heap_s, range, held>>
  BY <1>1, <1>2, KernelAssumption DEF Mem!Memallc, Mem!Enter, Mem!NULL, Mem!lists
<1>4. o \notin Holders /\ Holders' = Holders
  BY <1>3 DEF Holders
<1>. QED  BY <1>3, <1>4 DEF Searching

(* The search ends where it began: the first block is large enough, with   *)
(* bytes to spare, and there is a descriptor for them.                     *)
LEMMA Suffices ==
  ASSUME MemProofs!IInv, Room, size \in [Kinds -> 1 .. MaxSize],
         pc = "search", Searching
  PROVE  /\ arg \in 1 .. MaxSize /\ arg < FirstFree.size
         /\ current = free_memblk_list /\ walker = 0 /\ caller \in Objects
         /\ FirstFree.addr + arg <= HeapStart + MaxSize * Cardinality(Holders \cup {caller})
<1>. DEFINE k == Cardinality(Holders)
<1>1. caller \in Objects \ Holders /\ arg = size[caller[1]] /\ walker = 0
      /\ current = free_memblk_list /\ arg \in 1 .. MaxSize
  BY KindsOfObjects DEF Searching
<1>2. Holders \in SUBSET Objects
  BY DEF Holders
<1>3. k \in Nat /\ k + 1 <= MaxObjects /\ Cardinality(Holders \cup {caller}) = k + 1
  BY <1>1, <1>2, RoomForOne, Zenon
<1>4. /\ FirstFree.addr \in Nat /\ FirstFree.size \in Nat
      /\ FirstFree.addr + FirstFree.size = HeapStart + HeapRange
      /\ FirstFree.addr <= HeapStart + MaxSize * k
  BY AllocatorTypes DEF Room, FirstFree, HeapEnd
<1>. HIDE DEF k
<1>5. /\ MaxSize \in Nat /\ HeapRange \in Nat /\ HeapStart \in Nat
      /\ HeapRange > MaxSize * MaxObjects /\ MaxObjects \in Nat
  BY KernelAssumption, HeapSuffices, ObjectsBound
<1>6. MaxSize * (k + 1) = MaxSize * k + MaxSize /\ MaxSize * k \in Nat
  BY <1>3, <1>5
<1>7. MaxSize * (k + 1) <= MaxSize * MaxObjects /\ MaxSize * MaxObjects \in Nat
  <2>1. \A a, b, c \in Nat : a <= b => c * a <= c * b
    OBVIOUS
  <2>. QED  BY <2>1, <1>3, <1>5
<1>8. arg < FirstFree.size /\ FirstFree.addr + arg <= HeapStart + MaxSize * (k + 1)
  BY <1>1, <1>4, <1>5, <1>6, <1>7
<1>. QED  BY <1>1, <1>3, <1>8

LEMMA Grant ==
  ASSUME MemProofs!IInv, Room, size \in [Kinds -> 1 .. MaxSize],
         pc = "search", Searching, memblk_pool_index < PoolSize, RunCall
  PROVE  LET f == free_memblk_list
             new == memblk_pool_index + 1
         IN /\ pc' = "idle"
            /\ memblk_pool_index' = new /\ free_memblk_list' = new /\ allc_memblk_list' = f
            /\ held' = [held EXCEPT ![caller] = [addr |-> FirstFree.addr, size |-> arg]]
            /\ UNCHANGED <<range, heap_s, sched, size, calls>>
            /\ memblk_pool'[new].addr = FirstFree.addr + arg
            /\ memblk_pool'[new].size = FirstFree.size - arg
            /\ memblk_pool'[new].next = FirstFree.next
            /\ memblk_pool'[f].addr = FirstFree.addr
            /\ memblk_pool'[f].size = arg
<1>. DEFINE f == free_memblk_list
            new == memblk_pool_index + 1
<1>1. /\ arg \in 1 .. MaxSize /\ arg < FirstFree.size
      /\ current = f /\ walker = 0 /\ caller \in Objects
  BY Suffices
<1>2. /\ f \in 1 .. memblk_pool_index /\ new \in 1 .. PoolSize /\ f # new /\ f \in 1 .. PoolSize
      /\ memblk_pool \in [1 .. PoolSize -> [addr : Nat, size : Nat, next : 0 .. PoolSize]]
      /\ FirstFree.size \in Nat /\ MaxSize \in Nat
  <2>1. /\ memblk_pool \in [1 .. PoolSize -> [addr : Nat, size : Nat, next : 0 .. PoolSize]]
        /\ memblk_pool_index \in 0 .. PoolSize /\ PoolSize \in Nat
    BY AllocatorTypes
  <2>2. f \in 1 .. memblk_pool_index
    BY DEF Room
  <2>3. new \in 1 .. PoolSize /\ f # new /\ f \in 1 .. PoolSize
    BY <2>1, <2>2
  <2>. HIDE DEF f, new
  <2>4. memblk_pool[f].size \in Nat
    BY <2>1, <2>3
  <2>. QED  BY <2>1, <2>2, <2>3, <2>4, KernelAssumption DEF FirstFree, f
<1>3. Mem!TakeBlock /\ UNCHANGED <<sched, size, calls>>
  <2>1. current # 0 /\ Mem!Fits(current)
    BY <1>1, <1>2 DEF Mem!Fits, FirstFree
  <2>2. ~ Mem!FreeSteps
    BY DEF Mem!FreeSteps, Mem!Lookup, Mem!NotFound, Mem!Unlink, Mem!Defragment,
       Mem!MergeIntoPredecessor, Mem!MergeSuccessor, Mem!NoNeighbour
  <2>. QED  BY <2>1, <2>2 DEF RunCall, Mem!AllocSteps, Mem!Search, Mem!NoneFits, Mem!NULL
<1>4. Mem!SplitNeeded
  BY <1>1, <1>2 DEF Mem!SplitNeeded, FirstFree
<1>. DEFINE split == [memblk_pool EXCEPT
              ![new]     = [addr |-> FirstFree.addr + arg, size |-> FirstFree.size - arg,
                            next |-> FirstFree.next],
              ![f] = [addr |-> FirstFree.addr, size |-> arg, next |-> new]]
<1>5. Mem!SplitPool = split
  BY <1>1, <1>4 DEF Mem!SplitPool, FirstFree
<1>6. /\ split[new] = [addr |-> FirstFree.addr + arg, size |-> FirstFree.size - arg,
                       next |-> FirstFree.next]
      /\ split[f] = [addr |-> FirstFree.addr, size |-> arg, next |-> new]
  BY <1>2
<1>7. DOMAIN split = 1 .. PoolSize
  BY <1>2
<1>. HIDE DEF split
<1>8. /\ memblk_pool' = [split EXCEPT ![f].next = allc_memblk_list]
      /\ free_memblk_list' = split[f].next
      /\ memblk_pool_index' = new /\ allc_memblk_list' = f
      /\ held' = [held EXCEPT ![caller] = [addr |-> FirstFree.addr, size |-> arg]]
      /\ pc' = "idle" /\ UNCHANGED <<range, heap_s>>
  BY <1>1, <1>3, <1>4, <1>5 DEF Mem!TakeBlock, Mem!Return, Mem!SetNext, Mem!NULL, FirstFree
<1>9. /\ memblk_pool'[new] = split[new]
      /\ memblk_pool'[f].addr = split[f].addr /\ memblk_pool'[f].size = split[f].size
  BY <1>2, <1>6, <1>7, <1>8
<1>. QED  BY <1>3, <1>6, <1>8, <1>9

FullSize == \A o \in Holders : held[o].size = size[o[1]]

(* What the grant leaves of the first block is the new first block.        *)
LEMMA GrantKeepsRoom ==
  ASSUME MemProofs!IInv, Room, size \in [Kinds -> 1 .. MaxSize], FullSize,
         pc = "search", Searching, memblk_pool_index < PoolSize, RunCall
  PROVE  Room' /\ FullSize' /\ Searching' /\ Holders' = Holders \cup {caller} /\ Mem!Heap!Next
<1>. DEFINE f == free_memblk_list
            new == memblk_pool_index + 1
            r == [addr |-> FirstFree.addr, size |-> arg]
<1>1. /\ arg \in 1 .. MaxSize /\ arg < FirstFree.size /\ caller \in Objects
      /\ FirstFree.addr + arg <= HeapStart + MaxSize * Cardinality(Holders \cup {caller})
  BY Suffices
<1>2. /\ pc' = "idle" /\ memblk_pool_index' = new /\ free_memblk_list' = new
      /\ held' = [held EXCEPT ![caller] = r]
      /\ UNCHANGED size
      /\ memblk_pool'[new].addr = FirstFree.addr + arg
      /\ memblk_pool'[new].size = FirstFree.size - arg
  BY Grant
<1>3. /\ held \in [Objects -> [addr : Nat, size : Nat]]
      /\ f \in 1 .. memblk_pool_index /\ memblk_pool_index \in Nat /\ PoolSize \in Nat
      /\ FirstFree.addr \in Nat /\ FirstFree.size \in Nat
      /\ FirstFree.addr + FirstFree.size = HeapEnd
      /\ HeapStart <= FirstFree.addr /\ HeapStart \in Nat /\ HeapRange \in Nat /\ MaxSize \in Nat
      /\ \A o \in Holders : held[o].addr + held[o].size <= FirstFree.addr
  <2>1. f \in 1 .. memblk_pool_index /\ f \in 1 .. PoolSize
    BY AllocatorTypes DEF Room
  <2>2. FirstFree.addr \in Nat /\ FirstFree.size \in Nat /\ HeapStart <= FirstFree.addr
    BY <2>1, AllocatorTypes DEF FirstFree
  <2>. QED  BY <2>1, <2>2, AllocatorTypes, KernelAssumption DEF Room
<1>4. caller \notin Holders /\ arg = size[caller[1]]
  BY DEF Searching
<1>. HIDE DEF f
<1>5. held'[caller] = r /\ \A o \in Objects \ {caller} : held'[o] = held[o]
  BY <1>1, <1>2, <1>3
<1>6. r # Mem!NoRegion /\ r.addr = FirstFree.addr /\ r.size = arg
  BY <1>1 DEF Mem!NoRegion
<1>. HIDE DEF r
<1>7. Holders' = Holders \cup {caller}
  BY <1>1, <1>5, <1>6 DEF Holders
<1>8. FirstFree' = memblk_pool'[new]
  BY <1>2 DEF FirstFree
<1>9. Room'
  <2>1. free_memblk_list' \in 1 .. memblk_pool_index'
    BY <1>2, <1>3
  <2>2. FirstFree'.addr + FirstFree'.size = HeapEnd
    BY <1>1, <1>2, <1>3, <1>8
  <2>3. FirstFree'.addr <= HeapStart + MaxSize * Cardinality(Holders')
    BY <1>1, <1>2, <1>7, <1>8
  <2>4. ASSUME NEW o \in Holders' PROVE held'[o].addr + held'[o].size <= FirstFree'.addr
    <3>1. CASE o = caller
      BY <1>1, <1>2, <1>3, <1>5, <1>6, <1>8, <3>1
    <3>2. CASE o # caller
      <4>1. o \in Holders /\ held'[o] = held[o] /\ o \in Objects
        BY <1>5, <1>7, <2>4, <3>2 DEF Holders
      <4>2. held[o].addr + held[o].size <= FirstFree.addr
        BY <1>3, <4>1
      <4>3. held[o].addr \in Nat /\ held[o].size \in Nat
        BY <1>3, <4>1
      <4>4. FirstFree'.addr = FirstFree.addr + arg
        BY <1>2, <1>8
      <4>. QED  BY <1>1, <1>3, <4>1, <4>2, <4>3, <4>4
    <3>. QED  BY <3>1, <3>2
  <2>. QED  BY <2>1, <2>2, <2>3, <2>4 DEF Room, HeapEnd
<1>10. FullSize'
  BY <1>1, <1>2, <1>4, <1>5, <1>6, <1>7 DEF FullSize, Holders
<1>11. Mem!Heap!Next
  <2>1. r \in Mem!Heap!Regions
    <3>1. /\ FirstFree.addr \in HeapStart .. HeapStart + HeapRange /\ arg \in 1 .. HeapRange
          /\ FirstFree.addr + arg <= HeapStart + HeapRange
      BY <1>1, <1>3 DEF HeapEnd
    <3>. QED  BY <3>1 DEF r, Mem!Heap!Regions
  <2>2. ASSUME NEW o \in Objects, held[o] # Mem!Heap!NoRegion
        PROVE  ~ Mem!Heap!Overlap(held[o], r)
    <3>1. o \in Holders
      BY <2>2 DEF Holders, Mem!Heap!NoRegion, Mem!NoRegion, Mem!NULL
    <3>2. held[o].addr \in Nat /\ held[o].size \in Nat
      BY <1>3
    <3>. QED  BY <1>3, <1>6, <3>1, <3>2 DEF Mem!Heap!Overlap
  <2>3. held[caller] = Mem!Heap!NoRegion
    BY <1>1, <1>4 DEF Holders, Mem!Heap!NoRegion, Mem!NoRegion, Mem!NULL
  <2>4. Mem!Heap!Allocate(caller, r)
    BY <1>2, <2>2, <2>3 DEF Mem!Heap!Allocate
  <2>. QED  BY <1>1, <2>1, <2>4 DEF Mem!Heap!Next
<1>12. Searching'
  BY <1>2 DEF Searching
<1>. QED  BY <1>7, <1>9, <1>10, <1>11, <1>12

-----------------------------------------------------------------------------
(* The phases of a run, and the invariant.                                 *)

Untouched ==
  /\ heap_s = 0 /\ pc = "idle" /\ calls = <<>>
  /\ Holders = {} /\ nodes = {} /\ procs = {}

(* kernel_init has two blocks: the free list's head is the third.          *)
TwoBlocks ==
  /\ memblk_pool_index = 3
  /\ memblk_pool[2].addr <= HeapStart + MaxSize
  /\ held[Test].addr + held[Test].size <= memblk_pool[2].addr
  /\ memblk_pool[2].addr + memblk_pool[2].size = memblk_pool[3].addr
  /\ memblk_pool[3].addr + memblk_pool[3].size = HeapEnd
  /\ memblk_pool[3].next = 0

(* It allocates: nothing has been freed yet, and the free list has one     *)
(* block.                                                                  *)
BootAllocates ==
  /\ heap_s # 0 /\ nodes = {} /\ procs = {}
  /\ Room /\ Searching
  /\ free_memblk_list = memblk_pool_index /\ FirstFree.next = 0
  /\ \/ /\ pc = "idle" /\ calls = <<Allocate(Test), Allocate(Scratch), Free(Scratch)>>
        /\ memblk_pool_index = 1 /\ Holders = {}
     \/ /\ pc = "search" /\ caller = Test /\ calls = <<Allocate(Scratch), Free(Scratch)>>
        /\ memblk_pool_index = 1 /\ Holders = {}
     \/ /\ pc = "idle" /\ calls = <<Allocate(Scratch), Free(Scratch)>>
        /\ memblk_pool_index = 2 /\ Holders = {Test}
     \/ /\ pc = "search" /\ caller = Scratch /\ calls = <<Free(Scratch)>>
        /\ memblk_pool_index = 2 /\ Holders = {Test}
     \/ /\ pc = "idle" /\ calls = <<Free(Scratch)>>
        /\ TwoBlocks /\ Holders = {Test, Scratch}
        /\ allc_memblk_list = 2 /\ held[Scratch].addr = memblk_pool[2].addr

(* It frees the second block, found at once, next to the third.            *)
BootFrees ==
  /\ heap_s # 0 /\ nodes = {} /\ procs = {}
  /\ calls = <<>> /\ TwoBlocks /\ Holders = {Test}
  /\ \/ /\ pc = "lookup" /\ arg = memblk_pool[2].addr
        /\ walker = 0 /\ current = 2
        /\ allc_memblk_list = 2 /\ free_memblk_list = 3
     \/ /\ pc = "defragment" /\ free_memblk_list = 2 /\ memblk_pool[2].next = 3
        /\ \/ walker = 0 /\ current = 2
           \/ walker = 2 /\ current = 3

(* The objects whose memory has not been granted yet.                      *)
Awaits(W) ==
  \/ pc = "idle" /\ calls = <<>> /\ W = {}
  \/ pc = "search" /\ calls = <<>> /\ W = {caller}
  \/ \E o \in Objects :
       /\ calls = <<Allocate(o)>>
       /\ \/ pc = "idle" /\ W = {o}
          \/ pc = "search" /\ W = {caller, o} /\ o # caller
  \/ \E o, p \in Objects :
       /\ calls = <<Allocate(o), Allocate(p)>> /\ o # p
       /\ pc = "idle" /\ W = {o, p}

(* The scheduler runs, and every object in use has its memory or waits     *)
(* for it.  Where the free list leads behind its head does not matter.     *)
Running ==
  /\ heap_s # 0
  /\ Room /\ Searching
  /\ memblk_pool_index <= Cardinality(Holders) + 2
  /\ \E W \in SUBSET InUse : Awaits(W) /\ Holders = InUse \ W

Phase == Untouched \/ BootAllocates \/ BootFrees \/ Running

KInv ==
  /\ MemProofs!IInv /\ SchedProofs!SInv /\ NoneExits
  /\ size \in [Kinds -> 1 .. MaxSize] /\ range = HeapRange
  /\ FullSize
  /\ Phase

LEMMA InitKInv == Init => KInv
<1>. SUFFICES ASSUME Init PROVE KInv
  OBVIOUS
<1>1. MemProofs!IInv /\ SchedProofs!SInv
  BY AllocatorInit, SchedulerStarts DEF Init
<1>2. NoneExits /\ size \in [Kinds -> 1 .. MaxSize] /\ range = HeapRange
  BY DEF Init, Sched!Init, Mem!Init, NoneExits
<1>3. Holders = {}
  BY DEF Init, Mem!Init, Holders
<1>4. FullSize /\ Untouched
  BY <1>3 DEF Init, Mem!Init, Sched!Init, FullSize, Untouched, Mem!NULL
<1>. QED  BY <1>1, <1>2, <1>4 DEF KInv, Phase

(* Whose step it is.                                                       *)
LEMMA WhoMoves ==
  ASSUME [Next]_vars
  PROVE  \/ Boot /\ heap_s = 0
         \/ MakeCall /\ pc = "idle" /\ calls # <<>>
         \/ RunCall /\ pc # "idle"
         \/ (StartScheduler \/ NewProcess \/ Switch) /\ Idle
         \/ UNCHANGED vars
<1>1. Boot => heap_s = 0
  BY DEF Boot, Mem!InitMemallc, Mem!NULL
<1>2. MakeCall => pc = "idle" /\ calls # <<>>
  BY DEF MakeCall, Mem!Memallc, Mem!FreeMemallc
<1>3. RunCall => pc # "idle"
  BY DEF RunCall, Mem!AllocSteps, Mem!Search, Mem!NoneFits, Mem!TakeBlock,
     Mem!FreeSteps, Mem!Lookup, Mem!NotFound, Mem!Unlink, Mem!Defragment,
     Mem!MergeIntoPredecessor, Mem!MergeSuccessor, Mem!NoNeighbour
<1>4. StartScheduler \/ NewProcess \/ Switch => Idle
  BY DEF StartScheduler, NewProcess, Switch, Does
<1>5. Trapped => UNCHANGED vars
  BY DEF Trapped
<1>. QED  BY <1>1, <1>2, <1>3, <1>4, <1>5 DEF Next, AllocatorRuns

LEMMA SizeAndRange ==
  ASSUME size \in [Kinds -> 1 .. MaxSize], range = HeapRange, [Next]_vars
  PROVE  size' = size /\ range' = HeapRange
<1>1. StartScheduler \/ NewProcess \/ Switch => UNCHANGED <<mem, size>>
  BY DEF StartScheduler, NewProcess, Switch, Does
<1>2. Boot => size' = size /\ range' = HeapRange
  BY DEF Boot, Mem!InitMemallc
<1>3. MakeCall => size' = size /\ range' = range
  BY DEF MakeCall, Mem!Memallc, Mem!FreeMemallc
<1>4. RunCall => size' = size /\ range' = range
  BY DEF RunCall, Mem!AllocSteps, Mem!Search, Mem!NoneFits, Mem!TakeBlock, Mem!Advance,
     Mem!FreeSteps, Mem!Lookup, Mem!NotFound, Mem!Unlink, Mem!Defragment,
     Mem!MergeIntoPredecessor, Mem!MergeSuccessor, Mem!NoNeighbour
<1>. QED  BY <1>1, <1>2, <1>3, <1>4, WhoMoves DEF mem, vars

(* What the phases say carries over where the allocator does nothing.      *)
LEMMA NothingMoves ==
  ASSUME UNCHANGED <<mem, size>>
  PROVE  /\ Holders' = Holders /\ FirstFree' = FirstFree
         /\ (Room => Room') /\ (Searching => Searching') /\ (FullSize => FullSize')
         /\ (TwoBlocks => TwoBlocks') /\ UNCHANGED held
<1>1. Holders' = Holders /\ FirstFree' = FirstFree
  BY DEF Holders, FirstFree, mem
<1>. QED  BY <1>1 DEF Room, Searching, FullSize, TwoBlocks, HeapEnd, mem

-----------------------------------------------------------------------------
(* Steps of the invariant.                                                 *)

LEMMA ShortSequences ==
  ASSUME NEW a, NEW b, NEW c
  PROVE  /\ <<a>> # <<>> /\ Head(<<a>>) = a /\ Tail(<<a>>) = <<>>
         /\ <<a, b>> # <<>> /\ Head(<<a, b>>) = a /\ Tail(<<a, b>>) = <<b>>
         /\ <<a, b, c>> # <<>> /\ Head(<<a, b, c>>) = a /\ Tail(<<a, b, c>>) = <<b, c>>
OBVIOUS

LEMMA MakesMemallc ==
  ASSUME MemProofs!IInv, Room, FullSize, range = HeapRange, size \in [Kinds -> 1 .. MaxSize],
         NEW o \in Objects, Head(calls) = Allocate(o), MakeCall
  PROVE  /\ pc' = "search" /\ caller' = o /\ o \notin Holders
         /\ calls' = Tail(calls)
         /\ UNCHANGED <<sched, memblk_pool, memblk_pool_index, free_memblk_list,
                        allc_memblk_list, heap_s, held, size>>
         /\ Room' /\ Searching' /\ FullSize'
         /\ Holders' = Holders /\ FirstFree' = FirstFree
<1>1. /\ Mem!Memallc(o, size[o[1]]) /\ calls' = Tail(calls) /\ UNCHANGED <<sched, size>>
  BY DEF MakeCall, Allocate
<1>2. /\ pc' = "search" /\ caller' = o /\ o \notin Holders /\ Searching'
      /\ UNCHANGED <<memblk_pool, memblk_pool_index, free_memblk_list, allc_memblk_list,
                     heap_s, range, held>>
  BY <1>1, EnterSearch
<1>3. Holders' = Holders /\ FirstFree' = FirstFree
  BY <1>2 DEF Holders, FirstFree
<1>4. Room' /\ FullSize'
  BY <1>1, <1>2, <1>3 DEF Room, FullSize, HeapEnd
<1>. QED  BY <1>1, <1>2, <1>3, <1>4

LEMMA UntouchedStep ==
  ASSUME KInv, Untouched, [Next]_vars
  PROVE  Phase' /\ FullSize' /\ [Mem!Heap!Next]_held
<1>1. CASE UNCHANGED vars
  BY <1>1, NothingMoves DEF Untouched, Phase, KInv, vars, mem, sched
<1>2. CASE Boot
  <2>1. /\ heap_s' = HeapStart /\ pc' = "idle"
        /\ memblk_pool' = [memblk_pool EXCEPT
             ![1] = [addr |-> HeapStart, size |-> HeapRange, next |-> 0]]
        /\ memblk_pool_index' = 1 /\ free_memblk_list' = 1
        /\ calls' = <<Allocate(Test), Allocate(Scratch), Free(Scratch)>>
        /\ UNCHANGED <<held, nodes, procs, size>>
    BY <1>2 DEF Boot, Mem!InitMemallc, Mem!NULL, Mem!frame, BootCalls, sched
  <2>2. Holders' = {}
    BY <2>1 DEF Holders, Untouched
  <2>3. FirstFree' = [addr |-> HeapStart, size |-> HeapRange, next |-> 0]
    BY <2>1, AllocatorTypes, KernelAssumption DEF FirstFree, KInv
  <2>4. Room'
    <3>1. MaxSize * Cardinality({}) = 0
      BY FS_EmptySet, KernelAssumption
    <3>. QED  BY <2>1, <2>2, <2>3, <3>1, KernelAssumption DEF Room, HeapEnd
  <2>5. Searching' /\ FullSize'
    BY <2>1, <2>2 DEF Searching, FullSize
  <2>6. BootAllocates'
    BY <2>1, <2>2, <2>3, <2>4, <2>5, KernelAssumption DEF BootAllocates, Untouched
  <2>. QED  BY <2>1, <2>5, <2>6 DEF Phase
<1>. QED  BY <1>1, <1>2, WhoMoves DEF Untouched, Idle

(* A grant while the free list has one block.                              *)
LEMMA BootGrant ==
  ASSUME KInv, BootAllocates, pc = "search", memblk_pool_index < PoolSize, RunCall
  PROVE  /\ pc' = "idle" /\ memblk_pool_index' = memblk_pool_index + 1
         /\ free_memblk_list' = memblk_pool_index' /\ FirstFree'.next = 0
         /\ allc_memblk_list' = memblk_pool_index
         /\ Room' /\ Searching' /\ FullSize' /\ Mem!Heap!Next
         /\ Holders' = Holders \cup {caller}
         /\ held' = [held EXCEPT ![caller] = [addr |-> FirstFree.addr, size |-> arg]]
         /\ UNCHANGED <<heap_s, nodes, procs, calls>>
         /\ memblk_pool'[memblk_pool_index].addr = FirstFree.addr
         /\ memblk_pool'[memblk_pool_index].size = arg
         /\ FirstFree'.addr = FirstFree.addr + arg
<1>1. /\ Room /\ Searching /\ MemProofs!IInv /\ size \in [Kinds -> 1 .. MaxSize] /\ FullSize
      /\ free_memblk_list = memblk_pool_index /\ FirstFree.next = 0
  BY DEF KInv, BootAllocates
<1>2. Room' /\ Searching' /\ FullSize' /\ Mem!Heap!Next /\ Holders' = Holders \cup {caller}
  BY <1>1, GrantKeepsRoom
<1>. DEFINE f == free_memblk_list
            new == memblk_pool_index + 1
<1>3. /\ pc' = "idle"
      /\ memblk_pool_index' = new /\ free_memblk_list' = new /\ allc_memblk_list' = f
      /\ held' = [held EXCEPT ![caller] = [addr |-> FirstFree.addr, size |-> arg]]
      /\ UNCHANGED <<range, heap_s, sched, size, calls>>
      /\ memblk_pool'[new].addr = FirstFree.addr + arg
      /\ memblk_pool'[new].next = FirstFree.next
      /\ memblk_pool'[f].addr = FirstFree.addr
      /\ memblk_pool'[f].size = arg
  BY <1>1, Grant
<1>4. FirstFree' = memblk_pool'[new]
  BY <1>3 DEF FirstFree
<1>. QED  BY <1>1, <1>2, <1>3, <1>4 DEF sched

LEMMA SmallPool == PoolSize > 2
<1>1. {} \in SUBSET Objects /\ Test \in Objects \ {} /\ Scratch \in Objects \ {} /\ Test # Scratch
  BY KindsOfObjects, ObjectsDiffer
<1>2. Cardinality({}) + 2 <= MaxObjects
  BY <1>1, RoomForTwo, Zenon
<1>3. MaxObjects \in Nat /\ PoolSize \in Nat /\ PoolSize > MaxObjects /\ Cardinality({}) = 0
  BY ObjectsBound, KernelAssumption, HeapSuffices, FS_EmptySet
<1>. QED  BY <1>2, <1>3

LEMMA BootAllocatesStep ==
  ASSUME KInv, BootAllocates, [Next]_vars
  PROVE  Phase' /\ FullSize' /\ [Mem!Heap!Next]_held
<1>1. /\ Room /\ Searching /\ MemProofs!IInv /\ size \in [Kinds -> 1 .. MaxSize] /\ FullSize
      /\ free_memblk_list = memblk_pool_index /\ FirstFree.next = 0
      /\ heap_s # 0 /\ nodes = {} /\ procs = {} /\ range = HeapRange
  BY DEF KInv, BootAllocates
<1>2. Test \in Objects /\ Scratch \in Objects /\ Test # Scratch
  BY KindsOfObjects, ObjectsDiffer
<1>. USE ShortSequences, <1>1, <1>2
<1>3. CASE UNCHANGED vars
  <2>1. BootAllocates' /\ FullSize'
    BY <1>3, NothingMoves DEF BootAllocates, vars, mem, sched
  <2>. QED  BY <1>3, <2>1 DEF Phase, vars, mem
<1>4. CASE pc = "idle" /\ calls = <<Allocate(Test), Allocate(Scratch), Free(Scratch)>>
           /\ memblk_pool_index = 1 /\ Holders = {} /\ MakeCall
  <2>1. Head(calls) = Allocate(Test) /\ Tail(calls) = <<Allocate(Scratch), Free(Scratch)>>
    BY <1>4
  <2>2. /\ pc' = "search" /\ caller' = Test /\ calls' = Tail(calls)
        /\ UNCHANGED <<sched, memblk_pool, memblk_pool_index, free_memblk_list,
                       allc_memblk_list, heap_s, held, size>>
        /\ Room' /\ Searching' /\ FullSize'
        /\ Holders' = Holders /\ FirstFree' = FirstFree
    BY <1>4, <2>1, MakesMemallc
  <2>3. BootAllocates'
    BY <1>4, <2>1, <2>2 DEF BootAllocates, sched
  <2>. QED  BY <2>2, <2>3 DEF Phase
<1>5. CASE pc = "idle" /\ calls = <<Allocate(Scratch), Free(Scratch)>>
           /\ memblk_pool_index = 2 /\ Holders = {Test} /\ MakeCall
  <2>1. Head(calls) = Allocate(Scratch) /\ Tail(calls) = <<Free(Scratch)>>
    BY <1>5
  <2>2. /\ pc' = "search" /\ caller' = Scratch /\ calls' = Tail(calls)
        /\ UNCHANGED <<sched, memblk_pool, memblk_pool_index, free_memblk_list,
                       allc_memblk_list, heap_s, held, size>>
        /\ Room' /\ Searching' /\ FullSize'
        /\ Holders' = Holders /\ FirstFree' = FirstFree
    BY <1>5, <2>1, MakesMemallc
  <2>3. BootAllocates'
    BY <1>5, <2>1, <2>2 DEF BootAllocates, sched
  <2>. QED  BY <2>2, <2>3 DEF Phase
<1>6. CASE pc = "search" /\ caller = Test /\ calls = <<Allocate(Scratch), Free(Scratch)>>
           /\ memblk_pool_index = 1 /\ Holders = {} /\ RunCall
  <2>1. memblk_pool_index < PoolSize
    BY <1>6, SmallPool, KernelAssumption
  <2>2. /\ pc' = "idle" /\ memblk_pool_index' = memblk_pool_index + 1
        /\ free_memblk_list' = memblk_pool_index' /\ FirstFree'.next = 0
        /\ Room' /\ Searching' /\ FullSize' /\ Mem!Heap!Next
        /\ Holders' = Holders \cup {caller}
        /\ UNCHANGED <<heap_s, nodes, procs, calls>>
    BY <1>6, <2>1, BootGrant
  <2>3. Holders' = {Test} /\ memblk_pool_index' = 2
    BY <1>6, <2>2
  <2>4. BootAllocates'
    BY <1>6, <2>2, <2>3 DEF BootAllocates
  <2>. QED  BY <2>2, <2>4 DEF Phase
<1>7. CASE pc = "search" /\ caller = Scratch /\ calls = <<Free(Scratch)>>
           /\ memblk_pool_index = 2 /\ Holders = {Test} /\ RunCall
  <2>1. memblk_pool_index < PoolSize
    BY <1>7, SmallPool, KernelAssumption
  <2>2. /\ pc' = "idle" /\ memblk_pool_index' = memblk_pool_index + 1
        /\ free_memblk_list' = memblk_pool_index' /\ FirstFree'.next = 0
        /\ allc_memblk_list' = memblk_pool_index
        /\ Room' /\ Searching' /\ FullSize' /\ Mem!Heap!Next
        /\ Holders' = Holders \cup {caller}
        /\ held' = [held EXCEPT ![caller] = [addr |-> FirstFree.addr, size |-> arg]]
        /\ UNCHANGED <<heap_s, nodes, procs, calls>>
        /\ memblk_pool'[memblk_pool_index].addr = FirstFree.addr
        /\ memblk_pool'[memblk_pool_index].size = arg
        /\ FirstFree'.addr = FirstFree.addr + arg
    BY <1>7, <2>1, BootGrant
  <2>3. Holders' = {Test, Scratch} /\ memblk_pool_index' = 3
    BY <1>7, <2>2
  <2>4. FirstFree' = memblk_pool'[3]
    BY <2>2, <2>3 DEF FirstFree
  <2>5. FirstFree.addr <= HeapStart + MaxSize
    <3>1. Cardinality({Test}) = 1 /\ MaxSize * 1 = MaxSize
      BY FS_Singleton, KernelAssumption
    <3>. QED  BY <1>7, <3>1 DEF Room
  <2>6. /\ held'[Test] = held[Test] /\ held'[Scratch] = [addr |-> FirstFree.addr, size |-> arg]
    BY <1>7, <2>2, AllocatorTypes
  <2>7. held[Test].addr + held[Test].size <= FirstFree.addr
    BY <1>7 DEF Room
  <2>8. TwoBlocks'
    <3>1. memblk_pool'[3].addr + memblk_pool'[3].size = HeapEnd /\ memblk_pool'[3].next = 0
      BY <2>2, <2>4 DEF Room, HeapEnd
    <3>. QED  BY <1>7, <2>2, <2>3, <2>4, <2>5, <2>6, <2>7, <3>1 DEF TwoBlocks, HeapEnd
  <2>9. BootAllocates'
    BY <1>7, <2>2, <2>3, <2>6, <2>8 DEF BootAllocates
  <2>. QED  BY <2>2, <2>9 DEF Phase
<1>8. CASE pc = "idle" /\ calls = <<Free(Scratch)>> /\ TwoBlocks /\ Holders = {Test, Scratch}
           /\ allc_memblk_list = 2 /\ held[Scratch].addr = memblk_pool[2].addr /\ MakeCall
  <2>1. Head(calls) = Free(Scratch) /\ Tail(calls) = <<>>
    BY <1>8
  <2>2. Mem!FreeMemallc(Scratch) /\ calls' = <<>> /\ UNCHANGED <<sched, size>>
    BY <1>8, <2>1 DEF MakeCall, Free
  <2>3. /\ held' = [held EXCEPT ![Scratch] = Mem!NoRegion]
        /\ pc' = "lookup" /\ arg' = memblk_pool[2].addr /\ walker' = 0 /\ current' = 2
        /\ UNCHANGED <<memblk_pool, memblk_pool_index, free_memblk_list, allc_memblk_list, heap_s>>
    BY <1>8, <2>2 DEF Mem!FreeMemallc, Mem!Enter, Mem!NULL, Mem!lists
  <2>4. held'[Scratch] = Mem!NoRegion /\ \A o \in Objects \ {Scratch} : held'[o] = held[o]
    BY <2>3, AllocatorTypes
  <2>5. Holders' = {Test}
    BY <1>8, <2>4 DEF Holders
  <2>6. FullSize'
    BY <1>8, <2>2, <2>4, <2>5 DEF FullSize
  <2>7. TwoBlocks' /\ free_memblk_list = 3
    BY <1>8, <2>3, <2>4 DEF TwoBlocks, HeapEnd
  <2>8. BootFrees'
    BY <1>8, <2>2, <2>3, <2>5, <2>7 DEF BootFrees, sched
  <2>9. Mem!Heap!Next
    BY <2>3 DEF Mem!Heap!Next, Mem!Heap!Release, Mem!NoRegion, Mem!NULL, Mem!Heap!NoRegion
  <2>. QED  BY <2>6, <2>8, <2>9 DEF Phase
<1>9. pc \in {"idle", "search"} /\ (pc = "idle" => calls # <<>>)
  <2>1. /\ <<Allocate(Test), Allocate(Scratch), Free(Scratch)>> # <<>>
        /\ <<Allocate(Scratch), Free(Scratch)>> # <<>> /\ <<Free(Scratch)>> # <<>>
    OBVIOUS
  <2>. QED  BY <2>1 DEF BootAllocates
<1>10. \/ MakeCall /\ pc = "idle"
       \/ RunCall /\ pc = "search"
       \/ UNCHANGED vars
  BY <1>9, WhoMoves DEF Idle
<1>. QED  BY <1>3, <1>4, <1>5, <1>6, <1>7, <1>8, <1>10 DEF BootAllocates

(* The free: the block is found at once, itself passed over, its successor *)
(* found next.  The merged block reaches to the end of the heap; that its  *)
(* link now leads back to itself is of no consequence.                     *)
LEMMA BootFreesStep ==
  ASSUME KInv, BootFrees, [Next]_vars
  PROVE  Phase' /\ FullSize' /\ [Mem!Heap!Next]_held
<1>1. /\ heap_s # 0 /\ nodes = {} /\ procs = {} /\ calls = <<>> /\ Holders = {Test} /\ TwoBlocks
      /\ FullSize /\ pc \in {"lookup", "defragment"}
  BY DEF KInv, BootFrees
<1>2. /\ memblk_pool \in [1 .. PoolSize -> [addr : Nat, size : Nat, next : 0 .. PoolSize]]
      /\ memblk_pool_index = 3 /\ 2 \in 1 .. PoolSize /\ 3 \in 1 .. PoolSize
      /\ memblk_pool[2] \in [addr : Nat, size : Nat, next : 0 .. PoolSize]
      /\ memblk_pool[3] \in [addr : Nat, size : Nat, next : 0 .. PoolSize]
      /\ memblk_pool[2].addr \in Nat /\ memblk_pool[3].addr \in Nat
      /\ memblk_pool[2].size \in Nat /\ memblk_pool[3].size \in Nat
      /\ memblk_pool[2].size > 0 /\ memblk_pool[3].size > 0
  <2>1. /\ memblk_pool \in [1 .. PoolSize -> [addr : Nat, size : Nat, next : 0 .. PoolSize]]
        /\ memblk_pool_index \in 0 .. PoolSize /\ PoolSize \in Nat
        /\ \A b \in 1 .. memblk_pool_index : 0 < memblk_pool[b].size
    BY AllocatorTypes DEF KInv
  <2>2. memblk_pool_index = 3
    BY <1>1 DEF TwoBlocks
  <2>3. 2 \in 1 .. PoolSize /\ 3 \in 1 .. PoolSize
    BY <2>1, <2>2
  <2>. QED  BY <2>1, <2>2, <2>3
<1>3. /\ memblk_pool[2].addr <= HeapStart + MaxSize
      /\ held[Test].addr + held[Test].size <= memblk_pool[2].addr
      /\ memblk_pool[2].addr + memblk_pool[2].size = memblk_pool[3].addr
      /\ memblk_pool[3].addr + memblk_pool[3].size = HeapEnd
      /\ memblk_pool[3].next = 0
  BY <1>1 DEF TwoBlocks
<1>4. CASE UNCHANGED vars
  <2>1. BootFrees' /\ FullSize'
    BY <1>4, NothingMoves DEF BootFrees, vars, mem, sched, KInv
  <2>. QED  BY <1>4, <2>1 DEF Phase, vars, mem
<1>5. CASE RunCall
  <2>1. ~ Mem!AllocSteps /\ UNCHANGED <<sched, size, calls>>
    BY <1>1, <1>5 DEF RunCall, Mem!AllocSteps, Mem!Search, Mem!NoneFits, Mem!TakeBlock
  <2>2. Mem!FreeSteps
    BY <1>5, <2>1 DEF RunCall
  <2>3. CASE /\ pc = "lookup" /\ arg = memblk_pool[2].addr
             /\ walker = 0 /\ current = 2
             /\ allc_memblk_list = 2 /\ free_memblk_list = 3
    <3>1. Mem!Unlink
      BY <2>2, <2>3 DEF Mem!FreeSteps, Mem!Lookup, Mem!NotFound, Mem!Unlink, Mem!Defragment,
         Mem!MergeIntoPredecessor, Mem!MergeSuccessor, Mem!NoNeighbour, Mem!NULL
    <3>2. /\ memblk_pool' = [memblk_pool EXCEPT ![2].next = 3]
          /\ free_memblk_list' = 2 /\ pc' = "defragment" /\ walker' = 0 /\ current' = 2
          /\ UNCHANGED <<memblk_pool_index, heap_s, held>>
      BY <2>3, <3>1 DEF Mem!Unlink, Mem!Enter, Mem!SetNext, Mem!NULL
    <3>3. /\ memblk_pool'[2].addr = memblk_pool[2].addr /\ memblk_pool'[2].size = memblk_pool[2].size
          /\ memblk_pool'[2].next = 3 /\ memblk_pool'[3] = memblk_pool[3]
      BY <1>2, <3>2
    <3>4. Holders' = Holders
      BY <3>2 DEF Holders
    <3>5. TwoBlocks'
      BY <1>2, <1>3, <3>2, <3>3 DEF TwoBlocks, HeapEnd
    <3>6. BootFrees' /\ FullSize'
      BY <1>1, <2>1, <3>2, <3>3, <3>4, <3>5 DEF BootFrees, FullSize, sched
    <3>. QED  BY <3>2, <3>6 DEF Phase
  <2>4. CASE /\ pc = "defragment" /\ free_memblk_list = 2 /\ memblk_pool[2].next = 3
             /\ walker = 0 /\ current = 2
    <3>1. ~ Mem!Precedes(current, Mem!block) /\ ~ Mem!Precedes(Mem!block, current)
      BY <1>2, <2>4 DEF Mem!Precedes, Mem!block
    <3>2. Mem!Defragment
      BY <2>2, <2>4, <3>1 DEF Mem!FreeSteps, Mem!Lookup, Mem!NotFound, Mem!Unlink,
         Mem!MergeIntoPredecessor, Mem!MergeSuccessor, Mem!NoNeighbour, Mem!NULL
    <3>3. /\ walker' = 2 /\ current' = 3
          /\ UNCHANGED <<pc, memblk_pool, memblk_pool_index, free_memblk_list, heap_s, held>>
      BY <2>4, <3>2 DEF Mem!Defragment, Mem!Advance, Mem!lists
    <3>4. Holders' = Holders /\ TwoBlocks'
      BY <1>1, <3>3 DEF Holders, TwoBlocks, HeapEnd
    <3>5. BootFrees' /\ FullSize'
      BY <1>1, <2>1, <2>4, <3>3, <3>4 DEF BootFrees, FullSize, sched
    <3>. QED  BY <3>3, <3>5 DEF Phase
  <2>5. CASE /\ pc = "defragment" /\ free_memblk_list = 2 /\ memblk_pool[2].next = 3
             /\ walker = 2 /\ current = 3
    <3>1. ~ Mem!Precedes(current, Mem!block) /\ Mem!Precedes(Mem!block, current)
      BY <1>2, <1>3, <2>5 DEF Mem!Precedes, Mem!block
    <3>2. Mem!MergeSuccessor
      BY <2>2, <2>5, <3>1 DEF Mem!FreeSteps, Mem!Lookup, Mem!NotFound, Mem!Unlink,
         Mem!MergeIntoPredecessor, Mem!Defragment, Mem!NoNeighbour, Mem!NULL
    <3>. DEFINE merged == [memblk_pool EXCEPT
                  ![2] = [addr |-> memblk_pool[2].addr,
                          size |-> memblk_pool[2].size + memblk_pool[3].size,
                          next |-> memblk_pool[3].next]]
    <3>3. merged = Mem!Absorb(2, 3)
      BY <1>2 DEF Mem!Absorb
    <3>4. /\ merged[2].addr = memblk_pool[2].addr
          /\ merged[2].size = memblk_pool[2].size + memblk_pool[3].size
          /\ DOMAIN merged = 1 .. PoolSize
      BY <1>2
    <3>. HIDE DEF merged
    <3>5. /\ memblk_pool' = [merged EXCEPT ![2].next = 2]
          /\ pc' = "idle"
          /\ UNCHANGED <<memblk_pool_index, free_memblk_list, heap_s, held>>
      BY <2>5, <3>2, <3>3 DEF Mem!MergeSuccessor, Mem!Return, Mem!SetNext, Mem!NULL, Mem!block
    <3>6. FirstFree'.addr = merged[2].addr /\ FirstFree'.size = merged[2].size
      BY <1>2, <2>5, <3>4, <3>5 DEF FirstFree
    <3>7. Holders' = {Test} /\ FullSize'
      BY <1>1, <2>1, <3>5 DEF Holders, FullSize
    <3>8. Cardinality({Test}) = 1 /\ MaxSize * 1 = MaxSize
      <4>1. Cardinality({Test}) = 1
        BY FS_Singleton, Zenon
      <4>2. MaxSize * 1 = MaxSize
        BY KernelAssumption
      <4>. QED  BY <4>1, <4>2
    <3>9. Room'
      <4>1. free_memblk_list' \in 1 .. memblk_pool_index'
        BY <1>2, <2>5, <3>5
      <4>2. FirstFree'.addr + FirstFree'.size = HeapEnd
        BY <1>2, <1>3, <3>4, <3>6
      <4>3. FirstFree'.addr <= HeapStart + MaxSize * Cardinality(Holders')
        BY <1>3, <3>4, <3>6, <3>7, <3>8
      <4>4. \A o \in Holders' : held'[o].addr + held'[o].size <= FirstFree'.addr
        BY <1>3, <3>4, <3>5, <3>6, <3>7
      <4>. QED  BY <4>1, <4>2, <4>3, <4>4 DEF Room, HeapEnd
    <3>10. Searching' /\ memblk_pool_index' <= Cardinality(Holders') + 2
      BY <1>2, <3>5, <3>7, <3>8 DEF Searching
    <3>11. Awaits({})' /\ {} \in SUBSET InUse' /\ Holders' = InUse' \ {}
      BY <1>1, <2>1, <3>5, <3>7 DEF Awaits, InUse, sched
    <3>12. Running'
      BY <1>1, <3>5, <3>9, <3>10, <3>11 DEF Running
    <3>. QED  BY <3>5, <3>7, <3>12 DEF Phase
  <2>. QED  BY <2>3, <2>4, <2>5 DEF BootFrees
<1>6. ~ Idle
  BY <1>1 DEF Idle
<1>. QED  BY <1>1, <1>4, <1>5, <1>6, WhoMoves

LEMMA InUseObjects ==
  ASSUME SchedProofs!SInv
  PROVE  InUse \subseteq Objects /\ Scratch \notin InUse
BY SchedulerTypes, KindsOfObjects, ObjectsDiffer DEF InUse

LEMMA RunningGrant ==
  ASSUME KInv, Running, RunCall, pc = "search"
  PROVE  Running' /\ FullSize' /\ Mem!Heap!Next
<1>1. /\ Room /\ Searching /\ MemProofs!IInv /\ size \in [Kinds -> 1 .. MaxSize] /\ FullSize
      /\ heap_s # 0 /\ memblk_pool_index <= Cardinality(Holders) + 2
  BY DEF KInv, Running
<1>2. PICK W \in SUBSET InUse : Awaits(W) /\ Holders = InUse \ W
  BY DEF Running
<1>3. caller \in W /\ caller \in Objects \ Holders
  BY <1>1, <1>2 DEF Awaits, Searching
<1>4. Holders \in SUBSET Objects /\ Scratch \in Objects \ Holders /\ caller # Scratch
  BY <1>2, <1>3, InUseObjects, KindsOfObjects DEF KInv, Holders
<1>5. /\ Cardinality(Holders) + 2 <= MaxObjects /\ Cardinality(Holders) \in Nat
      /\ Cardinality(Holders \cup {caller}) = Cardinality(Holders) + 1
  BY <1>3, <1>4, RoomForOne, RoomForTwo, Zenon
<1>6. memblk_pool_index < PoolSize /\ memblk_pool_index \in Nat
  BY <1>1, <1>5, AllocatorTypes, ObjectsBound, HeapSuffices
<1>7. Room' /\ FullSize' /\ Searching' /\ Holders' = Holders \cup {caller} /\ Mem!Heap!Next
  BY <1>1, <1>6, GrantKeepsRoom
<1>8. /\ pc' = "idle" /\ memblk_pool_index' = memblk_pool_index + 1
      /\ UNCHANGED <<heap_s, sched, calls>>
  BY <1>1, <1>6, Grant
<1>9. InUse' = InUse
  BY <1>8 DEF InUse, sched
<1>10. PICK V : V = W \ {caller}
  OBVIOUS
<1>11. Awaits(V)'
  <2>1. \/ calls = <<>> /\ W = {caller}
        \/ \E o \in Objects : calls = <<Allocate(o)>> /\ W = {caller, o} /\ o # caller
    BY <1>2 DEF Awaits
  <2>2. CASE calls = <<>> /\ W = {caller}
    <3>1. V = {}
      BY <1>10, <2>2
    <3>. QED  BY <1>8, <2>2, <3>1 DEF Awaits
  <2>3. CASE \E o \in Objects : calls = <<Allocate(o)>> /\ W = {caller, o} /\ o # caller
    <3>1. \E o \in Objects : calls = <<Allocate(o)>> /\ V = {o}
      BY <1>10, <2>3
    <3>. QED  BY <1>8, <3>1 DEF Awaits
  <2>. QED  BY <2>1, <2>2, <2>3
<1>12. Holders' = InUse' \ V /\ V \in SUBSET InUse'
  BY <1>2, <1>3, <1>7, <1>9, <1>10
<1>13. memblk_pool_index' <= Cardinality(Holders') + 2
  BY <1>1, <1>5, <1>6, <1>7, <1>8
<1>. QED  BY <1>1, <1>7, <1>8, <1>11, <1>12, <1>13 DEF Running

LEMMA RunningCall ==
  ASSUME KInv, Running, MakeCall, pc = "idle", calls # <<>>
  PROVE  Running' /\ FullSize' /\ UNCHANGED held
<1>1. /\ Room /\ Searching /\ MemProofs!IInv /\ size \in [Kinds -> 1 .. MaxSize] /\ FullSize
      /\ range = HeapRange /\ heap_s # 0 /\ memblk_pool_index <= Cardinality(Holders) + 2
  BY DEF KInv, Running
<1>2. PICK W \in SUBSET InUse : Awaits(W) /\ Holders = InUse \ W
  BY DEF Running
<1>3. ASSUME NEW o \in Objects, Head(calls) = Allocate(o), MakeCall
      PROVE  /\ pc' = "search" /\ caller' = o /\ calls' = Tail(calls)
             /\ Room' /\ Searching' /\ FullSize'
             /\ Holders' = Holders /\ InUse' = InUse
             /\ UNCHANGED <<heap_s, memblk_pool_index, held>>
  <2>1. /\ pc' = "search" /\ caller' = o /\ calls' = Tail(calls)
        /\ Room' /\ Searching' /\ FullSize' /\ Holders' = Holders
        /\ UNCHANGED <<sched, heap_s, memblk_pool_index, held>>
    BY <1>1, <1>3, MakesMemallc
  <2>. QED  BY <2>1 DEF InUse, sched
<1>4. \/ \E o \in Objects : calls = <<Allocate(o)>> /\ W = {o}
      \/ \E o, p \in Objects :
           calls = <<Allocate(o), Allocate(p)>> /\ o # p /\ W = {o, p}
  BY <1>2 DEF Awaits
<1>5. CASE \E o \in Objects : calls = <<Allocate(o)>> /\ W = {o}
  <2>1. PICK o \in Objects : calls = <<Allocate(o)>> /\ W = {o}
    BY <1>5
  <2>2. Head(calls) = Allocate(o) /\ Tail(calls) = <<>>
    BY <2>1, ShortSequences
  <2>3. /\ pc' = "search" /\ caller' = o /\ calls' = Tail(calls)
        /\ Room' /\ Searching' /\ FullSize'
        /\ Holders' = Holders /\ InUse' = InUse
        /\ UNCHANGED <<heap_s, memblk_pool_index, held>>
    BY <2>2, <1>3, Zenon
  <2>4. Awaits(W)'
    BY <2>1, <2>2, <2>3 DEF Awaits
  <2>. QED  BY <1>1, <1>2, <2>3, <2>4 DEF Running
<1>6. CASE \E o, p \in Objects :
             calls = <<Allocate(o), Allocate(p)>> /\ o # p /\ W = {o, p}
  <2>1. PICK o \in Objects, p \in Objects :
           calls = <<Allocate(o), Allocate(p)>> /\ o # p /\ W = {o, p}
    BY <1>6
  <2>2. Head(calls) = Allocate(o) /\ Tail(calls) = <<Allocate(p)>>
    BY <2>1, ShortSequences
  <2>3. /\ pc' = "search" /\ caller' = o /\ calls' = Tail(calls)
        /\ Room' /\ Searching' /\ FullSize'
        /\ Holders' = Holders /\ InUse' = InUse
        /\ UNCHANGED <<heap_s, memblk_pool_index, held>>
    BY <2>2, <1>3, Zenon
  <2>4. Awaits(W)'
    BY <2>1, <2>2, <2>3 DEF Awaits
  <2>. QED  BY <1>1, <1>2, <2>3, <2>4 DEF Running
<1>. QED  BY <1>4, <1>5, <1>6

(* A step of the scheduler asks for memory for the objects it brings into  *)
(* use, and for no other.                                                  *)
LEMMA Brings ==
  ASSUME KInv, Idle, [Next]_vars, StartScheduler \/ NewProcess \/ Switch
  PROVE  \E W \in SUBSET InUse' : Awaits(W)' /\ InUse' \ W = InUse
<1>1. UNCHANGED mem /\ pc = "idle" /\ calls = <<>> /\ pc' = "idle"
  BY DEF StartScheduler, NewProcess, Switch, Does, Idle, mem
<1>2. nodes \subseteq Nodes /\ procs \subseteq Procs
  BY SchedulerTypes DEF KInv
<1>3. CASE StartScheduler
  <2>1. PICK ready \in Nodes \ nodes, sleep \in Nodes \ nodes :
          /\ ready # sleep /\ nodes' = nodes \cup {ready, sleep}
          /\ readyQueue' = ready /\ sleepQueue' = sleep
    BY <1>3 DEF StartScheduler, Does, Sched!SchedulerInit
  <2>2. calls' = <<Allocate(Node(ready)), Allocate(Node(sleep))>> /\ procs' = procs
    BY <1>3, <2>1 DEF StartScheduler, Does, HeadCalls, Sched!SchedulerInit
  <2>. DEFINE W == {Node(ready), Node(sleep)}
  <2>3. Awaits(W)'
    BY <1>1, <2>1, <2>2, KindsOfObjects, ObjectsDiffer DEF Awaits
  <2>4. InUse' = InUse \cup W /\ W \cap InUse = {}
    BY <2>1, <2>2, ObjectsDiffer DEF InUse
  <2>. HIDE DEF W
  <2>. QED  BY <2>3, <2>4
<1>4. CASE NewProcess
  <2>1. PICK p \in Procs, n \in Nodes \ nodes, s \in NewStates :
          /\ Sched!ScheduleProcess(p, s) /\ n \in nodes'
          /\ calls' = <<Allocate(Proc(p)), Allocate(Node(n))>>
    BY <1>4 DEF NewProcess, Does
  <2>2. p \notin procs /\ procs' = procs \cup {p} /\ nodes' = nodes \cup {n}
    BY <2>1 DEF Sched!ScheduleProcess
  <2>. DEFINE W == {Proc(p), Node(n)}
  <2>3. Awaits(W)'
    BY <1>1, <2>1, KindsOfObjects, ObjectsDiffer DEF Awaits
  <2>4. InUse' = InUse \cup W /\ W \cap InUse = {}
    BY <2>1, <2>2, ObjectsDiffer DEF InUse
  <2>. HIDE DEF W
  <2>. QED  BY <2>3, <2>4
<1>5. CASE Switch
  <2>1. Sched!ProcSwitch => UNCHANGED <<nodes, procs>>
    BY ProcSwitchFreesNone DEF KInv
  <2>2. calls' = <<>> /\ UNCHANGED <<nodes, procs>>
    BY <1>5, <2>1 DEF Switch, Does, Sched!ProcSwitchNull, Sched!AwakenProcess, Sched!memory
  <2>3. Awaits({})' /\ InUse' = InUse
    BY <1>1, <2>2 DEF Awaits, InUse
  <2>. QED  BY <2>3
<1>. QED  BY <1>3, <1>4, <1>5

LEMMA RunningStep ==
  ASSUME KInv, Running, [Next]_vars
  PROVE  Phase' /\ FullSize' /\ [Mem!Heap!Next]_held
<1>1. /\ Room /\ Searching /\ FullSize
      /\ heap_s # 0 /\ memblk_pool_index <= Cardinality(Holders) + 2
  BY DEF KInv, Running
<1>2. PICK W \in SUBSET InUse : Awaits(W) /\ Holders = InUse \ W
  BY DEF Running
<1>3. CASE UNCHANGED vars
  <2>1. Awaits(W)' /\ InUse' = InUse
    BY <1>2, <1>3 DEF Awaits, InUse, vars, mem, sched
  <2>2. Running' /\ FullSize' /\ UNCHANGED held
    BY <1>1, <1>2, <1>3, <2>1, NothingMoves DEF Running, vars, mem
  <2>. QED  BY <2>2 DEF Phase
<1>4. CASE MakeCall /\ pc = "idle" /\ calls # <<>>
  BY <1>4, RunningCall DEF Phase
<1>5. CASE RunCall /\ pc # "idle"
  <2>1. pc = "search"
    BY <1>2, <1>5 DEF Awaits
  <2>. QED  BY <1>5, <2>1, RunningGrant DEF Phase
<1>6. CASE (StartScheduler \/ NewProcess \/ Switch) /\ Idle
  <2>1. PICK V \in SUBSET InUse' : Awaits(V)' /\ InUse' \ V = InUse
    BY <1>6, Brings
  <2>2. UNCHANGED <<mem, size>>
    BY <1>6 DEF StartScheduler, NewProcess, Switch, Does
  <2>3. Holders = InUse
    BY <1>2, <1>6 DEF Awaits, Idle
  <2>4. Running' /\ FullSize' /\ UNCHANGED held
    BY <1>1, <2>1, <2>2, <2>3, NothingMoves DEF Running, mem
  <2>. QED  BY <2>4 DEF Phase
<1>. QED  BY <1>1, <1>3, <1>4, <1>5, <1>6, WhoMoves

-----------------------------------------------------------------------------
(* The theorems.                                                           *)

LEMMA CallsForObjects == KInv => (calls # <<>> => Head(calls).object \in Objects)
<1>. SUFFICES ASSUME KInv, calls # <<>> PROVE \E o \in Objects : Head(calls).object = o
  OBVIOUS
<1>1. ASSUME NEW o \in Objects, Head(calls) \in {Allocate(o), Free(o)}
      PROVE  Head(calls).object = o
  BY <1>1 DEF Allocate, Free
<1>2. \E o \in Objects : Head(calls) \in {Allocate(o), Free(o)}
  <2>1. CASE BootAllocates
    BY <2>1, KindsOfObjects, ShortSequences DEF BootAllocates
  <2>2. CASE Running
    <3>1. PICK W : Awaits(W)
      BY <2>2 DEF Running
    <3>. QED  BY <3>1, ShortSequences DEF Awaits
  <2>. QED  BY <2>1, <2>2 DEF KInv, Phase, Untouched, BootFrees
<1>. QED  BY <1>1, <1>2

LEMMA KInvStep == KInv /\ [Next]_vars => KInv' /\ [Mem!Heap!Next]_held
<1>. SUFFICES ASSUME KInv, [Next]_vars PROVE KInv' /\ [Mem!Heap!Next]_held
  OBVIOUS
<1>1. MemProofs!IInv'
  BY AllocatorStep, CallsForObjects DEF KInv
<1>2. SchedProofs!SInv' /\ NoneExits'
  BY SchedulerStep, NoneExitsStep DEF KInv
<1>3. size' \in [Kinds -> 1 .. MaxSize] /\ range' = HeapRange
  BY SizeAndRange DEF KInv
<1>4. Phase' /\ FullSize' /\ [Mem!Heap!Next]_held
  BY UntouchedStep, BootAllocatesStep, BootFreesStep, RunningStep DEF KInv, Phase
<1>. QED  BY <1>1, <1>2, <1>3, <1>4 DEF KInv

LEMMA KInvAlways == Spec => []KInv
<1>. QED  BY InitKInv, KInvStep, PTL DEF Spec

(* Between calls every node and process in use has memory of its full      *)
(* size, and nothing else but kernel_init's first block has any: the       *)
(* scheduler (scheduler.c:18-75) gets what it asks for, at any number of   *)
(* nodes and processes, from the list that kernel_init has damaged.        *)
THEOREM ObjectsHaveMemory == Spec => []MemoryBacksObjects
<1>1. KInv => MemoryBacksObjects
  <2>. SUFFICES ASSUME KInv, Idle, NEW o \in Objects
                PROVE  IF o \in InUse THEN held[o].size = size[o[1]]
                                      ELSE held[o] = Mem!NoRegion
    BY DEF MemoryBacksObjects
  <2>1. Running
    BY ShortSequences DEF KInv, Phase, Untouched, BootAllocates, BootFrees, Idle
  <2>2. Holders = InUse
    BY <2>1 DEF Running, Awaits, Idle
  <2>. QED  BY <2>2 DEF KInv, FullSize, Holders
<1>. QED  BY <1>1, KInvAlways, PTL

(* However many objects the kernel has asked for, between calls the head   *)
(* of the free list is the block that reaches to the heap's end, so that   *)
(* no search goes on to the blocks behind it (memallc.c:169-181, 217-231). *)
THEOREM FirstBlockServes == Spec => []ServedFromTheEnd
<1>1. KInv => ServedFromTheEnd
  <2>. SUFFICES ASSUME KInv, heap_s # 0, pc = "idle" PROVE Room
    BY DEF ServedFromTheEnd, Room, FirstFree, HeapEnd
  <2>. QED  BY DEF KInv, Phase, Untouched, BootAllocates, BootFrees, Running
<1>. QED  BY <1>1, KInvAlways, PTL

(* No two objects of the kernel ever share a byte: on this client memallc  *)
(* and free_memallc implement the abstract heap, although the free list    *)
(* has no end.                                                             *)
THEOREM KernelHeapIsSound == Spec => KernelImplementsHeap
<1>1. Init => Mem!Heap!Init
  BY DEF Init, Mem!Init, Mem!Heap!Init, Mem!NoRegion, Mem!NULL, Mem!Heap!NoRegion
<1>2. Spec => Mem!Heap!Init /\ [][Mem!Heap!Next]_held
  BY <1>1, KInvStep, KInvAlways, PTL DEF Spec
<1>. QED  BY <1>2 DEF KernelImplementsHeap, Mem!ImplementsHeap, Mem!Heap!Spec
=============================================================================
