------------------------------- MODULE Kernel -------------------------------
(***************************************************************************)
(* The scheduler on the allocator: kernel_init of init/main.c, and after   *)
(* it the scheduler's functions in any order.  Scheduler.tla takes memory  *)
(* nobody holds, as HeapSpec.tla promises; here each piece of memory it    *)
(* takes or gives back is a call of memallc or free_memallc, run to its    *)
(* end through the lists of Memallc.tla before the kernel goes on.         *)
(*                                                                         *)
(* kernel_init itself frees a block once, which leaves the free list       *)
(* without an end (see Memallc.tla).  The question is what that does to    *)
(* the kernel that goes on with this list.                                 *)
(***************************************************************************)
EXTENDS Naturals, Sequences, FiniteSets

CONSTANTS Nodes, Procs,          (* numbered: the lowest free one is taken *)
          Null, NewStates,
          HeapStart, HeapRange, PoolSize,
          MaxSize                (* bound on the size of an object         *)

VARIABLES
  (* of the scheduler                                                      *)
  next, prev, process, proc_state, readyQueue, sleepQueue, currentProc,
  nodes, procs, status,
  (* of the allocator                                                      *)
  memblk_pool, memblk_pool_index, heap_s, range, free_memblk_list,
  allc_memblk_list, pc, caller, arg, walker, current, held,
  (* of the kernel                                                         *)
  size,                          (* of a test block, a node and a process  *)
  calls                          (* of the allocator, still to be made     *)

Kinds == {"test", "node", "proc"}
Node(n) == <<"node", n>>
Proc(p) == <<"proc", p>>
Test == <<"test", 1>>            (* kernel_init's two blocks               *)
Scratch == <<"test", 2>>
Objects == {Node(n) : n \in Nodes} \cup {Proc(p) : p \in Procs}
             \cup {Test, Scratch}

Sched == INSTANCE Scheduler WITH NULL <- Null
Mem == INSTANCE Memallc
  WITH prev <- walker, Owners <- Objects, Nobody <- <<"nobody", 0>>,
       Sizes <- 1 .. MaxSize, Ranges <- {}, DefaultRange <- HeapRange

sched == <<next, prev, process, proc_state, readyQueue, sleepQueue,
           currentProc, nodes, procs, status>>
mem == <<memblk_pool, memblk_pool_index, heap_s, range, free_memblk_list,
         allc_memblk_list, pc, caller, arg, walker, current, held>>
vars == <<sched, mem, size, calls>>

ASSUME KernelAssumption ==
  /\ IsFiniteSet(Nodes) /\ IsFiniteSet(Procs)
  /\ Null \notin Nodes \cup Procs
  /\ NewStates \subseteq {"READY", "SLEEPING"}
  /\ HeapStart \in Nat \ {0} /\ HeapRange \in Nat \ {0}
  /\ PoolSize \in Nat \ {0} /\ MaxSize \in Nat

(* No object is left without memory because the heap is used up: it is 512 *)
(* MB, and all objects together are a few kilobytes.  Nor because the      *)
(* descriptors are: there are 1024, one for each object and the tail.      *)
MaxObjects == 2 + Cardinality(Nodes) + Cardinality(Procs)
ASSUME HeapSuffices == HeapRange > MaxSize * MaxObjects /\ PoolSize > MaxObjects

Allocate(o) == [call |-> "memallc", object |-> o]
Free(o) == [call |-> "free_memallc", object |-> o]

Init ==
  /\ Sched!Init /\ Mem!Init
  /\ size \in [Kinds -> 1 .. MaxSize]
  /\ calls = <<>>

Idle == heap_s # 0 /\ calls = <<>> /\ pc = "idle"

-----------------------------------------------------------------------------
(* Deviation: the block that is freed is the first one.                    *)
BootFreesTest == <<Allocate(Test), Allocate(Scratch), Free(Test)>>

(* What kernel_init allocates before it starts the scheduler:              *)
(* memallc(0x1000), then free_memallc(memallc(0x1000)).                    *)
BootCalls == <<Allocate(Test), Allocate(Scratch), Free(Scratch)>>

Boot ==
  /\ Mem!InitMemallc
  /\ calls' = BootCalls
  /\ UNCHANGED <<sched, size>>

(* The next call of the allocator, and its loop.                           *)
MakeCall ==
  /\ calls # <<>>
  /\ LET o == Head(calls).object
     IN  IF Head(calls).call = "memallc" THEN Mem!Memallc(o, size[o[1]])
                                         ELSE Mem!FreeMemallc(o)
  /\ calls' = Tail(calls)
  /\ UNCHANGED <<sched, size>>

RunCall ==
  /\ Mem!AllocSteps \/ Mem!FreeSteps
  /\ UNCHANGED <<sched, size, calls>>

(* A step of the scheduler, and the calls it makes.  Which number memory   *)
(* has is immaterial.                                                      *)
Lowest(old, new, all) == \A m \in new \ old, n \in all \ new : m < n
Does(step, itsCalls) ==
  /\ Idle /\ step
  /\ Lowest(nodes, nodes', Nodes) /\ Lowest(procs, procs', Procs)
  /\ calls' = itsCalls
  /\ UNCHANGED <<mem, size>>

(* Deviation: both queues get the same head.                               *)
OneHead(ready, sleep) == <<Allocate(Node(ready))>>

HeadCalls(ready, sleep) == <<Allocate(Node(ready)), Allocate(Node(sleep))>>

StartScheduler == Does(Sched!SchedulerInit, HeadCalls(readyQueue', sleepQueue'))

(* kernel_init allocates the process, scheduleProcess the node.            *)
NewProcess ==
  \E p \in Procs, n \in Nodes \ nodes, s \in NewStates :
    Does(Sched!ScheduleProcess(p, s) /\ n \in nodes',
         <<Allocate(Proc(p)), Allocate(Node(n))>>)

Switch == Does(\/ Sched!ProcSwitch \/ Sched!ProcSwitchNull
               \/ Sched!AwakenProcess, <<>>)

Trapped == Sched!Trapped /\ UNCHANGED vars

(* killScheduler.  Every loop iteration frees a process, then its node.    *)
EndCalls(n) == <<Free(Proc(process[n])), Free(Node(n))>>

Kill == Does(Sched!KillScheduler, <<>>)

KillFirst ==
  \E head \in {readyQueue, sleepQueue} :
    /\ status = IF head = readyQueue THEN "killReady" ELSE "killSleep"
    /\ Does(Sched!FreeFirst(head), EndCalls(next[head]))

KillNext ==
  \/ status = "killReady" /\ Does(Sched!LoopDone(readyQueue, "killSleep"), <<>>)
  \/ status = "killSleep" /\ Does(Sched!LoopDone(sleepQueue, "killHeads"), <<>>)
  \/ Does(Sched!KillHeads,
          <<Free(Node(readyQueue)), Free(Node(sleepQueue))>>
            \o IF currentProc = Null THEN <<>> ELSE EndCalls(currentProc))

-----------------------------------------------------------------------------
AllocatorRuns == MakeCall \/ RunCall

Next == \/ Boot \/ AllocatorRuns
        \/ StartScheduler \/ NewProcess \/ Switch \/ Trapped

KillNow == Kill \/ KillFirst \/ KillNext

(* The kernel as it is, which never kills its scheduler, and one that does. *)
Spec == Init /\ [][Next]_vars /\ WF_vars(AllocatorRuns)
KillSpec == Init /\ [][Next \/ KillNow]_vars
                 /\ WF_vars(AllocatorRuns) /\ WF_vars(KillFirst \/ KillNext)

-----------------------------------------------------------------------------
(* Properties.                                                             *)

(* Between calls the regions the allocator has granted are those of the    *)
(* scheduler's nodes and processes and of kernel_init's test block, each   *)
(* of its full size: memory the scheduler uses is memory it was granted,   *)
(* and none is leaked (scheduler.c:18-75 on memallc.c).                    *)
InUse == {Node(n) : n \in nodes} \cup {Proc(p) : p \in procs} \cup {Test}
MemoryBacksObjects ==
  Idle => \A o \in Objects :
            IF o \in InUse THEN held[o].size = size[o[1]]
                           ELSE held[o] = Mem!NoRegion

(* However the free list was damaged, its first block is the one that      *)
(* reaches to the end of the heap.  Every request is served from it, and   *)
(* the blocks behind it, which are allocated, are never looked at.         *)
ServedFromTheEnd ==
  heap_s # 0 /\ pc = "idle" =>
    LET first == memblk_pool[free_memblk_list]
    IN  first.addr + first.size = HeapStart + HeapRange

(* So the kernel's objects never share a byte: what Memallc.tla refutes    *)
(* for callers that free in any order holds for this one.                  *)
KernelImplementsHeap == Mem!ImplementsHeap

(* Every call of the allocator returns, and the kernel goes on.            *)
KernelGoesOn == calls # <<>> ~> Idle

(* scheduler.h:72: killScheduler "frees all allocated memory for the       *)
(* scheduler".                                                             *)
KillReturns == status = "killReady" ~> status \in {"off", "fault"} /\ Idle
=============================================================================
