----------------------------- MODULE Scheduler ------------------------------
(***************************************************************************)
(* The process scheduler of driver/scheduler/scheduler.c: schedule nodes   *)
(* linked into two rings, the ready and the sleep queue, each through a    *)
(* head node of its own, and the node of the current process, in neither.  *)
(*                                                                         *)
(* One action per function the kernel calls.  The functions are not        *)
(* interrupted by anything that reads their data, so each is one step;     *)
(* killScheduler, whose loops might not end, is one step per iteration.    *)
(* The heap is the one HeapSpec.tla promises: memallc returns memory that  *)
(* nobody holds.                                                           *)
(***************************************************************************)
EXTENDS Naturals, FiniteSets, Sequences

CONSTANTS Nodes,     (* memory for schedule nodes                          *)
          Procs,     (* memory for processes                               *)
          NULL,
          NewStates  (* the states processes are created in                *)

ASSUME SchedulerAssumption ==
  /\ NULL \notin Nodes \cup Procs
  /\ IsFiniteSet(Nodes)
  /\ NewStates \subseteq {"READY", "SLEEPING"}

VARIABLES next, prev,    (* the links of every node                        *)
          process,       (* the process of every node                      *)
          proc_state,    (* the state of every process                     *)
          readyQueue, sleepQueue, currentProc,
          nodes, procs,  (* the memory that is allocated                   *)
          status         (* where the scheduler is in its life             *)

ring == [next |-> next, prev |-> prev]
pointers == <<readyQueue, sleepQueue, currentProc>>
memory == <<nodes, procs>>
vars == <<next, prev, process, proc_state, pointers, memory, status>>

States == {"READY", "RUNNING", "SLEEPING", "ZOMBIE"}

(* "fault": a null pointer was followed.  The exception handler of         *)
(* traps.c returns to the same instruction, for ever.                      *)
Alive == {"up", "killReady", "killSleep", "killHeads"}
Statuses == Alive \cup {"off", "fault"}

(* What freshly allocated memory contains is never read: its links are set *)
(* before it is used.                                                      *)
Init ==
  /\ next = [n \in Nodes |-> n] /\ prev = [n \in Nodes |-> n]
  /\ process = [n \in Nodes |-> NULL]
  /\ proc_state = [p \in Procs |-> "READY"]
  /\ readyQueue = NULL /\ sleepQueue = NULL /\ currentProc = NULL
  /\ nodes = {} /\ procs = {}
  /\ status = "off"

-----------------------------------------------------------------------------
(* The ring operations, on a record of the two links.                      *)

(* Deviations: the head's prev is left behind; the node goes to the front. *)
QueueKeepsPrev(r, head, new) ==
  LET last == r.prev[head]
  IN  [next |-> [r.next EXCEPT ![new] = head, ![last] = new],
       prev |-> [r.prev EXCEPT ![new] = last]]
QueueAtFront(r, head, new) ==
  LET first == r.next[head]
  IN  [next |-> [r.next EXCEPT ![new] = first, ![head] = new],
       prev |-> [r.prev EXCEPT ![new] = head, ![first] = new]]

queueProc(r, head, new) ==
  LET last == r.prev[head]
  IN  [next |-> [r.next EXCEPT ![new] = head, ![last] = new],
       prev |-> [r.prev EXCEPT ![new] = last, ![head] = new]]

(* Deviation: the links of the node that leaves are cleared.               *)
DequeueClears(r, n) ==
  [next |-> [r.next EXCEPT ![r.prev[n]] = r.next[n], ![n] = NULL],
   prev |-> [r.prev EXCEPT ![r.next[n]] = r.prev[n], ![n] = NULL]]

dequeueProc(r, n) ==
  [next |-> [r.next EXCEPT ![r.prev[n]] = r.next[n], ![n] = n],
   prev |-> [r.prev EXCEPT ![r.next[n]] = r.prev[n], ![n] = n]]

selfLink(r, n) == [next |-> [r.next EXCEPT ![n] = n],
                   prev |-> [r.prev EXCEPT ![n] = n]]

SetRing(r) == next' = r.next /\ prev' = r.prev

(* Deviation: who blocks while running is queued nowhere.                  *)
RescheduleForgetsSleepers(r, n, s) ==
  IF s = "READY" THEN queueProc(r, readyQueue, n) ELSE r

(* Where rescheduleProcess puts a node whose process is in state s.  A     *)
(* ZOMBIE is queued nowhere: endProcess frees it.                          *)
rescheduleProcess(r, n, s) ==
  CASE s = "READY"    -> queueProc(r, readyQueue, n)
    [] s = "SLEEPING" -> queueProc(r, sleepQueue, n)
    [] OTHER          -> r

endProcess(n) == nodes' = nodes \ {n} /\ procs' = procs \ {process[n]}

-----------------------------------------------------------------------------
(* schedulerInit: two empty rings and no current process.                  *)
SchedulerInit ==
  /\ status = "off"
  /\ \E ready, sleep \in Nodes \ nodes :
       /\ ready # sleep
       /\ SetRing(selfLink(selfLink(ring, ready), sleep))
       /\ nodes' = nodes \cup {ready, sleep}
       /\ readyQueue' = ready /\ sleepQueue' = sleep
  /\ currentProc' = NULL
  /\ status' = "up"
  /\ UNCHANGED <<process, proc_state, procs>>

(* kernel_init makes a process in state s and passes it to                 *)
(* scheduleProcess.                                                        *)
ScheduleProcess(p, s) ==
  /\ status = "up" /\ p \notin procs
  /\ procs' = procs \cup {p}
  /\ \E n \in Nodes \ nodes :
       LET r == selfLink(ring, n)
           takesProcessor == s = "READY" /\ currentProc = NULL
       IN  /\ nodes' = nodes \cup {n}
           /\ process' = [process EXCEPT ![n] = p]
           /\ proc_state' = [proc_state EXCEPT
                ![p] = IF takesProcessor THEN "RUNNING" ELSE s]
           /\ currentProc' = IF takesProcessor THEN n ELSE currentProc
           /\ SetRing(IF takesProcessor THEN r ELSE rescheduleProcess(r, n, s))
  /\ UNCHANGED <<readyQueue, sleepQueue, status>>

(* memallc returned NULL, and scheduleNodeInit writes through it.          *)
ScheduleOutOfMemory ==
  /\ status = "up" /\ nodes = Nodes /\ Procs \ procs # {}
  /\ status' = "fault"
  /\ UNCHANGED <<next, prev, process, proc_state, pointers, memory>>

(* The running process blocks or exits: nothing in the repository does     *)
(* this yet, but procSwitch and rescheduleProcess are written for it.      *)
GiveUp(s) ==
  /\ status = "up" /\ currentProc # NULL
  /\ proc_state[process[currentProc]] # "ZOMBIE"
  /\ proc_state' = [proc_state EXCEPT ![process[currentProc]] = s]
  /\ UNCHANGED <<next, prev, process, pointers, memory, status>>

SomeoneReady == next[readyQueue] # readyQueue

(* procSwitch.  With nobody ready it returns at once, a stuttering step.   *)
ProcSwitch ==
  /\ status = "up" /\ SomeoneReady /\ currentProc # NULL
  /\ LET p == process[currentProc]
         s == IF proc_state[p] = "RUNNING" THEN "READY" ELSE proc_state[p]
         r == rescheduleProcess(ring, currentProc, s)
         first == r.next[readyQueue]
     IN  /\ proc_state' = [proc_state EXCEPT ![p] = s]
         /\ SetRing(dequeueProc(r, first))
         /\ currentProc' = first
         /\ IF s = "ZOMBIE" THEN endProcess(currentProc) ELSE UNCHANGED memory
  /\ UNCHANGED <<process, readyQueue, sleepQueue, status>>

(* procSwitch follows currentProc without looking at it.                   *)
ProcSwitchNull ==
  /\ status = "up" /\ SomeoneReady /\ currentProc = NULL
  /\ status' = "fault"
  /\ UNCHANGED <<next, prev, process, proc_state, pointers, memory>>

(* Deviation: the sleeper is queued but not marked.                        *)
AwakenUnmarked ==
  /\ status = "up" /\ next[sleepQueue] # sleepQueue
  /\ LET n == next[sleepQueue]
     IN  SetRing(queueProc(dequeueProc(ring, n), readyQueue, n))
  /\ UNCHANGED <<process, proc_state, pointers, memory, status>>

(* awakenProcess: the first sleeper moves to the end of the ready queue.   *)
AwakenProcess ==
  /\ status = "up" /\ next[sleepQueue] # sleepQueue
  /\ LET n == next[sleepQueue]
     IN  /\ proc_state' = [proc_state EXCEPT ![process[n]] = "READY"]
         /\ SetRing(rescheduleProcess(dequeueProc(ring, n), n, "READY"))
  /\ UNCHANGED <<process, pointers, memory, status>>

-----------------------------------------------------------------------------
(* killScheduler.                                                          *)
KillScheduler ==
  /\ status = "up" /\ status' = "killReady"
  /\ UNCHANGED <<next, prev, process, proc_state, pointers, memory>>

(* Deviation: the loop frees the first node without unlinking it.          *)
FreeWithoutUnlinking(head) ==
  LET n == next[head]
  IN  /\ n # head
      /\ endProcess(n)
      /\ UNCHANGED <<next, prev, process, proc_state, pointers, status>>

(* An iteration of one of the two loops, over the ring of head.            *)
FreeFirst(head) ==
  LET n == next[head]
  IN  /\ n # head
      /\ SetRing(dequeueProc(ring, n))
      /\ endProcess(n)
      /\ UNCHANGED <<process, proc_state, pointers, status>>

LoopDone(head, then) ==
  /\ next[head] = head
  /\ status' = then
  /\ UNCHANGED <<next, prev, process, proc_state, pointers, memory>>

KillReady == /\ status = "killReady"
             /\ FreeFirst(readyQueue) \/ LoopDone(readyQueue, "killSleep")

KillSleep == /\ status = "killSleep"
             /\ FreeFirst(sleepQueue) \/ LoopDone(sleepQueue, "killHeads")

(* Deviation: the current process is forgotten.                            *)
KillHeadsOnly ==
  /\ status = "killHeads"
  /\ nodes' = nodes \ {readyQueue, sleepQueue}
  /\ status' = IF currentProc = NULL THEN "fault" ELSE "off"
  /\ UNCHANGED <<next, prev, process, proc_state, pointers, procs>>

(* The heads and the current process; the three pointers keep their        *)
(* values.  Without a current process its null pointer is followed.        *)
KillHeads ==
  /\ status = "killHeads"
  /\ IF currentProc = NULL
     THEN /\ nodes' = nodes \ {readyQueue, sleepQueue}
          /\ status' = "fault"
          /\ UNCHANGED procs
     ELSE /\ nodes' = nodes \ {readyQueue, sleepQueue, currentProc}
          /\ procs' = procs \ {process[currentProc]}
          /\ status' = "off"
  /\ UNCHANGED <<next, prev, process, proc_state, pointers>>

Trapped == status = "fault" /\ UNCHANGED vars

KillSteps == KillReady \/ KillSleep \/ KillHeads

Next ==
  \/ SchedulerInit
  \/ \E p \in Procs, s \in NewStates : ScheduleProcess(p, s)
  \/ ScheduleOutOfMemory
  \/ \E s \in {"SLEEPING", "ZOMBIE"} : GiveUp(s)
  \/ ProcSwitch \/ ProcSwitchNull
  \/ AwakenProcess
  \/ KillScheduler \/ KillSteps
  \/ Trapped

(* Only a killScheduler that has started is sure to go on.                 *)
Spec == Init /\ [][Next]_vars /\ WF_vars(KillSteps)

-----------------------------------------------------------------------------
(* Properties.                                                             *)

TypeOK ==
  /\ next \in [Nodes -> Nodes] /\ prev \in [Nodes -> Nodes]
  /\ process \in [Nodes -> Procs \cup {NULL}]
  /\ proc_state \in [Procs -> States]
  /\ {readyQueue, sleepQueue, currentProc} \subseteq Nodes \cup {NULL}
  /\ nodes \subseteq Nodes /\ procs \subseteq Procs
  /\ status \in Statuses

(* No allocated node links to freed memory, and the two links of a ring    *)
(* always agree: queueProc and dequeueProc (scheduler.c:173-192) keep this *)
(* in every order they are called in, kills and zombies included.          *)
RingsIntact ==
  \A n \in nodes : /\ next[n] \in nodes /\ prev[n] \in nodes
                   /\ next[prev[n]] = n /\ prev[next[n]] = n

(* The nodes met from head on, and the queue they form.                    *)
Hop(head) ==
  LET at[k \in 0 .. Cardinality(Nodes)] == IF k = 0 THEN head ELSE next[at[k-1]]
  IN  at
Length(head) ==
  CHOOSE k \in 0 .. Cardinality(Nodes) - 1 :
    Hop(head)[k+1] = head /\ \A j \in 1 .. k : Hop(head)[j] # head
QueueNodes(head) == {Hop(head)[k] : k \in 1 .. Length(head)}

(* Every process is in exactly one place - a queue, or the processor - and *)
(* has one node: none is lost or scheduled twice.                          *)
NobodyLost ==
  status \in {"up", "killReady", "killSleep"} =>
    LET ready   == QueueNodes(readyQueue)
        asleep  == QueueNodes(sleepQueue)
        running == {currentProc} \ {NULL}
        carriers == ready \cup asleep \cup running
    IN  /\ nodes = carriers \cup {readyQueue, sleepQueue}
        /\ ready \cap asleep = {} /\ (ready \cup asleep) \cap running = {}
        /\ carriers \cap {readyQueue, sleepQueue} = {}
        /\ procs = {process[n] : n \in carriers}
        /\ Cardinality(procs) = Cardinality(carriers)

(* A queued process is in the state its queue is for, whatever happened to *)
(* it while it ran, slept or was switched, and nobody but the current one  *)
(* is RUNNING (scheduler.c:49-134).                                        *)
StatesMatch ==
  status \in {"up", "killReady", "killSleep"} =>
    /\ \A n \in QueueNodes(readyQueue) : proc_state[process[n]] = "READY"
    /\ \A n \in QueueNodes(sleepQueue) : proc_state[process[n]] = "SLEEPING"
    /\ \A p \in procs : proc_state[p] = "RUNNING" =>
         currentProc # NULL /\ process[currentProc] = p

(* scheduler.h:72: killScheduler frees all the scheduler's memory, so that *)
(* schedulerInit can start it again.                                       *)
AllFreed == status = "off" => nodes = {} /\ procs = {}

(* killScheduler comes to its end (scheduler.c:162) if it finds a current  *)
(* process; without one it follows a null pointer there, at 159.           *)
KillEnds ==
  /\ status = "killReady" /\ currentProc # NULL ~> status = "off"
  /\ status = "killReady" /\ currentProc = NULL ~> status = "fault"

(* If the kernel keeps switching, a ready process gets the processor: the  *)
(* queue is fair though sleepers join it and the current process rejoins.  *)
WaitsForTurn ==
  []<><<ProcSwitch>>_vars =>
    \A n \in Nodes :
      status = "up" /\ n \in QueueNodes(readyQueue)
        ~> status # "up" \/ currentProc = n

(* scheduler.c:119: procSwitch "switched to next available process".       *)
SwitchesWhenReady ==
  [][ProcSwitch \/ ProcSwitchNull => currentProc' = next[readyQueue]]_vars

(* The scheduler implements the two queues of SchedulerSpec.  Pointers to  *)
(* freed memory stand for nothing.                                         *)
Queue(head) ==
  IF head \notin nodes THEN <<>>
  ELSE [k \in 1 .. Length(head) |-> process[Hop(head)[k]]]
current == IF currentProc \in nodes THEN process[currentProc] ELSE NULL

(* Nobody is overtaken (scheduler.c:104-119, 173-180): a switch takes the  *)
(* process that has waited longest, everybody behind it moves up by one,   *)
(* and nothing else changes the place of one that waits.                   *)
StillWaiting == IF ProcSwitch THEN Tail(Queue(readyQueue)) ELSE Queue(readyQueue)
IsFrontOf(s, t) == Len(s) <= Len(t) /\ \A i \in 1 .. Len(s) : t[i] = s[i]
KeepsTurn ==
  [][status = "up" /\ status' = "up"
       => /\ ProcSwitch => current' = Head(Queue(readyQueue))
          /\ IsFrontOf(StillWaiting, Queue(readyQueue)')]_vars

wish ==
  CASE current = NULL -> "run"
    [] current # NULL /\ proc_state[current] = "SLEEPING" -> "sleep"
    [] current # NULL /\ proc_state[current] = "ZOMBIE"   -> "exit"
    [] OTHER -> "run"
Abstract == INSTANCE SchedulerSpec
  WITH Nobody <- NULL, ready <- Queue(readyQueue), sleeping <- Queue(sleepQueue),
       open <- status = "up"
ImplementsScheduler == Abstract!Spec
=============================================================================
