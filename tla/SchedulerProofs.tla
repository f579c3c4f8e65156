-------------------------- MODULE SchedulerProofs ---------------------------
(***************************************************************************)
(* Proofs about Scheduler.tla, for any number of nodes and processes.      *)
(* Lemmas about the ring operations come first; each action is then a      *)
(* composition of them.                                                    *)
(***************************************************************************)
EXTENDS Scheduler, TLAPS

USE SchedulerAssumption

Rings == [next : [Nodes -> Nodes], prev : [Nodes -> Nodes]]

(* The nodes of N form closed rings, and neighbours have the same colour.  *)
Consistent(r, N, colour) ==
  \A n \in N : /\ r.next[n] \in N /\ r.prev[n] \in N
               /\ r.next[r.prev[n]] = n /\ r.prev[r.next[n]] = n
               /\ colour[r.next[n]] = colour[n]

LEMMA DequeueEffect ==
  ASSUME NEW r \in Rings, NEW t \in Nodes
  PROVE  /\ dequeueProc(r, t) \in Rings
         /\ \A m \in Nodes :
              /\ dequeueProc(r, t).next[m] =
                   IF m = t THEN t ELSE IF m = r.prev[t] THEN r.next[t] ELSE r.next[m]
              /\ dequeueProc(r, t).prev[m] =
                   IF m = t THEN t ELSE IF m = r.next[t] THEN r.prev[t] ELSE r.prev[m]
  BY DEF dequeueProc, Rings

LEMMA QueueEffect ==
  ASSUME NEW r \in Rings, NEW h \in Nodes, NEW t \in Nodes
  PROVE  /\ queueProc(r, h, t) \in Rings
         /\ \A m \in Nodes :
              /\ queueProc(r, h, t).next[m] =
                   IF m = r.prev[h] THEN t ELSE IF m = t THEN h ELSE r.next[m]
              /\ queueProc(r, h, t).prev[m] =
                   IF m = h THEN t ELSE IF m = t THEN r.prev[h] ELSE r.prev[m]
  BY DEF queueProc, Rings

LEMMA SelfLinkEffect ==
  ASSUME NEW r \in Rings, NEW t \in Nodes
  PROVE  /\ selfLink(r, t) \in Rings
         /\ \A m \in Nodes :
              /\ selfLink(r, t).next[m] = IF m = t THEN t ELSE r.next[m]
              /\ selfLink(r, t).prev[m] = IF m = t THEN t ELSE r.prev[m]
  BY DEF selfLink, Rings

(* Colours off N do not matter.                                            *)
LEMMA Recolour ==
  ASSUME NEW r \in Rings, NEW N \in SUBSET Nodes, NEW colour, NEW new,
         Consistent(r, N, colour), \A n \in N : new[n] = colour[n]
  PROVE  Consistent(r, N, new)
  BY DEF Consistent

(* dequeueProc leaves closed rings, the node alone and free to change      *)
(* colour.                                                                 *)
LEMMA DequeueKeeps ==
  ASSUME NEW r \in Rings, NEW N \in SUBSET Nodes, NEW colour, NEW new, NEW t \in N,
         Consistent(r, N, colour), \A n \in N \ {t} : new[n] = colour[n]
  PROVE  /\ Consistent(dequeueProc(r, t), N, new)
         /\ dequeueProc(r, t).next[t] = t
<1> DEFINE d == dequeueProc(r, t)
<1>1. \A m \in N :
        /\ d.next[m] = IF m = t THEN t ELSE IF m = r.prev[t] THEN r.next[t] ELSE r.next[m]
        /\ d.prev[m] = IF m = t THEN t ELSE IF m = r.next[t] THEN r.prev[t] ELSE r.prev[m]
  BY DequeueEffect
<1> HIDE DEF d
<1>2. Consistent(d, N, new)
  <2> SUFFICES ASSUME NEW n \in N
               PROVE  /\ d.next[n] \in N /\ d.prev[n] \in N
                      /\ d.next[d.prev[n]] = n /\ d.prev[d.next[n]] = n
                      /\ new[d.next[n]] = new[n]
    BY DEF Consistent
  <2>1. CASE n = t
    BY <2>1, <1>1
  <2>2. CASE n # t
    <3>1. d.next[n] \in N /\ d.prev[n] \in N
      BY <2>2, <1>1 DEF Consistent
    <3>2. d.next[n] # t /\ d.prev[n] # t
      BY <2>2, <1>1 DEF Consistent
    <3>3. d.next[d.prev[n]] = n
      BY <2>2, <3>1, <3>2, <1>1 DEF Consistent
    <3>4. d.prev[d.next[n]] = n
      BY <2>2, <3>1, <3>2, <1>1 DEF Consistent
    <3>5. colour[d.next[n]] = colour[n]
      BY <2>2, <3>1, <1>1 DEF Consistent
    <3> QED BY <2>2, <3>1, <3>2, <3>3, <3>4, <3>5
  <2> QED BY <2>1, <2>2
<1> QED BY <1>1, <1>2 DEF d

(* queueProc takes a lone node into the ring of h, whose colour it gets.   *)
LEMMA QueueKeeps ==
  ASSUME NEW r \in Rings, NEW N \in SUBSET Nodes, NEW colour, NEW new,
         NEW h \in N, NEW t \in N, t # h, r.next[t] = t,
         Consistent(r, N, colour), \A n \in N \ {t} : new[n] = colour[n],
         new[t] = colour[h]
  PROVE  Consistent(queueProc(r, h, t), N, new)
<1> DEFINE q == queueProc(r, h, t)
<1>1. \A m \in N :
        /\ q.next[m] = IF m = r.prev[h] THEN t ELSE IF m = t THEN h ELSE r.next[m]
        /\ q.prev[m] = IF m = h THEN t ELSE IF m = t THEN r.prev[h] ELSE r.prev[m]
  BY QueueEffect
<1>2. r.prev[t] = t /\ r.prev[h] # t /\ r.prev[h] \in N
  BY DEF Consistent
<1> HIDE DEF q
<1> SUFFICES ASSUME NEW n \in N
             PROVE  /\ q.next[n] \in N /\ q.prev[n] \in N
                    /\ q.next[q.prev[n]] = n /\ q.prev[q.next[n]] = n
                    /\ new[q.next[n]] = new[n]
  BY DEF Consistent, q
<1>3. q.next[n] \in N /\ q.prev[n] \in N
  BY <1>1, <1>2 DEF Consistent
<1>4. q.next[q.prev[n]] = n
  BY <1>1, <1>2 DEF Consistent
<1>5. q.prev[q.next[n]] = n
  BY <1>1, <1>2 DEF Consistent
<1>6. new[q.next[n]] = new[n]
  <2>1. CASE n = t
    BY <2>1, <1>1, <1>2
  <2>2. CASE n = r.prev[h]
    BY <2>2, <1>1, <1>2 DEF Consistent
  <2>3. CASE n # t /\ n # r.prev[h]
    BY <2>3, <1>1, <1>2 DEF Consistent
  <2> QED BY <2>1, <2>2, <2>3
<1> QED BY <1>3, <1>4, <1>5, <1>6

(* New memory, linked to itself, is a ring of its own.                     *)
LEMMA SelfLinkKeeps ==
  ASSUME NEW r \in Rings, NEW N \in SUBSET Nodes, NEW colour, NEW new,
         NEW t \in Nodes \ N,
         Consistent(r, N, colour), \A n \in N : new[n] = colour[n]
  PROVE  /\ Consistent(selfLink(r, t), N \cup {t}, new)
         /\ selfLink(r, t).next[t] = t
<1>1. \A m \in Nodes :
        /\ selfLink(r, t).next[m] = IF m = t THEN t ELSE r.next[m]
        /\ selfLink(r, t).prev[m] = IF m = t THEN t ELSE r.prev[m]
  BY SelfLinkEffect
<1> QED BY <1>1 DEF Consistent

(* A lone node can be freed.                                               *)
LEMMA FreeKeeps ==
  ASSUME NEW r \in Rings, NEW N \in SUBSET Nodes, NEW colour, NEW t \in N,
         r.next[t] = t, Consistent(r, N, colour)
  PROVE  Consistent(r, N \ {t}, colour)
  BY DEF Consistent

-----------------------------------------------------------------------------
(* The inductive invariant.                                                *)

(* A node's colour is the queue it belongs to.                             *)
Colour == [n \in Nodes |-> IF n = readyQueue THEN "READY"
                           ELSE IF n = sleepQueue THEN "SLEEPING"
                           ELSE IF n = currentProc THEN "CURRENT"
                           ELSE proc_state[process[n]]]

Carriers == nodes \ {readyQueue, sleepQueue}

OneEach ==
  /\ \A n \in Carriers : process[n] \in procs
  /\ \A m, n \in Carriers : m # n => process[m] # process[n]

Pointers ==
  /\ status \in Alive =>
       /\ readyQueue \in nodes /\ sleepQueue \in nodes
       /\ readyQueue # sleepQueue
       /\ currentProc \in Carriers \cup {NULL}
  /\ status = "off" => {readyQueue, sleepQueue, currentProc} \cap nodes = {}

Emptied ==
  /\ status \in {"killSleep", "killHeads"} => next[readyQueue] = readyQueue
  /\ status = "killHeads" => next[sleepQueue] = sleepQueue

SInv == TypeOK /\ Consistent(ring, nodes, Colour) /\ OneEach /\ Pointers /\ Emptied

LEMMA InitSInv == Init => SInv
  BY DEF Init, SInv, TypeOK, Consistent, OneEach, Carriers, Pointers, Emptied,
         Alive, Statuses, States

LEMMA RingTyped == TypeOK => ring \in Rings /\ nodes \in SUBSET Nodes
  BY DEF TypeOK, ring, Rings

(* Following a node's link stays within its colour.                        *)
LEMMA Neighbour ==
  ASSUME SInv, NEW h \in nodes
  PROVE  /\ next[h] \in nodes /\ Colour[next[h]] = Colour[h]
         /\ prev[h] \in nodes /\ next[prev[h]] = h /\ prev[next[h]] = h
  BY DEF SInv, Consistent, ring

LEMMA SInvRestart == SInv /\ SchedulerInit => SInv'
<1> SUFFICES ASSUME SInv, SchedulerInit PROVE SInv'
  OBVIOUS
<1>1. PICK ready \in Nodes \ nodes, sleep \in Nodes \ nodes :
        /\ ready # sleep
        /\ SetRing(selfLink(selfLink(ring, ready), sleep))
        /\ nodes' = nodes \cup {ready, sleep}
        /\ readyQueue' = ready /\ sleepQueue' = sleep
  BY DEF SchedulerInit
<1>2. /\ currentProc' = NULL /\ status' = "up" /\ status = "off"
      /\ UNCHANGED <<process, proc_state, procs>>
  BY DEF SchedulerInit
<1> DEFINE r1 == selfLink(ring, ready)
           r2 == selfLink(r1, sleep)
<1>3. ring \in Rings /\ r1 \in Rings /\ r2 \in Rings /\ nodes \in SUBSET Nodes
  BY RingTyped, SelfLinkEffect DEF SInv
<1>4. ring' = r2 /\ next' = r2.next /\ prev' = r2.prev
  BY <1>1, <1>3 DEF SetRing, ring, Rings
<1>5. TypeOK'
  BY <1>1, <1>2, <1>3, <1>4 DEF SInv, TypeOK, Rings, Statuses, Alive
<1>6. \A n \in nodes : Colour'[n] = Colour[n]
  BY <1>1, <1>2, <1>3 DEF Colour, SInv, Pointers
<1>7. Consistent(r1, nodes \cup {ready}, Colour')
  BY <1>3, <1>6, <1>1, SelfLinkKeeps DEF SInv
<1>8. Consistent(r2, (nodes \cup {ready}) \cup {sleep}, Colour')
  BY <1>3, <1>7, <1>1, SelfLinkKeeps
<1>9. nodes' = (nodes \cup {ready}) \cup {sleep}
  BY <1>1
<1>10. OneEach' /\ Pointers' /\ Emptied'
  BY <1>1, <1>2 DEF SInv, OneEach, Carriers, Pointers, Emptied, Alive
<1> QED BY <1>4, <1>5, <1>8, <1>9, <1>10 DEF SInv

(* Steps that leave the rings, the memory and the colours alone.           *)
LEMMA SInvQuiet ==
  ASSUME SInv, UNCHANGED <<next, prev, process, pointers, memory>>, TypeOK',
         \A n \in nodes : Colour'[n] = Colour[n],
         Pointers', Emptied'
  PROVE  SInv'
<1>1. ring' = ring /\ ring \in Rings /\ nodes \in SUBSET Nodes /\ nodes' = nodes
  BY RingTyped DEF SInv, ring, memory
<1>2. Consistent(ring, nodes, Colour')
  BY <1>1, Recolour DEF SInv
<1>3. OneEach'
  BY DEF SInv, OneEach, Carriers, memory, pointers
<1> QED BY <1>1, <1>2, <1>3 DEF SInv

LEMMA SInvFault ==
  ASSUME SInv, status' \in Statuses, status = "up" \/ UNCHANGED vars,
         status' \in {"fault", "killReady"} \/ UNCHANGED vars,
         UNCHANGED <<next, prev, process, proc_state, pointers, memory>>
  PROVE  SInv'
<1>1. TypeOK'
  BY DEF SInv, TypeOK, pointers, memory
<1>2. \A n \in nodes : Colour'[n] = Colour[n]
  BY DEF Colour, pointers
<1>3. Pointers' /\ Emptied'
  BY DEF SInv, Pointers, Emptied, Carriers, pointers, memory, Alive, vars
<1> QED BY <1>1, <1>2, <1>3, SInvQuiet

LEMMA SInvScheduleProcess ==
  ASSUME SInv, NEW p \in Procs, NEW s \in NewStates, ScheduleProcess(p, s)
  PROVE  SInv'
<1> DEFINE takes == s = "READY" /\ currentProc = NULL
<1>1. PICK n \in Nodes \ nodes :
        /\ nodes' = nodes \cup {n}
        /\ process' = [process EXCEPT ![n] = p]
        /\ proc_state' = [proc_state EXCEPT ![p] = IF takes THEN "RUNNING" ELSE s]
        /\ currentProc' = IF takes THEN n ELSE currentProc
        /\ SetRing(IF takes THEN selfLink(ring, n)
                   ELSE rescheduleProcess(selfLink(ring, n), n, s))
  BY DEF ScheduleProcess
<1>2. /\ status = "up" /\ status' = "up" /\ p \notin procs /\ procs' = procs \cup {p}
      /\ UNCHANGED <<readyQueue, sleepQueue>>
  BY DEF ScheduleProcess
<1>3. s \in {"READY", "SLEEPING"}
  OBVIOUS
<1>4. /\ readyQueue \in nodes /\ sleepQueue \in nodes /\ readyQueue # sleepQueue
      /\ currentProc \in Carriers \cup {NULL}
  BY <1>2 DEF SInv, Pointers, Alive
<1>5. ring \in Rings /\ nodes \in SUBSET Nodes /\ nodes \cup {n} \in SUBSET Nodes
  BY RingTyped DEF SInv
<1> DEFINE r == selfLink(ring, n)
           final == IF takes THEN r ELSE rescheduleProcess(r, n, s)
           head == IF s = "READY" THEN readyQueue ELSE sleepQueue
<1>6. r \in Rings /\ r.next[n] = n
  BY <1>5, SelfLinkEffect
<1>7. head \in nodes /\ head # n
  BY <1>4
<1>8. final = IF takes THEN r ELSE queueProc(r, head, n)
  BY <1>3 DEF rescheduleProcess
<1>9. final \in Rings
  BY <1>5, <1>6, <1>7, <1>8, QueueEffect
<1>10. ring' = final /\ next' = final.next /\ prev' = final.prev
  BY <1>1, <1>9 DEF SetRing, ring, Rings
<1> HIDE DEF final
<1>11. TypeOK'
  <2>1. next' \in [Nodes -> Nodes] /\ prev' \in [Nodes -> Nodes]
    BY <1>9, <1>10 DEF Rings
  <2>2. process' \in [Nodes -> Procs \cup {NULL}] /\ proc_state' \in [Procs -> States]
    BY <1>1, <1>3 DEF SInv, TypeOK, States
  <2> QED BY <2>1, <2>2, <1>1, <1>2, <1>4 DEF SInv, TypeOK
<1>12. OneEach'
  BY <1>1, <1>2, <1>4 DEF SInv, TypeOK, OneEach, Carriers
<1>13. Pointers' /\ Emptied'
  BY <1>1, <1>2, <1>4 DEF SInv, Pointers, Emptied, Carriers, Alive
<1>14. \A m \in nodes : Colour'[m] = Colour[m]
  <2> SUFFICES ASSUME NEW m \in nodes PROVE Colour'[m] = Colour[m]
    OBVIOUS
  <2>1. m # n /\ m \in Nodes
    BY <1>5
  <2>2. CASE m \in {readyQueue, sleepQueue}
    BY <2>1, <2>2, <1>2 DEF Colour
  <2>3. CASE m \in Carriers
    <3>1. process'[m] = process[m] /\ process[m] \in procs /\ process[m] # p
      BY <2>1, <2>3, <1>1, <1>2 DEF SInv, TypeOK, OneEach
    <3>2. proc_state'[process'[m]] = proc_state[process[m]]
      BY <3>1, <1>1 DEF SInv, TypeOK
    <3>3. m = currentProc' <=> m = currentProc
      BY <2>1, <1>1, <1>4
    <3> QED BY <2>1, <3>2, <3>3, <1>2 DEF Colour
  <2> QED BY <2>2, <2>3 DEF Carriers
<1>15. Consistent(r, nodes \cup {n}, Colour')
  BY <1>5, <1>14, SelfLinkKeeps DEF SInv
<1>16. Consistent(final, nodes \cup {n}, Colour')
  <2>1. CASE takes
    BY <2>1, <1>8, <1>15
  <2>2. CASE ~ takes
    <3>1. Colour'[n] = s
      BY <2>2, <1>1, <1>2, <1>4 DEF Colour, SInv, TypeOK, Carriers
    <3>2. Colour'[head] = s
      BY <1>2, <1>3, <1>4 DEF Colour, SInv, TypeOK
    <3> QED BY <2>2, <3>1, <3>2, <1>5, <1>6, <1>7, <1>8, <1>15, QueueKeeps
  <2> QED BY <2>1, <2>2
<1> QED BY <1>1, <1>10, <1>11, <1>12, <1>13, <1>16 DEF SInv

LEMMA SInvGiveUp ==
  ASSUME SInv, NEW s \in {"SLEEPING", "ZOMBIE"}, GiveUp(s) PROVE SInv'
<1>1. /\ status = "up" /\ currentProc # NULL /\ UNCHANGED status
      /\ proc_state' = [proc_state EXCEPT ![process[currentProc]] = s]
      /\ UNCHANGED <<next, prev, process, pointers, memory>>
  BY DEF GiveUp
<1>2. currentProc \in Carriers
  BY <1>1 DEF SInv, Pointers, Alive
<1>3. TypeOK'
  BY <1>1 DEF SInv, TypeOK, States, pointers, memory
<1>4. ASSUME NEW n \in nodes PROVE Colour'[n] = Colour[n]
  <2>1. CASE n \in {readyQueue, sleepQueue, currentProc}
    BY <2>1, <1>1, <1>2 DEF Colour, pointers, SInv, TypeOK
  <2>2. CASE n \notin {readyQueue, sleepQueue, currentProc}
    <3>1. process[n] # process[currentProc]
      BY <2>2, <1>2 DEF SInv, OneEach, Carriers
    <3> QED BY <2>2, <3>1, <1>1 DEF Colour, pointers, SInv, TypeOK
  <2> QED BY <2>1, <2>2
<1>5. Pointers' /\ Emptied'
  BY <1>1 DEF SInv, Pointers, Emptied, Carriers, pointers, memory
<1> QED BY <1>1, <1>3, <1>4, <1>5, SInvQuiet

LEMMA SInvAwaken == SInv /\ AwakenProcess => SInv'
<1> SUFFICES ASSUME SInv, AwakenProcess PROVE SInv'
  OBVIOUS
<1> DEFINE n == next[sleepQueue]
           d == dequeueProc(ring, n)
           q == queueProc(d, readyQueue, n)
<1>1. /\ status = "up" /\ n # sleepQueue
      /\ proc_state' = [proc_state EXCEPT ![process[n]] = "READY"]
      /\ SetRing(q)
      /\ UNCHANGED <<process, pointers, memory, status>>
  BY DEF AwakenProcess, rescheduleProcess
<1>2. /\ readyQueue \in nodes /\ sleepQueue \in nodes /\ readyQueue # sleepQueue
      /\ currentProc \in Carriers \cup {NULL}
  BY <1>1 DEF SInv, Pointers, Alive
<1>3. ring \in Rings /\ nodes \in SUBSET Nodes
  BY RingTyped DEF SInv
<1>4. n \in nodes /\ Colour[n] = "SLEEPING"
  BY <1>2, <1>3, Neighbour DEF Colour
<1>5. n \notin {readyQueue, sleepQueue, currentProc} /\ n \in Carriers
  BY <1>1, <1>3, <1>4 DEF Colour, Carriers
<1>6. d \in Rings /\ q \in Rings
  BY <1>2, <1>3, <1>4, DequeueEffect, QueueEffect
<1>7. ring' = q /\ next' = q.next /\ prev' = q.prev
  BY <1>1, <1>6 DEF SetRing, ring, Rings
<1>8. TypeOK'
  BY <1>1, <1>6, <1>7 DEF SInv, TypeOK, States, Rings, pointers, memory
<1>9. Colour'[n] = "READY" /\ Colour'[readyQueue] = "READY"
  <2>1. process[n] \in Procs
    BY <1>5 DEF SInv, OneEach, TypeOK
  <2> QED BY <2>1, <1>1, <1>2, <1>3, <1>4, <1>5 DEF Colour, pointers, SInv, TypeOK
<1>10. ASSUME NEW m \in nodes \ {n} PROVE Colour'[m] = Colour[m]
  <2>1. CASE m \in {readyQueue, sleepQueue, currentProc}
    BY <2>1, <1>1, <1>3 DEF Colour, pointers
  <2>2. CASE m \notin {readyQueue, sleepQueue, currentProc}
    <3>1. process[m] # process[n]
      BY <2>2, <1>5 DEF SInv, OneEach, Carriers
    <3> QED BY <2>2, <3>1, <1>1, <1>3 DEF Colour, pointers, SInv, TypeOK
  <2> QED BY <2>1, <2>2
<1> HIDE DEF d, q
<1>11. Consistent(d, nodes, Colour') /\ d.next[n] = n
  BY <1>3, <1>4, <1>10, DequeueKeeps DEF d, SInv
<1>12. Consistent(q, nodes, Colour')
  BY <1>2, <1>3, <1>4, <1>5, <1>6, <1>9, <1>11, QueueKeeps DEF q
<1>13. OneEach' /\ Pointers' /\ Emptied'
  BY <1>1 DEF SInv, OneEach, Pointers, Emptied, Carriers, pointers, memory
<1>14. nodes' = nodes
  BY <1>1 DEF memory
<1> QED BY <1>7, <1>8, <1>12, <1>13, <1>14 DEF SInv

(* The current process is in no queue.                                     *)
LEMMA CurrentAlone ==
  ASSUME SInv, status \in Alive, currentProc # NULL
  PROVE  next[currentProc] = currentProc /\ currentProc \in Carriers
<1>1. currentProc \in Carriers /\ currentProc \in nodes /\ nodes \subseteq Nodes
  BY DEF SInv, TypeOK, Pointers, Carriers
<1>2. next[currentProc] \in nodes /\ Colour[next[currentProc]] = Colour[currentProc]
  BY <1>1, Neighbour
<1>3. Colour[currentProc] = "CURRENT"
  BY <1>1 DEF Colour, Carriers
<1>4. ASSUME NEW m \in nodes, Colour[m] = "CURRENT" PROVE m = currentProc
  <2>1. SUFFICES ASSUME m \in Carriers, m # currentProc PROVE FALSE
    BY <1>4, <1>1 DEF Colour, Carriers
  <2>2. proc_state[process[m]] \in States
    BY <2>1 DEF SInv, OneEach, TypeOK
  <2> QED BY <1>4, <2>1, <2>2, <1>1 DEF Colour, Carriers, States
<1> QED BY <1>1, <1>2, <1>3, <1>4

LEMMA SInvProcSwitch == SInv /\ ProcSwitch => SInv'
<1> SUFFICES ASSUME SInv, ProcSwitch PROVE SInv'
  OBVIOUS
<1> DEFINE c == currentProc
           p == process[currentProc]
           s == IF proc_state[p] = "RUNNING" THEN "READY" ELSE proc_state[p]
           r == rescheduleProcess(ring, currentProc, s)
           f == r.next[readyQueue]
           d == dequeueProc(r, f)
           K1 == [m \in Nodes |-> IF m = c /\ s # "ZOMBIE" THEN s ELSE Colour[m]]
           K2 == [m \in Nodes |-> IF m = next[readyQueue] THEN "CURRENT" ELSE K1[m]]
<1>1. /\ status = "up" /\ SomeoneReady /\ currentProc # NULL
      /\ proc_state' = [proc_state EXCEPT ![p] = s]
      /\ SetRing(d)
      /\ currentProc' = f
      /\ IF s = "ZOMBIE" THEN endProcess(currentProc) ELSE UNCHANGED memory
      /\ UNCHANGED <<process, readyQueue, sleepQueue, status>>
  BY DEF ProcSwitch
<1>2. /\ readyQueue \in nodes /\ sleepQueue \in nodes /\ readyQueue # sleepQueue
      /\ c \in Carriers /\ next[c] = c
  BY <1>1, CurrentAlone DEF SInv, Pointers, Alive
<1>3. ring \in Rings /\ nodes \in SUBSET Nodes /\ c \in nodes
      /\ ring.next = next /\ ring.prev = prev
  BY <1>2, RingTyped DEF SInv, Carriers, ring
<1>4. p \in procs /\ p \in Procs /\ s \in {"READY", "SLEEPING", "ZOMBIE"}
  BY <1>2 DEF SInv, OneEach, TypeOK, States
<1>5. /\ Colour[readyQueue] = "READY" /\ Colour[sleepQueue] = "SLEEPING"
      /\ Colour[c] = "CURRENT"
  BY <1>2, <1>3 DEF Colour, Carriers
<1>6. /\ next[readyQueue] \in nodes /\ next[readyQueue] \notin {readyQueue, sleepQueue, c}
      /\ prev[next[readyQueue]] = readyQueue
      /\ prev[readyQueue] # readyQueue /\ prev[sleepQueue] # readyQueue
  BY <1>1, <1>2, <1>5, Neighbour DEF SomeoneReady
<1> HIDE DEF s
<1>7. /\ r \in Rings /\ Consistent(r, nodes, K1)
      /\ f = next[readyQueue]
      /\ s = "ZOMBIE" => r = ring
  <2>1. CASE s = "ZOMBIE"
    <3>1. r = ring
      BY <2>1 DEF rescheduleProcess
    <3>2. \A m \in nodes : K1[m] = Colour[m]
      BY <2>1, <1>3
    <3>3. Consistent(ring, nodes, K1)
      BY <1>3, <3>2, Recolour DEF SInv
    <3> QED BY <3>1, <3>3, <1>3
  <2>2. CASE s # "ZOMBIE"
    <3> DEFINE head == IF s = "READY" THEN readyQueue ELSE sleepQueue
    <3>1. r = queueProc(ring, head, c)
      BY <2>2, <1>4 DEF rescheduleProcess
    <3>2. head \in nodes /\ c # head /\ Colour[head] = s
      BY <2>2, <1>2, <1>4, <1>5 DEF Carriers
    <3>3. \A m \in nodes \ {c} : K1[m] = Colour[m]
      BY <1>3
    <3>4. K1[c] = Colour[head]
      BY <2>2, <1>3, <3>2
    <3>5. r \in Rings /\ r.next[readyQueue] =
            IF readyQueue = prev[head] THEN c ELSE IF readyQueue = c THEN head ELSE next[readyQueue]
      BY <3>1, <3>2, <1>2, <1>3, QueueEffect
    <3>6. f = next[readyQueue]
      BY <3>5, <1>2, <1>6 DEF Carriers
    <3>7. /\ Consistent(ring, nodes, Colour) /\ ring.next[c] = c
          /\ ring \in Rings /\ nodes \in SUBSET Nodes /\ c \in nodes
      BY <1>2, <1>3 DEF SInv
    <3> HIDE DEF K1, r, head, c
    <3>8. Consistent(queueProc(ring, head, c), nodes, K1)
      BY <3>2, <3>3, <3>4, <3>7, QueueKeeps
    <3> QED BY <2>2, <3>1, <3>5, <3>6, <3>8
  <2> QED BY <2>1, <2>2
<1> HIDE DEF K1, r
<1>8. d \in Rings /\ Consistent(d, nodes, K2)
  <2>1. \A m \in nodes \ {f} : K2[m] = K1[m]
    BY <1>3, <1>7
  <2>2. f \in nodes
    BY <1>6, <1>7
  <2> HIDE DEF K2, f
  <2> QED BY <2>1, <2>2, <1>3, <1>7, DequeueEffect, DequeueKeeps
<1>9. ring' = d /\ next' = d.next /\ prev' = d.prev
  BY <1>1, <1>8 DEF SetRing, ring, Rings
<1>10. \/ s = "ZOMBIE" /\ nodes' = nodes \ {c} /\ procs' = procs \ {p}
       \/ s # "ZOMBIE" /\ nodes' = nodes /\ procs' = procs
  BY <1>1 DEF endProcess, memory
<1>11. currentProc' = next[readyQueue]
  BY <1>1, <1>7
<1>12. Consistent(d, nodes', K2)
  <2>1. CASE s # "ZOMBIE"
    BY <2>1, <1>8, <1>10
  <2>2. CASE s = "ZOMBIE"
    <3>1. d = dequeueProc(ring, next[readyQueue])
      BY <2>2, <1>7
    <3> HIDE DEF K2, d
    <3>2. d.next[c] = c
      <4>1. next[readyQueue] \in Nodes /\ c \in Nodes
        BY <1>3, <1>6
      <4>2. dequeueProc(ring, next[readyQueue]).next[c] =
              IF c = next[readyQueue] THEN next[readyQueue]
              ELSE IF c = ring.prev[next[readyQueue]]
                   THEN ring.next[next[readyQueue]] ELSE ring.next[c]
        BY <4>1, <1>3, DequeueEffect
      <4>3. c # readyQueue
        BY <1>2 DEF Carriers
      <4> QED BY <3>1, <4>2, <4>3, <1>2, <1>3, <1>6
    <3> QED BY <2>2, <3>2, <1>3, <1>8, <1>10, FreeKeeps
  <2> QED BY <2>1, <2>2
<1>13. ASSUME NEW m \in nodes' PROVE Colour'[m] = K2[m]
  <2>1. m \in nodes /\ m \in Nodes
    BY <1>3, <1>10
  <2>2. CASE m = next[readyQueue]
    BY <2>1, <2>2, <1>1, <1>6, <1>11 DEF Colour
  <2>3. CASE m = c
    <3>1. s # "ZOMBIE"
      BY <2>3, <1>10
    <3>2. K2[m] = s
      BY <2>1, <2>3, <3>1, <1>6 DEF K1
    <3>3. proc_state'[process'[m]] = s
      BY <2>3, <1>1, <1>4 DEF SInv, TypeOK
    <3> QED BY <2>1, <2>3, <3>2, <3>3, <1>1, <1>2, <1>6, <1>11 DEF Colour, Carriers
  <2>4. CASE m \in {readyQueue, sleepQueue}
    BY <2>1, <2>4, <1>1, <1>2, <1>6 DEF Colour, K1, Carriers
  <2>5. CASE m \notin {readyQueue, sleepQueue, c, next[readyQueue]}
    <3>1. process[m] # p
      BY <2>1, <2>5, <1>2 DEF SInv, OneEach, Carriers
    <3>2. K2[m] = proc_state[process[m]]
      BY <2>1, <2>5 DEF K1, Colour
    <3>3. proc_state'[process'[m]] = proc_state[process[m]]
      BY <3>1, <1>1 DEF SInv, TypeOK
    <3> QED BY <2>1, <2>5, <3>2, <3>3, <1>1, <1>11 DEF Colour
  <2> QED BY <2>2, <2>3, <2>4, <2>5
<1>14. Consistent(d, nodes', Colour')
  <2>1. nodes' \in SUBSET Nodes
    BY <1>3, <1>10
  <2> HIDE DEF K2, d
  <2> QED BY <2>1, <1>8, <1>12, <1>13, Recolour
<1>15. TypeOK'
  <2>1. next' \in [Nodes -> Nodes] /\ prev' \in [Nodes -> Nodes]
    BY <1>8, <1>9 DEF Rings
  <2>2. proc_state' \in [Procs -> States]
    BY <1>1, <1>4 DEF SInv, TypeOK, States
  <2> QED BY <2>1, <2>2, <1>1, <1>3, <1>6, <1>10, <1>11 DEF SInv, TypeOK
<1>16. OneEach'
  BY <1>1, <1>2, <1>10 DEF SInv, OneEach, Carriers
<1>17. Pointers' /\ Emptied'
  BY <1>1, <1>2, <1>6, <1>10, <1>11 DEF SInv, Pointers, Emptied, Carriers, Alive
<1> QED BY <1>9, <1>14, <1>15, <1>16, <1>17 DEF SInv

-----------------------------------------------------------------------------
(* killScheduler.                                                          *)

LEMMA SInvFreeFirst ==
  ASSUME SInv, NEW head \in {readyQueue, sleepQueue},
         \/ head = readyQueue /\ status = "killReady"
         \/ head = sleepQueue /\ status = "killSleep",
         FreeFirst(head)
  PROVE  SInv'
<1> DEFINE n == next[head]
           d == dequeueProc(ring, n)
<1>1. /\ n # head /\ SetRing(d)
      /\ nodes' = nodes \ {n} /\ procs' = procs \ {process[n]}
      /\ UNCHANGED <<process, proc_state, pointers, status>>
  BY DEF FreeFirst, endProcess
<1>2. /\ readyQueue \in nodes /\ sleepQueue \in nodes /\ readyQueue # sleepQueue
      /\ currentProc \in Carriers \cup {NULL} /\ head \in nodes
  BY DEF SInv, Pointers, Alive
<1>3. ring \in Rings /\ nodes \in SUBSET Nodes /\ ring.next = next /\ ring.prev = prev
  BY RingTyped DEF SInv, ring
<1>4. n \in nodes /\ Colour[n] = Colour[head] /\ prev[n] = head
  BY <1>2, Neighbour
<1>5. n \notin {readyQueue, sleepQueue, currentProc} /\ n \in Carriers
  BY <1>1, <1>2, <1>3, <1>4 DEF Colour, Carriers
<1>6. d \in Rings
  BY <1>3, <1>4, DequeueEffect
<1>7. ring' = d /\ next' = d.next /\ prev' = d.prev
  BY <1>1, <1>6 DEF SetRing, ring, Rings
<1>8. TypeOK'
  BY <1>1, <1>6, <1>7 DEF SInv, TypeOK, Rings, pointers
<1>9. \A m \in nodes : Colour'[m] = Colour[m]
  BY <1>1 DEF Colour, pointers
<1>10. Emptied'
  <2>1. CASE status = "killReady"
    BY <2>1, <1>1 DEF Emptied
  <2>2. CASE status = "killSleep"
    <3>1. head = sleepQueue /\ next[readyQueue] = readyQueue
      BY <2>2 DEF SInv, Emptied
    <3>2. d.next[readyQueue] = readyQueue
      BY <3>1, <1>2, <1>3, <1>4, <1>5, DequeueEffect
    <3> QED BY <2>2, <3>2, <1>1, <1>7 DEF Emptied, pointers
  <2> QED BY <2>1, <2>2
<1> HIDE DEF d
<1>11. Consistent(d, nodes \ {n}, Colour')
  <2>1. Consistent(d, nodes, Colour') /\ d.next[n] = n
    BY <1>3, <1>4, <1>9, DequeueKeeps DEF SInv, d
  <2> QED BY <2>1, <1>3, <1>4, <1>6, FreeKeeps
<1>12. OneEach'
  BY <1>1, <1>5 DEF SInv, OneEach, Carriers, pointers
<1>13. Pointers'
  BY <1>1, <1>5 DEF SInv, Pointers, Carriers, pointers
<1> QED BY <1>1, <1>7, <1>8, <1>10, <1>11, <1>12, <1>13 DEF SInv

LEMMA SInvLoopDone ==
  ASSUME SInv, \/ status = "killReady" /\ LoopDone(readyQueue, "killSleep")
               \/ status = "killSleep" /\ LoopDone(sleepQueue, "killHeads")
  PROVE  SInv'
<1>1. /\ UNCHANGED <<next, prev, process, proc_state, pointers, memory>>
      /\ \/ status = "killReady" /\ status' = "killSleep" /\ next[readyQueue] = readyQueue
         \/ status = "killSleep" /\ status' = "killHeads" /\ next[sleepQueue] = sleepQueue
  BY DEF LoopDone
<1>2. TypeOK'
  BY <1>1 DEF SInv, TypeOK, pointers, memory, Statuses, Alive
<1>3. \A n \in nodes : Colour'[n] = Colour[n]
  BY <1>1 DEF Colour, pointers
<1>4. Pointers' /\ Emptied'
  BY <1>1 DEF SInv, Pointers, Emptied, Carriers, pointers, memory, Alive
<1> QED BY <1>1, <1>2, <1>3, <1>4, SInvQuiet

LEMMA SInvKillHeads == SInv /\ KillHeads => SInv'
<1> SUFFICES ASSUME SInv, KillHeads PROVE SInv'
  OBVIOUS
<1>1. /\ status = "killHeads" /\ UNCHANGED <<next, prev, process, proc_state, pointers>>
      /\ \/ /\ currentProc = NULL /\ status' = "fault" /\ procs' = procs
            /\ nodes' = nodes \ {readyQueue, sleepQueue}
         \/ /\ currentProc # NULL /\ status' = "off"
            /\ nodes' = nodes \ {readyQueue, sleepQueue, currentProc}
            /\ procs' = procs \ {process[currentProc]}
  BY DEF KillHeads
<1>2. /\ readyQueue \in nodes /\ sleepQueue \in nodes /\ readyQueue # sleepQueue
      /\ currentProc \in Carriers \cup {NULL}
      /\ next[readyQueue] = readyQueue /\ next[sleepQueue] = sleepQueue
      /\ currentProc # NULL => next[currentProc] = currentProc
  BY <1>1, CurrentAlone DEF SInv, Pointers, Emptied, Alive
<1>3. ring \in Rings /\ nodes \in SUBSET Nodes /\ ring' = ring /\ ring.next = next
  BY <1>1, RingTyped DEF SInv, ring
<1>4. Consistent(ring, nodes', Colour)
  <2>1. Consistent(ring, nodes \ {readyQueue}, Colour)
    BY <1>2, <1>3, FreeKeeps DEF SInv
  <2>2. Consistent(ring, (nodes \ {readyQueue}) \ {sleepQueue}, Colour)
    BY <2>1, <1>2, <1>3, FreeKeeps
  <2>3. CASE currentProc = NULL
    <3>1. nodes' = (nodes \ {readyQueue}) \ {sleepQueue}
      BY <2>3, <1>1
    <3> QED BY <3>1, <2>2
  <2>4. CASE currentProc # NULL
    <3>1. Consistent(ring, ((nodes \ {readyQueue}) \ {sleepQueue}) \ {currentProc}, Colour)
      BY <2>2, <2>4, <1>2, <1>3, FreeKeeps DEF Carriers
    <3>2. nodes' = ((nodes \ {readyQueue}) \ {sleepQueue}) \ {currentProc}
      BY <2>4, <1>1
    <3> QED BY <3>1, <3>2
  <2> QED BY <2>3, <2>4
<1>5. Colour' = Colour
  BY <1>1 DEF Colour, pointers
<1>6. TypeOK'
  BY <1>1 DEF SInv, TypeOK, pointers, Statuses, Alive
<1>7. OneEach' /\ Pointers' /\ Emptied'
  BY <1>1, <1>2 DEF SInv, OneEach, Pointers, Emptied, Carriers, pointers, Alive
<1> QED BY <1>3, <1>4, <1>5, <1>6, <1>7 DEF SInv

-----------------------------------------------------------------------------
LEMMA SInvStep == SInv /\ [Next]_vars => SInv'
<1> SUFFICES ASSUME SInv, [Next]_vars PROVE SInv'
  OBVIOUS
<1>1. CASE SchedulerInit
  BY <1>1, SInvRestart
<1>2. CASE \E p \in Procs, s \in NewStates : ScheduleProcess(p, s)
  BY <1>2, SInvScheduleProcess
<1>3. CASE ScheduleOutOfMemory \/ ProcSwitchNull \/ KillScheduler
  BY <1>3, SInvFault DEF ScheduleOutOfMemory, ProcSwitchNull, KillScheduler, Statuses, Alive
<1>4. CASE \E s \in {"SLEEPING", "ZOMBIE"} : GiveUp(s)
  BY <1>4, SInvGiveUp
<1>5. CASE ProcSwitch
  BY <1>5, SInvProcSwitch
<1>6. CASE AwakenProcess
  BY <1>6, SInvAwaken
<1>7. CASE KillReady \/ KillSleep
  BY <1>7, SInvFreeFirst, SInvLoopDone DEF KillReady, KillSleep
<1>8. CASE KillHeads
  BY <1>8, SInvKillHeads
<1>9. CASE UNCHANGED vars
  <2>1. status' \in Statuses /\ UNCHANGED <<next, prev, process, proc_state, pointers, memory>>
    BY <1>9 DEF vars, SInv, TypeOK
  <2> QED BY <1>9, <2>1, SInvFault
<1> QED BY <1>1, <1>2, <1>3, <1>4, <1>5, <1>6, <1>7, <1>8, <1>9
        DEF Next, KillSteps, Trapped

LEMMA SInvAlways == Spec => []SInv
  BY InitSInv, SInvStep, PTL DEF Spec

(* Type correctness of scheduler.c.                                        *)
THEOREM SchedulerTypeCorrect == Spec => []TypeOK
<1>1. SInv => TypeOK
  BY DEF SInv
<1> QED BY <1>1, SInvAlways, PTL

(* However processes come, switch, sleep, wake, die and are killed, no     *)
(* node links to freed memory and the two directions of a ring agree       *)
(* (scheduler.c:95-192).                                                   *)
THEOREM RingsStayIntact == Spec => []RingsIntact
<1>1. SInv => RingsIntact
  BY DEF SInv, Consistent, ring, RingsIntact
<1> QED BY <1>1, SInvAlways, PTL

(* Whom procSwitch gives the processor to is READY, and whom awakenProcess *)
(* wakes up was SLEEPING (scheduler.c:98-133).                             *)
FirstsMatch ==
  status \in Alive =>
    /\ next[readyQueue] # readyQueue
         => proc_state[process[next[readyQueue]]] = "READY"
    /\ next[sleepQueue] # sleepQueue
         => proc_state[process[next[sleepQueue]]] = "SLEEPING"

THEOREM OnlyReadyChosen == Spec => []FirstsMatch
<1>1. SInv => FirstsMatch
  <2> SUFFICES ASSUME SInv, status \in Alive PROVE FirstsMatch
    BY DEF FirstsMatch
  <2>1. /\ readyQueue \in nodes /\ sleepQueue \in nodes /\ readyQueue # sleepQueue
        /\ currentProc \notin {readyQueue, sleepQueue} /\ nodes \subseteq Nodes
    BY DEF SInv, TypeOK, Pointers, Carriers, Alive, SchedulerAssumption
  <2>2. Colour[readyQueue] = "READY" /\ Colour[sleepQueue] = "SLEEPING"
    BY <2>1 DEF Colour
  <2>3. /\ next[readyQueue] \in nodes /\ Colour[next[readyQueue]] = "READY"
        /\ next[sleepQueue] \in nodes /\ Colour[next[sleepQueue]] = "SLEEPING"
    BY <2>1, <2>2, Neighbour
  <2>4. ASSUME NEW n \in nodes, n # readyQueue, Colour[n] = "READY"
        PROVE  proc_state[process[n]] = "READY"
    BY <2>4, <2>1 DEF Colour
  <2>5. ASSUME NEW n \in nodes, n # sleepQueue, Colour[n] = "SLEEPING"
        PROVE  proc_state[process[n]] = "SLEEPING"
    BY <2>5, <2>1 DEF Colour
  <2> QED BY <2>3, <2>4, <2>5 DEF FirstsMatch
<1> QED BY <1>1, SInvAlways, PTL
=============================================================================
