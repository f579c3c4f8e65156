----------------------- MODULE SchedulerQueueProofs -------------------------
(***************************************************************************)
(* Proofs about the order of Scheduler's queues: nobody is lost, states    *)
(* match, everything is freed, and scheduler.c implements the two          *)
(* first-in first-out queues of SchedulerSpec, for any number of nodes.    *)
(*                                                                         *)
(* The links of a ring are described by the sequence of nodes that follows *)
(* its head.  queueProc appends to it, dequeueProc takes its tail, and the *)
(* recursive walk that Queue makes along the links, for TLC to evaluate,   *)
(* finds it.                                                               *)
(***************************************************************************)
EXTENDS SchedulerProofs, InductionProofs, SequenceTheorems

(* Node k of the ring of h and q; the head follows the last one.           *)
At(h, q, k) == IF k \in 1 .. Len(q) THEN q[k] ELSE h
Elems(q) == {q[k] : k \in 1 .. Len(q)}

Lined(nxt, h, q) ==
  /\ q \in Seq(Nodes \ {h})
  /\ \A j, k \in 1 .. Len(q) : q[j] = q[k] => j = k
  /\ \A k \in 0 .. Len(q) : nxt[At(h, q, k)] = At(h, q, k + 1)

-----------------------------------------------------------------------------
(* Sequences of nodes.                                                     *)

LEMMA LinedBasics ==
  ASSUME NEW nxt, NEW h, NEW q, Lined(nxt, h, q)
  PROVE  /\ Len(q) \in Nat /\ q \in [1 .. Len(q) -> Nodes]
         /\ Elems(q) \subseteq Nodes \ {h}
         /\ At(h, q, 0) = h /\ At(h, q, Len(q) + 1) = h
         /\ \A k \in 1 .. Len(q) : At(h, q, k) = q[k]
  BY DEF Lined, At, Elems

LEMMA LinedFrame ==
  ASSUME NEW nxt, NEW new, NEW h, NEW q, Lined(nxt, h, q),
         \A n \in Elems(q) \cup {h} : new[n] = nxt[n]
  PROVE  Lined(new, h, q)
<1>1. \A k \in 0 .. Len(q) : At(h, q, k) \in Elems(q) \cup {h}
  BY DEF At, Elems
<1>. QED  BY <1>1 DEF Lined

LEMMA LinedEmpty ==
  ASSUME NEW nxt, NEW h, nxt[h] = h
  PROVE  Lined(nxt, h, <<>>) /\ Elems(<<>>) = {}
  BY DEF Lined, At, Elems

LEMMA EmptyRing ==
  ASSUME NEW nxt, NEW h, NEW q, Lined(nxt, h, q)
  PROVE  /\ nxt[h] = h <=> q = <<>>
         /\ q # <<>> => nxt[h] = q[1] /\ q[1] \in Elems(q) /\ Head(q) = q[1]
<1>1. Len(q) \in Nat /\ q \in Seq(Nodes \ {h})
  BY DEF Lined
<1>2. nxt[h] = At(h, q, 1)
  <2>1. 0 \in 0 .. Len(q) /\ At(h, q, 0) = h
    BY <1>1 DEF At
  <2>. QED  BY <2>1 DEF Lined
<1>3. CASE q = <<>>
  <2>1. Len(q) = 0
    BY <1>3
  <2>. QED  BY <1>2, <1>3, <2>1 DEF At
<1>4. CASE q # <<>>
  <2>1. 1 \in 1 .. Len(q)
    BY <1>1, <1>4
  <2>2. q[1] # h /\ q[1] \in Elems(q)
    BY <2>1, LinedBasics DEF Elems
  <2>. QED  BY <1>1, <1>2, <1>4, <2>1, <2>2 DEF At
<1>. QED  BY <1>3, <1>4

LEMMA LinedAppend ==
  ASSUME NEW nxt, NEW new, NEW h, NEW q, Lined(nxt, h, q),
         NEW t \in Nodes, t # h, t \notin Elems(q),
         new[At(h, q, Len(q))] = t, new[t] = h,
         \A n \in Elems(q) \cup {h} : n # At(h, q, Len(q)) => new[n] = nxt[n]
  PROVE  Lined(new, h, Append(q, t)) /\ Elems(Append(q, t)) = Elems(q) \cup {t}
<1>. DEFINE p == Append(q, t)
            L == Len(q)
<1>1. q \in Seq(Nodes \ {h}) /\ L \in Nat
  BY DEF Lined
<1>2. /\ p \in Seq(Nodes \ {h}) /\ Len(p) = L + 1
      /\ \A k \in 1 .. L : p[k] = q[k]
      /\ p[L + 1] = t
  BY <1>1
<1>. HIDE DEF p
<1>3. Elems(p) = Elems(q) \cup {t}
  <2>1. 1 .. L + 1 = (1 .. L) \cup {L + 1}
    BY <1>1
  <2>. QED  BY <1>2, <2>1 DEF Elems
<1>4. ASSUME NEW j \in 1 .. L + 1, NEW k \in 1 .. L + 1, p[j] = p[k] PROVE j = k
  <2>1. \A i \in 1 .. L : q[i] # t
    BY DEF Elems
  <2>. QED  BY <1>1, <1>2, <1>4, <2>1 DEF Lined
<1>5. ASSUME NEW k \in 0 .. L + 1 PROVE new[At(h, p, k)] = At(h, p, k + 1)
  <2>1. CASE k = L + 1
    <3>1. At(h, p, k) = t /\ At(h, p, k + 1) = h
      BY <1>1, <1>2, <2>1 DEF At
    <3>. QED  BY <3>1
  <2>2. CASE k = L
    <3>1. At(h, p, k) = At(h, q, k) /\ At(h, p, k + 1) = t
      BY <1>1, <1>2, <2>2 DEF At
    <3>. QED  BY <2>2, <3>1
  <2>3. CASE k < L
    <3>1. At(h, p, k) = At(h, q, k) /\ At(h, p, k + 1) = At(h, q, k + 1)
      BY <1>1, <1>2, <2>3 DEF At
    <3>2. At(h, q, k) # At(h, q, L) /\ At(h, q, k) \in Elems(q) \cup {h}
      BY <1>1, <2>3 DEF At, Lined, Elems
    <3>. QED  BY <1>1, <2>3, <3>1, <3>2 DEF Lined
  <2>. QED  BY <1>1, <2>1, <2>2, <2>3
<1>. QED  BY <1>2, <1>3, <1>4, <1>5 DEF Lined, p

LEMMA LinedTail ==
  ASSUME NEW nxt, NEW new, NEW h, NEW q, Lined(nxt, h, q), q # <<>>,
         new[h] = nxt[q[1]],
         \A n \in Elems(q) \ {q[1]} : new[n] = nxt[n]
  PROVE  Lined(new, h, Tail(q)) /\ Elems(Tail(q)) = Elems(q) \ {q[1]}
<1>. DEFINE p == Tail(q)
            L == Len(q)
<1>1. q \in Seq(Nodes \ {h}) /\ L \in Nat \ {0}
  BY DEF Lined
<1>2. /\ p \in Seq(Nodes \ {h}) /\ Len(p) = L - 1
      /\ \A k \in 1 .. L - 1 : p[k] = q[k + 1]
  BY <1>1
<1>. HIDE DEF p
<1>3. \A k \in 2 .. L : q[k] # q[1]
  BY <1>1 DEF Lined
<1>4. Elems(p) = Elems(q) \ {q[1]}
  <2>1. ASSUME NEW n \in Elems(p) PROVE n \in Elems(q) \ {q[1]}
    <3>1. PICK k \in 1 .. L - 1 : n = q[k + 1]
      BY <1>2 DEF Elems
    <3>2. k + 1 \in 2 .. L
      BY <1>1
    <3>. QED  BY <1>3, <3>1, <3>2 DEF Elems
  <2>2. ASSUME NEW n \in Elems(q) \ {q[1]} PROVE n \in Elems(p)
    <3>1. PICK k \in 1 .. L : n = q[k]
      BY DEF Elems
    <3>2. k # 1
      BY <3>1
    <3>3. k - 1 \in 1 .. L - 1 /\ (k - 1) + 1 = k
      BY <1>1, <3>2
    <3>4. p[k - 1] = n
      BY <1>2, <3>1, <3>3
    <3>. QED  BY <1>2, <3>3, <3>4 DEF Elems
  <2>. QED  BY <2>1, <2>2
<1>5. ASSUME NEW j \in 1 .. L - 1, NEW k \in 1 .. L - 1, p[j] = p[k] PROVE j = k
  <2>1. j + 1 \in 1 .. L /\ k + 1 \in 1 .. L
    BY <1>1
  <2>2. q[j + 1] = q[k + 1]
    BY <1>2, <1>5
  <2>3. j + 1 = k + 1
    BY <2>1, <2>2 DEF Lined
  <2>. QED  BY <2>3
<1>6. ASSUME NEW k \in 0 .. L - 1 PROVE new[At(h, p, k)] = At(h, p, k + 1)
  <2>1. At(h, p, k + 1) = At(h, q, k + 2)
    BY <1>1, <1>2 DEF At
  <2>2. nxt[At(h, q, k + 1)] = At(h, q, (k + 1) + 1)
    <3>1. k + 1 \in 0 .. L
      BY <1>1
    <3>. QED  BY <3>1 DEF Lined
  <2>3. CASE k = 0
    BY <1>1, <2>1, <2>2, <2>3 DEF At
  <2>4. CASE k # 0
    <3>1. At(h, p, k) = q[k + 1] /\ At(h, q, k + 1) = q[k + 1] /\ k + 1 \in 2 .. L
      BY <1>1, <1>2, <2>4 DEF At
    <3>2. q[k + 1] \in Elems(q) \ {q[1]}
      BY <1>1, <1>3, <3>1 DEF Elems
    <3>. QED  BY <2>1, <2>2, <3>1, <3>2
  <2>. QED  BY <2>3, <2>4
<1>. QED  BY <1>1, <1>2, <1>4, <1>5, <1>6 DEF Lined, p

-----------------------------------------------------------------------------
(* The walk along the links, as Queue makes it.                            *)

Trail(nxt, h) ==
  LET at[k \in 0 .. Cardinality(Nodes)] == IF k = 0 THEN h ELSE nxt[at[k-1]]
  IN  at

LEMMA RingIsShort ==
  ASSUME NEW nxt, NEW h \in Nodes, NEW q, Lined(nxt, h, q)
  PROVE  Cardinality(Nodes) \in Nat /\ Len(q) + 1 <= Cardinality(Nodes)
<1>. DEFINE f == [k \in 0 .. Len(q) |-> At(h, q, k)]
<1>1. Len(q) \in Nat
  BY LinedBasics
<1>2. f \in Injection(0 .. Len(q), Nodes)
  <2>1. f \in [0 .. Len(q) -> Nodes]
    BY <1>1, LinedBasics DEF At
  <2>2. ASSUME NEW j \in 0 .. Len(q), NEW k \in 0 .. Len(q), f[j] = f[k]
        PROVE  j = k
    <3>1. \A i \in 1 .. Len(q) : q[i] # h
      BY LinedBasics DEF Elems
    <3>. QED  BY <1>1, <2>2, <3>1 DEF At, Lined
  <2>. HIDE DEF f
  <2>3. IsInjective(f)
    <3>1. DOMAIN f = 0 .. Len(q)
      BY <2>1
    <3>. QED  BY <2>2, <3>1 DEF IsInjective
  <2>. QED  BY <2>1, <2>3 DEF Injection
<1>. HIDE DEF f
<1>3. IsFiniteSet(Nodes)
  BY SchedulerAssumption
<1>4. Cardinality(0 .. Len(q)) <= Cardinality(Nodes)
  BY <1>2, <1>3, FS_Injection
<1>5. Cardinality(0 .. Len(q)) = Len(q) + 1
  BY <1>1, FS_Interval
<1>. QED  BY <1>3, <1>4, <1>5, FS_CardinalityType

LEMMA TrailOfRing ==
  ASSUME NEW nxt, NEW h \in Nodes, NEW q, Lined(nxt, h, q)
  PROVE  \A k \in 0 .. Len(q) + 1 : Trail(nxt, h)[k] = At(h, q, k)
<1>. DEFINE N == Cardinality(Nodes)
            T == Trail(nxt, h)
            A == {k \in Nat : k <= Len(q) + 1 => T[k] = At(h, q, k)}
<1>1. Len(q) \in Nat /\ N \in Nat /\ Len(q) + 1 <= N
  BY LinedBasics, RingIsShort
<1>2. T = [k \in 0 .. N |-> IF k = 0 THEN h ELSE nxt[T[k-1]]]
  BY <1>1, RecursiveFunction DEF Trail
<1>. HIDE DEF T, N
<1>3. 0 \in A
  <2>1. T[0] = h
    BY <1>1, <1>2
  <2>. QED  BY <2>1, LinedBasics
<1>4. ASSUME NEW n \in Nat, n \in A PROVE n + 1 \in A
  <2>. SUFFICES ASSUME n + 1 <= Len(q) + 1 PROVE T[n + 1] = At(h, q, n + 1)
    OBVIOUS
  <2>1. T[n + 1] = nxt[T[n]]
    <3>1. n + 1 \in 0 .. N /\ n + 1 # 0 /\ (n + 1) - 1 = n
      BY <1>1
    <3>. QED  BY <1>2, <3>1
  <2>2. T[n] = At(h, q, n) /\ n \in 0 .. Len(q)
    BY <1>1, <1>4
  <2>. QED  BY <2>1, <2>2 DEF Lined
<1>5. Nat \subseteq A
  <2>. HIDE DEF A
  <2>. QED  BY <1>3, <1>4, SetInduction
<1>. QED  BY <1>1, <1>5 DEF T

LEMMA WalkFindsRing ==
  ASSUME NEW h \in Nodes, NEW q, Lined(next, h, q)
  PROVE  /\ Length(h) = Len(q)
         /\ \A k \in 1 .. Len(q) : Hop(h)[k] = q[k]
         /\ QueueNodes(h) = Elems(q)
<1>1. Hop(h) = Trail(next, h)
  BY DEF Hop, Trail
<1>2. /\ Len(q) \in Nat /\ Cardinality(Nodes) \in Nat
      /\ Len(q) + 1 <= Cardinality(Nodes)
      /\ \A k \in 1 .. Len(q) : q[k] # h /\ At(h, q, k) = q[k]
      /\ At(h, q, Len(q) + 1) = h
  BY LinedBasics, RingIsShort DEF Elems
<1>3. \A k \in 0 .. Len(q) + 1 : Hop(h)[k] = At(h, q, k)
  BY <1>1, TrailOfRing
<1>. DEFINE P(k) == Hop(h)[k+1] = h /\ \A j \in 1 .. k : Hop(h)[j] # h
<1>4. Len(q) \in 0 .. Cardinality(Nodes) - 1 /\ P(Len(q))
  BY <1>2, <1>3
<1>5. ASSUME NEW k \in 0 .. Cardinality(Nodes) - 1, P(k) PROVE k = Len(q)
  <2>1. CASE k < Len(q)
    <3>1. k + 1 \in 1 .. Len(q)
      BY <1>2, <2>1
    <3>. QED  BY <1>2, <1>3, <1>5, <3>1
  <2>2. CASE k > Len(q)
    <3>1. Len(q) + 1 \in 1 .. k
      BY <1>2, <2>2
    <3>. QED  BY <1>2, <1>3, <1>5, <3>1
  <2>. QED  BY <1>2, <2>1, <2>2
<1>6. Length(h) = CHOOSE k \in 0 .. Cardinality(Nodes) - 1 : P(k)
  BY DEF Length
<1>. HIDE DEF P
<1>7. Length(h) = Len(q)
  BY <1>4, <1>5, <1>6
<1>8. \A k \in 1 .. Len(q) : Hop(h)[k] = q[k]
  BY <1>2, <1>3
<1>. QED  BY <1>7, <1>8 DEF QueueNodes, Elems

-----------------------------------------------------------------------------
(* The ring operations, on sequences.                                      *)

LEMMA QueueAppends ==
  ASSUME NEW r \in Rings, NEW h \in Nodes, NEW q, Lined(r.next, h, q),
         r.prev[h] = At(h, q, Len(q)),
         NEW t \in Nodes, t # h, t \notin Elems(q)
  PROVE  /\ Lined(queueProc(r, h, t).next, h, Append(q, t))
         /\ Elems(Append(q, t)) = Elems(q) \cup {t}
         /\ \A g, p : /\ Lined(r.next, g, p) /\ g \in Nodes
                      /\ (Elems(p) \cup {g}) \cap (Elems(q) \cup {h, t}) = {}
                      => Lined(queueProc(r, h, t).next, g, p)
<1>. DEFINE all == queueProc(r, h, t)
            new == all.next
            old == r.next
<1>1. \A m \in Nodes :
        all.next[m] = IF m = r.prev[h] THEN t ELSE IF m = t THEN h ELSE r.next[m]
  BY DEF queueProc, Rings
<1>2. /\ Elems(q) \subseteq Nodes /\ At(h, q, Len(q)) \in Elems(q) \cup {h}
      /\ At(h, q, Len(q)) # t
  BY LinedBasics DEF At, Elems
<1>3. /\ new[At(h, q, Len(q))] = t /\ new[t] = h
      /\ \A n \in Elems(q) \cup {h} : n # At(h, q, Len(q)) => new[n] = old[n]
  <2>. HIDE DEF all
  <2>. QED  BY <1>1, <1>2
<1>4. Lined(new, h, Append(q, t)) /\ Elems(Append(q, t)) = Elems(q) \cup {t}
  <2>1. Lined(old, h, q)
    OBVIOUS
  <2>. HIDE DEF new, old
  <2>. QED  BY <1>3, <2>1, LinedAppend
<1>. HIDE DEF all
<1>5. ASSUME NEW g, NEW p, Lined(r.next, g, p), g \in Nodes,
             (Elems(p) \cup {g}) \cap (Elems(q) \cup {h, t}) = {}
      PROVE  Lined(new, g, p)
  <2>1. Elems(p) \cup {g} \subseteq Nodes
    BY <1>5, LinedBasics
  <2>2. \A n \in Elems(p) \cup {g} : new[n] = r.next[n]
    BY <1>1, <1>2, <1>5, <2>1
  <2>. QED  BY <1>5, <2>2, LinedFrame
<1>. QED  BY <1>4, <1>5 DEF all

LEMMA DequeueTakesTail ==
  ASSUME NEW r \in Rings, NEW h \in Nodes, NEW q, Lined(r.next, h, q), q # <<>>,
         r.prev[q[1]] = h
  PROVE  /\ Lined(dequeueProc(r, q[1]).next, h, Tail(q))
         /\ Elems(Tail(q)) = Elems(q) \ {q[1]}
         /\ r.next[q[1]] \in Elems(q) \cup {h}
         /\ \A g, p : /\ Lined(r.next, g, p) /\ g \in Nodes
                      /\ (Elems(p) \cup {g}) \cap (Elems(q) \cup {h}) = {}
                      => Lined(dequeueProc(r, q[1]).next, g, p)
<1>. DEFINE all == dequeueProc(r, q[1])
            new == all.next
            old == r.next
<1>1. q[1] \in Elems(q) /\ Elems(q) \subseteq Nodes \ {h}
  BY EmptyRing, LinedBasics
<1>2. \A m \in Nodes :
        all.next[m] = IF m = q[1] THEN q[1]
                      ELSE IF m = h THEN r.next[q[1]] ELSE r.next[m]
  BY <1>1, DequeueEffect
<1>. HIDE DEF all
<1>3. Lined(new, h, Tail(q)) /\ Elems(Tail(q)) = Elems(q) \ {q[1]}
  <2>1. Lined(old, h, q) /\ new[h] = old[q[1]]
    BY <1>1, <1>2
  <2>2. \A n \in Elems(q) \ {q[1]} : new[n] = old[n]
    BY <1>1, <1>2
  <2>. HIDE DEF new, old
  <2>. QED  BY <2>1, <2>2, LinedTail
<1>4. r.next[q[1]] \in Elems(q) \cup {h}
  <2>1. Len(q) \in Nat /\ 1 \in 0 .. Len(q) /\ At(h, q, 1) = q[1]
    BY <1>1, LinedBasics DEF Elems, At
  <2>2. r.next[q[1]] = At(h, q, 2)
    BY <2>1 DEF Lined
  <2>. QED  BY <2>1, <2>2 DEF At, Elems
<1>5. ASSUME NEW g, NEW p, Lined(r.next, g, p), g \in Nodes,
             (Elems(p) \cup {g}) \cap (Elems(q) \cup {h}) = {}
      PROVE  Lined(new, g, p)
  <2>1. Elems(p) \cup {g} \subseteq Nodes
    BY <1>5, LinedBasics
  <2>2. \A n \in Elems(p) \cup {g} : new[n] = r.next[n]
    BY <1>1, <1>2, <1>5, <2>1
  <2>. QED  BY <1>5, <2>2, LinedFrame
<1>. QED  BY <1>3, <1>4, <1>5 DEF all

-----------------------------------------------------------------------------
(* The inductive invariant: the two rings are those of two sequences, and  *)
(* these hold every node that is neither a head nor the current one.       *)

Queued(rs, ss) ==
  /\ Lined(next, readyQueue, rs) /\ Lined(next, sleepQueue, ss)
  /\ Elems(rs) \cup Elems(ss) = Carriers \ {currentProc}
  /\ \A n \in Elems(rs) : proc_state[process[n]] = "READY"
  /\ \A n \in Elems(ss) : proc_state[process[n]] = "SLEEPING"
  /\ procs = {process[n] : n \in Carriers}

InOrder ==
  /\ status \in Alive => \E rs, ss : Queued(rs, ss)
  /\ status = "off" => nodes = {} /\ procs = {}

LEMMA AliveFacts ==
  ASSUME SInv, status \in Alive
  PROVE  /\ ring \in Rings /\ ring.next = next /\ ring.prev = prev
         /\ nodes \subseteq Nodes /\ NULL \notin Nodes
         /\ readyQueue \in nodes /\ sleepQueue \in nodes
         /\ readyQueue # sleepQueue
         /\ currentProc \in Carriers \cup {NULL}
         /\ Carriers = nodes \ {readyQueue, sleepQueue}
         /\ \A n \in Carriers : process[n] \in procs /\ process[n] \in Procs
         /\ \A m, n \in Carriers : m # n => process[m] # process[n]
         /\ \A n \in nodes : prev[next[n]] = n
<1>1. ring \in Rings /\ ring.next = next /\ ring.prev = prev
  BY RingTyped DEF SInv, ring
<1>2. procs \subseteq Procs /\ nodes \subseteq Nodes
  BY DEF SInv, TypeOK
<1>. QED
  BY <1>1, <1>2, SchedulerAssumption DEF SInv, OneEach, Pointers, Carriers, Consistent

LEMMA QueuedFacts ==
  ASSUME SInv, status \in Alive, NEW rs, NEW ss, Queued(rs, ss)
  PROVE  /\ Elems(rs) \subseteq Carriers \ {currentProc}
         /\ Elems(ss) \subseteq Carriers \ {currentProc}
         /\ Elems(rs) \cap Elems(ss) = {}
         /\ prev[readyQueue] = At(readyQueue, rs, Len(rs))
         /\ prev[sleepQueue] = At(sleepQueue, ss, Len(ss))
         /\ rs # <<>> => rs[1] = next[readyQueue] /\ prev[rs[1]] = readyQueue
         /\ ss # <<>> => ss[1] = next[sleepQueue] /\ prev[ss[1]] = sleepQueue
<1>1. Elems(rs) \subseteq Carriers \ {currentProc} /\ Elems(ss) \subseteq Carriers \ {currentProc}
  BY DEF Queued
<1>2. Elems(rs) \cap Elems(ss) = {}
  BY DEF Queued
<1>3. ASSUME NEW h \in nodes, NEW q, Lined(next, h, q), Elems(q) \subseteq nodes
      PROVE  prev[h] = At(h, q, Len(q))
  <2>1. Len(q) \in Nat /\ At(h, q, Len(q) + 1) = h
    BY <1>3, LinedBasics
  <2>2. next[At(h, q, Len(q))] = h
    BY <1>3, <2>1 DEF Lined
  <2>3. At(h, q, Len(q)) \in nodes
    BY <1>3, <2>1 DEF At, Elems
  <2>. QED  BY <2>2, <2>3, AliveFacts
<1>4. ASSUME NEW h \in nodes, NEW q, Lined(next, h, q), q # <<>>
      PROVE  q[1] = next[h] /\ prev[q[1]] = h
  BY <1>4, EmptyRing, AliveFacts
<1>. QED  BY <1>1, <1>2, <1>3, <1>4, AliveFacts DEF Queued

-----------------------------------------------------------------------------
(* What each action does to the two sequences.                             *)

(* Steps that leave the rings and the memory alone.                        *)
LEMMA QueuedQuiet ==
  ASSUME NEW rs, NEW ss, Queued(rs, ss),
         UNCHANGED <<next, process, proc_state, pointers, memory>>
  PROVE  Queued(rs, ss)'
<1>1. /\ next' = next /\ process' = process /\ proc_state' = proc_state
      /\ readyQueue' = readyQueue /\ sleepQueue' = sleepQueue
      /\ currentProc' = currentProc /\ nodes' = nodes /\ procs' = procs
  BY DEF pointers, memory
<1>2. Carriers' = Carriers
  BY <1>1 DEF Carriers
<1>. QED  BY <1>1, <1>2 DEF Queued

LEMMA InitQueued ==
  ASSUME SInv, InOrder, SchedulerInit
  PROVE  Queued(<<>>, <<>>)'
<1>1. PICK ready \in Nodes \ nodes, sleep \in Nodes \ nodes :
        /\ ready # sleep
        /\ SetRing(selfLink(selfLink(ring, ready), sleep))
        /\ nodes' = nodes \cup {ready, sleep}
        /\ readyQueue' = ready /\ sleepQueue' = sleep
  BY DEF SchedulerInit
<1>2. /\ currentProc' = NULL /\ procs' = procs /\ nodes = {} /\ procs = {}
  BY DEF SchedulerInit, InOrder
<1>3. ring \in Rings
  BY RingTyped DEF SInv
<1>4. next'[ready] = ready /\ next'[sleep] = sleep
  <2>. DEFINE r == selfLink(ring, ready)
  <2>1. r \in Rings /\ r.next[ready] = ready
    BY <1>3, SelfLinkEffect
  <2>. HIDE DEF r
  <2>2. selfLink(r, sleep).next[ready] = ready /\ selfLink(r, sleep).next[sleep] = sleep
    BY <1>1, <2>1, SelfLinkEffect
  <2>3. next' = selfLink(r, sleep).next
    BY <1>1 DEF SetRing, r
  <2>. QED  BY <2>2, <2>3
<1>5. Lined(next', ready, <<>>) /\ Lined(next', sleep, <<>>) /\ Elems(<<>>) = {}
  BY <1>4, LinedEmpty
<1>6. Carriers' = {}
  BY <1>1, <1>2 DEF Carriers
<1>. QED  BY <1>1, <1>2, <1>5, <1>6 DEF Queued

LEMMA GiveUpQueued ==
  ASSUME SInv, NEW rs, NEW ss, Queued(rs, ss), NEW s \in {"SLEEPING", "ZOMBIE"},
         GiveUp(s)
  PROVE  Queued(rs, ss)'
<1>1. /\ status \in Alive /\ currentProc # NULL
      /\ proc_state' = [proc_state EXCEPT ![process[currentProc]] = s]
      /\ next' = next /\ process' = process
      /\ readyQueue' = readyQueue /\ sleepQueue' = sleepQueue
      /\ currentProc' = currentProc /\ nodes' = nodes /\ procs' = procs
  BY DEF GiveUp, Alive, pointers, memory
<1>2. Carriers' = Carriers
  BY <1>1 DEF Carriers
<1>3. \A n \in Carriers \ {currentProc} : proc_state'[process[n]] = proc_state[process[n]]
  <2>1. currentProc \in Carriers
    BY <1>1, AliveFacts
  <2>2. \A n \in Carriers \ {currentProc} : process[n] # process[currentProc]
    BY <1>1, <2>1, AliveFacts
  <2>. QED  BY <1>1, <2>2 DEF SInv, TypeOK
<1>. QED  BY <1>1, <1>2, <1>3 DEF Queued

(* A new process gets the processor or the last place of a queue.          *)
AfterSchedule(rs, ss, s, n) ==
  IF s = "READY" /\ currentProc = NULL THEN Queued(rs, ss)'
  ELSE IF s = "READY" THEN Queued(Append(rs, n), ss)'
  ELSE Queued(rs, Append(ss, n))'

LEMMA ScheduleQueued ==
  ASSUME SInv, NEW rs, NEW ss, Queued(rs, ss),
         NEW p \in Procs, NEW s \in NewStates, ScheduleProcess(p, s)
  PROVE  \E n \in Nodes \ nodes :
           /\ nodes' = nodes \cup {n}
           /\ process' = [process EXCEPT ![n] = p]
           /\ currentProc' = IF s = "READY" /\ currentProc = NULL THEN n ELSE currentProc
           /\ AfterSchedule(rs, ss, s, n)
<1>. DEFINE takes == s = "READY" /\ currentProc = NULL
<1>1. PICK n \in Nodes \ nodes :
        /\ nodes' = nodes \cup {n}
        /\ process' = [process EXCEPT ![n] = p]
        /\ proc_state' = [proc_state EXCEPT ![p] = IF takes THEN "RUNNING" ELSE s]
        /\ currentProc' = IF takes THEN n ELSE currentProc
        /\ SetRing(IF takes THEN selfLink(ring, n)
                   ELSE rescheduleProcess(selfLink(ring, n), n, s))
  BY DEF ScheduleProcess
<1>2. /\ status \in Alive /\ p \notin procs /\ procs' = procs \cup {p}
      /\ readyQueue' = readyQueue /\ sleepQueue' = sleepQueue
      /\ s \in {"READY", "SLEEPING"}
  BY SchedulerAssumption DEF ScheduleProcess, Alive
<1>. DEFINE r == selfLink(ring, n)
<1>3. /\ r \in Rings
      /\ \A m \in Nodes : /\ r.next[m] = IF m = n THEN n ELSE next[m]
                          /\ r.prev[m] = IF m = n THEN n ELSE prev[m]
  <2>1. ring \in Rings /\ ring.next = next /\ ring.prev = prev
    BY <1>2, AliveFacts
  <2>2. n \in Nodes
    OBVIOUS
  <2>3. /\ r \in Rings
        /\ \A m \in Nodes : /\ r.next[m] = IF m = n THEN n ELSE ring.next[m]
                            /\ r.prev[m] = IF m = n THEN n ELSE ring.prev[m]
    BY <2>1, <2>2, SelfLinkEffect
  <2>. HIDE DEF r
  <2>. QED  BY <2>1, <2>3
<1>. HIDE DEF r
<1>4. Elems(rs) \subseteq nodes /\ Elems(ss) \subseteq nodes /\ nodes \subseteq Nodes
  BY <1>2, QueuedFacts, AliveFacts
<1>5. Lined(r.next, readyQueue, rs) /\ Lined(r.next, sleepQueue, ss)
  <2>. DEFINE old == next
              new == r.next
  <2>1. \A m \in nodes : new[m] = old[m]
    BY <1>1, <1>3, <1>4
  <2>2. Lined(old, readyQueue, rs) /\ Lined(old, sleepQueue, ss)
    BY DEF Queued
  <2>. HIDE DEF new, old
  <2>3. /\ \A m \in Elems(rs) \cup {readyQueue} : new[m] = old[m]
        /\ \A m \in Elems(ss) \cup {sleepQueue} : new[m] = old[m]
    BY <1>2, <1>4, <2>1, AliveFacts
  <2>4. Lined(new, readyQueue, rs) /\ Lined(new, sleepQueue, ss)
    BY <2>2, <2>3, LinedFrame
  <2>. QED  BY <2>4 DEF new
<1>6. /\ r.prev[readyQueue] = At(readyQueue, rs, Len(rs))
      /\ r.prev[sleepQueue] = At(sleepQueue, ss, Len(ss))
  BY <1>1, <1>2, <1>3, QueuedFacts, AliveFacts
<1>7. Carriers' = Carriers \cup {n}
  BY <1>1, <1>2, AliveFacts DEF Carriers
<1>8. procs' = {process'[m] : m \in Carriers'}
  BY <1>1, <1>2, <1>4, <1>7, AliveFacts DEF Queued, SInv, TypeOK
<1>9. /\ \A m \in Carriers : proc_state'[process'[m]] = proc_state[process[m]]
      /\ ~ takes => proc_state'[process'[n]] = s
  BY <1>1, <1>2, <1>4, AliveFacts DEF SInv, TypeOK
<1>10. CASE takes
  <2>1. next' = r.next
    BY <1>1, <1>10 DEF SetRing, r
  <2>2. Elems(rs) \cup Elems(ss) = Carriers' \ {currentProc'}
    BY <1>1, <1>2, <1>4, <1>7, <1>10, AliveFacts DEF Queued
  <2>3. Queued(rs, ss)'
    BY <1>2, <1>5, <1>8, <1>9, <2>1, <2>2, QueuedFacts DEF Queued
  <2>. QED  BY <1>1, <1>10, <2>3 DEF AfterSchedule
<1>11. CASE ~ takes /\ s = "READY"
  <2>1. next' = queueProc(r, readyQueue, n).next
    BY <1>1, <1>11 DEF SetRing, rescheduleProcess, r
  <2>2. /\ Lined(next', readyQueue, Append(rs, n)) /\ Lined(next', sleepQueue, ss)
        /\ Elems(Append(rs, n)) = Elems(rs) \cup {n}
    <3>1. /\ readyQueue \in Nodes /\ n \in Nodes /\ n # readyQueue /\ n \notin Elems(rs)
          /\ sleepQueue \in Nodes
          /\ (Elems(ss) \cup {sleepQueue}) \cap (Elems(rs) \cup {readyQueue, n}) = {}
      BY <1>1, <1>2, <1>4, AliveFacts, QueuedFacts
    <3>2. r \in Rings /\ Lined(r.next, readyQueue, rs) /\ Lined(r.next, sleepQueue, ss)
      BY <1>3, <1>5
    <3>3. /\ Lined(queueProc(r, readyQueue, n).next, readyQueue, Append(rs, n))
          /\ Elems(Append(rs, n)) = Elems(rs) \cup {n}
      BY <1>6, <3>1, <3>2, QueueAppends
    <3>4. Lined(queueProc(r, readyQueue, n).next, sleepQueue, ss)
      BY <1>6, <3>1, <3>2, QueueAppends
    <3>. QED  BY <2>1, <3>3, <3>4
  <2>3. Elems(Append(rs, n)) \cup Elems(ss) = Carriers' \ {currentProc'}
    BY <1>1, <1>2, <1>4, <1>7, <1>11, <2>2, AliveFacts DEF Queued
  <2>4. Queued(Append(rs, n), ss)'
    BY <1>2, <1>8, <1>9, <1>11, <2>2, <2>3, QueuedFacts DEF Queued
  <2>. QED  BY <1>1, <1>11, <2>4 DEF AfterSchedule
<1>12. CASE s = "SLEEPING"
  <2>1. next' = queueProc(r, sleepQueue, n).next
    BY <1>1, <1>12 DEF SetRing, rescheduleProcess, r
  <2>2. /\ Lined(next', sleepQueue, Append(ss, n)) /\ Lined(next', readyQueue, rs)
        /\ Elems(Append(ss, n)) = Elems(ss) \cup {n}
    <3>1. /\ sleepQueue \in Nodes /\ n \in Nodes /\ n # sleepQueue /\ n \notin Elems(ss)
          /\ readyQueue \in Nodes
          /\ (Elems(rs) \cup {readyQueue}) \cap (Elems(ss) \cup {sleepQueue, n}) = {}
      BY <1>1, <1>2, <1>4, AliveFacts, QueuedFacts
    <3>. QED  BY <1>3, <1>5, <1>6, <2>1, <3>1, QueueAppends
  <2>3. Elems(rs) \cup Elems(Append(ss, n)) = Carriers' \ {currentProc'}
    BY <1>1, <1>2, <1>4, <1>7, <1>12, <2>2, AliveFacts DEF Queued
  <2>4. Queued(rs, Append(ss, n))'
    BY <1>2, <1>8, <1>9, <1>12, <2>2, <2>3, QueuedFacts DEF Queued
  <2>. QED  BY <1>1, <1>12, <2>4 DEF AfterSchedule
<1>. QED  BY <1>2, <1>10, <1>11, <1>12

(* The first sleeper goes to the end of the ready queue.                   *)
LEMMA AwakenQueued ==
  ASSUME SInv, NEW rs, NEW ss, Queued(rs, ss), AwakenProcess
  PROVE  /\ ss # <<>> /\ ss[1] \in Carriers
         /\ Queued(Append(rs, ss[1]), Tail(ss))'
<1>. DEFINE n == ss[1]
            d == dequeueProc(ring, n)
            q == queueProc(d, readyQueue, n)
<1>1. /\ status \in Alive /\ next[sleepQueue] # sleepQueue
      /\ Lined(next, readyQueue, rs) /\ Lined(next, sleepQueue, ss)
  BY DEF AwakenProcess, Alive, Queued
<1>2. ss # <<>> /\ n = next[sleepQueue] /\ n \in Elems(ss) /\ prev[n] = sleepQueue
  BY <1>1, EmptyRing, QueuedFacts
<1>3. /\ status \in Alive
      /\ proc_state' = [proc_state EXCEPT ![process[n]] = "READY"]
      /\ next' = q.next /\ process' = process
      /\ readyQueue' = readyQueue /\ sleepQueue' = sleepQueue
      /\ currentProc' = currentProc /\ nodes' = nodes /\ procs' = procs
  BY <1>1, <1>2 DEF AwakenProcess, rescheduleProcess, SetRing, pointers, memory
<1>4. /\ ring \in Rings /\ ring.next = next /\ ring.prev = prev
      /\ readyQueue \in Nodes /\ sleepQueue \in Nodes /\ readyQueue # sleepQueue
      /\ n \in Nodes /\ n \in Carriers \ {currentProc}
      /\ n # readyQueue /\ n # sleepQueue /\ n \notin Elems(rs)
      /\ (Elems(rs) \cup {readyQueue}) \cap (Elems(ss) \cup {sleepQueue}) = {}
  BY <1>1, <1>2, AliveFacts, QueuedFacts
<1>. HIDE DEF n
<1>5. /\ Lined(d.next, sleepQueue, Tail(ss)) /\ Elems(Tail(ss)) = Elems(ss) \ {n}
      /\ Lined(d.next, readyQueue, rs)
      /\ next[n] \in Elems(ss) \cup {sleepQueue}
  <2>1. Lined(ring.next, sleepQueue, ss) /\ Lined(ring.next, readyQueue, rs)
    BY <1>1, <1>4
  <2>. QED  BY <2>1, <1>2, <1>4, DequeueTakesTail DEF n
<1>6. d \in Rings /\ d.prev[readyQueue] = At(readyQueue, rs, Len(rs))
  <2>1. next[n] # readyQueue
    BY <1>4, <1>5
  <2>2. d.prev[readyQueue] = prev[readyQueue]
    BY <2>1, <1>4, DequeueEffect
  <2>. QED  BY <2>2, <1>3, <1>4, DequeueEffect, QueuedFacts
<1>. HIDE DEF d
<1>7. /\ Lined(q.next, readyQueue, Append(rs, n)) /\ Lined(q.next, sleepQueue, Tail(ss))
      /\ Elems(Append(rs, n)) = Elems(rs) \cup {n}
  <2>1. (Elems(Tail(ss)) \cup {sleepQueue}) \cap (Elems(rs) \cup {readyQueue, n}) = {}
    BY <1>4, <1>5
  <2>2. /\ Lined(q.next, readyQueue, Append(rs, n))
        /\ Elems(Append(rs, n)) = Elems(rs) \cup {n}
    BY <1>4, <1>5, <1>6, QueueAppends
  <2>3. Lined(q.next, sleepQueue, Tail(ss))
    BY <2>1, <1>4, <1>5, <1>6, QueueAppends
  <2>. QED  BY <2>2, <2>3
<1>8. Carriers' = Carriers
  BY <1>3 DEF Carriers
<1>9. /\ Elems(Append(rs, n)) \cup Elems(Tail(ss)) = Carriers' \ {currentProc'}
      /\ procs' = {process'[m] : m \in Carriers'}
  BY <1>3, <1>2, <1>5, <1>7, <1>8 DEF Queued
<1>10. /\ proc_state'[process'[n]] = "READY"
       /\ \A m \in Carriers \ {n} : proc_state'[process'[m]] = proc_state[process[m]]
  <2>1. /\ process[n] \in Procs
        /\ \A m \in Carriers \ {n} : process[m] # process[n]
    BY <1>3, <1>4, AliveFacts
  <2>. QED  BY <1>3, <2>1 DEF SInv, TypeOK
<1>11. Elems(rs) \subseteq Carriers \ {n} /\ Elems(ss) \subseteq Carriers
  BY <1>3, <1>4, QueuedFacts
<1>12. /\ \A m \in Elems(Append(rs, n)) : proc_state'[process'[m]] = "READY"
       /\ \A m \in Elems(Tail(ss)) : proc_state'[process'[m]] = "SLEEPING"
  BY <1>5, <1>7, <1>10, <1>11 DEF Queued
<1>13. Queued(Append(rs, ss[1]), Tail(ss))'
  <2>1. Lined(next', readyQueue', Append(rs, n)) /\ Lined(next', sleepQueue', Tail(ss))
    BY <1>3, <1>7
  <2>. QED  BY <2>1, <1>9, <1>12 DEF Queued, n
<1>. QED  BY <1>2, <1>4, <1>13 DEF n

(* The current process goes where its state says, and the first of the     *)
(* ready ones takes its place.                                             *)
Goes == IF proc_state[process[currentProc]] = "RUNNING" THEN "READY"
        ELSE proc_state[process[currentProc]]
Joins(q, s, here) == IF s = here THEN Append(q, currentProc) ELSE q

LEMMA RejoinQueued ==
  ASSUME SInv, NEW rs, NEW ss, Queued(rs, ss), status \in Alive, currentProc # NULL,
         rs # <<>>,
         NEW s \in {"READY", "SLEEPING", "ZOMBIE"}
  PROVE  LET r      == rescheduleProcess(ring, currentProc, s)
             new    == Joins(rs, s, "READY")
             asleep == Joins(ss, s, "SLEEPING")
         IN  /\ r \in Rings
             /\ Lined(r.next, readyQueue, new) /\ Lined(r.next, sleepQueue, asleep)
             /\ Elems(new) = Elems(rs) \cup (IF s = "READY" THEN {currentProc} ELSE {})
             /\ Elems(asleep) = Elems(ss) \cup
                                  (IF s = "SLEEPING" THEN {currentProc} ELSE {})
             /\ new # <<>> /\ new[1] = rs[1] /\ r.prev[rs[1]] = readyQueue
<1>. DEFINE c == currentProc
            r == rescheduleProcess(ring, currentProc, s)
            new == Joins(rs, s, "READY")
            asleep == Joins(ss, s, "SLEEPING")
<1>. SUFFICES /\ r \in Rings
              /\ Lined(r.next, readyQueue, new) /\ Lined(r.next, sleepQueue, asleep)
              /\ Elems(new) = Elems(rs) \cup (IF s = "READY" THEN {c} ELSE {})
              /\ Elems(asleep) = Elems(ss) \cup (IF s = "SLEEPING" THEN {c} ELSE {})
              /\ new # <<>> /\ new[1] = rs[1] /\ r.prev[rs[1]] = readyQueue
  OBVIOUS
<1>1. /\ ring \in Rings /\ ring.next = next /\ ring.prev = prev
      /\ readyQueue \in Nodes /\ sleepQueue \in Nodes /\ readyQueue # sleepQueue
      /\ c \in Nodes /\ c # readyQueue /\ c # sleepQueue
      /\ c \notin Elems(rs) /\ c \notin Elems(ss)
      /\ (Elems(rs) \cup {readyQueue}) \cap (Elems(ss) \cup {sleepQueue, c}) = {}
      /\ (Elems(ss) \cup {sleepQueue}) \cap (Elems(rs) \cup {readyQueue, c}) = {}
  BY AliveFacts, QueuedFacts
<1>2. /\ Lined(ring.next, readyQueue, rs) /\ Lined(ring.next, sleepQueue, ss)
      /\ ring.prev[readyQueue] = At(readyQueue, rs, Len(rs))
      /\ ring.prev[sleepQueue] = At(sleepQueue, ss, Len(ss))
      /\ prev[rs[1]] = readyQueue
  BY <1>1, QueuedFacts DEF Queued
<1>3. /\ rs[1] \in Elems(rs) /\ rs[1] \in Nodes
      /\ rs[1] # readyQueue /\ rs[1] # sleepQueue /\ rs[1] # c
      /\ Append(rs, c)[1] = rs[1] /\ Append(rs, c) # <<>>
  <2>1. rs[1] \in Elems(rs) /\ Elems(rs) \subseteq Nodes
    BY <1>2, EmptyRing, LinedBasics
  <2>2. rs \in Seq(Nodes \ {readyQueue})
    BY <1>2 DEF Lined
  <2>3. Append(rs, c)[1] = rs[1] /\ Append(rs, c) # <<>>
    BY <2>2
  <2>4. rs[1] # readyQueue /\ rs[1] # sleepQueue /\ rs[1] # c
    BY <1>1, <1>2, <2>1, LinedBasics
  <2>. QED  BY <2>1, <2>3, <2>4
<1>. HIDE DEF c, r
<1>4. CASE s = "READY"
  <2>1. r = queueProc(ring, readyQueue, c)
    BY <1>4 DEF rescheduleProcess, r, c
  <2>2. /\ Lined(r.next, readyQueue, Append(rs, c))
        /\ Elems(Append(rs, c)) = Elems(rs) \cup {c}
    BY <1>1, <1>2, <2>1, QueueAppends
  <2>3. Lined(r.next, sleepQueue, ss)
    BY <1>1, <1>2, <2>1, QueueAppends
  <2>. DEFINE all == queueProc(ring, readyQueue, c)
  <2>4. /\ all \in Rings
        /\ \A m \in Nodes : all.prev[m] = IF m = readyQueue THEN c
                                ELSE IF m = c THEN ring.prev[readyQueue] ELSE ring.prev[m]
    <3>1. ring \in Rings /\ readyQueue \in Nodes /\ c \in Nodes
      BY <1>1
    <3>. QED  BY <3>1, QueueEffect
  <2>. HIDE DEF all
  <2>5. r \in Rings /\ r.prev[rs[1]] = readyQueue
    <3>1. r = all
      BY <2>1 DEF all
    <3>. QED  BY <1>1, <1>2, <1>3, <2>4, <3>1
  <2>6. new = Append(rs, c) /\ asleep = ss
    BY <1>4 DEF Joins, c
  <2>. HIDE DEF new, asleep, all
  <2>. QED  BY <1>3, <1>4, <2>2, <2>3, <2>5, <2>6
<1>5. CASE s = "SLEEPING"
  <2>1. r = queueProc(ring, sleepQueue, c)
    BY <1>5 DEF rescheduleProcess, r, c
  <2>2. /\ Lined(r.next, sleepQueue, Append(ss, c))
        /\ Elems(Append(ss, c)) = Elems(ss) \cup {c}
    BY <1>1, <1>2, <2>1, QueueAppends
  <2>3. Lined(r.next, readyQueue, rs)
    BY <1>1, <1>2, <2>1, QueueAppends
  <2>. DEFINE all == queueProc(ring, sleepQueue, c)
  <2>4. /\ all \in Rings
        /\ \A m \in Nodes : all.prev[m] = IF m = sleepQueue THEN c
                                ELSE IF m = c THEN ring.prev[sleepQueue] ELSE ring.prev[m]
    <3>1. ring \in Rings /\ sleepQueue \in Nodes /\ c \in Nodes
      BY <1>1
    <3>. QED  BY <3>1, QueueEffect
  <2>. HIDE DEF all
  <2>5. r \in Rings /\ r.prev[rs[1]] = readyQueue
    <3>1. r = all
      BY <2>1 DEF all
    <3>. QED  BY <1>1, <1>2, <1>3, <2>4, <3>1
  <2>6. new = rs /\ asleep = Append(ss, c)
    BY <1>5 DEF Joins, c
  <2>. HIDE DEF new, asleep, all
  <2>. QED  BY <1>3, <1>5, <2>2, <2>3, <2>5, <2>6
<1>6. CASE s = "ZOMBIE"
  <2>1. r = ring
    BY <1>6 DEF rescheduleProcess, r
  <2>2. new = rs /\ asleep = ss
    BY <1>6 DEF Joins
  <2>. HIDE DEF new, asleep
  <2>. QED  BY <1>1, <1>2, <1>6, <2>1, <2>2
<1>. QED  BY <1>4, <1>5, <1>6

LEMMA SwitchQueued ==
  ASSUME SInv, NEW rs, NEW ss, Queued(rs, ss), ProcSwitch
  PROVE  \E c \in Carriers, s \in {"READY", "SLEEPING", "ZOMBIE"} :
           /\ c = currentProc /\ s = Goes
           /\ rs # <<>> /\ rs[1] \in Carriers /\ currentProc' = rs[1]
           /\ proc_state' = [proc_state EXCEPT ![process[c]] = s]
           /\ Queued(Tail(IF s = "READY" THEN Append(rs, c) ELSE rs),
                     IF s = "SLEEPING" THEN Append(ss, c) ELSE ss)'
<1>1. PICK c \in Carriers, s \in {"READY", "SLEEPING", "ZOMBIE"} :
        c = currentProc /\ s = Goes
  <2>1. currentProc \in Carriers /\ process[currentProc] \in Procs
    BY AliveFacts DEF ProcSwitch, Alive
  <2>2. Goes \in {"READY", "SLEEPING", "ZOMBIE"}
    BY <2>1 DEF Goes, SInv, TypeOK, States
  <2>. QED  BY <2>1, <2>2
<1>2. PICK r : r = rescheduleProcess(ring, c, s)
  OBVIOUS
<1>3. /\ status \in Alive /\ next[readyQueue] # readyQueue /\ c # NULL
      /\ proc_state' = [proc_state EXCEPT ![process[c]] = s]
      /\ next' = dequeueProc(r, r.next[readyQueue]).next
      /\ currentProc' = r.next[readyQueue]
      /\ IF s = "ZOMBIE" THEN nodes' = nodes \ {c} /\ procs' = procs \ {process[c]}
                         ELSE nodes' = nodes /\ procs' = procs
      /\ process' = process /\ readyQueue' = readyQueue /\ sleepQueue' = sleepQueue
  <2>1. /\ status \in Alive /\ next[readyQueue] # readyQueue /\ currentProc # NULL
        /\ proc_state' = [proc_state EXCEPT ![process[currentProc]] = Goes]
        /\ LET q == rescheduleProcess(ring, currentProc, Goes)
           IN  /\ SetRing(dequeueProc(q, q.next[readyQueue]))
               /\ currentProc' = q.next[readyQueue]
        /\ IF Goes = "ZOMBIE" THEN endProcess(currentProc) ELSE UNCHANGED memory
        /\ process' = process /\ readyQueue' = readyQueue /\ sleepQueue' = sleepQueue
    BY DEF ProcSwitch, SomeoneReady, Goes, Alive
  <2>. QED  BY <1>1, <1>2, <2>1 DEF SetRing, endProcess, memory
<1>4. PICK new, asleep :
        /\ new = Joins(rs, s, "READY")
        /\ asleep = Joins(ss, s, "SLEEPING")
  OBVIOUS
<1>5. /\ Lined(next, readyQueue, rs) /\ rs # <<>>
      /\ rs[1] \in Elems(rs)
  BY <1>3, EmptyRing DEF Queued
<1>6. /\ r \in Rings
      /\ Lined(r.next, readyQueue, new) /\ Lined(r.next, sleepQueue, asleep)
      /\ Elems(new) = Elems(rs) \cup (IF s = "READY" THEN {c} ELSE {})
      /\ Elems(asleep) = Elems(ss) \cup (IF s = "SLEEPING" THEN {c} ELSE {})
      /\ new # <<>> /\ new[1] = rs[1] /\ r.prev[new[1]] = readyQueue
  <2>1. status \in Alive /\ currentProc # NULL /\ rs # <<>>
    BY <1>1, <1>3, <1>5
  <2>2. /\ r = rescheduleProcess(ring, currentProc, s)
        /\ new = Joins(rs, s, "READY") /\ asleep = Joins(ss, s, "SLEEPING")
    BY <1>1, <1>2, <1>4
  <2>3. /\ r \in Rings
        /\ Lined(r.next, readyQueue, new) /\ Lined(r.next, sleepQueue, asleep)
        /\ Elems(new) = Elems(rs) \cup (IF s = "READY" THEN {currentProc} ELSE {})
        /\ Elems(asleep) = Elems(ss) \cup (IF s = "SLEEPING" THEN {currentProc} ELSE {})
        /\ new # <<>> /\ new[1] = rs[1] /\ r.prev[rs[1]] = readyQueue
    BY <2>1, <2>2, RejoinQueued
  <2>. QED  BY <1>1, <2>3
<1>7. r.next[readyQueue] = new[1]
  BY <1>6, EmptyRing
<1>8. /\ readyQueue \in Nodes /\ sleepQueue \in Nodes /\ readyQueue # sleepQueue
      /\ c # readyQueue /\ c # sleepQueue
      /\ Elems(rs) \cap Elems(ss) = {}
      /\ Elems(rs) \cup Elems(ss) = Carriers \ {c}
      /\ Carriers = nodes \ {readyQueue, sleepQueue}
  BY <1>1, <1>3, AliveFacts, QueuedFacts DEF Queued
<1>9. /\ Lined(next', readyQueue, Tail(new)) /\ Lined(next', sleepQueue, asleep)
      /\ Elems(Tail(new)) = Elems(new) \ {new[1]}
  <2>1. (Elems(asleep) \cup {sleepQueue}) \cap (Elems(new) \cup {readyQueue}) = {}
    BY <1>1, <1>6, <1>8
  <2>2. next' = dequeueProc(r, new[1]).next
    BY <1>3, <1>7
  <2>3. /\ Lined(next', readyQueue, Tail(new))
        /\ Elems(Tail(new)) = Elems(new) \ {new[1]}
    BY <1>6, <1>8, <2>2, DequeueTakesTail
  <2>4. Lined(next', sleepQueue, asleep)
    BY <1>6, <1>8, <2>1, <2>2, DequeueTakesTail
  <2>. QED  BY <2>3, <2>4
<1>10. Carriers' = IF s = "ZOMBIE" THEN Carriers \ {c} ELSE Carriers
  BY <1>3 DEF Carriers
<1>11. Elems(Tail(new)) \cup Elems(asleep) = Carriers' \ {currentProc'}
  BY <1>3, <1>5, <1>6, <1>7, <1>8, <1>9, <1>10
<1>12. /\ \A m, n \in Carriers : m # n => process[m] # process[n]
       /\ \A n \in Carriers : process[n] \in Procs
       /\ procs = {process[n] : n \in Carriers}
  BY <1>3, AliveFacts DEF Queued
<1>13. procs' = {process'[n] : n \in Carriers'}
  BY <1>3, <1>10, <1>12
<1>14. /\ proc_state'[process'[c]] = s
       /\ \A m \in Carriers \ {c} : proc_state'[process'[m]] = proc_state[process[m]]
  BY <1>3, <1>12 DEF SInv, TypeOK
<1>15. /\ \A n \in Elems(Tail(new)) : proc_state'[process'[n]] = "READY"
       /\ \A n \in Elems(asleep) : proc_state'[process'[n]] = "SLEEPING"
  BY <1>6, <1>8, <1>9, <1>14 DEF Queued
<1>16. Queued(Tail(new), asleep)'
  BY <1>3, <1>9, <1>11, <1>13, <1>15 DEF Queued
<1>17. /\ new = IF s = "READY" THEN Append(rs, c) ELSE rs
       /\ asleep = IF s = "SLEEPING" THEN Append(ss, c) ELSE ss
  BY <1>1, <1>4 DEF Joins
<1>. QED  BY <1>1, <1>3, <1>5, <1>6, <1>7, <1>8, <1>16, <1>17

(* killScheduler's loops drop the first of a queue.                        *)
LEMMA DropQueued ==
  ASSUME SInv, NEW rs, NEW ss, Queued(rs, ss), status \in Alive,
         NEW h \in {readyQueue, sleepQueue}, FreeFirst(h)
  PROVE  \/ h = readyQueue /\ rs # <<>> /\ Queued(Tail(rs), ss)'
         \/ h = sleepQueue /\ ss # <<>> /\ Queued(rs, Tail(ss))'
<1>1. /\ ring \in Rings /\ ring.next = next
      /\ readyQueue \in Nodes /\ sleepQueue \in Nodes /\ readyQueue # sleepQueue
      /\ Carriers = nodes \ {readyQueue, sleepQueue}
      /\ \A m, n \in Carriers : m # n => process[m] # process[n]
  BY AliveFacts
<1>2. /\ Lined(next, readyQueue, rs) /\ Lined(next, sleepQueue, ss)
      /\ (Elems(rs) \cup {readyQueue}) \cap (Elems(ss) \cup {sleepQueue}) = {}
      /\ Elems(rs) \cup Elems(ss) = Carriers \ {currentProc}
      /\ procs = {process[n] : n \in Carriers}
  BY <1>1, QueuedFacts DEF Queued
<1>3. /\ next[h] # h
      /\ next' = dequeueProc(ring, next[h]).next
      /\ nodes' = nodes \ {next[h]} /\ procs' = procs \ {process[next[h]]}
      /\ process' = process /\ proc_state' = proc_state
      /\ readyQueue' = readyQueue /\ sleepQueue' = sleepQueue
      /\ currentProc' = currentProc
  BY DEF FreeFirst, SetRing, endProcess, pointers
<1>4. ASSUME NEW n \in Carriers, n = next[h]
      PROVE  /\ Carriers' = Carriers \ {n}
             /\ procs' = {process'[m] : m \in Carriers'}
  <2>1. Carriers' = Carriers \ {n}
    BY <1>3, <1>4 DEF Carriers
  <2>. QED  BY <2>1, <1>1, <1>2, <1>3, <1>4
<1>5. CASE h = readyQueue
  <2>1. rs # <<>> /\ rs[1] = next[h] /\ rs[1] \in Elems(rs) /\ prev[rs[1]] = h
    BY <1>2, <1>3, <1>5, EmptyRing, QueuedFacts
  <2>2. ring.prev[rs[1]] = h
    BY <2>1, AliveFacts
  <2>3. /\ Lined(next', readyQueue, Tail(rs)) /\ Elems(Tail(rs)) = Elems(rs) \ {rs[1]}
        /\ Lined(next', sleepQueue, ss)
    <3>1. /\ next' = dequeueProc(ring, rs[1]).next
          /\ Lined(ring.next, readyQueue, rs) /\ Lined(ring.next, sleepQueue, ss)
          /\ (Elems(ss) \cup {sleepQueue}) \cap (Elems(rs) \cup {readyQueue}) = {}
      BY <1>1, <1>2, <1>3, <2>1
    <3>. QED  BY <1>1, <1>5, <2>1, <2>2, <3>1, DequeueTakesTail
  <2>4. rs[1] \in Carriers /\ rs[1] \notin Elems(ss)
    BY <1>2, <2>1
  <2>5. Elems(Tail(rs)) \cup Elems(ss) = Carriers' \ {currentProc'}
    BY <1>2, <1>3, <1>4, <2>1, <2>3, <2>4
  <2>6. Queued(Tail(rs), ss)'
    BY <1>3, <1>4, <2>1, <2>3, <2>4, <2>5 DEF Queued
  <2>. QED  BY <1>5, <2>1, <2>6
<1>6. CASE h = sleepQueue
  <2>1. ss # <<>> /\ ss[1] = next[h] /\ ss[1] \in Elems(ss) /\ prev[ss[1]] = h
    BY <1>2, <1>3, <1>6, EmptyRing, QueuedFacts
  <2>2. ring.prev[ss[1]] = h
    BY <2>1, AliveFacts
  <2>3. /\ Lined(next', sleepQueue, Tail(ss)) /\ Elems(Tail(ss)) = Elems(ss) \ {ss[1]}
        /\ Lined(next', readyQueue, rs)
    <3>1. /\ next' = dequeueProc(ring, ss[1]).next
          /\ Lined(ring.next, readyQueue, rs) /\ Lined(ring.next, sleepQueue, ss)
      BY <1>1, <1>2, <1>3, <2>1
    <3>. QED  BY <1>1, <1>2, <1>6, <2>1, <2>2, <3>1, DequeueTakesTail
  <2>4. ss[1] \in Carriers /\ ss[1] \notin Elems(rs)
    BY <1>2, <2>1
  <2>5. Elems(rs) \cup Elems(Tail(ss)) = Carriers' \ {currentProc'}
    BY <1>2, <1>3, <1>4, <2>1, <2>3, <2>4
  <2>6. Queued(rs, Tail(ss))'
    BY <1>3, <1>4, <2>1, <2>3, <2>4, <2>5 DEF Queued
  <2>. QED  BY <1>6, <2>1, <2>6
<1>. QED  BY <1>5, <1>6

(* With both queues empty the heads and the current process are all that   *)
(* is left.                                                                *)
LEMMA HeadsAreLast ==
  ASSUME SInv, NEW rs, NEW ss, Queued(rs, ss), status = "killHeads"
  PROVE  /\ rs = <<>> /\ ss = <<>>
         /\ Carriers = {currentProc} \ {NULL}
         /\ nodes = {readyQueue, sleepQueue} \cup ({currentProc} \ {NULL})
<1>1. next[readyQueue] = readyQueue /\ next[sleepQueue] = sleepQueue
  BY DEF SInv, Emptied
<1>2. rs = <<>> /\ ss = <<>>
  BY <1>1, EmptyRing DEF Queued
<1>3. Elems(rs) = {} /\ Elems(ss) = {}
  BY <1>1, <1>2, LinedEmpty
<1>4. /\ Carriers \ {currentProc} = {} /\ currentProc \in Carriers \cup {NULL}
      /\ Carriers = nodes \ {readyQueue, sleepQueue}
      /\ readyQueue \in nodes /\ sleepQueue \in nodes /\ NULL \notin nodes
  BY <1>3, AliveFacts DEF Queued, Alive
<1>. QED  BY <1>2, <1>4

LEMMA InOrderKillHeads ==
  ASSUME SInv, InOrder, KillHeads
  PROVE  InOrder'
<1>1. PICK rs, ss : Queued(rs, ss)
  BY DEF InOrder, KillHeads, Alive
<1>2. /\ Carriers = {currentProc} \ {NULL} /\ procs = {process[n] : n \in Carriers}
      /\ nodes = {readyQueue, sleepQueue} \cup ({currentProc} \ {NULL})
  BY <1>1, HeadsAreLast DEF KillHeads, Queued
<1>3. CASE currentProc = NULL
  BY <1>3 DEF KillHeads, InOrder, Alive
<1>4. CASE currentProc # NULL
  <2>1. nodes' = {} /\ procs' = {} /\ status' = "off"
    BY <1>2, <1>4 DEF KillHeads
  <2>. QED  BY <2>1 DEF InOrder, Alive
<1>. QED  BY <1>3, <1>4

-----------------------------------------------------------------------------
LEMMA InOrderStep == SInv /\ InOrder /\ [Next]_vars => InOrder'
<1>. SUFFICES ASSUME SInv, InOrder, [Next]_vars PROVE InOrder'
  OBVIOUS
<1>1. CASE SchedulerInit
  BY <1>1, InitQueued DEF InOrder, SchedulerInit
<1>2. CASE \E p \in Procs, s \in NewStates : ScheduleProcess(p, s)
  <2>1. PICK p \in Procs, s \in NewStates : ScheduleProcess(p, s)
    BY <1>2
  <2>2. status = "up" /\ status' = "up"
    BY <2>1 DEF ScheduleProcess
  <2>3. PICK rs, ss : Queued(rs, ss)
    BY <2>2 DEF InOrder, Alive
  <2>4. \E n \in Nodes \ nodes : AfterSchedule(rs, ss, s, n)
    BY <2>1, <2>3, ScheduleQueued
  <2>. QED  BY <2>2, <2>4 DEF AfterSchedule, InOrder
<1>3. CASE ScheduleOutOfMemory \/ ProcSwitchNull
  BY <1>3 DEF ScheduleOutOfMemory, ProcSwitchNull, InOrder, Alive
<1>4. CASE \E s \in {"SLEEPING", "ZOMBIE"} : GiveUp(s)
  BY <1>4, GiveUpQueued DEF GiveUp, InOrder, Alive
<1>5. CASE ProcSwitch
  <2>1. status = "up" /\ status' = "up"
    BY <1>5 DEF ProcSwitch
  <2>2. PICK rs, ss : Queued(rs, ss)
    BY <2>1 DEF InOrder, Alive
  <2>. QED  BY <1>5, <2>1, <2>2, SwitchQueued DEF InOrder
<1>6. CASE AwakenProcess
  <2>1. status = "up" /\ status' = "up"
    BY <1>6 DEF AwakenProcess
  <2>2. PICK rs, ss : Queued(rs, ss)
    BY <2>1 DEF InOrder, Alive
  <2>. QED  BY <1>6, <2>1, <2>2, AwakenQueued DEF InOrder
<1>7. CASE \/ status = "killReady" /\ FreeFirst(readyQueue)
           \/ status = "killSleep" /\ FreeFirst(sleepQueue)
  <2>1. status' = status /\ status \in Alive /\ status # "off"
    BY <1>7 DEF FreeFirst, Alive
  <2>2. PICK rs, ss : Queued(rs, ss)
    BY <2>1 DEF InOrder
  <2>. QED  BY <1>7, <2>1, <2>2, DropQueued DEF InOrder
<1>8. CASE \/ KillScheduler
           \/ status = "killReady" /\ LoopDone(readyQueue, "killSleep")
           \/ status = "killSleep" /\ LoopDone(sleepQueue, "killHeads")
  <2>1. UNCHANGED <<next, process, proc_state, pointers, memory>>
    BY <1>8 DEF KillScheduler, LoopDone
  <2>2. status \in Alive /\ status' # "off"
    BY <1>8 DEF KillScheduler, LoopDone, Alive
  <2>. QED  BY <2>1, <2>2, QueuedQuiet DEF InOrder
<1>9. CASE KillHeads
  BY <1>9, InOrderKillHeads
<1>10. CASE UNCHANGED vars
  <2>1. UNCHANGED <<next, process, proc_state, pointers, memory, status, nodes, procs>>
    BY <1>10 DEF vars, memory
  <2>. QED  BY <2>1, QueuedQuiet DEF InOrder
<1>. QED  BY <1>1, <1>2, <1>3, <1>4, <1>5, <1>6, <1>7, <1>8, <1>9, <1>10
          DEF Next, KillSteps, KillReady, KillSleep, Trapped

LEMMA InOrderAlways == Spec => []InOrder
<1>1. Init => InOrder
  BY DEF Init, InOrder, Alive
<1>. QED  BY <1>1, SInvAlways, InOrderStep, PTL DEF Spec

(* A killScheduler that ends has freed all the memory, whatever the queues *)
(* held when it was called (scheduler.c:65-93).                            *)
THEOREM KillFreesAll == Spec => []AllFreed
<1>1. InOrder => AllFreed
  BY DEF InOrder, AllFreed
<1>. QED  BY <1>1, InOrderAlways, PTL

(* A queued process is in the state of its queue, and nobody but the       *)
(* current process is RUNNING (scheduler.c:49-134).                        *)
THEOREM QueuesMatchStates == Spec => []StatesMatch
<1>1. SInv /\ InOrder => StatesMatch
  <2>. SUFFICES ASSUME SInv, InOrder, status \in {"up", "killReady", "killSleep"}
                PROVE  StatesMatch
    BY DEF StatesMatch
  <2>1. status \in Alive
    BY DEF Alive
  <2>2. PICK rs, ss : Queued(rs, ss)
    BY <2>1 DEF InOrder
  <2>3. QueueNodes(readyQueue) = Elems(rs) /\ QueueNodes(sleepQueue) = Elems(ss)
    BY <2>1, <2>2, AliveFacts, WalkFindsRing DEF Queued
  <2>4. ASSUME NEW p \in procs, proc_state[p] = "RUNNING"
        PROVE  currentProc # NULL /\ process[currentProc] = p
    <3>1. PICK n \in Carriers : p = process[n]
      BY <2>2 DEF Queued
    <3>2. n = currentProc
      BY <2>2, <2>4, <3>1 DEF Queued
    <3>3. n # NULL
      BY <2>1, AliveFacts DEF Carriers
    <3>. QED  BY <3>1, <3>2, <3>3
  <2>. QED  BY <2>2, <2>3, <2>4 DEF Queued, StatesMatch
<1>. QED  BY <1>1, SInvAlways, InOrderAlways, PTL

(* Whatever happens, every process is in one queue or has the processor,   *)
(* and no process is in two places (scheduler.c:49-192).                   *)
THEOREM NobodyIsLost == Spec => []NobodyLost
<1>1. SInv /\ InOrder => NobodyLost
  <2>. SUFFICES ASSUME SInv, InOrder, status \in {"up", "killReady", "killSleep"}
                PROVE  NobodyLost
    BY DEF NobodyLost
  <2>1. status \in Alive
    BY DEF Alive
  <2>2. PICK rs, ss : Queued(rs, ss)
    BY <2>1 DEF InOrder
  <2>3. QueueNodes(readyQueue) = Elems(rs) /\ QueueNodes(sleepQueue) = Elems(ss)
    BY <2>1, <2>2, AliveFacts, WalkFindsRing DEF Queued
  <2>. DEFINE running == {currentProc} \ {NULL}
              carriers == (Elems(rs) \cup Elems(ss)) \cup running
  <2>4. /\ carriers = Carriers /\ nodes = carriers \cup {readyQueue, sleepQueue}
        /\ Elems(rs) \cap Elems(ss) = {}
        /\ (Elems(rs) \cup Elems(ss)) \cap running = {}
        /\ carriers \cap {readyQueue, sleepQueue} = {}
        /\ procs = {process[n] : n \in carriers}
    BY <2>1, <2>2, AliveFacts, QueuedFacts DEF Queued
  <2>5. Cardinality(procs) = Cardinality(Carriers)
    <3>. DEFINE f == [n \in Carriers |-> process[n]]
    <3>1. f \in Bijection(Carriers, procs)
      BY <2>1, <2>2, AliveFacts DEF Queued, Bijection, Injection, Surjection, IsInjective
    <3>2. IsFiniteSet(Carriers)
      BY FS_Subset, SchedulerAssumption DEF SInv, TypeOK, Carriers
    <3>. HIDE DEF f
    <3>. QED  BY <3>1, <3>2, FS_Bijection DEF ExistsBijection
  <2>. QED  BY <2>3, <2>4, <2>5 DEF NobodyLost
<1>. QED  BY <1>1, SInvAlways, InOrderAlways, PTL

-----------------------------------------------------------------------------
(* The refinement.  The abstract queues are the processes of the nodes.    *)

Carried(proc, q) == [k \in 1 .. Len(q) |-> proc[q[k]]]
Values(f, S) == {f[n] : n \in S}

LEMMA CarriedSame ==
  ASSUME NEW f, NEW g, NEW q, \A n \in Elems(q) : f[n] = g[n]
  PROVE  Carried(f, q) = Carried(g, q)
  BY DEF Carried, Elems

LEMMA CarriedEmpty ==
  ASSUME NEW f PROVE Carried(f, <<>>) = <<>>
  BY DEF Carried

LEMMA CarriedAppend ==
  ASSUME NEW f, NEW S, NEW q \in Seq(S), NEW t \in S
  PROVE  Carried(f, Append(q, t)) = Append(Carried(f, q), f[t])
  BY DEF Carried

LEMMA CarriedTail ==
  ASSUME NEW f, NEW S, NEW q \in Seq(S), q # <<>>
  PROVE  /\ Carried(f, Tail(q)) = Tail(Carried(f, q))
         /\ Carried(f, q) # <<>> /\ Head(Carried(f, q)) = f[q[1]]
<1>1. Carried(f, Tail(q)) = Tail(Carried(f, q))
  BY DEF Carried
<1>2. Carried(f, q) # <<>> /\ Head(Carried(f, q)) = f[q[1]]
  BY DEF Carried
<1>. QED  BY <1>1, <1>2

LEMMA CarriedElements ==
  ASSUME NEW f, NEW q, Len(q) \in Nat
  PROVE  Abstract!Elements(Carried(f, q)) = {f[n] : n \in Elems(q)}
  BY DEF Abstract!Elements, Carried, Elems

(* The abstract state that two sequences stand for.                        *)
Wishes(p) == IF p = NULL THEN "run"
             ELSE IF proc_state[p] = "SLEEPING" THEN "sleep"
             ELSE IF proc_state[p] = "ZOMBIE" THEN "exit" ELSE "run"

WishStands == wish = Wishes(current)

LEMMA WishIs == WishStands
<1>. SUFFICES wish = Wishes(current)
  BY DEF WishStands
<1>1. CASE current = NULL
  BY <1>1, Zenon DEF wish, Wishes
<1>2. CASE current # NULL /\ proc_state[current] = "SLEEPING"
  BY <1>2, Zenon DEF wish, Wishes
<1>3. CASE current # NULL /\ proc_state[current] = "ZOMBIE"
  BY <1>3, Zenon DEF wish, Wishes
<1>4. CASE current # NULL /\ proc_state[current] \notin {"SLEEPING", "ZOMBIE"}
  BY <1>4, Zenon DEF wish, Wishes
<1>. QED  BY <1>1, <1>2, <1>3, <1>4

Stands(rs, ss) ==
  /\ Queue(readyQueue) = Carried(process, rs)
  /\ Queue(sleepQueue) = Carried(process, ss)
  /\ current = IF currentProc = NULL THEN NULL ELSE process[currentProc]

QueuesStand ==
  SInv /\ status \in Alive => \A rs, ss : Queued(rs, ss) => Stands(rs, ss)

LEMMA QueuesAre == QueuesStand
<1>. SUFFICES ASSUME SInv, status \in Alive, NEW rs, NEW ss, Queued(rs, ss)
              PROVE  Stands(rs, ss)
  BY DEF QueuesStand
<1>1. ASSUME NEW h \in nodes, NEW q, Lined(next, h, q)
      PROVE  Queue(h) = Carried(process, q)
  <2>1. h \in Nodes
    BY AliveFacts
  <2>2. Length(h) = Len(q) /\ \A k \in 1 .. Len(q) : Hop(h)[k] = q[k]
    BY <1>1, <2>1, WalkFindsRing
  <2>. QED  BY <2>2 DEF Queue, Carried
<1>2. current = IF currentProc = NULL THEN NULL ELSE process[currentProc]
  BY AliveFacts DEF current
<1>. QED  BY <1>1, <1>2, AliveFacts DEF Queued, Stands

(* Pointers to freed memory stand for nothing.                             *)
LEMMA NothingStands ==
  ASSUME nodes = {}
  PROVE  Queue(readyQueue) = <<>> /\ Queue(sleepQueue) = <<>> /\ current = NULL
  BY DEF Queue, current

Nothing ==
  nodes = {} => Queue(readyQueue) = <<>> /\ Queue(sleepQueue) = <<>> /\ current = NULL

(* The state after a step stands for something, too.                       *)
LEMMA Afterwards == QueuesStand' /\ WishStands' /\ Nothing'
<1>1. Nothing
  BY NothingStands DEF Nothing
<1>. QED  BY <1>1, QueuesAre, WishIs, PTL

LEMMA StartStep ==
  ASSUME SInv, InOrder, SInv', SchedulerInit
  PROVE  Abstract!Start
<1>1. /\ status = "off" /\ status' = "up" /\ currentProc' = NULL
      /\ nodes = {}
  BY DEF SchedulerInit, InOrder
<1>2. /\ Queue(readyQueue) = <<>> /\ Queue(sleepQueue) = <<>> /\ current = NULL
      /\ wish = "run"
  BY <1>1, NothingStands, WishIs DEF WishStands, Wishes
<1>3. Queued(<<>>, <<>>)'
  BY InitQueued
<1>4. Stands(<<>>, <<>>)'
  BY <1>1, <1>3, Afterwards DEF QueuesStand, Alive
<1>5. /\ Queue(readyQueue)' = <<>> /\ Queue(sleepQueue)' = <<>> /\ current' = NULL
  BY <1>1, <1>4, CarriedEmpty DEF Stands
<1>6. wish' = "run"
  BY <1>5, Afterwards DEF WishStands, Wishes
<1>. QED  BY <1>1, <1>2, <1>5, <1>6 DEF Abstract!Start, Abstract!Empty

LEMMA AdmitStep ==
  ASSUME SInv, InOrder, SInv', NEW p \in Procs, NEW s \in NewStates,
         ScheduleProcess(p, s)
  PROVE  Abstract!Admit(p) \/ Abstract!AdmitAsleep(p)
<1>1. /\ status = "up" /\ status' = "up" /\ p \notin procs /\ p # NULL
      /\ s \in {"READY", "SLEEPING"}
      /\ proc_state' = [proc_state EXCEPT ![p] =
                          IF s = "READY" /\ currentProc = NULL THEN "RUNNING" ELSE s]
  BY SchedulerAssumption DEF ScheduleProcess
<1>2. status \in Alive /\ status' \in Alive
  BY <1>1 DEF Alive
<1>3. PICK rs, ss : Queued(rs, ss)
  BY <1>2 DEF InOrder
<1>4. PICK n \in Nodes \ nodes :
        /\ nodes' = nodes \cup {n}
        /\ process' = [process EXCEPT ![n] = p]
        /\ currentProc' = IF s = "READY" /\ currentProc = NULL THEN n ELSE currentProc
        /\ AfterSchedule(rs, ss, s, n)
  BY <1>3, ScheduleQueued
<1>5. Stands(rs, ss)
  BY <1>2, <1>3, QueuesAre DEF QueuesStand
<1>6. /\ Elems(rs) \subseteq Carriers /\ Elems(ss) \subseteq Carriers
      /\ rs \in Seq(Nodes) /\ ss \in Seq(Nodes)
      /\ procs = {process[m] : m \in Carriers}
      /\ currentProc # NULL => currentProc \in Carriers
      /\ n \notin Carriers /\ n # NULL /\ Carriers \subseteq Nodes
  BY <1>2, <1>3, AliveFacts, QueuedFacts DEF Queued, Lined
<1>7. /\ process'[n] = p
      /\ \A m \in Carriers : process'[m] = process[m]
      /\ \A m \in Carriers : process[m] # p /\ process[m] \in Procs
  BY <1>1, <1>2, <1>4, <1>6, AliveFacts DEF SInv, TypeOK
<1>8. p \notin Abstract!Present
  <2>1. Len(rs) \in Nat /\ Len(ss) \in Nat
    BY <1>6
  <2>2. /\ Abstract!Elements(Queue(readyQueue)) = {process[m] : m \in Elems(rs)}
        /\ Abstract!Elements(Queue(sleepQueue)) = {process[m] : m \in Elems(ss)}
    BY <1>5, <2>1, CarriedElements DEF Stands
  <2>3. current # p
    BY <1>1, <1>5, <1>6, <1>7 DEF Stands
  <2>. QED  BY <1>6, <1>7, <2>2, <2>3 DEF Abstract!Present
<1>9. /\ Carried(process', rs) = Carried(process, rs)
      /\ Carried(process', ss) = Carried(process, ss)
  BY <1>6, <1>7, CarriedSame
<1>10. /\ Carried(process', Append(rs, n)) = Append(Carried(process, rs), p)
       /\ Carried(process', Append(ss, n)) = Append(Carried(process, ss), p)
  BY <1>6, <1>7, <1>9, CarriedAppend
<1>11. CASE s = "READY" /\ currentProc = NULL
  <2>1. Stands(rs, ss)'
    BY <1>2, <1>4, <1>11, Afterwards DEF AfterSchedule, QueuesStand
  <2>2. /\ Queue(readyQueue)' = Queue(readyQueue)
        /\ Queue(sleepQueue)' = Queue(sleepQueue)
        /\ current = NULL /\ current' = p
    BY <1>4, <1>5, <1>6, <1>7, <1>9, <1>11, <2>1 DEF Stands
  <2>3. wish = "run" /\ wish' = "run"
    <3>1. proc_state'[p] = "RUNNING"
      BY <1>1, <1>11 DEF SInv, TypeOK
    <3>. QED  BY <1>1, <2>2, <3>1, WishIs, Afterwards DEF WishStands, Wishes
  <2>. QED  BY <1>1, <1>8, <2>2, <2>3 DEF Abstract!Admit
<1>12. CASE ~ (s = "READY" /\ currentProc = NULL)
  <2>1. /\ currentProc' = currentProc
        /\ \A m \in Carriers : proc_state'[process'[m]] = proc_state[process[m]]
    BY <1>1, <1>4, <1>7, <1>12 DEF SInv, TypeOK
  <2>2. ASSUME current' = current PROVE wish' = wish
    <3>1. CASE currentProc = NULL
      BY <1>5, <2>2, <3>1, WishIs, Afterwards DEF Stands, WishStands, Wishes
    <3>2. CASE currentProc # NULL
      <4>1. /\ current = process[currentProc] /\ currentProc \in Carriers
            /\ process'[currentProc] = process[currentProc]
        BY <1>5, <1>6, <1>7, <3>2 DEF Stands
      <4>2. proc_state'[current] = proc_state[current]
        BY <2>1, <4>1
      <4>. QED  BY <2>2, <4>2, WishIs, Afterwards DEF WishStands, Wishes
    <3>. QED  BY <3>1, <3>2
  <2>3. CASE s = "READY"
    <3>1. Stands(Append(rs, n), ss)'
      BY <1>2, <1>4, <1>12, <2>3, Afterwards DEF AfterSchedule, QueuesStand
    <3>2. /\ Queue(readyQueue)' = Append(Queue(readyQueue), p)
          /\ Queue(sleepQueue)' = Queue(sleepQueue)
          /\ current' = current /\ current # NULL
      BY <1>5, <1>6, <1>7, <1>9, <1>10, <1>12, <2>1, <2>3, <3>1, SchedulerAssumption
         DEF Stands
    <3>. QED  BY <1>1, <1>8, <2>2, <3>2 DEF Abstract!Admit
  <2>4. CASE s = "SLEEPING"
    <3>1. Stands(rs, Append(ss, n))'
      BY <1>2, <1>4, <1>12, <2>4, Afterwards DEF AfterSchedule, QueuesStand
    <3>2. /\ Queue(readyQueue)' = Queue(readyQueue)
          /\ Queue(sleepQueue)' = Append(Queue(sleepQueue), p)
          /\ current' = current
      BY <1>5, <1>6, <1>7, <1>9, <1>10, <2>1, <3>1 DEF Stands
    <3>. QED  BY <1>1, <1>8, <2>2, <3>2 DEF Abstract!AdmitAsleep
  <2>. QED  BY <1>1, <2>3, <2>4
<1>. QED  BY <1>11, <1>12

(* Steps that leave the pointers and the memory alone leave the queues     *)
(* and the current process alone.                                          *)
LEMMA SameQueues ==
  ASSUME UNCHANGED <<next, process, pointers, memory>>
  PROVE  /\ Queue(readyQueue)' = Queue(readyQueue)
         /\ Queue(sleepQueue)' = Queue(sleepQueue)
         /\ current' = current
         /\ proc_state' = proc_state => wish' = wish
<1>1. /\ next' = next /\ process' = process /\ nodes' = nodes
      /\ readyQueue' = readyQueue /\ sleepQueue' = sleepQueue
      /\ currentProc' = currentProc
  BY DEF pointers, memory
<1>2. \A h : Hop(h)' = Hop(h) /\ Length(h)' = Length(h)
  BY <1>1 DEF Hop, Length
<1>3. current' = current
  BY <1>1 DEF current
<1>4. proc_state' = proc_state => wish' = wish
  BY <1>3, WishIs, Afterwards DEF WishStands, Wishes
<1>5. /\ Queue(readyQueue)' = Queue(readyQueue)
      /\ Queue(sleepQueue)' = Queue(sleepQueue)
  BY <1>1, <1>2 DEF Queue
<1>. QED  BY <1>3, <1>4, <1>5

LEMMA WishStep ==
  ASSUME SInv, NEW s \in {"SLEEPING", "ZOMBIE"}, GiveUp(s)
  PROVE  \E w \in {"sleep", "exit"} : Abstract!Wish(w)
<1>1. /\ status = "up" /\ status' = "up" /\ currentProc # NULL
      /\ proc_state' = [proc_state EXCEPT ![process[currentProc]] = s]
      /\ UNCHANGED <<next, process, pointers, memory>>
  BY DEF GiveUp
<1>2. current = process[currentProc] /\ current # NULL /\ current \in Procs
  BY <1>1, AliveFacts, SchedulerAssumption DEF current, Alive, Carriers
<1>3. /\ Queue(readyQueue)' = Queue(readyQueue)
      /\ Queue(sleepQueue)' = Queue(sleepQueue)
      /\ current' = current
  BY <1>1, SameQueues
<1>4. proc_state'[current] = s
  BY <1>1, <1>2 DEF SInv, TypeOK
<1>5. wish' = IF s = "SLEEPING" THEN "sleep" ELSE "exit"
  BY <1>2, <1>3, <1>4, Afterwards DEF WishStands, Wishes
<1>. QED  BY <1>1, <1>2, <1>3, <1>5 DEF Abstract!Wish

LEMMA SwitchStep ==
  ASSUME SInv, InOrder, SInv', ProcSwitch
  PROVE  Abstract!Switch
<1>1. status = "up" /\ status' = "up" /\ currentProc # NULL
      /\ process' = process
  BY DEF ProcSwitch
<1>2. status \in Alive /\ status' \in Alive
  BY <1>1 DEF Alive
<1>3. PICK rs, ss : Queued(rs, ss)
  BY <1>2 DEF InOrder
<1>4. PICK c \in Carriers, s \in {"READY", "SLEEPING", "ZOMBIE"} :
        /\ c = currentProc /\ s = Goes
        /\ rs # <<>> /\ rs[1] \in Carriers /\ currentProc' = rs[1]
        /\ proc_state' = [proc_state EXCEPT ![process[c]] = s]
        /\ Queued(Tail(IF s = "READY" THEN Append(rs, c) ELSE rs),
                  IF s = "SLEEPING" THEN Append(ss, c) ELSE ss)'
  BY <1>3, SwitchQueued
<1>5. /\ Stands(rs, ss)
      /\ Stands(Tail(IF s = "READY" THEN Append(rs, c) ELSE rs),
                IF s = "SLEEPING" THEN Append(ss, c) ELSE ss)'
  BY <1>2, <1>3, <1>4, QueuesAre, Afterwards DEF QueuesStand
<1>6. /\ rs \in Seq(Nodes) /\ ss \in Seq(Nodes) /\ c \in Nodes /\ NULL \notin Nodes
      /\ \A n \in Carriers : process[n] \in Procs
      /\ \A m, n \in Carriers : m # n => process[m] # process[n]
      /\ rs[1] \in Elems(rs) /\ rs[1] # c
  <2>1. Lined(next, readyQueue, rs) /\ Lined(next, sleepQueue, ss)
    BY <1>3 DEF Queued
  <2>2. rs \in Seq(Nodes) /\ ss \in Seq(Nodes)
    BY <2>1 DEF Lined
  <2>3. rs[1] \in Elems(rs) /\ rs[1] # c
    BY <1>2, <1>3, <1>4, <2>1, EmptyRing, QueuedFacts
  <2>4. c \in Nodes /\ NULL \notin Nodes
    BY <1>2, AliveFacts DEF Carriers
  <2>5. /\ \A n \in Carriers : process[n] \in Procs
        /\ \A m, n \in Carriers : m # n => process[m] # process[n]
    BY <1>2, AliveFacts
  <2>. QED  BY <2>2, <2>3, <2>4, <2>5
<1>7. /\ current = process[c] /\ current # NULL /\ current \in Procs
      /\ current' = process[rs[1]] /\ current' \in Procs /\ current' # NULL
      /\ current' # current
  BY <1>1, <1>4, <1>5, <1>6, SchedulerAssumption DEF Stands
<1>8. /\ Queue(readyQueue) # <<>> /\ current' = Head(Queue(readyQueue))
      /\ Tail(Queue(readyQueue)) = Carried(process, Tail(rs))
  BY <1>4, <1>5, <1>6, <1>7, CarriedTail DEF Stands
<1>9. Tail(rs) \in Seq(Nodes) /\ Tail(Append(rs, c)) = Append(Tail(rs), c)
  BY <1>4, <1>6
<1>10. Queue(readyQueue)' = IF s = "READY" THEN Append(Tail(Queue(readyQueue)), current)
                            ELSE Tail(Queue(readyQueue))
  <2>1. CASE s = "READY"
    <3>1. Queue(readyQueue)' = Carried(process, Append(Tail(rs), c))
      BY <1>1, <1>5, <1>9, <2>1 DEF Stands
    <3>2. Carried(process, Append(Tail(rs), c)) = Append(Carried(process, Tail(rs)), process[c])
      BY <1>6, <1>9, CarriedAppend
    <3>. QED  BY <1>7, <1>8, <2>1, <3>1, <3>2
  <2>2. CASE s # "READY"
    BY <1>1, <1>5, <1>8, <2>2 DEF Stands
  <2>. QED  BY <2>1, <2>2
<1>11. Queue(sleepQueue)' = IF s = "SLEEPING" THEN Append(Queue(sleepQueue), current)
                            ELSE Queue(sleepQueue)
  <2>1. CASE s = "SLEEPING"
    <3>1. Queue(sleepQueue)' = Carried(process, Append(ss, c))
      BY <1>1, <1>5, <2>1 DEF Stands
    <3>2. Carried(process, Append(ss, c)) = Append(Carried(process, ss), process[c])
      BY <1>6, CarriedAppend
    <3>. QED  BY <1>5, <1>7, <2>1, <3>1, <3>2 DEF Stands
  <2>2. CASE s # "SLEEPING"
    BY <1>1, <1>5, <2>2 DEF Stands
  <2>. QED  BY <2>1, <2>2
<1>12. /\ wish = "run" <=> s = "READY"
       /\ wish = "sleep" <=> s = "SLEEPING"
  <2>1. proc_state[current] \in States /\ s = Goes
    BY <1>4, <1>7 DEF SInv, TypeOK
  <2>. QED  BY <1>4, <1>7, <2>1, WishIs DEF WishStands, Wishes, Goes, States
<1>13. wish' = "run"
  <2>1. proc_state[process[rs[1]]] = "READY"
    BY <1>3, <1>6 DEF Queued
  <2>2. proc_state'[current'] = "READY"
    BY <1>4, <1>6, <1>7, <2>1 DEF SInv, TypeOK
  <2>. QED  BY <1>7, <2>2, Afterwards DEF WishStands, Wishes
<1>. QED  BY <1>1, <1>7, <1>8, <1>10, <1>11, <1>12, <1>13 DEF Abstract!Switch

LEMMA AwakenStep ==
  ASSUME SInv, InOrder, SInv', AwakenProcess
  PROVE  Abstract!Awaken
<1>1. /\ status = "up" /\ status' = "up" /\ process' = process
      /\ currentProc' = currentProc
      /\ proc_state' = [proc_state EXCEPT ![process[next[sleepQueue]]] = "READY"]
  BY DEF AwakenProcess, pointers
<1>2. status \in Alive /\ status' \in Alive
  BY <1>1 DEF Alive
<1>3. PICK rs, ss : Queued(rs, ss)
  BY <1>2 DEF InOrder
<1>4. /\ ss # <<>> /\ ss[1] \in Carriers /\ ss[1] \in Elems(ss)
      /\ ss[1] = next[sleepQueue]
      /\ Queued(Append(rs, ss[1]), Tail(ss))'
  BY <1>2, <1>3, AwakenQueued, QueuedFacts, EmptyRing DEF Queued
<1>5. Stands(rs, ss) /\ Stands(Append(rs, ss[1]), Tail(ss))'
  BY <1>2, <1>3, <1>4, QueuesAre, Afterwards DEF QueuesStand
<1>6. /\ rs \in Seq(Nodes) /\ ss \in Seq(Nodes) /\ ss[1] \in Nodes
      /\ currentProc # NULL => currentProc \in Carriers
      /\ ss[1] # currentProc
      /\ \A m, n \in Carriers : m # n => process[m] # process[n]
  BY <1>2, <1>3, <1>4, AliveFacts, QueuedFacts DEF Queued, Lined, Carriers
<1>7. /\ Queue(sleepQueue) # <<>> /\ Head(Queue(sleepQueue)) = process[ss[1]]
      /\ Queue(sleepQueue)' = Tail(Queue(sleepQueue))
  BY <1>1, <1>4, <1>5, <1>6, CarriedTail DEF Stands
<1>8. Queue(readyQueue)' = Append(Queue(readyQueue), process[ss[1]])
  BY <1>1, <1>5, <1>6, CarriedAppend DEF Stands
<1>9. current' = current
  BY <1>1, <1>5 DEF Stands
<1>10. wish' = wish
  <2>1. CASE current = NULL
    BY <1>9, <2>1, WishIs, Afterwards DEF WishStands, Wishes
  <2>2. CASE current # NULL
    <3>1. current = process[currentProc] /\ current # process[ss[1]]
      BY <1>4, <1>5, <1>6, <2>2 DEF Stands
    <3>2. proc_state'[current] = proc_state[current]
      BY <1>1, <1>4, <3>1 DEF SInv, TypeOK
    <3>. QED  BY <1>9, <3>2, WishIs, Afterwards DEF WishStands, Wishes
  <2>. QED  BY <2>1, <2>2
<1>. QED  BY <1>1, <1>7, <1>8, <1>9, <1>10 DEF Abstract!Awaken

LEMMA DropStep ==
  ASSUME SInv, InOrder, SInv',
         \/ status = "killReady" /\ FreeFirst(readyQueue)
         \/ status = "killSleep" /\ FreeFirst(sleepQueue)
  PROVE  Abstract!Drop
<1>1. /\ status \in Alive /\ status # "up" /\ status' = status
      /\ process' = process /\ currentProc' = currentProc /\ proc_state' = proc_state
  BY DEF FreeFirst, pointers, Alive
<1>2. PICK rs, ss : Queued(rs, ss)
  BY <1>1 DEF InOrder
<1>3. Stands(rs, ss) /\ rs \in Seq(Nodes) /\ ss \in Seq(Nodes)
  BY <1>1, <1>2, QueuesAre DEF QueuesStand, Queued, Lined
<1>4. \/ rs # <<>> /\ Queued(Tail(rs), ss)'
      \/ ss # <<>> /\ Queued(rs, Tail(ss))'
  BY <1>1, <1>2, DropQueued
<1>5. ASSUME current' = current PROVE wish' = wish
  BY <1>1, <1>5, WishIs, Afterwards DEF WishStands, Wishes
<1>6. CASE rs # <<>> /\ Queued(Tail(rs), ss)'
  <2>1. Stands(Tail(rs), ss)'
    BY <1>1, <1>6, Afterwards DEF QueuesStand
  <2>2. /\ Queue(readyQueue) # <<>> /\ Queue(readyQueue)' = Tail(Queue(readyQueue))
        /\ Queue(sleepQueue)' = Queue(sleepQueue) /\ current' = current
    BY <1>1, <1>3, <1>6, <2>1, CarriedTail DEF Stands
  <2>. QED  BY <1>1, <1>5, <2>2 DEF Abstract!Drop
<1>7. CASE ss # <<>> /\ Queued(rs, Tail(ss))'
  <2>1. Stands(rs, Tail(ss))'
    BY <1>1, <1>7, Afterwards DEF QueuesStand
  <2>2. /\ Queue(sleepQueue) # <<>> /\ Queue(sleepQueue)' = Tail(Queue(sleepQueue))
        /\ Queue(readyQueue)' = Queue(readyQueue) /\ current' = current
    BY <1>1, <1>3, <1>7, <2>1, CarriedTail DEF Stands
  <2>. QED  BY <1>1, <1>5, <2>2 DEF Abstract!Drop
<1>. QED  BY <1>4, <1>6, <1>7

LEMMA EndStep ==
  ASSUME SInv, InOrder, KillHeads
  PROVE  Abstract!Drop \/ UNCHANGED Abstract!vars
<1>1. status = "killHeads" /\ status \in Alive /\ status' \in {"off", "fault"}
  BY DEF KillHeads, Alive
<1>2. PICK rs, ss : Queued(rs, ss)
  BY <1>1 DEF InOrder
<1>3. /\ rs = <<>> /\ ss = <<>>
      /\ nodes = {readyQueue, sleepQueue} \cup ({currentProc} \ {NULL})
  BY <1>1, <1>2, HeadsAreLast
<1>4. /\ Queue(readyQueue) = <<>> /\ Queue(sleepQueue) = <<>>
      /\ currentProc = NULL => current = NULL
  BY <1>1, <1>2, <1>3, QueuesAre, CarriedEmpty DEF QueuesStand, Stands
<1>5. nodes' = {}
  BY <1>3 DEF KillHeads
<1>6. /\ Queue(readyQueue)' = <<>> /\ Queue(sleepQueue)' = <<>>
      /\ current' = NULL /\ wish' = "run"
  BY <1>5, Afterwards DEF Nothing, WishStands, Wishes
<1>7. CASE currentProc = NULL
  <2>1. wish = "run" /\ current = NULL
    BY <1>4, <1>7, WishIs DEF WishStands, Wishes
  <2>. QED  BY <1>1, <1>4, <1>6, <2>1 DEF Abstract!vars
<1>8. CASE currentProc # NULL
  BY <1>1, <1>4, <1>6, <1>8 DEF Abstract!Drop
<1>. QED  BY <1>7, <1>8

LEMMA RefinementStep ==
  SInv /\ InOrder /\ SInv' /\ [Next]_vars => [Abstract!Next]_(Abstract!vars)
<1>. SUFFICES ASSUME SInv, InOrder, SInv', [Next]_vars
              PROVE  Abstract!Next \/ UNCHANGED Abstract!vars
  OBVIOUS
<1>1. CASE SchedulerInit
  BY <1>1, StartStep DEF Abstract!Next
<1>2. CASE \E p \in Procs, s \in NewStates : ScheduleProcess(p, s)
  BY <1>2, AdmitStep DEF Abstract!Next
<1>3. CASE ScheduleOutOfMemory \/ ProcSwitchNull \/ KillScheduler
  <2>1. /\ UNCHANGED <<next, process, pointers, memory>> /\ proc_state' = proc_state
        /\ status = "up" /\ status' # "up"
    BY <1>3 DEF ScheduleOutOfMemory, ProcSwitchNull, KillScheduler
  <2>. QED  BY <2>1, SameQueues DEF Abstract!Next, Abstract!Stop
<1>4. CASE \E s \in {"SLEEPING", "ZOMBIE"} : GiveUp(s)
  BY <1>4, WishStep DEF Abstract!Next
<1>5. CASE ProcSwitch
  BY <1>5, SwitchStep DEF Abstract!Next
<1>6. CASE AwakenProcess
  BY <1>6, AwakenStep DEF Abstract!Next
<1>7. CASE \/ status = "killReady" /\ FreeFirst(readyQueue)
           \/ status = "killSleep" /\ FreeFirst(sleepQueue)
  BY <1>7, DropStep DEF Abstract!Next
<1>8. CASE \/ status = "killReady" /\ LoopDone(readyQueue, "killSleep")
           \/ status = "killSleep" /\ LoopDone(sleepQueue, "killHeads")
           \/ UNCHANGED vars
  <2>1. /\ UNCHANGED <<next, process, pointers, memory>> /\ proc_state' = proc_state
        /\ (status' = "up") = (status = "up")
    BY <1>8 DEF LoopDone, vars
  <2>. QED  BY <2>1, SameQueues DEF Abstract!vars
<1>9. CASE KillHeads
  BY <1>9, EndStep DEF Abstract!Next
<1>. QED  BY <1>1, <1>2, <1>3, <1>4, <1>5, <1>6, <1>7, <1>8, <1>9
          DEF Next, KillSteps, KillReady, KillSleep, Trapped

(* scheduler.c implements two first-in first-out queues: whoever waited    *)
(* longest is switched to, the longest sleeper wakes first, and a process  *)
(* that gives up the processor goes where it wished.                       *)
THEOREM SchedulerRefines == Spec => ImplementsScheduler
<1>1. Init => Abstract!Init
  <2>. SUFFICES ASSUME Init PROVE Abstract!Init
    OBVIOUS
  <2>1. nodes = {} /\ status = "off"
    BY DEF Init
  <2>2. /\ Queue(readyQueue) = <<>> /\ Queue(sleepQueue) = <<>> /\ current = NULL
        /\ wish = "run"
    BY <2>1, NothingStands, WishIs DEF WishStands, Wishes
  <2>. QED  BY <2>1, <2>2 DEF Abstract!Init, Abstract!Empty
<1>. QED  BY <1>1, SInvAlways, InOrderAlways, RefinementStep, PTL
          DEF Spec, ImplementsScheduler, Abstract!Spec

LEMMA FrontOfLonger ==
  ASSUME NEW S, NEW q \in Seq(S)
  PROVE  IsFrontOf(q, q) /\ \A x : IsFrontOf(q, Append(q, x))
  BY DEF IsFrontOf

LEMMA ReadyTyped ==
  ASSUME SInv, InOrder, status = "up"
  PROVE  Queue(readyQueue) \in Seq(Procs)
<1>1. status \in Alive
  BY DEF Alive
<1>2. PICK rs, ss : Queued(rs, ss)
  BY <1>1 DEF InOrder
<1>3. Queue(readyQueue) = Carried(process, rs)
  BY <1>1, <1>2, QueuesAre DEF QueuesStand, Stands
<1>4. rs \in Seq(Nodes) /\ Elems(rs) \subseteq Carriers
  BY <1>1, <1>2, QueuedFacts DEF Queued, Lined
<1>5. \A n \in Carriers : process[n] \in Procs
  BY <1>1, AliveFacts
<1>6. \A k \in 1 .. Len(rs) : process[rs[k]] \in Procs
  BY <1>4, <1>5 DEF Elems
<1>. QED  BY <1>3, <1>4, <1>6 DEF Carried

(* A waiting process is never overtaken: its turn comes nearer with every  *)
(* switch, and no new process, sleeper or rejoining process moves it back. *)
(* This is what WaitsForTurn needs besides a kernel that goes on switching.*)
THEOREM NobodyIsOvertaken == Spec => KeepsTurn
<1>. DEFINE Kept == status = "up" /\ status' = "up"
                    => /\ ProcSwitch => current' = Head(Queue(readyQueue))
                       /\ IsFrontOf(StillWaiting, Queue(readyQueue)')
<1>1. ASSUME SInv, InOrder, SInv', [Next]_vars PROVE Kept
  <2>. SUFFICES ASSUME status = "up", status' = "up"
                PROVE  /\ ProcSwitch => current' = Head(Queue(readyQueue))
                       /\ IsFrontOf(StillWaiting, Queue(readyQueue)')
    OBVIOUS
  <2>1. Queue(readyQueue) \in Seq(Procs)
    BY <1>1, ReadyTyped
  <2>2. CASE ProcSwitch
    <3>1. Abstract!Switch
      BY <1>1, <2>2, SwitchStep
    <3>2. /\ Queue(readyQueue) # <<>> /\ current' = Head(Queue(readyQueue))
          /\ \/ Queue(readyQueue)' = Append(Tail(Queue(readyQueue)), current)
             \/ Queue(readyQueue)' = Tail(Queue(readyQueue))
      BY <3>1 DEF Abstract!Switch
    <3>3. Tail(Queue(readyQueue)) \in Seq(Procs) /\ StillWaiting = Tail(Queue(readyQueue))
      BY <2>1, <2>2, <3>2 DEF StillWaiting
    <3>4. IsFrontOf(StillWaiting, Queue(readyQueue)')
      BY <3>2, <3>3, FrontOfLonger, Zenon
    <3>. QED  BY <3>2, <3>4
  <2>3. CASE ~ ProcSwitch
    <3>1. \/ Queue(readyQueue)' = Queue(readyQueue)
          \/ \E x : Queue(readyQueue)' = Append(Queue(readyQueue), x)
      <4>1. CASE \E p \in Procs, s \in NewStates : ScheduleProcess(p, s)
        <5>1. PICK p \in Procs : Abstract!Admit(p) \/ Abstract!AdmitAsleep(p)
          BY <1>1, <4>1, AdmitStep
        <5>. QED  BY <5>1, Zenon DEF Abstract!Admit, Abstract!AdmitAsleep
      <4>2. CASE \E s \in {"SLEEPING", "ZOMBIE"} : GiveUp(s)
        <5>1. PICK w : Abstract!Wish(w)
          BY <1>1, <4>2, WishStep
        <5>. QED  BY <5>1, Zenon DEF Abstract!Wish
      <4>3. CASE AwakenProcess
        <5>1. Abstract!Awaken
          BY <1>1, <4>3, AwakenStep
        <5>. QED  BY <5>1, Zenon DEF Abstract!Awaken
      <4>4. CASE UNCHANGED vars
        BY <4>4, SameQueues DEF vars
      <4>. QED  BY <1>1, <2>3, <4>1, <4>2, <4>3, <4>4
                DEF Next, KillSteps, KillReady, KillSleep, KillHeads, Trapped,
                    SchedulerInit, ScheduleOutOfMemory, ProcSwitchNull, KillScheduler
    <3>2. StillWaiting = Queue(readyQueue)
      BY <2>3 DEF StillWaiting
    <3>3. IsFrontOf(StillWaiting, Queue(readyQueue)')
      BY <2>1, <3>1, <3>2, FrontOfLonger, Zenon
    <3>. QED  BY <2>3, <3>3
  <2>. QED  BY <2>2, <2>3
<1>2. SInv /\ InOrder /\ SInv' /\ [Next]_vars => [Kept]_vars
  BY <1>1
<1>. HIDE DEF Kept
<1>3. Spec => [][Kept]_vars
  BY <1>2, SInvAlways, InOrderAlways, PTL DEF Spec
<1>. QED  BY <1>3 DEF KeepsTurn, Kept
=============================================================================
