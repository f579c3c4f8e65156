-------------------------- MODULE InterruptsProofs ---------------------------
(***************************************************************************)
(* Proofs about Interrupts, for every frequency of the timer, every depth  *)
(* of the FIFOs, every number of keys and every length of text.            *)
(*                                                                         *)
(* Two invariants carry them.  PollInv says what a poll that main or the   *)
(* handler made still promises; it gives what an interrupt may cost the    *)
(* boot code's output.  PlaceInv says where in its code each of the two    *)
(* threads is and what that place says of the devices; it gives the types, *)
(* the masks, the key a handler finds and the timer's grid.                *)
(***************************************************************************)
EXTENDS Interrupts, SequenceTheorems, TLAPS

(* What the boot code and the handlers have left from their k-th operation *)
(* on.                                                                     *)
Rest(k) == SubSeq(Boot, k, 13)
KeyRest(k) == SubSeq(Service("uart"), k, 5)
TimerRest(k) == SubSeq(Service("timer"), k, 7)

(* The boot code, operation by operation.                                  *)
LEMMA BootIs ==
  Boot = <<"uart_init", "puts", "gic_init", "puts", "unmask", "puts", "brk",
           "uart_init", "puts", "init_timer", "enable_timer", "puts", "puts">>
<1>. DEFINE a == <<"uart_init", "puts", "gic_init", "puts", "unmask", "puts", "brk">>
            b == <<"uart_init", "puts", "init_timer", "enable_timer", "puts">>
            c == <<"puts">>
            ab == <<"uart_init", "puts", "gic_init", "puts", "unmask", "puts",
                    "brk", "uart_init", "puts", "init_timer", "enable_timer",
                    "puts">>
            all == <<"uart_init", "puts", "gic_init", "puts", "unmask", "puts",
                     "brk", "uart_init", "puts", "init_timer", "enable_timer",
                     "puts", "puts">>
<1>1. a \in Seq(Operations) /\ Len(a) = 7
  BY DEF Operations
<1>2. b \in Seq(Operations) /\ Len(b) = 5
  BY DEF Operations
<1>3. c \in Seq(Operations) /\ Len(c) = 1
  BY DEF Operations
<1>4. ab \in Seq(Operations) /\ Len(ab) = 12
  BY DEF Operations
<1>5. all \in Seq(Operations) /\ Len(all) = 13
  BY DEF Operations
<1>6. \A i \in 1 .. 12 : ab[i] = IF i <= 7 THEN a[i] ELSE b[i - 7]
  OBVIOUS
<1>7. \A i \in 1 .. 13 : all[i] = IF i <= 12 THEN ab[i] ELSE c[i - 12]
  OBVIOUS
<1>8. Boot = (a \o b) \o c
  BY DEF Boot, kernel_init
<1>. HIDE DEF a, b, c, ab, all
<1>9. a \o b = ab
  <2>1. /\ a \o b \in Seq(Operations) /\ Len(a \o b) = Len(a) + Len(b)
        /\ \A i \in 1 .. Len(a) + Len(b) :
             (a \o b)[i] = IF i <= Len(a) THEN a[i] ELSE b[i - Len(a)]
    BY <1>1, <1>2, ConcatProperties, Zenon
  <2>2. /\ Len(a \o b) = 7 + 5
        /\ \A i \in 1 .. 7 + 5 :
             (a \o b)[i] = IF i <= 7 THEN a[i] ELSE b[i - 7]
    BY <2>1, <1>1, <1>2, Zenon
  <2>3. Len(a \o b) = 12 /\ \A i \in 1 .. 12 : (a \o b)[i] = ab[i]
    <3>. DEFINE r == a \o b
    <3>. HIDE DEF r
    <3>1. Len(r) = 7 + 5 /\ \A i \in 1 .. 7 + 5 : r[i] = IF i <= 7 THEN a[i] ELSE b[i - 7]
      BY <2>2 DEF r
    <3>2. Len(r) = 12 /\ \A i \in 1 .. 12 : r[i] = ab[i]
      BY <3>1, <1>6
    <3>. QED  BY <3>2 DEF r
  <2>4. Len(a \o b) = Len(ab) /\ \A i \in 1 .. Len(a \o b) : (a \o b)[i] = ab[i]
    BY <2>3, <1>4, Zenon
  <2>. QED  BY <2>1, <2>4, <1>4, SeqEqual, Zenon
<1>10. ab \o c = all
  <2>1. /\ ab \o c \in Seq(Operations) /\ Len(ab \o c) = Len(ab) + Len(c)
        /\ \A i \in 1 .. Len(ab) + Len(c) :
             (ab \o c)[i] = IF i <= Len(ab) THEN ab[i] ELSE c[i - Len(ab)]
    BY <1>3, <1>4, ConcatProperties, Zenon
  <2>2. /\ Len(ab \o c) = 12 + 1
        /\ \A i \in 1 .. 12 + 1 :
             (ab \o c)[i] = IF i <= 12 THEN ab[i] ELSE c[i - 12]
    BY <2>1, <1>3, <1>4, Zenon
  <2>3. Len(ab \o c) = 13 /\ \A i \in 1 .. 13 : (ab \o c)[i] = all[i]
    <3>. DEFINE r == ab \o c
    <3>. HIDE DEF r
    <3>1. Len(r) = 12 + 1 /\ \A i \in 1 .. 12 + 1 : r[i] = IF i <= 12 THEN ab[i] ELSE c[i - 12]
      BY <2>2 DEF r
    <3>2. Len(r) = 13 /\ \A i \in 1 .. 13 : r[i] = all[i]
      BY <3>1, <1>7
    <3>. QED  BY <3>2 DEF r
  <2>4. Len(ab \o c) = Len(all) /\ \A i \in 1 .. Len(ab \o c) : (ab \o c)[i] = all[i]
    BY <2>3, <1>5, Zenon
  <2>. QED  BY <2>1, <2>4, <1>5, SeqEqual, Zenon
<1>11. Boot = all
  BY <1>8, <1>9, <1>10
<1>. QED  BY <1>11 DEF all

(* What is left of a code is its next operation and what is left then.     *)
LEMMA RestOf ==
  ASSUME NEW s \in Seq(Operations), NEW n \in Nat, Len(s) = n, NEW k \in 1 .. n
  PROVE  /\ SubSeq(s, k, n) \in Seq(Operations)
         /\ Len(SubSeq(s, k, n)) = n - k + 1
         /\ SubSeq(s, k, n) # <<>>
         /\ \A i \in 1 .. n - k + 1 : SubSeq(s, k, n)[i] = s[k + i - 1]
         /\ Head(SubSeq(s, k, n)) = s[k]
         /\ Tail(SubSeq(s, k, n)) = SubSeq(s, k + 1, n)
<1>. DEFINE r == SubSeq(s, k, n)
<1>1. /\ r \in Seq(Operations) /\ Len(r) = n - k + 1
      /\ \A i \in 1 .. n - k + 1 : r[i] = s[k + i - 1]
  BY SubSeqProperties
<1>2. Head(r) = s[k] /\ Tail(r) = SubSeq(s, k + 1, n)
  <2>1. k \in 1 .. Len(s) /\ n \in k .. Len(s)
    OBVIOUS
  <2>. QED  BY <2>1, HeadTailOfSubSeq
<1>3. r # <<>>
  <2>. HIDE DEF r
  <2>. QED  BY <1>1
<1>. QED  BY <1>1, <1>2, <1>3

LEMMA RestFacts ==
  /\ \A k \in 1 .. 13 :
       /\ Rest(k) \in Seq(Operations) /\ Rest(k) # <<>>
       /\ Len(Rest(k)) = 14 - k
       /\ \A i \in 1 .. 14 - k : Rest(k)[i] = Boot[k + i - 1]
       /\ Head(Rest(k)) = Boot[k]
       /\ Tail(Rest(k)) = Rest(k + 1)
  /\ Rest(14) = <<>>
  /\ Rest(1) = Boot
<1>1. Boot \in Seq(Operations) /\ Len(Boot) = 13
  BY BootIs DEF Operations
<1>2. ASSUME NEW k \in 1 .. 13
      PROVE  /\ Rest(k) \in Seq(Operations) /\ Rest(k) # <<>>
             /\ Len(Rest(k)) = 14 - k
             /\ \A i \in 1 .. 14 - k : Rest(k)[i] = Boot[k + i - 1]
             /\ Head(Rest(k)) = Boot[k]
             /\ Tail(Rest(k)) = Rest(k + 1)
  <2>2. /\ Rest(k) \in Seq(Operations)
        /\ Len(Rest(k)) = 13 - k + 1
        /\ Rest(k) # <<>>
        /\ \A i \in 1 .. 13 - k + 1 : Rest(k)[i] = Boot[k + i - 1]
        /\ Head(Rest(k)) = Boot[k]
        /\ Tail(Rest(k)) = Rest(k + 1)
    BY <1>1, RestOf, 13 \in Nat, Zenon DEF Rest
  <2>3. 13 - k + 1 = 14 - k
    OBVIOUS
  <2>. QED  BY <2>2, <2>3, Zenon
<1>3. Rest(14) = <<>>
  BY <1>1, SubSeqEmpty DEF Rest
<1>4. Rest(1) = Boot
  BY <1>1, SubSeqFull DEF Rest
<1>. QED  BY <1>2, <1>3, <1>4

(* A boot code that is not at its end has its next operation.              *)
LEMMA RestNotEmpty ==
  ASSUME NEW k \in 1 .. 14, Rest(k) # <<>>
  PROVE  k \in 1 .. 13 /\ Head(Rest(k)) = Boot[k] /\ Tail(Rest(k)) = Rest(k + 1)
<1>1. k # 14
  BY RestFacts, Zenon
<1>2. k \in 1 .. 13
  BY <1>1
<1>. QED  BY <1>2, RestFacts, Zenon

(* The same of the handlers' codes.                                        *)
LEMMA KeyRestFacts ==
  /\ \A k \in 1 .. 5 :
       /\ KeyRest(k) # <<>>
       /\ Head(KeyRest(k)) = Service("uart")[k]
       /\ Tail(KeyRest(k)) = KeyRest(k + 1)
       /\ \A i \in 1 .. Len(KeyRest(k)) : KeyRest(k)[i] # "timer_to_string"
  /\ KeyRest(6) = <<>>
  /\ KeyRest(1) = Service("uart")
  /\ Service("uart") = <<"puts", "getc", "puts", "eoi", "eret">>
<1>1. Service("uart") = <<"puts", "getc", "puts", "eoi", "eret">>
  BY DEF Service
<1>2. Service("uart") \in Seq(Operations) /\ Len(Service("uart")) = 5
  <2>. DEFINE s == <<"puts", "getc", "puts", "eoi", "eret">>
  <2>1. s \in Seq(Operations)
    BY DEF Operations
  <2>2. Len(s) = 5
    OBVIOUS
  <2>. QED  BY <1>1, <2>1, <2>2
<1>3. ASSUME NEW k \in 1 .. 5
      PROVE  /\ KeyRest(k) # <<>>
             /\ Head(KeyRest(k)) = Service("uart")[k]
             /\ Tail(KeyRest(k)) = KeyRest(k + 1)
             /\ \A i \in 1 .. Len(KeyRest(k)) : KeyRest(k)[i] # "timer_to_string"
  <2>3. \A j \in 1 .. 5 : Service("uart")[j] # "timer_to_string"
    BY <1>1
  <2>4. /\ KeyRest(k) # <<>>
        /\ Head(KeyRest(k)) = Service("uart")[k] /\ Tail(KeyRest(k)) = KeyRest(k + 1)
        /\ Len(KeyRest(k)) = 5 - k + 1
        /\ \A i \in 1 .. 5 - k + 1 : KeyRest(k)[i] = Service("uart")[k + i - 1]
    BY <1>2, RestOf, 5 \in Nat, Zenon DEF KeyRest
  <2>5. \A i \in 1 .. 5 - k + 1 : KeyRest(k)[i] # "timer_to_string"
    BY <2>3, <2>4
  <2>. QED  BY <2>4, <2>5, Zenon
<1>4. KeyRest(6) = <<>> /\ KeyRest(1) = Service("uart")
  BY <1>2, SubSeqEmpty, SubSeqFull DEF KeyRest
<1>. QED  BY <1>1, <1>3, <1>4

LEMMA TimerRestFacts ==
  /\ \A k \in 1 .. 7 :
       /\ TimerRest(k) # <<>>
       /\ Head(TimerRest(k)) = Service("timer")[k]
       /\ Tail(TimerRest(k)) = TimerRest(k + 1)
       /\ (\E i \in 1 .. Len(TimerRest(k)) : TimerRest(k)[i] = "timer_to_string")
             <=> k <= 4
  /\ TimerRest(8) = <<>>
  /\ TimerRest(1) = Service("timer")
  /\ Service("timer") = <<"puts", "timer_interrupt", "puts", "timer_to_string",
                           "puts", "eoi", "eret">>
<1>1. Service("timer") = <<"puts", "timer_interrupt", "puts", "timer_to_string",
                           "puts", "eoi", "eret">>
  BY DEF Service
<1>2. Service("timer") \in Seq(Operations) /\ Len(Service("timer")) = 7
  <2>. DEFINE s == <<"puts", "timer_interrupt", "puts", "timer_to_string",
              "puts", "eoi", "eret">>
  <2>1. s \in Seq(Operations)
    BY DEF Operations
  <2>2. Len(s) = 7
    OBVIOUS
  <2>. QED  BY <1>1, <2>1, <2>2
<1>3. ASSUME NEW k \in 1 .. 7
      PROVE  /\ TimerRest(k) # <<>>
             /\ Head(TimerRest(k)) = Service("timer")[k]
             /\ Tail(TimerRest(k)) = TimerRest(k + 1)
             /\ (\E i \in 1 .. Len(TimerRest(k)) : TimerRest(k)[i] = "timer_to_string")
                   <=> k <= 4
  <2>3. \A j \in 1 .. 7 : Service("timer")[j] = "timer_to_string" <=> j = 4
    BY <1>1
  <2>4. /\ TimerRest(k) # <<>>
        /\ Head(TimerRest(k)) = Service("timer")[k] /\ Tail(TimerRest(k)) = TimerRest(k + 1)
        /\ Len(TimerRest(k)) = 7 - k + 1
        /\ \A i \in 1 .. 7 - k + 1 : TimerRest(k)[i] = Service("timer")[k + i - 1]
    BY <1>2, RestOf, 7 \in Nat, Zenon DEF TimerRest
  <2>5. (\E i \in 1 .. 8 - k : TimerRest(k)[i] = "timer_to_string") <=> k <= 4
    <3>1. ASSUME k <= 4
          PROVE  5 - k \in 1 .. 8 - k /\ TimerRest(k)[5 - k] = "timer_to_string"
      BY <3>1, <2>3, <2>4
    <3>2. ASSUME NEW i \in 1 .. 8 - k, TimerRest(k)[i] = "timer_to_string"
          PROVE  k <= 4
      BY <3>2, <2>3, <2>4
    <3>. QED  BY <3>1, <3>2
  <2>. QED  BY <2>4, <2>5
<1>4. TimerRest(8) = <<>> /\ TimerRest(1) = Service("timer")
  BY <1>2, SubSeqEmpty, SubSeqFull DEF TimerRest
<1>. QED  BY <1>1, <1>3, <1>4

-----------------------------------------------------------------------------
USE UartAssumption, TextAssumption DEF saved, TXFFClear, THRESet

(* As much of the types as the argument needs.                             *)
Typed ==
  /\ device \in {"pl011", "ns16550"}
  /\ tx \in Nat
  /\ code \in [Threads -> Seq(Operations)]
  /\ chars \in [Threads -> Nat]
  /\ polled \in [Threads -> BOOLEAN]
  /\ elr \in Seq(Operations)
  /\ masked \in BOOLEAN /\ spsr \in BOOLEAN /\ overtaken \in BOOLEAN

(* A handler returns when its code ends and not before.                    *)
EretIsLast(s) == \A i \in 1 .. Len(s) : s[i] = "eret" <=> i = Len(s)
HandlerCode(s) == s = <<"ack">> \/ EretIsLast(s)

(* A handler runs masked, to the end of the text it prints, and returns to *)
(* code that was not masked.                                               *)
HandlerRunsThrough ==
  /\ HandlerCode(code["irq"])
  /\ code["irq"] # <<>> => masked /\ ~ spsr /\ overtaken
  /\ code["irq"] = <<>> => chars["irq"] = 0
  /\ \A t \in Threads : polled[t] => chars[t] > 0

(* What a poll saw still holds when the character is written, unless a     *)
(* handler ran in between - and on the NS16550, which was empty, a handler *)
(* leaves one character at most.                                           *)
PollsStayTrue ==
  /\ polled["irq"] => TxReady
  /\ polled["main"] /\ ~ overtaken => TxReady
  /\ masked /\ code["irq"] = <<>> /\ polled["main"] => ~ overtaken
  /\ device = "ns16550" /\ polled["main"] => tx <= 1

PollInv == Typed /\ HandlerRunsThrough /\ PollsStayTrue

-----------------------------------------------------------------------------
(* Taking an operation off a thread's code.                                *)

LEMMA TailOfCode ==
  ASSUME Typed, NEW t \in Threads, NEW op, AtOp(t, op), GoOn(t)
  PROVE  /\ code' \in [Threads -> Seq(Operations)]
         /\ code'[t] = Tail(code[t])
         /\ \A u \in Threads \ {t} : code'[u] = code[u]
<1>1. code[t] \in Seq(Operations) /\ code[t] # <<>>
  BY DEF Typed, AtOp
<1>2. Tail(code[t]) \in Seq(Operations)
  BY <1>1
<1>. QED  BY <1>1, <1>2 DEF Typed, GoOn

LEMMA HandlerGoesOn ==
  ASSUME Typed, HandlerCode(code["irq"]), NEW op \in Operations \ {"ack"},
         AtOp("irq", op), GoOn("irq")
  PROVE  /\ HandlerCode(code'["irq"])
         /\ op # "eret" => code'["irq"] # <<>>
         /\ op = "eret" => code'["irq"] = <<>>
<1>. DEFINE s == code["irq"]
<1>1. s \in Seq(Operations) /\ s # <<>> /\ s[1] = op
  BY DEF Typed, AtOp, Threads
<1>2. s # <<"ack">>
  BY <1>1
<1>3. EretIsLast(s)
  BY <1>2 DEF HandlerCode
<1>4. code'["irq"] = Tail(s)
  BY TailOfCode DEF Threads
<1>. HIDE DEF s
<1>5. /\ Len(s) \in Nat \ {0}
      /\ Len(Tail(s)) = Len(s) - 1
      /\ Tail(s) \in Seq(Operations)
  BY <1>1
<1>6. EretIsLast(Tail(s))
  <2>. SUFFICES ASSUME NEW i \in 1 .. Len(s) - 1
                PROVE  Tail(s)[i] = "eret" <=> i = Len(s) - 1
    BY <1>5 DEF EretIsLast
  <2>1. Tail(s)[i] = s[i + 1]
    BY <1>1, <1>5
  <2>2. i + 1 \in 1 .. Len(s)
    BY <1>5
  <2>3. s[i + 1] = "eret" <=> i + 1 = Len(s)
    BY <1>3, <2>2 DEF EretIsLast
  <2>4. i + 1 = Len(s) <=> i = Len(s) - 1
    BY <1>5
  <2>. QED  BY <2>1, <2>3, <2>4
<1>7. op = "eret" <=> Len(s) = 1
  <2>1. 1 \in 1 .. Len(s)
    BY <1>5
  <2>. QED  BY <2>1, <1>1, <1>3 DEF EretIsLast
<1>8. Tail(s) = <<>> <=> Len(s) = 1
  <2>1. Tail(s) = <<>> => Len(Tail(s)) = 0
    BY EmptySeq, Zenon
  <2>2. Tail(s) # <<>> => Len(Tail(s)) \in Nat \ {0}
    BY <1>5, EmptySeq, Zenon
  <2>. QED  BY <2>1, <2>2, <1>5
<1>. QED  BY <1>4, <1>5, <1>6, <1>7, <1>8 DEF HandlerCode

(* What a handler does once it knows its interrupt.                        *)
LEMMA ServiceIsHandlerCode ==
  ASSUME NEW irq \in Irqs \cup {Spurious}
  PROVE  /\ Service(irq) \in Seq(Operations)
         /\ Service(irq) # <<>>
         /\ HandlerCode(Service(irq))
<1>1. CASE irq = "uart"
  <2>1. Service(irq) = <<"puts", "getc", "puts", "eoi", "eret">>
    BY <1>1 DEF Service, Irqs
  <2>. DEFINE s == Service(irq)
  <2>2. s \in Seq(Operations) /\ s # <<>>
    BY <2>1 DEF Operations
  <2>3. EretIsLast(s)
    BY <2>1 DEF EretIsLast
  <2>. QED  BY <2>2, <2>3 DEF HandlerCode
<1>2. CASE irq = "timer"
  <2>1. Service(irq) = <<"puts", "timer_interrupt", "puts", "timer_to_string",
                         "puts", "eoi", "eret">>
    BY <1>2 DEF Service, Irqs
  <2>. DEFINE s == Service(irq)
  <2>2. s \in Seq(Operations) /\ s # <<>>
    BY <2>1 DEF Operations
  <2>3. EretIsLast(s)
    BY <2>1 DEF EretIsLast
  <2>. QED  BY <2>2, <2>3 DEF HandlerCode
<1>3. CASE irq = Spurious
  <2>1. Service(irq) = <<"puts", "eoi", "eret">>
    BY <1>3 DEF Service, Irqs, Spurious
  <2>. DEFINE s == Service(irq)
  <2>2. s \in Seq(Operations) /\ s # <<>>
    BY <2>1 DEF Operations
  <2>3. EretIsLast(s)
    BY <2>1 DEF EretIsLast
  <2>. QED  BY <2>2, <2>3 DEF HandlerCode
<1>. QED  BY <1>1, <1>2, <1>3 DEF Irqs

-----------------------------------------------------------------------------
(* Every step keeps the invariant.                                         *)

LEMMA InitPollInv == Init => PollInv
<1>. SUFFICES ASSUME Init PROVE PollInv
  OBVIOUS
<1>1. Boot \in Seq(Operations) /\ <<>> \in Seq(Operations)
  <2>1. kernel_init \in Seq(Operations)
    BY DEF kernel_init, Operations
  <2>2. <<"uart_init", "puts", "gic_init", "puts", "unmask", "puts", "brk">>
          \in Seq(Operations)
    BY DEF Operations
  <2>3. <<"puts">> \in Seq(Operations)
    BY DEF Operations
  <2>. QED  BY <2>1, <2>2, <2>3 DEF Boot
<1>2. Typed
  BY <1>1 DEF Init, UartInit, Typed, Threads
<1>. QED
  BY <1>2 DEF Init, PollInv, HandlerRunsThrough, HandlerCode, EretIsLast,
              PollsStayTrue, Threads

(* Operations of the boot code that leave the threads and the transmitter. *)
LEMMA MainOperation ==
  ASSUME PollInv, NEW op, Performs("main", op), UNCHANGED <<device, tx>>
  PROVE  PollInv'
<1>1. /\ code' \in [Threads -> Seq(Operations)]
      /\ code'["irq"] = code["irq"]
  BY TailOfCode DEF Performs, PollInv, Threads
<1>2. TxReady' = TxReady
  BY DEF TxReady, TxRoom, Depth
<1>. QED
  BY <1>1, <1>2 DEF PollInv, Performs, Typed, HandlerRunsThrough, PollsStayTrue

LEMMA HandlerOperation ==
  ASSUME PollInv, NEW op \in Operations \ {"ack", "eret"}, Performs("irq", op),
         UNCHANGED <<device, tx>>
  PROVE  PollInv'
<1>1. code' \in [Threads -> Seq(Operations)]
  BY TailOfCode DEF Performs, PollInv, Threads
<1>2. HandlerCode(code'["irq"]) /\ code'["irq"] # <<>>
  BY HandlerGoesOn DEF Performs, PollInv, HandlerRunsThrough
<1>3. code["irq"] # <<>>
  BY DEF Performs, AtOp
<1>4. TxReady' = TxReady
  BY DEF TxReady, TxRoom, Depth
<1>. QED
  BY <1>1, <1>2, <1>3, <1>4
     DEF PollInv, Performs, Typed, HandlerRunsThrough, PollsStayTrue

LEMMA PutsStep ==
  ASSUME PollInv, NEW t \in Threads, Puts(t)
  PROVE  PollInv'
<1>1. /\ code' \in [Threads -> Seq(Operations)]
      /\ \A u \in Threads \ {t} : code'[u] = code[u]
  BY TailOfCode DEF Puts, PollInv
<1>2. TextLength \in Nat /\ TextLength > 0
  OBVIOUS
<1>3. chars' \in [Threads -> Nat] /\ \A u \in Threads : chars'[u] = IF u = t THEN TextLength ELSE chars[u]
  BY <1>2 DEF Puts, PollInv, Typed
<1>4. TxReady' = TxReady /\ device' = device /\ tx' = tx
  BY DEF Puts, uartVars, TxReady, TxRoom, Depth
<1>5. Typed'
  BY <1>1, <1>3, <1>4 DEF Puts, PollInv, Typed
<1>6. CASE t = "irq"
  <2>1. HandlerCode(code'["irq"]) /\ code'["irq"] # <<>>
    BY <1>6, HandlerGoesOn DEF Puts, PollInv, HandlerRunsThrough, Operations
  <2>2. code["irq"] # <<>>
    BY <1>6 DEF Puts, AtOp
  <2>. QED
    BY <2>1, <2>2, <1>2, <1>3, <1>4, <1>5
       DEF PollInv, Puts, Typed, HandlerRunsThrough, PollsStayTrue
<1>7. CASE t = "main"
  <2>1. code'["irq"] = code["irq"]
    BY <1>1, <1>7 DEF Threads
  <2>2. chars'["irq"] = chars["irq"]
    BY <1>3, <1>7 DEF Threads
  <2>. QED
    BY <2>1, <2>2, <1>2, <1>3, <1>4, <1>5
       DEF PollInv, Puts, Typed, HandlerRunsThrough, PollsStayTrue
<1>. QED  BY <1>6, <1>7 DEF Threads

LEMMA PollStep ==
  ASSUME PollInv, NEW t \in Threads, Poll(t)
  PROVE  PollInv'
<1>1. /\ polled' \in [Threads -> BOOLEAN]
      /\ polled'[t] = TRUE
      /\ \A u \in Threads \ {t} : polled'[u] = polled[u]
  BY DEF Poll, PollInv, Typed
<1>2. TxReady' = TxReady /\ device' = device /\ tx' = tx
  BY DEF Poll, uartVars, TxReady, TxRoom, Depth
<1>3. Typed'
  BY <1>1, <1>2 DEF Poll, PollInv, Typed
<1>4. CASE t = "irq"
  <2>1. code["irq"] # <<>>
    BY <1>4 DEF Poll, running
  <2>. QED
    BY <1>1, <1>2, <1>3, <1>4, <2>1
       DEF PollInv, Poll, Typed, HandlerRunsThrough, PollsStayTrue, Threads
<1>5. CASE t = "main"
  <2>1. code["irq"] = <<>>
    BY <1>5 DEF Poll, running
  <2>2. HandlerRunsThrough'
    BY <1>1, <1>5, <2>1
       DEF PollInv, Poll, Typed, HandlerRunsThrough, Threads
  <2>3. device = "ns16550" => tx <= 1
    BY DEF Poll, TxReady, PollInv, Typed
  <2>. QED
    BY <1>1, <1>2, <1>3, <1>5, <2>1, <2>2, <2>3
       DEF PollInv, Poll, Typed, PollsStayTrue, Threads
<1>. QED  BY <1>4, <1>5 DEF Threads

LEMMA PutCharStep ==
  ASSUME PollInv, NEW t \in Threads, PutChar(t)
  PROVE  PollInv'
<1>1. /\ polled' \in [Threads -> BOOLEAN] /\ chars' \in [Threads -> Nat]
      /\ polled'[t] = FALSE
      /\ \A u \in Threads \ {t} : polled'[u] = polled[u] /\ chars'[u] = chars[u]
  BY DEF PutChar, PollInv, Typed
<1>2. tx' \in Nat /\ device' = device
  BY DEF PutChar, WriteData, PollInv, Typed
<1>3. Typed'
  BY <1>1, <1>2 DEF PutChar, PollInv, Typed
<1>4. CASE t = "irq"
  <2>1. code["irq"] # <<>>
    BY <1>4 DEF PutChar, running
  <2>2. device = "ns16550" => tx' <= 1
    BY <1>4 DEF PutChar, WriteData, PollInv, Typed, PollsStayTrue, TxReady
  <2>3. overtaken /\ masked
    BY <2>1 DEF PollInv, HandlerRunsThrough
  <2>. QED
    BY <1>1, <1>2, <1>3, <1>4, <2>1, <2>2, <2>3
       DEF PollInv, PutChar, Typed, HandlerRunsThrough, PollsStayTrue, Threads
<1>5. CASE t = "main"
  <2>1. code["irq"] = <<>>
    BY <1>5 DEF PutChar, running
  <2>2. ~ polled["irq"]
    BY <2>1 DEF PollInv, HandlerRunsThrough, Threads, Typed
  <2>. QED
    BY <1>1, <1>2, <1>3, <1>5, <2>1, <2>2
       DEF PollInv, PutChar, Typed, HandlerRunsThrough, PollsStayTrue, Threads
<1>. QED  BY <1>4, <1>5 DEF Threads

LEMMA ExceptionReturnStep ==
  ASSUME PollInv, NEW t \in Threads, ExceptionReturn(t)
  PROVE  PollInv'
<1>1. TxReady' = TxReady /\ device' = device /\ tx' = tx
  BY DEF ExceptionReturn, uartVars, TxReady, TxRoom, Depth
<1>2. elr' \in Seq(Operations)
  BY DEF ExceptionReturn, PollInv, Typed
<1>3. CASE t = "irq"
  <2>1. GoOn("irq")
    BY <1>3 DEF ExceptionReturn, GoOn
  <2>2. AtOp("irq", "eret")
    BY <1>3 DEF ExceptionReturn
  <2>3. code' \in [Threads -> Seq(Operations)]
    BY <2>1, <2>2, TailOfCode DEF PollInv, Threads
  <2>4. HandlerCode(code'["irq"]) /\ code'["irq"] = <<>>
    BY <2>1, <2>2, HandlerGoesOn DEF PollInv, HandlerRunsThrough, Operations
  <2>5. chars["irq"] = 0 /\ ~ masked'
    BY <2>2 DEF AtOp, ExceptionReturn, PollInv, HandlerRunsThrough
  <2>6. Typed'
    BY <2>3, <1>1, <1>2 DEF ExceptionReturn, PollInv, Typed
  <2>. QED
    BY <2>4, <2>5, <2>6, <1>1
       DEF PollInv, ExceptionReturn, HandlerRunsThrough, PollsStayTrue
<1>4. CASE t = "main"
  <2>1. code["irq"] = <<>> /\ chars["main"] = 0
    BY <1>4 DEF ExceptionReturn, AtOp, running
  <2>2. code' = [code EXCEPT !["main"] = elr]
    BY <1>4 DEF ExceptionReturn
  <2>3. code' \in [Threads -> Seq(Operations)] /\ code'["irq"] = code["irq"]
    BY <2>2 DEF PollInv, Typed, Threads
  <2>4. ~ polled["main"]
    BY <2>1 DEF PollInv, HandlerRunsThrough, Typed, Threads
  <2>5. Typed'
    BY <2>3, <1>1, <1>2 DEF ExceptionReturn, PollInv, Typed
  <2>. QED
    BY <2>1, <2>3, <2>4, <2>5, <1>1
       DEF PollInv, ExceptionReturn, HandlerRunsThrough, PollsStayTrue
<1>. QED  BY <1>3, <1>4 DEF Threads

LEMMA UnmaskStep ==
  ASSUME PollInv, Unmask
  PROVE  PollInv'
<1>1. /\ code' \in [Threads -> Seq(Operations)]
      /\ code'["irq"] = code["irq"] /\ code["irq"] = <<>>
  BY TailOfCode DEF Unmask, PollInv, Threads, AtOp, running
<1>2. TxReady' = TxReady /\ device' = device /\ tx' = tx
  BY DEF Unmask, uartVars, TxReady, TxRoom, Depth
<1>. QED
  BY <1>1, <1>2
     DEF PollInv, Unmask, Typed, HandlerRunsThrough, PollsStayTrue

(* An exception is entered between two texts: no poll is outstanding.      *)
LEMMA BreakStep ==
  ASSUME PollInv, Break
  PROVE  PollInv'
<1>1. code["irq"] = <<>> /\ ~ polled["main"]
  BY DEF Break, AtOp, running, PollInv, HandlerRunsThrough, Threads, Typed
<1>2. SyncHandler \in Seq(Operations)
  BY DEF SyncHandler, Operations
<1>3. /\ code' \in [Threads -> Seq(Operations)]
      /\ code'["irq"] = code["irq"]
      /\ elr' \in Seq(Operations)
  BY <1>2 DEF Break, PollInv, Typed, Threads
<1>4. TxReady' = TxReady /\ device' = device /\ tx' = tx
  BY DEF Break, uartVars, TxReady, TxRoom, Depth
<1>. QED
  BY <1>1, <1>3, <1>4
     DEF PollInv, Break, Typed, HandlerRunsThrough, PollsStayTrue

LEMMA SkipStep ==
  ASSUME PollInv, Skip
  PROVE  PollInv'
<1>1. /\ code' \in [Threads -> Seq(Operations)]
      /\ code'["irq"] = code["irq"] /\ code["irq"] = <<>>
  BY TailOfCode DEF Skip, PollInv, Threads, AtOp, running
<1>2. TxReady' = TxReady /\ device' = device /\ tx' = tx
  BY DEF Skip, uartVars, TxReady, TxRoom, Depth
<1>3. elr' \in Seq(Operations)
  BY DEF Skip, AfterBrk, PollInv, Typed
<1>. QED
  BY <1>1, <1>2, <1>3
     DEF PollInv, Skip, Typed, HandlerRunsThrough, PollsStayTrue

LEMMA AcknowledgeStep ==
  ASSUME PollInv, AcknowledgeIrq
  PROVE  PollInv'
<1>1. PICK irq \in Irqs \cup {Spurious} :
        code' = [code EXCEPT !["irq"] = Service(irq)]
  BY DEF AcknowledgeIrq
<1>2. /\ code' \in [Threads -> Seq(Operations)]
      /\ HandlerCode(code'["irq"]) /\ code'["irq"] # <<>>
  BY <1>1, ServiceIsHandlerCode DEF PollInv, Typed, Threads
<1>3. code["irq"] # <<>>
  BY DEF AcknowledgeIrq, AtOp
<1>4. TxReady' = TxReady /\ device' = device /\ tx' = tx
  BY DEF AcknowledgeIrq, uartVars, TxReady, TxRoom, Depth
<1>. QED
  BY <1>2, <1>3, <1>4
     DEF PollInv, AcknowledgeIrq, Typed, HandlerRunsThrough, PollsStayTrue

(* The interrupted thread's poll is old news from here on.                 *)
LEMMA TakeIrqStep ==
  ASSUME PollInv, TakeIrq
  PROVE  PollInv'
<1>1. /\ code' \in [Threads -> Seq(Operations)]
      /\ code'["irq"] = <<"ack">>
  BY DEF TakeIrq, PollInv, Typed, Threads, Operations
<1>2. code["irq"] = <<>>
  BY DEF TakeIrq, PollInv, HandlerRunsThrough
<1>3. TxReady' = TxReady /\ device' = device /\ tx' = tx
  BY DEF TakeIrq, uartVars, TxReady, TxRoom, Depth
<1>4. HandlerCode(code'["irq"]) /\ code'["irq"] # <<>>
  BY <1>1 DEF HandlerCode
<1>. QED
  BY <1>1, <1>2, <1>3, <1>4
     DEF PollInv, TakeIrq, Typed, HandlerRunsThrough, PollsStayTrue

(* The device only makes room.                                             *)
LEMMA DeviceStep ==
  ASSUME PollInv, Device
  PROVE  PollInv'
<1>1. /\ device' = device /\ tx' \in Nat /\ tx' <= tx
      /\ UNCHANGED threadVars
  BY DEF Device, Transmit, Receive, Tick, uartVars, PollInv, Typed
<1>2. TxReady => TxReady'
  <2>1. Depth' = Depth /\ Depth \in Nat
    BY <1>1 DEF Depth
  <2>. QED  BY <1>1, <2>1 DEF TxReady, TxRoom, PollInv, Typed
<1>. QED
  BY <1>1, <1>2
     DEF PollInv, threadVars, Typed, HandlerRunsThrough, PollsStayTrue

LEMMA StutterStep ==
  ASSUME PollInv, UNCHANGED <<device, tx, threadVars>>
  PROVE  PollInv'
<1>1. TxReady' = TxReady
  BY DEF TxReady, TxRoom, Depth
<1>. QED
  BY <1>1 DEF PollInv, threadVars, Typed, HandlerRunsThrough, PollsStayTrue

LEMMA NextPollInv == PollInv /\ [Next]_vars => PollInv'
<1>. SUFFICES ASSUME PollInv, [Next]_vars PROVE PollInv'
  OBVIOUS
<1>1. CASE \E t \in Threads : Puts(t) \/ Poll(t) \/ PutChar(t) \/ ExceptionReturn(t)
  BY <1>1, PutsStep, PollStep, PutCharStep, ExceptionReturnStep
<1>2. CASE GetChar("irq")
  BY <1>2, HandlerOperation DEF GetChar, ReadData, Operations
<1>3. CASE SetUpUart \/ SetUpGic \/ SetUpTimer \/ EnableTimer
  BY <1>3, MainOperation
     DEF SetUpUart, UartConfigure, SetUpGic, SetUpTimer, EnableTimer, uartVars
<1>4. CASE Unmask \/ Break \/ Skip
  BY <1>4, UnmaskStep, BreakStep, SkipStep
<1>5. CASE AcknowledgeIrq
  BY <1>5, AcknowledgeStep
<1>6. CASE TimerInterrupt \/ TimerToString \/ EndIrq
  BY <1>6, HandlerOperation
     DEF TimerInterrupt, TimerToString, EndIrq, uartVars, Operations
<1>7. CASE TakeIrq
  BY <1>7, TakeIrqStep
<1>8. CASE Device
  BY <1>8, DeviceStep
<1>9. CASE WaitForInterrupt \/ SignalIrq \/ UNCHANGED vars
  BY <1>9, StutterStep DEF WaitForInterrupt, SignalIrq, vars, uartVars
<1>. QED
  BY <1>1, <1>2, <1>3, <1>4, <1>5, <1>6, <1>7, <1>8, <1>9 DEF Next, Step

(* The order of polls and handlers is the one PollInv describes.           *)
THEOREM PollsAreOrdered == Spec => []PollInv
<1>. QED  BY InitPollInv, NextPollInv, PTL DEF Spec

(* uart.c:95-105: a character is lost only by unmasked boot code on a      *)
(* PL011, between whose poll and write a handler ran: whatever the boot    *)
(* code prints, however often it is interrupted, whatever FIFOs there are. *)
THEOREM OnlyHandlersCostCharacters == Spec => LossNeedsHandler
<1>1. ASSUME PollInv, [Next]_vars
      PROVE  \A t \in Threads : PutChar(t) /\ ~ TxRoom
               => t = "main" /\ ~ masked /\ device = "pl011" /\ overtaken
  <2>. SUFFICES ASSUME NEW t \in Threads, PutChar(t), ~ TxRoom
                PROVE  t = "main" /\ ~ masked /\ device = "pl011" /\ overtaken
    OBVIOUS
  <2>1. polled[t]
    BY DEF PutChar
  <2>2. TxReady => TxRoom
    BY <1>1 DEF TxReady, TxRoom, Depth, PollInv, Typed
  <2>3. t = "main"
    BY <1>1, <2>1, <2>2 DEF PollInv, PollsStayTrue, Threads
  <2>4. overtaken
    BY <1>1, <2>1, <2>2, <2>3 DEF PollInv, PollsStayTrue
  <2>5. ~ masked
    BY <1>1, <2>1, <2>3, <2>4 DEF PollInv, PollsStayTrue, PutChar, running
  <2>6. device = "pl011"
    BY <1>1, <2>1, <2>3 DEF PollInv, PollsStayTrue, Typed, TxRoom, Depth
  <2>. QED  BY <2>3, <2>4, <2>5, <2>6
<1>. QED  BY <1>1, PollsAreOrdered, PTL DEF Spec, LossNeedsHandler

-----------------------------------------------------------------------------
(* Where the two threads are, and what that says of the devices.           *)

(* Main is at operation k of the boot code, or in the handler of its brk,  *)
(* which returns to operation k.                                           *)
MainAt(k) ==
  \/ elr = <<>> /\ code["main"] = Rest(k)
  \/ k = 7 /\ elr = Rest(7) /\ code["main"] \in {SyncHandler, <<"skip", "eret">>}
  \/ k = 8 /\ elr = Rest(8) /\ code["main"] = <<"eret">>

(* What follows from that: interrupts are masked up to operation 5 and in  *)
(* handlers, the timer is set up by operation 10 and enabled by 11.        *)
MainIn(k) ==
  /\ MainAt(k)
  /\ masked <=> k <= 5 \/ code["irq"] # <<>> \/ elr # <<>>
  /\ k <= 5 \/ elr # <<>> => code["irq"] = <<>>
  /\ elr # <<>> => ~ spsr
  /\ freq = IF k <= 10 THEN 0 ELSE CntFreq
  /\ "ENABLE" \in ctl => k > 11

MainPlace == \E k \in 1 .. 14 : MainIn(k)

(* The handler serves a key, or the timer; that of a spurious interrupt is *)
(* the end of either.  What it was called for is still there when it comes *)
(* to it.                                                                  *)
KeyAt(k) == code["irq"] = KeyRest(k) /\ (k <= 2 => rx > 0)
TimerAt(k) == /\ code["irq"] = TimerRest(k)
              /\ k <= 4 => freq = CntFreq
              /\ k <= 2 => cntpct >= cval

HandlerPlace ==
  \/ code["irq"] \in {<<>>, <<"ack">>}
  \/ \E k \in 1 .. 5 : KeyAt(k)
  \/ \E k \in 1 .. 7 : TimerAt(k)

UartState ==
  /\ tx <= Depth /\ rx \in 0 .. Depth
  /\ rxRaised => rx > 0
  /\ device \in Devices /\ typed \in 0 .. MaxKeys
  /\ rxRaised \in BOOLEAN /\ rxEnabled \in BOOLEAN

(* The timer is due m seconds after init_timer, and that many seconds but  *)
(* one have been shown, unless the handler is about to.                    *)
WillShow == \E i \in 1 .. Len(code["irq"]) : code["irq"][i] = "timer_to_string"
DueAt(m) == /\ cval = start + m * CntFreq /\ cval <= cntpct + CntFreq
            /\ ~ WillShow => ShowsSince(m - 1)
TimerState ==
  /\ cntpct \in 0 .. MaxCount /\ start \in 0 .. MaxCount
  /\ ctl \subseteq {"ENABLE", "IMASK"} /\ shown \in Ints /\ cval \in Nat
  /\ ShowsSince(0)
  /\ freq \in {0, CntFreq}
  /\ freq = 0 => cval = 0 /\ shown = 0
  /\ freq # 0 => \E m \in Nat \ {0} : DueAt(m)

PlaceInv ==
  /\ MainPlace /\ HandlerPlace /\ UartState /\ TimerState /\ GicTypeOK
  /\ \A t \in Threads : chars[t] <= TextLength

-----------------------------------------------------------------------------
(* The devices, whatever the threads do.                                   *)

LEMMA UartStep ==
  ASSUME Typed, UartState, [Next]_vars
  PROVE  UartState'
<1>1. \/ UNCHANGED uartVars \/ UartConfigure \/ WriteData \/ ReadData
      \/ Transmit \/ Receive
  BY DEF Next, Step, Puts, Poll, PutChar, ExceptionReturn, GetChar, SetUpUart,
         SetUpGic, SetUpTimer, EnableTimer, Unmask, Break, Skip, AcknowledgeIrq,
         TimerInterrupt, TimerToString, EndIrq, WaitForInterrupt, TakeIrq,
         SignalIrq, Device, vars
<1>2. Depth \in Nat /\ (device' = device => Depth' = Depth)
  BY DEF Depth
<1>3. CASE UNCHANGED uartVars
  BY <1>2, <1>3 DEF UartState, uartVars
<1>4. CASE UartConfigure
  BY <1>2, <1>4 DEF UartState, UartConfigure
<1>5. CASE WriteData
  BY <1>2, <1>5 DEF UartState, WriteData, TxRoom, Typed
<1>6. CASE ReadData
  <2>1. rx' = rx - 1 /\ rx > 0 /\ rxRaised' = FALSE
        /\ UNCHANGED <<device, tx, rxEnabled, typed>>
    BY <1>6 DEF ReadData, RxReady
  <2>2. rx' \in 0 .. Depth'
    BY <1>2, <2>1 DEF UartState
  <2>. QED  BY <1>2, <2>1, <2>2 DEF UartState
<1>7. CASE Transmit
  BY <1>2, <1>7 DEF UartState, Transmit, Typed
<1>8. CASE Receive
  BY <1>2, <1>8 DEF UartState, Receive
<1>. QED  BY <1>1, <1>3, <1>4, <1>5, <1>6, <1>7, <1>8

LEMMA GicStep ==
  ASSUME GicTypeOK, [Next]_vars
  PROVE  GicTypeOK'
<1>1. \/ UNCHANGED gicVars \/ GicSetup \/ Signal(lines) \/ EndOfInterrupt
      \/ \E irq \in Irqs \cup {Spurious} : Acknowledge(lines, irq)
  BY DEF Next, Step, Puts, Poll, PutChar, ExceptionReturn, GetChar, SetUpUart,
         SetUpGic, SetUpTimer, EnableTimer, Unmask, Break, Skip, AcknowledgeIrq,
         TimerInterrupt, TimerToString, EndIrq, WaitForInterrupt, TakeIrq,
         SignalIrq, Device, vars
<1>2. CASE UNCHANGED gicVars
  BY <1>2 DEF GicTypeOK, gicVars
<1>3. CASE GicSetup
  BY <1>3 DEF GicTypeOK, GicSetup, gic_enable_irq
<1>4. CASE Signal(lines)
  BY <1>4 DEF GicTypeOK, Signal
<1>5. CASE EndOfInterrupt
  BY <1>5 DEF GicTypeOK, EndOfInterrupt
<1>6. CASE \E irq \in Irqs \cup {Spurious} : Acknowledge(lines, irq)
  BY <1>6 DEF GicTypeOK, Acknowledge
<1>. QED  BY <1>1, <1>2, <1>3, <1>4, <1>5, <1>6

LEMMA CharsStep ==
  ASSUME Typed, Typed', \A t \in Threads : chars[t] <= TextLength, [Next]_vars
  PROVE  \A t \in Threads : chars'[t] <= TextLength
<1>1. \/ UNCHANGED chars
      \/ \E t \in Threads : Puts(t) \/ PutChar(t)
  BY DEF Next, Step, Poll, ExceptionReturn, GetChar, SetUpUart, Performs,
         SetUpGic, SetUpTimer, EnableTimer, Unmask, Break, Skip, AcknowledgeIrq,
         TimerInterrupt, TimerToString, EndIrq, WaitForInterrupt, TakeIrq,
         SignalIrq, Device, vars, threadVars
<1>2. CASE \E t \in Threads : Puts(t) \/ PutChar(t)
  <2>1. PICK t \in Threads : Puts(t) \/ PutChar(t)
    BY <1>2
  <2>2. CASE Puts(t)
    BY <2>2 DEF Puts, Typed
  <2>3. CASE PutChar(t)
    BY <2>3 DEF PutChar, Typed
  <2>. QED  BY <2>1, <2>2, <2>3
<1>. QED  BY <1>1, <1>2

-----------------------------------------------------------------------------
(* Main goes through the boot code.                                        *)

LEMMA MainKept ==
  ASSUME MainPlace, code'["main"] = code["main"],
         code'["irq"] = <<>> <=> code["irq"] = <<>>,
         UNCHANGED <<elr, masked, spsr, freq, ctl>>
  PROVE  MainPlace'
<1>1. PICK k \in 1 .. 14 : MainIn(k)
  BY DEF MainPlace
<1>2. MainIn(k)'
  BY <1>1 DEF MainIn, MainAt
<1>. QED  BY <1>1, <1>2 DEF MainPlace

(* Main's next operation is the boot code's, or that of the brk's handler. *)
LEMMA MainGoesOn ==
  ASSUME Typed, NEW k \in 1 .. 14, MainIn(k), NEW op, AtOp("main", op), GoOn("main")
  PROVE  /\ code["irq"] = <<>> /\ code'["irq"] = <<>>
         /\ \/ /\ elr = <<>> /\ k <= 13 /\ op = Boot[k]
               /\ code'["main"] = Rest(k + 1)
            \/ /\ k = 7 /\ elr = Rest(7) /\ op = "puts"
               /\ code'["main"] = <<"skip", "eret">>
            \/ /\ k = 7 /\ elr = Rest(7) /\ op = "skip"
               /\ code'["main"] = <<"eret">>
            \/ k = 8 /\ elr = Rest(8) /\ op = "eret"
<1>1. code["irq"] = <<>>
  BY DEF AtOp, running
<1>2. /\ code'["main"] = Tail(code["main"]) /\ code'["irq"] = code["irq"]
      /\ code["main"] # <<>> /\ op = Head(code["main"])
  BY TailOfCode DEF Threads, AtOp
<1>3. CASE elr = <<>> /\ code["main"] = Rest(k)
  <2>1. k \in 1 .. 13 /\ Head(Rest(k)) = Boot[k] /\ Tail(Rest(k)) = Rest(k + 1)
    BY <1>2, <1>3, RestNotEmpty
  <2>. QED  BY <1>1, <1>2, <1>3, <2>1
<1>4. CASE k = 7 /\ elr = Rest(7) /\ code["main"] = SyncHandler
  <2>1. Head(SyncHandler) = "puts" /\ Tail(SyncHandler) = <<"skip", "eret">>
    BY DEF SyncHandler
  <2>. QED  BY <1>1, <1>2, <1>4, <2>1
<1>5. CASE k = 7 /\ elr = Rest(7) /\ code["main"] = <<"skip", "eret">>
  <2>1. Head(<<"skip", "eret">>) = "skip" /\ Tail(<<"skip", "eret">>) = <<"eret">>
    OBVIOUS
  <2>. QED  BY <1>1, <1>2, <1>5, <2>1
<1>6. CASE k = 8 /\ elr = Rest(8) /\ code["main"] = <<"eret">>
  BY <1>1, <1>2, <1>6
<1>. QED  BY <1>3, <1>4, <1>5, <1>6 DEF MainIn, MainAt

LEMMA MainStep ==
  ASSUME PollInv, PollInv', MainPlace, [Next]_vars
  PROVE  MainPlace'
<1>. PICK k \in 1 .. 14 : MainIn(k)
  BY DEF MainPlace
<1>1. CASE \/ SetUpUart \/ SetUpGic \/ SetUpTimer \/ EnableTimer \/ Unmask
           \/ Puts("main")
  <2>1. PICK op \in {"uart_init", "gic_init", "init_timer", "enable_timer",
                     "unmask", "puts"} :
          /\ AtOp("main", op) /\ GoOn("main")
          /\ UNCHANGED saved
          /\ masked' = IF op = "unmask" THEN FALSE ELSE masked
          /\ freq' = IF op = "init_timer" THEN CntFreq ELSE freq
          /\ op # "enable_timer" => ctl' = ctl
    BY <1>1 DEF SetUpUart, SetUpGic, SetUpTimer, EnableTimer, Unmask, Puts,
                Performs, timerVars, init_timer_imp, enable_timer_imp
  <2>2. \/ /\ elr = <<>> /\ k <= 13 /\ op = Boot[k]
           /\ code'["main"] = Rest(k + 1)
        \/ /\ k = 7 /\ elr = Rest(7) /\ op = "puts"
           /\ code'["main"] = <<"skip", "eret">>
    BY <2>1, MainGoesOn DEF PollInv
  <2>3. code["irq"] = <<>> /\ code'["irq"] = <<>>
    BY <2>1, MainGoesOn DEF PollInv
  <2>4. CASE /\ elr = <<>> /\ k <= 13 /\ op = Boot[k]
             /\ code'["main"] = Rest(k + 1)
    <3>1. /\ op = "unmask" <=> k = 5
          /\ op = "init_timer" <=> k = 10
          /\ op = "enable_timer" <=> k = 11
      BY <2>1, <2>4, BootIs
    <3>2. k + 1 \in 1 .. 14
      BY <2>4
    <3>3. MainIn(k + 1)'
      BY <2>1, <2>3, <2>4, <3>1, <3>2 DEF MainIn, MainAt
    <3>. QED  BY <3>2, <3>3 DEF MainPlace
  <2>5. CASE /\ k = 7 /\ elr = Rest(7) /\ op = "puts"
             /\ code'["main"] = <<"skip", "eret">>
    <3>1. MainIn(k)'
      BY <2>1, <2>3, <2>5 DEF MainIn, MainAt
    <3>. QED  BY <3>1 DEF MainPlace
  <2>. QED  BY <2>2, <2>4, <2>5
<1>2. CASE Break
  <2>1. AtOp("main", "brk") /\ code["irq"] = <<>>
    BY <1>2 DEF Break, AtOp, running
  <2>2. elr = <<>> /\ k = 7 /\ code["main"] = Rest(7)
    <3>1. Head(code["main"]) = "brk" /\ code["main"] # <<>>
      BY <2>1 DEF AtOp
    <3>2. /\ Head(SyncHandler) = "puts" /\ Head(<<"skip", "eret">>) = "skip"
          /\ Head(<<"eret">>) = "eret"
      BY DEF SyncHandler
    <3>3. elr = <<>> /\ code["main"] = Rest(k)
      BY <3>1, <3>2 DEF MainIn, MainAt
    <3>4. k \in 1 .. 13 /\ Head(Rest(k)) = Boot[k]
      BY <3>1, <3>3, RestNotEmpty
    <3>5. Boot[k] = "brk"
      BY <3>1, <3>3, <3>4
    <3>. QED  BY <3>3, <3>4, <3>5, BootIs
  <2>3. /\ code'["main"] = SyncHandler /\ code'["irq"] = <<>>
        /\ elr' = Rest(7) /\ masked' = TRUE /\ spsr' = masked
        /\ UNCHANGED timerVars
    BY <1>2, <2>1, <2>2 DEF Break, PollInv, Typed, Threads
  <2>4. ~ masked /\ Rest(7) # <<>>
    BY <2>1, <2>2, RestFacts DEF MainIn
  <2>5. MainIn(7)'
    BY <2>2, <2>3, <2>4 DEF MainIn, MainAt, timerVars
  <2>. QED  BY <2>5 DEF MainPlace
<1>3. CASE Skip
  <2>1. AtOp("main", "skip") /\ GoOn("main")
    BY <1>3 DEF Skip
  <2>2. \A i \in 1 .. 13 : Boot[i] # "skip"
    BY BootIs
  <2>3. /\ k = 7 /\ elr = Rest(7) /\ code'["main"] = <<"eret">>
        /\ code["irq"] = <<>> /\ code'["irq"] = <<>>
    BY <2>1, <2>2, MainGoesOn DEF PollInv
  <2>4. elr' = Rest(8)
    <3>1. /\ Rest(7) \in Seq(Operations) /\ Rest(7) # <<>>
          /\ Tail(Rest(7)) = Rest(7 + 1)
      BY RestFacts, 7 \in 1 .. 13, Zenon
    <3>2. SubSeq(Rest(7), 2, Len(Rest(7))) = Rest(7 + 1)
      BY <3>1, TailIsSubSeq
    <3>3. elr' = SubSeq(elr, 2, Len(elr))
      BY <1>3 DEF Skip, AfterBrk
    <3>. QED  BY <2>3, <3>2, <3>3
  <2>5. Rest(7) # <<>> /\ Rest(8) # <<>>
    BY RestFacts
  <2>6. UNCHANGED <<masked, spsr, freq, ctl>>
    BY <1>3 DEF Skip, timerVars
  <2>7. MainIn(8)'
    BY <2>3, <2>4, <2>5, <2>6 DEF MainIn, MainAt
  <2>. QED  BY <2>7 DEF MainPlace
<1>4. CASE ExceptionReturn("main")
  <2>1. /\ AtOp("main", "eret") /\ code["irq"] = <<>>
        /\ code'["main"] = elr /\ elr' = <<>> /\ masked' = spsr
        /\ code'["irq"] = <<>>
        /\ UNCHANGED <<spsr, freq, ctl>>
    BY <1>4 DEF ExceptionReturn, AtOp, running, PollInv, Typed, Threads, timerVars
  <2>2. k = 8 /\ elr = Rest(8)
    <3>1. Head(code["main"]) = "eret" /\ code["main"] # <<>>
      BY <2>1 DEF AtOp
    <3>2. Head(SyncHandler) = "puts" /\ Head(<<"skip", "eret">>) = "skip"
      BY DEF SyncHandler
    <3>3. \A i \in 1 .. 13 : Boot[i] # "eret"
      BY BootIs
    <3>4. code["main"] # Rest(k)
      BY <3>1, <3>3, RestNotEmpty
    <3>. QED  BY <3>1, <3>2, <3>4 DEF MainIn, MainAt
  <2>3. Rest(8) # <<>>
    BY RestFacts
  <2>4. MainIn(8)'
    BY <2>1, <2>2, <2>3 DEF MainIn, MainAt
  <2>. QED  BY <2>4 DEF MainPlace
<1>5. CASE ExceptionReturn("irq")
  <2>1. /\ AtOp("irq", "eret") /\ GoOn("irq") /\ code["irq"] # <<>>
        /\ masked' = spsr
        /\ UNCHANGED <<spsr, elr, freq, ctl>>
    BY <1>5 DEF ExceptionReturn, GoOn, AtOp, timerVars
  <2>2. code'["irq"] = <<>>
    BY <2>1, HandlerGoesOn DEF PollInv, HandlerRunsThrough, Operations
  <2>3. code'["main"] = code["main"]
    BY <2>1, TailOfCode DEF PollInv, Threads
  <2>4. ~ spsr
    BY <2>1 DEF PollInv, HandlerRunsThrough
  <2>5. MainIn(k)'
    BY <2>1, <2>2, <2>3, <2>4 DEF MainIn, MainAt
  <2>. QED  BY <2>5 DEF MainPlace
<1>6. CASE TakeIrq
  <2>1. /\ ~ masked /\ masked' = TRUE /\ code'["irq"] = <<"ack">>
        /\ code'["main"] = code["main"]
        /\ UNCHANGED <<elr, freq, ctl>>
    BY <1>6 DEF TakeIrq, PollInv, Typed, Threads, timerVars
  <2>2. code["irq"] = <<>> /\ <<"ack">> # <<>>
    BY <2>1 DEF PollInv, HandlerRunsThrough
  <2>3. MainIn(k)'
    BY <2>1, <2>2 DEF MainIn, MainAt
  <2>. QED  BY <2>3 DEF MainPlace
<1>7. CASE AcknowledgeIrq
  <2>1. PICK irq \in Irqs \cup {Spurious} :
          code' = [code EXCEPT !["irq"] = Service(irq)]
    BY <1>7 DEF AcknowledgeIrq
  <2>2. code'["main"] = code["main"] /\ code["irq"] # <<>> /\ code'["irq"] # <<>>
    BY <1>7, <2>1, ServiceIsHandlerCode DEF AcknowledgeIrq, AtOp, PollInv, Typed, Threads
  <2>. QED  BY <1>7, <2>2, MainKept DEF AcknowledgeIrq, timerVars
<1>8. CASE \/ Puts("irq") \/ GetChar("irq") \/ TimerInterrupt \/ TimerToString
           \/ EndIrq
  <2>1. PICK op \in Operations \ {"ack", "eret"} :
          /\ AtOp("irq", op) /\ GoOn("irq")
          /\ UNCHANGED <<elr, masked, spsr, freq, ctl>>
    BY <1>8 DEF Puts, GetChar, TimerInterrupt, TimerToString, EndIrq, Performs,
                Operations, timerVars, timer_imp_interrupt, timer_to_string_imp
  <2>2. code["irq"] # <<>> /\ code'["irq"] # <<>> /\ code'["main"] = code["main"]
    BY <2>1, HandlerGoesOn, TailOfCode
       DEF AtOp, PollInv, HandlerRunsThrough, Threads
  <2>. QED  BY <2>1, <2>2, MainKept
<1>9. CASE \/ \E t \in Threads : Poll(t) \/ PutChar(t)
           \/ SignalIrq \/ WaitForInterrupt \/ Device \/ UNCHANGED vars
  <2>1. UNCHANGED <<code, elr, masked, spsr, freq, ctl>>
    BY <1>9 DEF Poll, PutChar, SignalIrq, WaitForInterrupt, Device, Tick, vars,
                threadVars, timerVars
  <2>. QED  BY <2>1, MainKept
<1>. QED
  BY <1>1, <1>2, <1>3, <1>4, <1>5, <1>6, <1>7, <1>8, <1>9 DEF Next, Step, Threads

-----------------------------------------------------------------------------
(* The handler goes through what its interrupt asks for.                   *)

LEMMA SpuriousIsTheEnd == Service(Spurious) = KeyRest(3)
<1>1. Service(Spurious) = <<"puts", "eoi", "eret">>
  BY DEF Service, Spurious
<1>2. KeyRest(1) = <<"puts", "getc", "puts", "eoi", "eret">>
  BY KeyRestFacts
<1>3. /\ Tail(<<"puts", "getc", "puts", "eoi", "eret">>)
           = <<"getc", "puts", "eoi", "eret">>
      /\ Tail(<<"getc", "puts", "eoi", "eret">>) = <<"puts", "eoi", "eret">>
  OBVIOUS
<1>4. KeyRest(2) = Tail(KeyRest(1)) /\ KeyRest(3) = Tail(KeyRest(2))
  <2>1. /\ Tail(KeyRest(1)) = KeyRest(1 + 1)
        /\ Tail(KeyRest(2)) = KeyRest(2 + 1)
    BY KeyRestFacts, 1 \in 1 .. 5, 2 \in 1 .. 5, Zenon
  <2>. QED  BY <2>1
<1>. QED  BY <1>1, <1>2, <1>3, <1>4, Zenon

(* The handler's next operation is the key's or the timer's.               *)
LEMMA HandlerPlaceGoesOn ==
  ASSUME Typed, HandlerPlace, NEW op, op # "ack", AtOp("irq", op), GoOn("irq")
  PROVE  \/ \E k \in 1 .. 5 : /\ KeyAt(k) /\ op = Service("uart")[k]
                              /\ code'["irq"] = KeyRest(k + 1)
         \/ \E k \in 1 .. 7 : /\ TimerAt(k) /\ op = Service("timer")[k]
                              /\ code'["irq"] = TimerRest(k + 1)
<1>1. /\ code'["irq"] = Tail(code["irq"])
      /\ code["irq"] # <<>> /\ op = Head(code["irq"])
  BY TailOfCode DEF Threads, AtOp
<1>2. code["irq"] # <<"ack">>
  BY <1>1
<1>3. ASSUME NEW k \in 1 .. 5, KeyAt(k)
      PROVE  op = Service("uart")[k] /\ code'["irq"] = KeyRest(k + 1)
  BY <1>1, <1>3, KeyRestFacts, Zenon DEF KeyAt
<1>4. ASSUME NEW k \in 1 .. 7, TimerAt(k)
      PROVE  op = Service("timer")[k] /\ code'["irq"] = TimerRest(k + 1)
  BY <1>1, <1>4, TimerRestFacts, Zenon DEF TimerAt
<1>. QED  BY <1>1, <1>2, <1>3, <1>4 DEF HandlerPlace

LEMMA HandlerKept ==
  ASSUME HandlerPlace, code'["irq"] = code["irq"], rx > 0 => rx' > 0,
         code["irq"] # <<>> => freq' = freq /\ cval' = cval /\ cntpct' >= cntpct,
         cntpct \in Nat, cntpct' \in Nat, cval \in Nat
  PROVE  HandlerPlace'
<1>1. CASE code["irq"] \in {<<>>, <<"ack">>}
  BY <1>1 DEF HandlerPlace
<1>2. CASE \E k \in 1 .. 5 : KeyAt(k)
  <2>1. PICK k \in 1 .. 5 : KeyAt(k)
    BY <1>2
  <2>2. KeyAt(k)'
    BY <2>1 DEF KeyAt
  <2>. QED  BY <2>2 DEF HandlerPlace
<1>3. CASE \E k \in 1 .. 7 : TimerAt(k)
  <2>1. PICK k \in 1 .. 7 : TimerAt(k)
    BY <1>3
  <2>2. code["irq"] # <<>>
    BY <2>1, TimerRestFacts, Zenon DEF TimerAt
  <2>3. TimerAt(k)'
    BY <2>1, <2>2 DEF TimerAt
  <2>. QED  BY <2>3 DEF HandlerPlace
<1>. QED  BY <1>1, <1>2, <1>3 DEF HandlerPlace

(* A handler's operation: it needs what is left to it to be still there.   *)
LEMMA HandlerAdvances ==
  ASSUME Typed, HandlerPlace, NEW op, op # "ack", AtOp("irq", op), GoOn("irq"),
         op = "getc" \/ rx' = rx, op = "timer_interrupt" \/ UNCHANGED cval,
         UNCHANGED <<freq, cntpct>>
  PROVE  HandlerPlace'
<1>1. CASE \E k \in 1 .. 5 : /\ KeyAt(k) /\ op = Service("uart")[k]
                              /\ code'["irq"] = KeyRest(k + 1)
  <2>1. PICK k \in 1 .. 5 : /\ KeyAt(k) /\ op = Service("uart")[k]
                            /\ code'["irq"] = KeyRest(k + 1)
    BY <1>1
  <2>2. CASE k = 5
    BY <2>1, <2>2, KeyRestFacts DEF HandlerPlace
  <2>3. CASE k # 5
    <3>1. k + 1 \in 1 .. 5
      BY <2>3
    <3>2. k + 1 <= 2 => rx' > 0
      <4>1. SUFFICES ASSUME k = 1 PROVE rx' > 0
        OBVIOUS
      <4>2. op = "puts"
        BY <2>1, <4>1, KeyRestFacts
      <4>. QED  BY <2>1, <4>1, <4>2 DEF KeyAt
    <3>3. KeyAt(k + 1)'
      BY <2>1, <3>2 DEF KeyAt
    <3>. QED  BY <3>1, <3>3 DEF HandlerPlace
  <2>. QED  BY <2>2, <2>3
<1>2. CASE \E k \in 1 .. 7 : /\ TimerAt(k) /\ op = Service("timer")[k]
                              /\ code'["irq"] = TimerRest(k + 1)
  <2>1. PICK k \in 1 .. 7 : /\ TimerAt(k) /\ op = Service("timer")[k]
                            /\ code'["irq"] = TimerRest(k + 1)
    BY <1>2
  <2>2. CASE k = 7
    BY <2>1, <2>2, TimerRestFacts DEF HandlerPlace
  <2>3. CASE k # 7
    <3>1. k + 1 \in 1 .. 7
      BY <2>3
    <3>2. k + 1 <= 2 => cntpct' >= cval'
      <4>1. SUFFICES ASSUME k = 1 PROVE cntpct' >= cval'
        OBVIOUS
      <4>2. op = "puts"
        BY <2>1, <4>1, TimerRestFacts
      <4>. QED  BY <2>1, <4>1, <4>2 DEF TimerAt
    <3>3. TimerAt(k + 1)'
      BY <2>1, <3>2 DEF TimerAt
    <3>. QED  BY <3>1, <3>3 DEF HandlerPlace
  <2>. QED  BY <2>2, <2>3
<1>. QED  BY <1>1, <1>2, HandlerPlaceGoesOn

(* The interrupt is acknowledged for something that is there.              *)
LEMMA HandlerStarts ==
  ASSUME PollInv, MainPlace, UartState, AcknowledgeIrq
  PROVE  HandlerPlace'
<1>1. PICK irq \in Irqs \cup {Spurious} :
        /\ irq \in IF Pending(lines) = {} THEN {Spurious} ELSE Pending(lines)
        /\ code' = [code EXCEPT !["irq"] = Service(irq)]
  BY DEF AcknowledgeIrq, Acknowledge
<1>2. code'["irq"] = Service(irq) /\ UNCHANGED <<rx, freq, cntpct, cval>>
  BY <1>1 DEF AcknowledgeIrq, PollInv, Typed, Threads, uartVars, timerVars
<1>3. irq \in Irqs => irq \in lines
  BY <1>1 DEF Pending, Irqs, Spurious
<1>4. CASE irq = Spurious
  <2>1. KeyAt(3)'
    BY <1>2, <1>4, SpuriousIsTheEnd DEF KeyAt
  <2>. QED  BY <2>1 DEF HandlerPlace
<1>5. CASE irq = "uart"
  <2>1. UartLine
    BY <1>3, <1>5 DEF lines, Irqs
  <2>2. rx > 0
    BY <2>1 DEF UartLine, UartState, PollInv, Typed
  <2>3. KeyAt(1)'
    BY <1>2, <1>5, <2>2, KeyRestFacts DEF KeyAt
  <2>. QED  BY <2>3 DEF HandlerPlace
<1>6. CASE irq = "timer"
  <2>1. TimerLine
    BY <1>3, <1>6 DEF lines, Irqs
  <2>2. freq = CntFreq /\ cntpct >= cval
    <3>1. PICK k \in 1 .. 14 : MainIn(k)
      BY DEF MainPlace
    <3>2. k > 11
      BY <2>1, <3>1 DEF TimerLine, MainIn
    <3>. QED  BY <2>1, <3>1, <3>2 DEF TimerLine, MainIn
  <2>3. TimerAt(1)'
    BY <1>2, <1>6, <2>2, TimerRestFacts DEF TimerAt
  <2>. QED  BY <2>3 DEF HandlerPlace
<1>. QED  BY <1>4, <1>5, <1>6 DEF Irqs

LEMMA HandlerStep ==
  ASSUME PollInv, PollInv', MainPlace, UartState, UartState', TimerState,
         TimerState', HandlerPlace, [Next]_vars
  PROVE  HandlerPlace'
<1>1. CASE AcknowledgeIrq
  BY <1>1, HandlerStarts
<1>2. CASE TakeIrq
  BY <1>2 DEF TakeIrq, PollInv, Typed, Threads, HandlerPlace
<1>3. CASE \/ Puts("irq") \/ GetChar("irq") \/ TimerInterrupt \/ TimerToString
           \/ EndIrq \/ ExceptionReturn("irq")
  <2>1. PICK op \in {"puts", "getc", "timer_interrupt", "timer_to_string", "eoi", "eret"} :
          /\ AtOp("irq", op) /\ GoOn("irq")
          /\ op = "getc" \/ rx' = rx
          /\ op = "timer_interrupt" \/ UNCHANGED cval
          /\ UNCHANGED <<freq, cntpct>>
    BY <1>3 DEF Puts, GetChar, TimerInterrupt, TimerToString, EndIrq, Performs,
                ExceptionReturn, GoOn, uartVars, timerVars,
                timer_imp_interrupt, timer_to_string_imp
  <2>. QED  BY <2>1, HandlerAdvances DEF PollInv
<1>4. CASE \/ SetUpUart \/ SetUpGic \/ SetUpTimer \/ EnableTimer \/ Unmask \/ Skip
           \/ Puts("main") \/ ExceptionReturn("main") \/ Break
  <2>1. code["irq"] = <<>> /\ code'["irq"] = <<>>
    BY <1>4 DEF SetUpUart, SetUpGic, SetUpTimer, EnableTimer, Unmask, Skip, Puts,
                ExceptionReturn, Break, Performs, AtOp, running, GoOn, PollInv,
                Typed, Threads
  <2>. QED  BY <2>1 DEF HandlerPlace
<1>5. CASE \/ \E t \in Threads : Poll(t) \/ PutChar(t)
           \/ SignalIrq \/ WaitForInterrupt \/ Device \/ UNCHANGED vars
  <2>1. /\ UNCHANGED <<code, freq, cval>>
        /\ rx' = rx \/ rx' = rx + 1
        /\ cntpct' = cntpct \/ cntpct' = cntpct + 1
    BY <1>5 DEF Poll, PutChar, WriteData, SignalIrq, WaitForInterrupt, Device,
                Transmit, Receive, Tick, vars, threadVars, timerVars, uartVars
  <2>2. cntpct \in Nat /\ cntpct' \in Nat /\ cval \in Nat /\ rx \in Nat
    BY DEF TimerState, UartState, Depth
  <2>3. (rx > 0 => rx' > 0) /\ cntpct' >= cntpct
    BY <2>1, <2>2
  <2>. QED  BY <2>1, <2>2, <2>3, HandlerKept
<1>. QED
  BY <1>1, <1>2, <1>3, <1>4, <1>5 DEF Next, Step, Threads

-----------------------------------------------------------------------------
(* The timer stays on the grid of its seconds.                             *)

LEMMA WillShowAt ==
  /\ code["irq"] \in {<<>>, <<"ack">>} => ~ WillShow
  /\ \A k \in 1 .. 5 : code["irq"] = KeyRest(k) => ~ WillShow
  /\ \A k \in 1 .. 7 : code["irq"] = TimerRest(k) => (WillShow <=> k <= 4)
<1>1. code["irq"] \in {<<>>, <<"ack">>} => ~ WillShow
  BY DEF WillShow
<1>2. \A k \in 1 .. 5 : code["irq"] = KeyRest(k) => ~ WillShow
  BY KeyRestFacts, Zenon DEF WillShow
<1>3. \A k \in 1 .. 7 : code["irq"] = TimerRest(k) => (WillShow <=> k <= 4)
  BY TimerRestFacts, Zenon DEF WillShow
<1>. QED  BY <1>1, <1>2, <1>3

(* Where the two timer operations stand, and that no handler acknowledges  *)
(* a second time.                                                          *)
LEMMA WhichOperation ==
  /\ \A k \in 1 .. 5 : Service("uart")[k] \notin {"ack", "timer_interrupt", "timer_to_string"}
  /\ \A k \in 1 .. 7 : /\ Service("timer")[k] # "ack"
                       /\ Service("timer")[k] = "timer_interrupt" <=> k = 2
                       /\ Service("timer")[k] = "timer_to_string" <=> k = 4
<1>1. /\ Service("uart") = <<"puts", "getc", "puts", "eoi", "eret">>
      /\ Service("timer") = <<"puts", "timer_interrupt", "puts", "timer_to_string",
                              "puts", "eoi", "eret">>
  BY DEF Service
<1>2. \A k \in 1 .. 5 : Service("uart")[k] \notin {"ack", "timer_interrupt", "timer_to_string"}
  BY <1>1
<1>3. \A k \in 1 .. 7 : Service("timer")[k] # "ack"
  BY <1>1
<1>4. \A k \in 1 .. 7 : Service("timer")[k] = "timer_interrupt" <=> k = 2
  BY <1>1
<1>5. \A k \in 1 .. 7 : Service("timer")[k] = "timer_to_string" <=> k = 4
  BY <1>1
<1>. QED  BY <1>2, <1>3, <1>4, <1>5

(* What is to be shown is shown by the operation that shows it.            *)
LEMMA StillToShow ==
  ASSUME Typed, HandlerPlace, NEW op, op \notin {"ack", "timer_to_string"},
         AtOp("irq", op), GoOn("irq"), WillShow
  PROVE  WillShow'
<1>1. PICK k \in 1 .. 7 : /\ TimerAt(k) /\ op = Service("timer")[k]
                          /\ code'["irq"] = TimerRest(k + 1)
  BY HandlerPlaceGoesOn, WillShowAt DEF KeyAt
<1>2. k <= 4
  BY <1>1, WillShowAt DEF TimerAt
<1>3. k # 4
  BY <1>1, TimerRestFacts
<1>4. k + 1 \in 1 .. 7 /\ k + 1 <= 4
  BY <1>2, <1>3
<1>5. WillShow'
  <2>1. \A i \in 1 .. 7 : code'["irq"] = TimerRest(i) => (WillShow' <=> i <= 4)
    BY TimerRestFacts, Zenon DEF WillShow
  <2>. QED  BY <1>1, <1>4, <2>1
<1>. QED  BY <1>5

(* What reaches itoa is an int, and a second is a second for longer.       *)
LEMMA SecondsAreInts ==
  /\ \A sec \in Nat : ToInt(sec) \in Ints
  /\ ToInt(0) = 0
<1>. USE TimerAssumption
<1>1. ASSUME NEW sec \in Nat PROVE ToInt(sec) \in Ints
  <2>. DEFINE half == IntMax + 1
  <2>1. (sec + half) % (2 * half) \in 0 .. 2 * half - 1
    OBVIOUS
  <2>. QED  BY <2>1 DEF ToInt, Ints
<1>2. ToInt(0) = 0
  <2>. DEFINE half == IntMax + 1
  <2>1. half % (2 * half) = half
    OBVIOUS
  <2>. QED  BY <2>1 DEF ToInt
<1>. QED  BY <1>1, <1>2

LEMMA ShownForLonger ==
  ASSUME NEW n \in Nat, NEW old \in Nat, NEW new \in Nat, old <= new
  PROVE  n .. old \div CntFreq \subseteq n .. new \div CntFreq
<1>. USE TimerAssumption
<1>1. \A a, b \in Nat, d \in Nat \ {0} : a <= b => a \div d <= b \div d
  OBVIOUS
<1>2. old \div CntFreq <= new \div CntFreq
  BY <1>1
<1>3. old \div CntFreq \in Nat /\ new \div CntFreq \in Nat
  OBVIOUS
<1>. QED  BY <1>2, <1>3

(* As long as the driver leaves its timer alone, time may pass.            *)
LEMMA TimerKept ==
  ASSUME TimerState, UNCHANGED <<cval, freq, shown, start>>,
         ctl' \subseteq {"ENABLE", "IMASK"},
         cntpct' \in 0 .. MaxCount, cntpct' >= cntpct, WillShow => WillShow'
  PROVE  TimerState'
<1>1. cntpct \in Nat /\ cntpct' \in Nat /\ CntFreq \in Nat
  BY TimerAssumption DEF TimerState
<1>2. ASSUME NEW n \in Nat, ShowsSince(n) PROVE ShowsSince(n)'
  <2>1. n .. cntpct \div CntFreq \subseteq n .. cntpct' \div CntFreq
    BY <1>1, ShownForLonger
  <2>. QED  BY <1>2, <2>1 DEF ShowsSince
<1>3. ASSUME NEW m \in Nat \ {0}, DueAt(m)
      PROVE  DueAt(m)'
  <2>1. cval' = start' + m * CntFreq /\ (~ WillShow' => ShowsSince(m - 1)')
    <3>1. m - 1 \in Nat
      OBVIOUS
    <3>2. ~ WillShow' => ShowsSince(m - 1)
      BY <1>3 DEF DueAt
    <3>3. ~ WillShow' => ShowsSince(m - 1)'
      BY <1>2, <3>1, <3>2
    <3>. QED  BY <1>3, <3>3 DEF DueAt
  <2>2. cval' <= cntpct' + CntFreq
    <3>1. cval <= cntpct + CntFreq
      BY <1>3 DEF DueAt
    <3>2. cval \in Nat /\ cval' = cval
      BY DEF TimerState
    <3>3. \A a, b, c, d \in Nat : a <= b + d /\ c >= b => a <= c + d
      OBVIOUS
    <3>4. cval <= cntpct' + CntFreq
      BY <1>1, <3>1, <3>2, <3>3, Zenon
    <3>. QED  BY <3>2, <3>4, Zenon
  <2>. QED  BY <2>1, <2>2 DEF DueAt
<1>4. ShowsSince(0)'
  BY <1>2 DEF TimerState
<1>. QED  BY <1>3, <1>4 DEF TimerState, Ints

LEMMA TimerStep ==
  ASSUME PollInv, MainPlace, HandlerPlace, TimerState, [Next]_vars
  PROVE  TimerState'
<1>. USE TimerAssumption
<1>0. cntpct \in Nat /\ cntpct \in 0 .. MaxCount /\ ctl \subseteq {"ENABLE", "IMASK"}
  BY DEF TimerState
<1>1. CASE SetUpTimer
  <2>1. /\ AtOp("main", "init_timer") /\ GoOn("main")
        /\ freq' = CntFreq /\ start' = cntpct /\ cval' = cntpct + CntFreq
        /\ UNCHANGED <<cntpct, ctl, shown>>
    BY <1>1 DEF SetUpTimer, Performs, init_timer_imp
  <2>2. PICK k \in 1 .. 14 : MainIn(k)
    BY DEF MainPlace
  <2>3. k = 10
    BY <2>1, <2>2, MainGoesOn, BootIs DEF PollInv
  <2>4. freq = 0 /\ shown = 0
    BY <2>2, <2>3 DEF MainIn, TimerState
  <2>5. ShowsSince(0)'
    BY <2>1 DEF TimerState, ShowsSince
  <2>6. DueAt(1)'
    <3>1. cval' = start' + 1 * CntFreq /\ cval' <= cntpct' + CntFreq
      BY <1>0, <2>1
    <3>2. ShowsSince(1 - 1)'
      BY <2>5
    <3>. QED  BY <3>1, <3>2 DEF DueAt
  <2>. QED  BY <1>0, <2>1, <2>4, <2>5, <2>6 DEF TimerState, Ints
<1>2. CASE TimerInterrupt
  <2>1. /\ AtOp("irq", "timer_interrupt") /\ GoOn("irq")
        /\ cval' = cval + freq
        /\ UNCHANGED <<cntpct, ctl, freq, shown, start>>
    BY <1>2 DEF TimerInterrupt, Performs, timer_imp_interrupt
  <2>2. \A i \in 1 .. 5 : Service("uart")[i] # "timer_interrupt"
    BY WhichOperation
  <2>3. PICK k \in 1 .. 7 : /\ TimerAt(k) /\ "timer_interrupt" = Service("timer")[k]
                            /\ code'["irq"] = TimerRest(k + 1)
    BY <2>1, <2>2, HandlerPlaceGoesOn DEF PollInv
  <2>4. k = 2
    BY <2>3, WhichOperation
  <2>5. freq = CntFreq /\ cntpct >= cval
    BY <2>3, <2>4 DEF TimerAt
  <2>6. WillShow'
    <3>1. \A i \in 1 .. 7 : code'["irq"] = TimerRest(i) => (WillShow' <=> i <= 4)
      BY TimerRestFacts, Zenon DEF WillShow
    <3>. QED  BY <2>3, <2>4, <3>1
  <2>7. PICK m \in Nat \ {0} : DueAt(m)
    BY <2>5 DEF TimerState
  <2>8. /\ cval' = start + (m + 1) * CntFreq
        /\ cval' <= cntpct + CntFreq
        /\ cval' \in Nat
    <3>1. cval = start + m * CntFreq /\ start \in Nat /\ cval \in Nat
      BY <2>7 DEF DueAt, TimerState
    <3>2. (start + m * CntFreq) + CntFreq = start + (m + 1) * CntFreq
      BY <3>1
    <3>. QED  BY <1>0, <2>1, <2>5, <3>1, <3>2
  <2>9. DueAt(m + 1)'
    BY <2>1, <2>6, <2>8 DEF DueAt
  <2>10. m + 1 \in Nat \ {0}
    OBVIOUS
  <2>11. ShowsSince(0)'
    BY <2>1 DEF TimerState, ShowsSince
  <2>. QED  BY <1>0, <2>1, <2>5, <2>8, <2>9, <2>10, <2>11 DEF TimerState, Ints
<1>3. CASE TimerToString
  <2>1. /\ AtOp("irq", "timer_to_string") /\ GoOn("irq")
        /\ shown' \in IF freq = 0 THEN Ints ELSE {ToInt(cntpct \div freq)}
        /\ UNCHANGED <<cntpct, cval, ctl, freq, start>>
    BY <1>3 DEF TimerToString, Performs, timer_to_string_imp
  <2>2. \A i \in 1 .. 5 : Service("uart")[i] # "timer_to_string"
    BY WhichOperation
  <2>3. PICK k \in 1 .. 7 : TimerAt(k) /\ "timer_to_string" = Service("timer")[k]
    BY <2>1, <2>2, HandlerPlaceGoesOn DEF PollInv
  <2>4. k = 4
    BY <2>3, WhichOperation
  <2>5. freq = CntFreq /\ shown' = ToInt(cntpct \div CntFreq)
    BY <2>1, <2>3, <2>4 DEF TimerAt
  <2>6. cntpct \div CntFreq \in Nat
    BY <1>0
  <2>7. PICK m \in Nat \ {0} : DueAt(m)
    BY <2>5 DEF TimerState
  <2>8. m - 1 <= cntpct \div CntFreq
    <3>1. cval = start + m * CntFreq /\ cval <= cntpct + CntFreq /\ start \in Nat
      BY <2>7 DEF DueAt, TimerState
    <3>2. m * CntFreq <= cntpct + CntFreq
      BY <1>0, <3>1
    <3>3. (m - 1) * CntFreq <= cntpct
      BY <1>0, <3>2
    <3>. QED  BY <1>0, <3>3
  <2>9. ASSUME NEW n \in Nat, n <= cntpct \div CntFreq PROVE ShowsSince(n)'
    <3>1. cntpct \div CntFreq \in n .. cntpct' \div CntFreq
      BY <2>1, <2>6, <2>9
    <3>. QED  BY <2>5, <3>1 DEF ShowsSince
  <2>10. DueAt(m)'
    <3>1. m - 1 \in Nat
      OBVIOUS
    <3>2. ShowsSince(m - 1)'
      BY <2>8, <2>9, <3>1
    <3>. QED  BY <2>1, <2>7, <3>2 DEF DueAt
  <2>11. shown' \in Ints /\ ShowsSince(0)'
    BY <2>5, <2>6, <2>9, SecondsAreInts
  <2>. QED  BY <1>0, <2>1, <2>5, <2>10, <2>11 DEF TimerState, Ints
<1>4. CASE EnableTimer
  <2>1. /\ code'["irq"] = code["irq"]
        /\ ctl' = (ctl \cup {"ENABLE"}) \ {"IMASK"}
        /\ UNCHANGED <<cntpct, cval, freq, shown, start>>
    BY <1>4, TailOfCode
       DEF EnableTimer, Performs, enable_timer_imp, PollInv, Threads
  <2>. QED  BY <1>0, <2>1, TimerKept DEF WillShow
<1>5. CASE \/ Puts("irq") \/ GetChar("irq") \/ EndIrq \/ ExceptionReturn("irq")
  <2>1. PICK op \in {"puts", "getc", "eoi", "eret"} :
          AtOp("irq", op) /\ GoOn("irq") /\ UNCHANGED timerVars
    BY <1>5 DEF Puts, GetChar, EndIrq, Performs, ExceptionReturn, GoOn
  <2>2. WillShow => WillShow'
    BY <2>1, StillToShow DEF PollInv
  <2>. QED  BY <1>0, <2>1, <2>2, TimerKept DEF timerVars
<1>6. CASE AcknowledgeIrq \/ TakeIrq
  <2>1. ~ WillShow
    <3>1. CASE AcknowledgeIrq
      <4>1. Head(code["irq"]) = "ack" /\ code["irq"] # <<>>
        BY <3>1 DEF AcknowledgeIrq, AtOp
      <4>2. \A k \in 1 .. 5 : code["irq"] # KeyRest(k)
        <5>1. \A k \in 1 .. 5 : Service("uart")[k] # "ack"
          BY WhichOperation
        <5>2. \A k \in 1 .. 5 : Head(KeyRest(k)) = Service("uart")[k]
          BY KeyRestFacts, Zenon
        <5>. QED  BY <4>1, <5>1, <5>2, Zenon
      <4>3. \A k \in 1 .. 7 : code["irq"] # TimerRest(k)
        <5>1. \A k \in 1 .. 7 : Service("timer")[k] # "ack"
          BY WhichOperation
        <5>2. \A k \in 1 .. 7 : Head(TimerRest(k)) = Service("timer")[k]
          BY TimerRestFacts, Zenon
        <5>. QED  BY <4>1, <5>1, <5>2, Zenon
      <4>. QED  BY <4>2, <4>3, WillShowAt DEF HandlerPlace, KeyAt, TimerAt
    <3>2. CASE TakeIrq
      BY <3>2, WillShowAt DEF TakeIrq, PollInv, HandlerRunsThrough
    <3>. QED  BY <1>6, <3>1, <3>2
  <2>2. UNCHANGED timerVars
    BY <1>6 DEF AcknowledgeIrq, TakeIrq
  <2>3. cntpct' >= cntpct
    BY <1>0, <2>2 DEF timerVars
  <2>. QED  BY <1>0, <2>1, <2>2, <2>3, TimerKept DEF timerVars
<1>7. CASE \/ SetUpUart \/ SetUpGic \/ Unmask \/ Skip
           \/ Puts("main") \/ ExceptionReturn("main") \/ Break
  <2>1. code'["irq"] = code["irq"] /\ UNCHANGED timerVars
    BY <1>7 DEF SetUpUart, SetUpGic, Unmask, Skip, Puts,
                ExceptionReturn, Break, Performs, GoOn, PollInv, Typed, Threads
  <2>. QED  BY <1>0, <2>1, TimerKept DEF timerVars, WillShow
<1>8. CASE \/ \E t \in Threads : Poll(t) \/ PutChar(t)
           \/ SignalIrq \/ WaitForInterrupt \/ UNCHANGED vars
           \/ Device /\ UNCHANGED timerVars
  <2>1. code' = code /\ UNCHANGED timerVars
    BY <1>8 DEF Poll, PutChar, SignalIrq, WaitForInterrupt, Device, Tick,
                vars, threadVars
  <2>. QED  BY <1>0, <2>1, TimerKept DEF timerVars, WillShow
<1>9. CASE Tick /\ UNCHANGED threadVars
  <2>1. /\ cntpct' = cntpct + 1 /\ cntpct' \in 0 .. MaxCount /\ code' = code
        /\ UNCHANGED <<cval, ctl, freq, shown, start>>
    BY <1>0, <1>9 DEF Tick, threadVars
  <2>2. cntpct' >= cntpct
    BY <1>0, <2>1
  <2>. QED  BY <1>0, <2>1, <2>2, TimerKept DEF WillShow
<1>. QED
  BY <1>1, <1>2, <1>3, <1>4, <1>5, <1>6, <1>7, <1>8, <1>9
     DEF Next, Step, Threads, Device

-----------------------------------------------------------------------------
LEMMA InitPlaceInv == Init => PlaceInv
<1>. SUFFICES ASSUME Init PROVE PlaceInv
  OBVIOUS
<1>. USE TimerAssumption
<1>1. code["main"] = Rest(1) /\ code["irq"] = <<>> /\ elr = <<>>
  BY RestFacts DEF Init, Threads
<1>2. MainIn(1)
  BY <1>1 DEF Init, TimerInit, MainIn, MainAt
<1>3. MainPlace
  BY <1>2 DEF MainPlace
<1>4. HandlerPlace
  BY <1>1 DEF HandlerPlace
<1>5. UartState
  <2>1. Depth \in Nat
    BY DEF Depth
  <2>2. tx <= Depth /\ rx \in 0 .. Depth
    BY <2>1 DEF Init, UartInit
  <2>3. rxRaised = FALSE /\ rxEnabled = FALSE
    BY Zenon DEF Init, UartInit
  <2>4. device \in Devices /\ typed \in 0 .. MaxKeys
    BY DEF Init, UartInit
  <2>. QED  BY <2>2, <2>3, <2>4, Zenon DEF UartState
<1>6. TimerState
  <2>1. shown = 0 /\ cntpct = 0
    BY DEF Init, TimerInit
  <2>2. 0 \in 0 .. cntpct \div CntFreq
    BY <2>1
  <2>3. ShowsSince(0) /\ shown \in Ints
    BY <2>1, <2>2, SecondsAreInts DEF ShowsSince
  <2>. QED  BY <2>3 DEF Init, TimerInit, TimerState
<1>7. GicTypeOK
  BY DEF Init, GicInit, GicTypeOK
<1>8. \A t \in Threads : chars[t] <= TextLength
  BY DEF Init
<1>. QED  BY <1>3, <1>4, <1>5, <1>6, <1>7, <1>8 DEF PlaceInv

LEMMA NextPlaceInv == PollInv /\ PollInv' /\ PlaceInv /\ [Next]_vars => PlaceInv'
<1>. SUFFICES ASSUME PollInv, PollInv', PlaceInv, [Next]_vars PROVE PlaceInv'
  OBVIOUS
<1>1. UartState' /\ GicTypeOK'
  BY UartStep, GicStep DEF PlaceInv, PollInv
<1>2. MainPlace'
  BY MainStep DEF PlaceInv
<1>3. TimerState'
  BY TimerStep DEF PlaceInv
<1>4. HandlerPlace'
  BY <1>1, <1>3, HandlerStep DEF PlaceInv
<1>5. (\A t \in Threads : chars[t] <= TextLength)'
  BY CharsStep DEF PlaceInv, PollInv
<1>. QED  BY <1>1, <1>2, <1>3, <1>4, <1>5 DEF PlaceInv

(* Both threads stay where PlaceInv says, and the devices agree.           *)
THEOREM PlacesAreKnown == Spec => [](PollInv /\ PlaceInv)
<1>. QED  BY InitPollInv, InitPlaceInv, NextPollInv, NextPlaceInv, PTL DEF Spec

-----------------------------------------------------------------------------
(* Every variable keeps its type: the FIFOs are never overfilled, the      *)
(* timer's next second is never out of reach.                              *)
THEOREM InterruptsTypes == Spec => []TypeOK
<1>1. PollInv /\ PlaceInv => TypeOK
  <2>. SUFFICES ASSUME PollInv, PlaceInv PROVE TypeOK
    OBVIOUS
  <2>. USE TimerAssumption
  <2>1. UartTypeOK
    BY DEF PollInv, Typed, PlaceInv, UartState, UartTypeOK, Depth
  <2>2. cval \in 0 .. MaxCount + CntFreq
    <3>1. CASE freq = 0
      BY <3>1 DEF PlaceInv, TimerState
    <3>2. CASE freq # 0
      <4>1. PICK m \in Nat \ {0} : DueAt(m)
        BY <3>2 DEF PlaceInv, TimerState
      <4>2. cval <= cntpct + CntFreq
        BY <4>1 DEF DueAt
      <4>. QED  BY <4>2 DEF PlaceInv, TimerState
    <3>. QED  BY <3>1, <3>2
  <2>3. TimerTypeOK
    BY <2>2 DEF PlaceInv, TimerState, TimerTypeOK
  <2>4. chars \in [Threads -> 0 .. TextLength]
    BY DEF PollInv, Typed, PlaceInv
  <2>. QED  BY <2>1, <2>3, <2>4 DEF TypeOK, PollInv, Typed, PlaceInv
<1>. QED  BY <1>1, PlacesAreKnown, PTL

(* irq.c:30: uart_getc would spin for ever in the handler if it were       *)
(* called without a key; it never is, for any number of keys, any boot     *)
(* time and any FIFO.                                                      *)
THEOREM HandlerHasItsKey == Spec => []GetcNeverWaits
<1>1. PollInv /\ PlaceInv => GetcNeverWaits
  <2>. SUFFICES ASSUME PollInv, PlaceInv, AtOp("irq", "getc") PROVE rx > 0
    BY DEF GetcNeverWaits
  <2>1. Head(code["irq"]) = "getc" /\ code["irq"] # <<>> /\ code["irq"] # <<"ack">>
    BY DEF AtOp
  <2>2. \A k \in 1 .. 7 : Service("timer")[k] # "getc"
    BY DEF Service
  <2>3. \A k \in 1 .. 7 : Head(TimerRest(k)) = Service("timer")[k]
    BY TimerRestFacts, Zenon
  <2>4. \A k \in 1 .. 7 : ~ TimerAt(k)
    BY <2>1, <2>2, <2>3, Zenon DEF TimerAt
  <2>5. PICK k \in 1 .. 5 : KeyAt(k)
    BY <2>1, <2>4 DEF PlaceInv, HandlerPlace
  <2>6. \A i \in 1 .. 5 : Service("uart")[i] = "getc" <=> i = 2
    BY DEF Service
  <2>7. Head(KeyRest(k)) = Service("uart")[k]
    BY KeyRestFacts, Zenon
  <2>8. k = 2
    BY <2>1, <2>5, <2>6, <2>7 DEF KeyAt
  <2>. QED  BY <2>5, <2>8 DEF KeyAt
<1>. QED  BY <1>1, PlacesAreKnown, PTL

(* entry.S:51-154 saves no SPSR; still eret always gives back the mask     *)
(* that the interrupted code had.                                          *)
THEOREM MaskIsGivenBack == Spec => []MaskedInHandlers
<1>1. PollInv /\ PlaceInv => MaskedInHandlers
  <2>. SUFFICES ASSUME PollInv, PlaceInv PROVE MaskedInHandlers
    OBVIOUS
  <2>1. PICK k \in 1 .. 14 : MainIn(k)
    BY DEF PlaceInv, MainPlace
  <2>2. CASE elr = <<>> /\ code["main"] = Rest(k)
    <3>1. toDo = Rest(k)
      <4>1. code["main"] \in Seq(Operations)
        BY DEF PollInv, Typed, Threads
      <4>. QED  BY <2>2, <4>1, ConcatEmptySeq DEF toDo
    <3>2. CASE k = 14
      <4>1. toDo = <<>>
        BY <3>1, <3>2, RestFacts, Zenon
      <4>2. ~ ToDo("unmask")
        BY <4>1 DEF ToDo
      <4>. QED  BY <2>1, <2>2, <3>2, <4>2 DEF MaskedInHandlers, MainIn
    <3>3. CASE k \in 1 .. 13
      <4>1. Len(Rest(k)) = 14 - k /\ \A i \in 1 .. 14 - k : Rest(k)[i] = Boot[k + i - 1]
        BY <3>3, RestFacts, Zenon
      <4>2. \A i \in 1 .. 13 : Boot[i] = "unmask" <=> i = 5
        BY BootIs
      <4>3. ToDo("unmask") <=> k <= 5
        <5>1. ASSUME k <= 5
              PROVE  6 - k \in 1 .. 14 - k /\ Rest(k)[6 - k] = "unmask"
          <6>1. 6 - k \in 1 .. 14 - k /\ k + (6 - k) - 1 = 5 /\ 5 \in 1 .. 13
            BY <3>3, <5>1
          <6>. QED  BY <4>1, <4>2, <6>1, Zenon
        <5>2. ASSUME NEW i \in 1 .. 14 - k, Rest(k)[i] = "unmask"
              PROVE  k <= 5
          <6>1. k + i - 1 \in 1 .. 13 /\ (k + i - 1 = 5 => k <= 5)
            BY <3>3
          <6>. QED  BY <4>1, <4>2, <5>2, <6>1, Zenon
        <5>. QED  BY <3>1, <4>1, <5>1, <5>2, Zenon DEF ToDo
      <4>. QED  BY <2>1, <2>2, <4>3 DEF MaskedInHandlers, MainIn
    <3>. QED  BY <3>2, <3>3
  <2>3. CASE elr # <<>>
    BY <2>1, <2>3 DEF MainIn, MaskedInHandlers
  <2>. QED  BY <2>1, <2>2, <2>3, RestFacts DEF MainIn, MainAt
<1>. QED  BY <1>1, PlacesAreKnown, PTL

(* timer_imp.c:58-86: however late the handler, the next second stays on   *)
(* the grid that init_timer started, and never more than a second ahead,   *)
(* for every frequency.                                                    *)
THEOREM SecondsAreOnGrid == Spec => []SecondsStayOnGrid
<1>1. PlaceInv => SecondsStayOnGrid
  <2>. SUFFICES ASSUME PlaceInv, freq # 0
                PROVE  (cval - start) % CntFreq = 0 /\ cval <= cntpct + CntFreq
    BY DEF SecondsStayOnGrid
  <2>. USE TimerAssumption
  <2>1. PICK m \in Nat \ {0} : DueAt(m)
    BY DEF PlaceInv, TimerState
  <2>2. cval = start + m * CntFreq /\ start \in Nat
    BY <2>1 DEF DueAt, PlaceInv, TimerState
  <2>3. cval - start = m * CntFreq
    BY <2>2
  <2>4. (m * CntFreq) % CntFreq = 0
    OBVIOUS
  <2>. QED  BY <2>1, <2>3, <2>4 DEF DueAt
<1>. QED  BY <1>1, PlacesAreKnown, PTL

(* timer_imp.c:60, 106, 113: what is printed is, as an int of any width,   *)
(* a second that is not ahead of the clock and not behind the interrupts.  *)
THEOREM SecondsAreShown == Spec => []SecondsShown
<1>1. PlaceInv => SecondsShown
  <2>. SUFFICES ASSUME PlaceInv PROVE SecondsShown
    OBVIOUS
  <2>. USE TimerAssumption
  <2>1. ShowsSince(0)
    BY DEF PlaceInv, TimerState
  <2>2. ASSUME freq # 0, ~ WillShow
        PROVE  ShowsSince((cval - start) \div CntFreq - 1)
    <3>1. PICK m \in Nat \ {0} : DueAt(m)
      BY <2>2 DEF PlaceInv, TimerState
    <3>2. cval = start + m * CntFreq /\ start \in Nat /\ ShowsSince(m - 1)
      BY <2>2, <3>1 DEF DueAt, PlaceInv, TimerState
    <3>3. cval - start = m * CntFreq
      BY <3>2
    <3>4. (m * CntFreq) \div CntFreq = m
      OBVIOUS
    <3>. QED  BY <3>2, <3>3, <3>4
  <2>3. (\A i \in 1 .. Len(code["irq"]) : code["irq"][i] # "timer_to_string")
          => ~ WillShow
    BY DEF WillShow
  <2>. QED  BY <2>1, <2>2, <2>3 DEF SecondsShown
<1>. QED  BY <1>1, PlacesAreKnown, PTL
=============================================================================
