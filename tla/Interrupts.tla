----------------------------- MODULE Interrupts ------------------------------
(***************************************************************************)
(* The kernel's one processor, running the boot code (head.S, then         *)
(* kernel_init of init/main.c) and interrupted by el1_irq_handler (irq.c)  *)
(* between any two of its steps while interrupts are unmasked.  Both print *)
(* through the same driver (Uart), the handler serves the keyboard and the *)
(* timer (Timer), and the controller (Gic) decides when it runs.           *)
(*                                                                         *)
(* A thread is the operations it has still to do.  Printing a text is a    *)
(* poll and a write per character, as in uart_putc.  A handler runs with   *)
(* interrupts masked, so there are two threads, and the handler's runs     *)
(* whenever there is one.                                                  *)
(***************************************************************************)
EXTENDS Uart, Gic, Timer, Sequences

CONSTANT TextLength    (* characters in a text, every text alike           *)

ASSUME TextAssumption == TextLength \in Nat \ {0}

VARIABLES code,        (* what each thread has still to do                 *)
          chars,       (* characters left of the text it prints            *)
          polled,      (* whether it has polled for the next of them       *)
          masked,      (* PSTATE.I                                         *)
          spsr, elr,   (* saved by an exception: the mask, the code left   *)
          overtaken    (* history: a handler ran since main's last poll    *)

saved == <<spsr, elr>>
threadVars == <<code, chars, polled, masked, saved, overtaken>>
vars == <<uartVars, gicVars, timerVars, threadVars>>

Threads == {"main", "irq"}
running == IF code["irq"] # <<>> THEN "irq" ELSE "main"

(* Deviation: the timer is enabled before it is initialized.               *)
EnablesEarly == <<"uart_init", "enable_timer", "puts", "init_timer", "puts">>

(* kernel_init; what it does with memory and processes prints texts.       *)
kernel_init == <<"uart_init", "puts", "init_timer", "enable_timer", "puts">>

(* The boot code, from el1_start on.                                       *)
Boot == <<"uart_init", "puts", "gic_init", "puts", "unmask", "puts", "brk">>
          \o kernel_init \o <<"puts">>

(* Deviation: every interrupt is taken for a key.                          *)
ServiceAlwaysKey(irq) == <<"puts", "getc", "puts", "eoi", "eret">>

(* el1_irq_handler, once it knows the interrupt.                           *)
Service(irq) ==
  CASE irq = "uart"  -> <<"puts", "getc", "puts", "eoi", "eret">>
    [] irq = "timer" -> <<"puts", "timer_interrupt", "puts", "timer_to_string",
                          "puts", "eoi", "eret">>
    [] OTHER         -> <<"puts", "eoi", "eret">>

(* el1_sync_handler of a breakpoint.                                       *)
SyncHandler == <<"puts", "skip", "eret">>

Operations == {"uart_init", "puts", "gic_init", "unmask", "brk", "skip",
               "init_timer", "enable_timer", "ack", "getc", "timer_interrupt",
               "timer_to_string", "eoi", "eret"}

Init ==
  /\ UartInit /\ GicInit /\ TimerInit
  /\ code = [t \in Threads |-> IF t = "main" THEN Boot ELSE <<>>]
  /\ chars = [t \in Threads |-> 0]
  /\ polled = [t \in Threads |-> FALSE]
  /\ masked = TRUE
  /\ spsr = TRUE /\ elr = <<>>
  /\ overtaken = FALSE

lines == {i \in Irqs : \/ i = "uart" /\ UartLine
                       \/ i = "timer" /\ TimerLine}

-----------------------------------------------------------------------------
(* One step of the running thread.                                         *)

AtOp(t, op) == /\ t = running /\ chars[t] = 0
               /\ code[t] # <<>> /\ Head(code[t]) = op

GoOn(t) == code' = [code EXCEPT ![t] = Tail(@)]

(* An operation that does something to a device and nothing to the threads. *)
Performs(t, op) ==
  /\ AtOp(t, op) /\ GoOn(t)
  /\ UNCHANGED <<chars, polled, masked, saved, overtaken>>

(* uart_puts, and uart_putc for a text of one.                             *)
Puts(t) ==
  /\ AtOp(t, "puts") /\ GoOn(t)
  /\ chars' = [chars EXCEPT ![t] = TextLength]
  /\ UNCHANGED <<polled, masked, saved, overtaken, uartVars, gicVars, timerVars>>

(* uart_putc leaves its polling loop.                                      *)
Poll(t) ==
  /\ t = running /\ chars[t] > 0 /\ ~ polled[t] /\ TxReady
  /\ polled' = [polled EXCEPT ![t] = TRUE]
  /\ overtaken' = IF t = "main" THEN FALSE ELSE overtaken
  /\ UNCHANGED <<code, chars, masked, saved, uartVars, gicVars, timerVars>>

(* uart_putc writes the character.                                         *)
PutChar(t) ==
  /\ t = running /\ chars[t] > 0 /\ polled[t]
  /\ WriteData
  /\ chars' = [chars EXCEPT ![t] = @ - 1]
  /\ polled' = [polled EXCEPT ![t] = FALSE]
  /\ UNCHANGED <<code, masked, saved, overtaken, gicVars, timerVars>>

(* uart_getc.                                                              *)
GetChar(t) ==
  /\ Performs(t, "getc") /\ ReadData
  /\ UNCHANGED <<gicVars, timerVars>>

(* The boot code's operations on the devices.                              *)
SetUpUart ==
  /\ Performs("main", "uart_init") /\ UartConfigure
  /\ UNCHANGED <<gicVars, timerVars>>
SetUpGic ==
  /\ Performs("main", "gic_init") /\ GicSetup
  /\ UNCHANGED <<uartVars, timerVars>>
SetUpTimer ==
  /\ Performs("main", "init_timer") /\ init_timer_imp
  /\ UNCHANGED <<uartVars, gicVars>>
EnableTimer ==
  /\ Performs("main", "enable_timer") /\ enable_timer_imp
  /\ UNCHANGED <<uartVars, gicVars>>

(* msr daifclr, #2.                                                        *)
Unmask ==
  /\ AtOp("main", "unmask") /\ GoOn("main")
  /\ masked' = FALSE
  /\ UNCHANGED <<chars, polled, saved, overtaken, uartVars, gicVars, timerVars>>

(* brk #0: sync_entry saves where to go on, which is the brk itself, and   *)
(* calls el1_sync_handler.  Interrupts are masked from here on.            *)
Break ==
  /\ AtOp("main", "brk")
  /\ code' = [code EXCEPT !["main"] = SyncHandler]
  /\ elr' = code["main"]
  /\ spsr' = masked /\ masked' = TRUE
  /\ UNCHANGED <<chars, polled, overtaken, uartVars, gicVars, timerVars>>

(* Deviation: the handler returns to the brk.                              *)
SkipNothing == elr

(* regs->elr += 4, for breakpoints only.                                   *)
AfterBrk == SubSeq(elr, 2, Len(elr))

Skip ==
  /\ AtOp("main", "skip") /\ GoOn("main")
  /\ elr' = AfterBrk
  /\ UNCHANGED <<chars, polled, masked, spsr, overtaken,
                 uartVars, gicVars, timerVars>>

(* The handler's operations.                                               *)
AcknowledgeIrq ==
  /\ AtOp("irq", "ack")
  /\ \E irq \in Irqs \cup {Spurious} :
       /\ Acknowledge(lines, irq)
       /\ code' = [code EXCEPT !["irq"] = Service(irq)]
  /\ UNCHANGED <<chars, polled, masked, saved, overtaken, uartVars, timerVars>>
TimerInterrupt ==
  /\ Performs("irq", "timer_interrupt") /\ timer_imp_interrupt
  /\ UNCHANGED <<uartVars, gicVars>>
TimerToString ==
  /\ Performs("irq", "timer_to_string") /\ timer_to_string_imp
  /\ UNCHANGED <<uartVars, gicVars>>
EndIrq ==
  /\ Performs("irq", "eoi") /\ EndOfInterrupt
  /\ UNCHANGED <<uartVars, timerVars>>

(* Deviation: interrupts stay masked.                                      *)
ReturnMasked(t) ==
  /\ AtOp(t, "eret")
  /\ code' = [code EXCEPT ![t] = IF t = "main" THEN elr ELSE Tail(@)]
  /\ elr' = IF t = "main" THEN <<>> ELSE elr
  /\ UNCHANGED <<chars, polled, masked, spsr, overtaken,
                 uartVars, gicVars, timerVars>>

(* eret: back to the interrupted code, with the mask it had.  SPSR is the  *)
(* one thing the entry code does not save, so it is the last exception's.  *)
ExceptionReturn(t) ==
  /\ AtOp(t, "eret")
  /\ code' = [code EXCEPT ![t] = IF t = "main" THEN elr ELSE Tail(@)]
  /\ elr' = IF t = "main" THEN <<>> ELSE elr
  /\ masked' = spsr
  /\ UNCHANGED <<chars, polled, spsr, overtaken, uartVars, gicVars, timerVars>>

(* The loop around wfi, which is where the boot code ends.                 *)
WaitForInterrupt ==
  /\ running = "main" /\ code["main"] = <<>> /\ chars["main"] = 0
  /\ UNCHANGED vars

Step ==
  \/ \E t \in Threads : \/ Puts(t) \/ Poll(t) \/ PutChar(t)
                        \/ ExceptionReturn(t)
  \/ GetChar("irq")
  \/ SetUpUart \/ SetUpGic \/ SetUpTimer \/ EnableTimer \/ Unmask
  \/ Break \/ Skip
  \/ AcknowledgeIrq \/ TimerInterrupt \/ TimerToString \/ EndIrq

-----------------------------------------------------------------------------
(* The processor takes the interrupt: irq_entry.  What it saves and gives  *)
(* back is the main thread's place, which nobody touches meanwhile.        *)
TakeIrq ==
  /\ request /\ ~ masked
  /\ code' = [code EXCEPT !["irq"] = <<"ack">>]
  /\ spsr' = masked /\ masked' = TRUE
  /\ overtaken' = TRUE
  /\ UNCHANGED <<chars, polled, elr, uartVars, gicVars, timerVars>>

SignalIrq == Signal(lines) /\ UNCHANGED <<uartVars, timerVars, threadVars>>

Device ==
  \/ (Transmit \/ Receive) /\ UNCHANGED <<gicVars, timerVars, threadVars>>
  \/ Tick /\ UNCHANGED <<uartVars, gicVars, threadVars>>

Next == Step \/ WaitForInterrupt \/ TakeIrq \/ SignalIrq \/ Device

(* The processor runs, interrupts are signalled and taken, and what was    *)
(* written is sent.  Nothing makes keys come or the time pass.             *)
Spec ==
  /\ Init /\ [][Next]_vars
  /\ WF_vars(Step)
  /\ WF_vars(TakeIrq) /\ WF_vars(SignalIrq)
  /\ WF_vars(Transmit /\ UNCHANGED <<gicVars, timerVars, threadVars>>)

-----------------------------------------------------------------------------
(* Properties.                                                             *)

TypeOK ==
  /\ UartTypeOK /\ GicTypeOK /\ TimerTypeOK
  /\ code \in [Threads -> Seq(Operations)]
  /\ chars \in [Threads -> 0 .. TextLength]
  /\ polled \in [Threads -> BOOLEAN]
  /\ elr \in Seq(Operations)
  /\ {masked, spsr, overtaken} \subseteq BOOLEAN

(* irq.c:30 calls uart_getc, which spins until a key is there, with every  *)
(* interrupt masked: it only ever does so when a key is there.             *)
GetcNeverWaits == AtOp("irq", "getc") => rx > 0

(* Interrupts are masked until the boot code unmasks them, and after that  *)
(* exactly while a handler runs: eret gives the right mask back although   *)
(* entry.S:51-154 saves no SPSR, because no exception interrupts a handler. *)
toDo == code["main"] \o elr
ToDo(op) == \E i \in 1 .. Len(toDo) : toDo[i] = op
MaskedInHandlers ==
  masked <=> ToDo("unmask") \/ code["irq"] # <<>> \/ elr # <<>>

(* A character is written to a full device - and lost - only on a PL011,   *)
(* only by unmasked boot code, and only if a handler ran between its poll  *)
(* and its write (uart.c:95-105): an interrupt costs one character at      *)
(* most, and what the exception handlers print is never lost.              *)
LossNeedsHandler ==
  [][\A t \in Threads : PutChar(t) /\ ~ TxRoom
        => t = "main" /\ ~ masked /\ device = "pl011" /\ overtaken]_vars

(* uart.h:105: uart_putc writes a character "once the UART Full flag is    *)
(* Unset".                                                                 *)
WritesIntoRoom == [][\A t \in Threads : PutChar(t) => TxRoom]_vars

(* The timer keeps the second's grid whatever the handlers' delays, and is *)
(* never set more than a second ahead (timer_imp.c:58-86).                 *)
SecondsStayOnGrid ==
  freq # 0 => /\ (cval - start) % CntFreq = 0
              /\ cval <= cntpct + CntFreq

(* The last text shows, as an int, seconds that are not ahead of the clock *)
(* and, after the n-th timer interrupt, not fewer than n, however late its *)
(* handler printed them.  They would be anything if the interrupt could    *)
(* come before init_timer (timer_imp.c:60, 106).                           *)
ShowsSince(n) == \E sec \in n .. cntpct \div CntFreq : shown = ToInt(sec)
SecondsShown ==
  /\ ShowsSince(0)
  /\ freq # 0 /\ (\A i \in 1 .. Len(code["irq"]) : code["irq"][i] # "timer_to_string")
       => ShowsSince((cval - start) \div CntFreq - 1)

(* A second that has passed is counted: an enabled timer never stays due.  *)
TimerCatchesUp ==
  "ENABLE" \in ctl /\ cntpct >= cval ~> cntpct < cval

(* A key whose interrupt was not cleared by kernel_init's uart_init        *)
(* (uart.c:59) is read.                                                    *)
Announced == device = "ns16550" \/ (rxRaised /\ ~ ToDo("uart_init"))
KeysRead == rx > 0 /\ Announced ~> rx = 0

(* Interrupts never keep the boot code from reaching its last loop.        *)
BootEnds == <>(code["main"] = <<>> /\ chars["main"] = 0)
=============================================================================
