-------------------------------- MODULE Uart ---------------------------------
(***************************************************************************)
(* The console UART and its driver, driver/uart.c.  The driver serves two  *)
(* devices: a PL011, whose FIFOs nobody enables, so that each direction    *)
(* holds one character, and an NS16550, whose FIFOs uart_init enables.     *)
(* Characters are only counted: which ones they are is nobody's concern.   *)
(*                                                                         *)
(* uart_init, the polls and the register accesses are the steps the        *)
(* program makes; Transmit and Receive are the device's own.               *)
(***************************************************************************)
EXTENDS Naturals

CONSTANTS Devices,      (* the devices the kernel may be built for         *)
          FifoDepth,    (* of the NS16550: 16 characters                   *)
          MaxKeys       (* bound: how many keys are typed                  *)

ASSUME UartAssumption ==
  /\ Devices \subseteq {"pl011", "ns16550"}
  /\ FifoDepth \in Nat \ {0, 1}
  /\ MaxKeys \in Nat

VARIABLES device,
          tx,           (* characters waiting to be sent                   *)
          rx,           (* keys received and not read                      *)
          rxRaised,     (* PL011 RIS: a key has raised the interrupt       *)
          rxEnabled,    (* PL011 IMSC.RXIM, NS16550 IER.RDA                *)
          typed         (* keys typed so far                               *)

uartVars == <<device, tx, rx, rxRaised, rxEnabled, typed>>

Depth == IF device = "pl011" THEN 1 ELSE FifoDepth

UartInit ==
  /\ device \in Devices
  /\ tx = 0 /\ rx = 0
  /\ rxRaised = FALSE /\ rxEnabled = FALSE
  /\ typed = 0

UartTypeOK ==
  /\ device \in Devices
  /\ tx \in 0 .. Depth /\ rx \in 0 .. Depth
  /\ {rxRaised, rxEnabled} \subseteq BOOLEAN
  /\ typed \in 0 .. MaxKeys

TxRoom == tx < Depth

(* Deviation: the poll lets one character too many through.                *)
TxReadyLate == tx <= Depth

(* What uart_putc polls for: PL011 FR.TXFF is clear, or NS16550 LSR.THRE   *)
(* is set.  THRE says more than room: the whole transmit FIFO is empty.    *)
TXFFClear == TxRoom
THRESet == tx = 0
TxReady == IF device = "pl011" THEN TXFFClear ELSE THRESet

(* And uart_getc: FR.RXFE is clear, or LSR.DR is set.                      *)
RxReady == rx > 0

(* Whether the device asks for an interrupt, as a level.                   *)
UartLine == /\ rxEnabled
            /\ device = "pl011" => rxRaised
            /\ device = "ns16550" => rx > 0

(* uart_init.  On the PL011 it clears every raised interrupt, also that of *)
(* a key which is still unread.  The receive interrupt is already enabled  *)
(* when it is called again, so its two writes need not be two steps.       *)
UartConfigure ==
  /\ rxRaised' = IF device = "pl011" THEN FALSE ELSE rxRaised
  /\ rxEnabled' = TRUE
  /\ UNCHANGED <<device, tx, rx, typed>>

(* The write to DR or TBR.  A full device drops the character.             *)
WriteData ==
  /\ tx' = IF TxRoom THEN tx + 1 ELSE tx
  /\ UNCHANGED <<device, rx, rxRaised, rxEnabled, typed>>

(* uart_getc: spins until a key is there and reads it from DR or RBR.  The *)
(* PL011 withdraws its interrupt when the character is read.               *)
ReadData ==
  /\ RxReady
  /\ rx' = rx - 1
  /\ rxRaised' = FALSE
  /\ UNCHANGED <<device, tx, rxEnabled, typed>>

(* The device sends a character.                                           *)
Transmit ==
  /\ tx > 0
  /\ tx' = tx - 1
  /\ UNCHANGED <<device, rx, rxRaised, rxEnabled, typed>>

(* A key is typed.  The sender waits while the device is full.             *)
Receive ==
  /\ typed < MaxKeys /\ rx < Depth
  /\ typed' = typed + 1
  /\ rx' = rx + 1
  /\ rxRaised' = (device = "pl011")
  /\ UNCHANGED <<device, tx, rxEnabled>>
=============================================================================
