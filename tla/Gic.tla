--------------------------------- MODULE Gic ---------------------------------
(***************************************************************************)
(* The interrupt controller as arch/arm64/kernel/gic.c uses it: a GICv3    *)
(* with two level-sensitive interrupts of one priority.  It asks the       *)
(* processor for attention while an enabled interrupt is pending and none  *)
(* is active.  Its request follows the lines with a delay.                 *)
(***************************************************************************)
EXTENDS Naturals

Irqs == {"uart", "timer"}
NoIrq == "none"
Spurious == "spurious"       (* INTID 1023                                 *)

VARIABLES enabled,           (* GICD_ISENABLER, GICR_ISENABLER0            *)
          active,            (* acknowledged and not ended                 *)
          request            (* the signal to the processor                *)

gicVars == <<enabled, active, request>>

GicInit == enabled = {} /\ active = NoIrq /\ request = FALSE

GicTypeOK == /\ enabled \subseteq Irqs
             /\ active \in Irqs \cup {NoIrq}
             /\ request \in BOOLEAN

(* What may be acknowledged while the given lines are up.                  *)
Pending(lines) == IF active = NoIrq THEN enabled \cap lines ELSE {}

gic_enable_irq(irqs) == enabled' = enabled \cup irqs

(* gic_init: the interrupts the kernel needs.                              *)
GicSetup == gic_enable_irq(Irqs) /\ UNCHANGED <<active, request>>

(* The request catches up with the lines.                                  *)
Signal(lines) ==
  /\ request' = (Pending(lines) # {})
  /\ request' # request
  /\ UNCHANGED <<enabled, active>>

(* gic_get_active_irq: reading ICC_IAR1_EL1 makes a pending interrupt      *)
(* active, or answers that there is none.                                  *)
Acknowledge(lines, irq) ==
  /\ irq \in IF Pending(lines) = {} THEN {Spurious} ELSE Pending(lines)
  /\ active' = IF irq = Spurious THEN active ELSE irq
  /\ request' = FALSE
  /\ UNCHANGED enabled

(* Deviation: only a key's interrupt is ended.                             *)
EndUartOnly ==
  /\ active' = IF active = "uart" THEN NoIrq ELSE active
  /\ UNCHANGED <<enabled, request>>

(* gic_eoi.  The controller ignores the number of a spurious interrupt,    *)
(* and then nothing is active.                                             *)
EndOfInterrupt == active' = NoIrq /\ UNCHANGED <<enabled, request>>
=============================================================================
