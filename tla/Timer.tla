-------------------------------- MODULE Timer --------------------------------
(***************************************************************************)
(* The generic timer and its driver, arch/arm64/lib/timer_imp.c: a counter *)
(* that runs by itself, a compare value, and a control register.  The      *)
(* driver wants one interrupt per second, CntFreq ticks.                   *)
(***************************************************************************)
EXTENDS Integers

CONSTANTS CntFreq,     (* cntfrq_el0                                       *)
          MaxCount,    (* bound: how far the counter runs                  *)
          IntMax       (* the largest int, 2^31 - 1                        *)

ASSUME TimerAssumption ==
  CntFreq \in Nat \ {0} /\ MaxCount \in Nat /\ IntMax \in Nat

VARIABLES cntpct,      (* cntpct_el0                                       *)
          cval,        (* cntp_cval_el0                                    *)
          ctl,         (* cntp_ctl_el0: the bits that are set              *)
          freq,        (* the driver's variable                            *)
          shown,       (* the number in the last text                      *)
          start        (* history: the time at init_timer                  *)

timerVars == <<cntpct, cval, ctl, freq, shown, start>>

(* The seconds have 64 bits.  What itoa receives of them is an int: their  *)
(* lower half, in two's complement.                                        *)
Ints == -(IntMax + 1) .. IntMax
ToInt(sec) == ((sec + IntMax + 1) % (2 * (IntMax + 1))) - (IntMax + 1)

(* After reset the timer is off; whether it is masked is unknown.          *)
TimerInit ==
  /\ cntpct = 0 /\ cval = 0
  /\ ctl \in {{}, {"IMASK"}}
  /\ freq = 0 /\ shown = 0
  /\ start = 0

TimerTypeOK ==
  /\ cntpct \in 0 .. MaxCount
  /\ cval \in 0 .. MaxCount + CntFreq
  /\ ctl \subseteq {"ENABLE", "IMASK"}
  /\ freq \in {0, CntFreq}
  /\ shown \in Ints
  /\ start \in 0 .. MaxCount

TimerLine == "ENABLE" \in ctl /\ "IMASK" \notin ctl /\ cntpct >= cval

Tick ==
  /\ cntpct < MaxCount
  /\ cntpct' = cntpct + 1
  /\ UNCHANGED <<cval, ctl, freq, shown, start>>

init_timer_imp ==
  /\ freq' = CntFreq
  /\ start' = cntpct
  /\ cval' = cntpct + CntFreq
  /\ UNCHANGED <<cntpct, ctl, shown>>

(* Deviation: the mask is left as it was.                                  *)
EnableMasked ==
  /\ ctl' = ctl \cup {"ENABLE"}
  /\ UNCHANGED <<cntpct, cval, freq, shown, start>>

enable_timer_imp ==
  /\ ctl' = (ctl \cup {"ENABLE"}) \ {"IMASK"}
  /\ UNCHANGED <<cntpct, cval, freq, shown, start>>

(* Deviations: the next second is counted from now; the counter is added   *)
(* instead of the frequency.                                               *)
InterruptFromNow ==
  /\ cval' = cntpct + freq
  /\ UNCHANGED <<cntpct, ctl, freq, shown, start>>
InterruptAddsCounter ==
  /\ cval' = cval + cntpct
  /\ UNCHANGED <<cntpct, ctl, freq, shown, start>>

(* The next second is counted from the last one, however late this is.     *)
timer_imp_interrupt ==
  /\ cval' = cval + freq
  /\ UNCHANGED <<cntpct, ctl, freq, shown, start>>

(* get_timer_sec_imp, whose seconds itoa gets as an int; timer_to_string   *)
(* prints the text.  What a division by zero yields is undefined.          *)
timer_to_string_imp ==
  /\ shown' \in IF freq = 0 THEN Ints ELSE {ToInt(cntpct \div freq)}
  /\ UNCHANGED <<cntpct, cval, ctl, freq, start>>
=============================================================================
