-------------------------------- MODULE Itoa --------------------------------
(***************************************************************************)
(* itoa of lib/itoa.c, called again and again with the same buffer, as     *)
(* timer_to_string_imp of timer_imp.c does with its static str_sec.  The   *)
(* digits are written from the last to the first: each is put in front of  *)
(* the text, which moves up.                                               *)
(*                                                                         *)
(* An argument is what the caller has: its 64-bit seconds, or the 32-bit   *)
(* number of an interrupt.  It becomes an int, of Width bits, by the call. *)
(* A character is its ASCII code.                                          *)
(***************************************************************************)
EXTENDS Integers, Sequences

CONSTANTS Width,     (* of an int: 32                                      *)
          Args,      (* a negative int is passed as its two's complement   *)
          Bases,
          BufSize    (* of the buffer; in the run, cells behind it as well *)

ASSUME ItoaAssumption ==
  /\ Width \in Nat \ {0}
  /\ Args \subseteq Nat
  /\ Bases \subseteq 2 .. 36
  /\ BufSize \in Nat

(* The k-th power of b.                                                    *)
Power(b, k) == LET p[n \in Nat] == IF n = 0 THEN 1 ELSE b * p[n-1] IN p[k]

Modulus == Power(2, Width)

(* The longest numeral is that of the least int, -(2^(Width-1)).           *)
MaxDigits(b) == CHOOSE k \in 1 .. Width : /\ Power(b, k) > Modulus \div 2
                                          /\ Power(b, k - 1) <= Modulus \div 2

(* What the callers owe: the longest numeral, its sign and its NUL fit.    *)
ASSUME BufferSuffices == \A b \in Bases : MaxDigits(b) + 2 <= BufSize

VARIABLES argument, base,    (* of the call                                *)
          str,               (* the buffer, from the address str on        *)
          unsigned_value,    (* what is left to be written                 *)
          pc

vars == <<argument, base, str, unsigned_value, pc>>

NUL == 0
Minus == 45
Zero == 48
LetterA == 97
Cells == 0 .. BufSize - 1

(* The int that x becomes.                                                 *)
ToInt(x) == ((x + Modulus \div 2) % Modulus) - Modulus \div 2
negative == ToInt(argument) < 0

(* Deviation: there are no letters.                                        *)
OnlyFigures(d) == Zero + d

Character(d) == IF d <= 9 THEN Zero + d ELSE LetterA + d - 10

Init ==
  /\ argument = 0 /\ base \in Bases
  /\ str = [i \in Cells |-> NUL]
  /\ unsigned_value = 0
  /\ pc = "start"

-----------------------------------------------------------------------------
(* Deviation: the second cell is left as the last call had it.             *)
ClearFirst(s) == [s EXCEPT ![0] = NUL]

Cleared(s) == [s EXCEPT ![0] = NUL, ![1] = NUL]

Call(x, b) ==
  /\ pc # "digits"
  /\ argument' = x /\ base' = b
  /\ str' = Cleared(str)
  /\ unsigned_value' = IF ToInt(x) < 0 THEN -ToInt(x) ELSE ToInt(x)
  /\ pc' = "digits"

(* Deviation: room for a sign is left in front of every number.            *)
AfterSign == 1

First == IF negative THEN 1 ELSE 0

(* The text from First on moves up one cell, and c goes in front of it.    *)
InFront(c) ==
  LET end == CHOOSE i \in Cells : /\ i >= First /\ str[i] = NUL
                                  /\ \A j \in First .. i - 1 : str[j] # NUL
  IN  [i \in Cells |-> CASE i = First                -> c
                         [] i \in First + 1 .. end   -> str[i - 1]
                         [] i = end + 1              -> NUL
                         [] OTHER                    -> str[i]]

Digit ==
  /\ pc = "digits" /\ unsigned_value # 0
  /\ str' = InFront(Character(unsigned_value % base))
  /\ unsigned_value' = unsigned_value \div base
  /\ UNCHANGED <<argument, base, pc>>

(* All digits are written; zero had none.                                  *)
Finish ==
  /\ pc = "digits" /\ unsigned_value = 0
  /\ str' = [str EXCEPT ![0] = IF negative THEN Minus
                               ELSE IF @ = NUL THEN Zero ELSE @]
  /\ pc' = "done"
  /\ UNCHANGED <<argument, base, unsigned_value>>

Next == (\E x \in Args, b \in Bases : Call(x, b)) \/ Digit \/ Finish

Spec == Init /\ [][Next]_vars

-----------------------------------------------------------------------------
(* Properties.                                                             *)

TypeOK ==
  /\ argument \in Args \cup {0} /\ base \in Bases
  /\ str \in [Cells -> {NUL, Minus} \cup (Zero .. Zero + 9)
                         \cup (LetterA .. LetterA + 25)]
  /\ unsigned_value \in 0 .. Modulus \div 2
  /\ pc \in {"start", "digits", "done"}

(* Reading a text: its sign, its digits, and the number they stand for.    *)
Text == LET end == CHOOSE i \in Cells : /\ str[i] = NUL
                                        /\ \A j \in 0 .. i - 1 : str[j] # NUL
        IN  [i \in 1 .. end |-> str[i - 1]]
HasSign(text) == Head(text) = Minus
Figures(text) == IF HasSign(text) THEN Tail(text) ELSE text
DigitOf(c) == IF c >= LetterA THEN c - LetterA + 10 ELSE c - Zero
Number(figures) ==
  LET n[k \in 0 .. Len(figures)] ==
        IF k = 0 THEN 0 ELSE n[k-1] * base + DigitOf(figures[k])
  IN  n[Len(figures)]
Reading(text) == LET n == Number(Figures(text))
                 IN  IF HasSign(text) THEN -n ELSE n

(* Whatever text the buffer held before, what it holds now is the numeral  *)
(* of an int, without leading zeros, that differs from the argument by a   *)
(* multiple of 2^Width: the least int has its numeral, and the seconds are *)
(* shown as they are for 2^(Width-1) seconds, after that as a negative     *)
(* number (timer_imp.c:113).                                               *)
ReadsBack ==
  pc = "done" =>
    LET n == Reading(Text)
    IN  /\ \A i \in 1 .. Len(Figures(Text)) : DigitOf(Figures(Text)[i]) \in 0 .. base - 1
        /\ Head(Figures(Text)) = Zero => Text = <<Zero>>
        /\ n \in -(Modulus \div 2) .. Modulus \div 2 - 1
        /\ (n - argument) % Modulus = 0

(* No cell is written that the longest numeral of an int does not need     *)
(* with its sign and its NUL: 12 cells for 32 bits and base 10, of the 13  *)
(* that irq.c:22 and the 20 that timer_imp.c:111 have.                     *)
StaysInside ==
  [][\A i \in MaxDigits(base') + 2 .. BufSize - 1 : str'[i] = str[i]]_vars
=============================================================================
