------------------------------ MODULE ItoaProofs -----------------------------
(***************************************************************************)
(* Proofs about Itoa.tla, for every width of an int, every set of          *)
(* arguments and bases, and every buffer that holds the longest numeral.   *)
(* What is left to be written after k digits is the number divided k times *)
(* by the base: the digits are the remainders of these quotients, and the  *)
(* reader of the numeral meets the quotients again, in reverse order.      *)
(***************************************************************************)
EXTENDS Itoa, InductionProofs, TLAPS

Half == Modulus \div 2
Magnitude == IF negative THEN -ToInt(argument) ELSE ToInt(argument)

(* n after k divisions by b.                                               *)
Quotient(n, b, k) ==
  LET q[i \in Nat] == IF i = 0 THEN n ELSE q[i-1] \div b IN q[k]

Rest(k) == Quotient(Magnitude, base, k)

(* The last m digits of the number are in their cells, and nothing else.   *)
Written(m) ==
  /\ \A j \in 0 .. m - 1 : str[First + j] = Character(Rest(m - 1 - j) % base)
  /\ str[First + m] = NUL

Writing(m) ==
  /\ Written(m)
  /\ unsigned_value = Rest(m)
  /\ IF m = 0 THEN str[1] = NUL ELSE Rest(m - 1) # 0
  /\ negative => str[0] = NUL

Numeral(m) ==
  /\ Written(m)
  /\ Rest(m) = 0
  /\ m # 1 => Rest(m - 1) # 0
  /\ negative => str[0] = Minus

IInv ==
  /\ TypeOK
  /\ pc = "digits" => \E m \in 0 .. MaxDigits(base) : Writing(m)
  /\ pc = "done" => \E m \in 1 .. MaxDigits(base) : Numeral(m)

-----------------------------------------------------------------------------
(* Powers.                                                                 *)

LEMMA PowerValues ==
  ASSUME NEW b \in Nat
  PROVE  /\ Power(b, 0) = 1
         /\ \A k \in Nat : Power(b, k) \in Nat /\ Power(b, k + 1) = b * Power(b, k)
<1>. DEFINE step == [x \in Nat |-> b * x]
            F(p) == p = [n \in Nat |-> IF n = 0 THEN 1 ELSE b * p[n-1]]
            p == CHOOSE x : F(x)
<1>1. PICK f : Recurrence(f, Nat, 1, step)
  <2>. HIDE DEF step
  <2>. QED  BY RecursionOnNat
<1>2. f[0] = 1 /\ \A n \in Nat : f[n + 1] = step[f[n]]
  BY <1>1 DEF Recurrence
<1>3. \A n \in Nat : f[n] \in Nat
  <2>. DEFINE A == {n \in Nat : f[n] \in Nat}
  <2>1. 0 \in A
    BY <1>2
  <2>2. ASSUME NEW n \in Nat, n \in A PROVE n + 1 \in A
    <3>1. f[n] \in Nat /\ f[n + 1] = step[f[n]]
      BY <1>2, <2>2
    <3>2. step[f[n]] = b * f[n]
      BY <3>1
    <3>. QED  BY <3>1, <3>2
  <2>. HIDE DEF A
  <2>3. Nat \subseteq A
    BY <2>1, <2>2, SetInduction
  <2>. QED  BY <2>3 DEF A
<1>4. \A n \in Nat : n # 0 => f[n] = b * f[n-1]
  <2>. SUFFICES ASSUME NEW n \in Nat, n # 0 PROVE f[n] = b * f[n-1]
    OBVIOUS
  <2>1. n - 1 \in Nat /\ (n - 1) + 1 = n
    OBVIOUS
  <2>. QED  BY <2>1, <1>2, <1>3
<1>5. F(f)
  <2>1. f = [n \in Nat |-> f[n]]
    BY <1>1 DEF Recurrence
  <2>. QED  BY <2>1, <1>2, <1>4
<1>6. F(p)
  <2>. HIDE DEF F
  <2>. QED  BY <1>5
<1>. HIDE DEF p
<1>7. p[0] = 1 /\ \A k \in Nat : p[k + 1] = b * p[k]
  BY <1>6
<1>8. \A k \in Nat : p[k] \in Nat
  <2>. DEFINE A == {n \in Nat : p[n] \in Nat}
  <2>1. 0 \in A
    BY <1>7
  <2>2. \A n \in Nat : n \in A => n + 1 \in A
    BY <1>7
  <2>. HIDE DEF A
  <2>3. Nat \subseteq A
    BY <2>1, <2>2, SetInduction
  <2>. QED  BY <2>3 DEF A
<1>9. \A k : Power(b, k) = p[k]
  BY DEF Power, p
<1>. QED  BY <1>7, <1>8, <1>9

LEMMA PowersPositive ==
  ASSUME NEW b \in Nat, b > 0
  PROVE  \A k \in Nat : Power(b, k) > 0
<1>. DEFINE A == {k \in Nat : Power(b, k) > 0}
<1>1. 0 \in A
  BY PowerValues
<1>2. ASSUME NEW k \in Nat, k \in A PROVE k + 1 \in A
  <2>1. Power(b, k) \in Nat /\ Power(b, k) > 0 /\ Power(b, k + 1) = b * Power(b, k)
    BY PowerValues, <1>2
  <2>2. \A x, y \in Nat : x > 0 /\ y > 0 => x * y > 0
    OBVIOUS
  <2>. QED  BY <2>1, <2>2
<1>. HIDE DEF A
<1>3. Nat \subseteq A
  BY <1>1, <1>2, SetInduction
<1>. QED  BY <1>3 DEF A

LEMMA PowersGrow ==
  ASSUME NEW b \in Nat, b > 0, NEW k \in Nat, NEW m \in Nat, k <= m
  PROVE  Power(b, k) <= Power(b, m)
<1>. DEFINE A == {n \in Nat : k <= n => Power(b, k) <= Power(b, n)}
<1>1. 0 \in A
  BY PowerValues
<1>2. ASSUME NEW n \in Nat, n \in A PROVE n + 1 \in A
  <2>1. Power(b, n) \in Nat /\ Power(b, k) \in Nat /\ Power(b, n + 1) = b * Power(b, n)
    BY PowerValues
  <2>2. \A x, y \in Nat : x > 0 => y <= x * y
    OBVIOUS
  <2>3. Power(b, n) <= Power(b, n + 1)
    BY <2>1, <2>2
  <2>4. CASE k = n + 1
    BY <2>4, <2>1
  <2>5. CASE k # n + 1
    <3>1. Power(b, n + 1) \in Nat
      BY PowerValues
    <3>. QED  BY <1>2, <2>1, <2>3, <2>5, <3>1
  <2>. QED  BY <2>4, <2>5
<1>. HIDE DEF A
<1>3. Nat \subseteq A
  BY <1>1, <1>2, SetInduction
<1>. QED  BY <1>3 DEF A

(* A larger base has larger powers.                                        *)
LEMMA PowersOfTwoLeast ==
  ASSUME NEW b \in Nat, b >= 2
  PROVE  \A k \in Nat : Power(2, k) <= Power(b, k)
<1>. DEFINE A == {k \in Nat : Power(2, k) <= Power(b, k)}
<1>1. 0 \in A
  BY PowerValues
<1>2. ASSUME NEW k \in Nat, k \in A PROVE k + 1 \in A
  <2>1. /\ Power(b, k) \in Nat /\ Power(b, k + 1) = b * Power(b, k)
        /\ Power(2, k) \in Nat /\ Power(2, k + 1) = 2 * Power(2, k)
    BY PowerValues
  <2>2. \A x \in Nat : 2 * x <= b * x
    OBVIOUS
  <2>3. 2 * Power(b, k) <= b * Power(b, k)
    BY <2>1, <2>2
  <2>4. b * Power(b, k) \in Nat
    BY <2>1
  <2>. QED  BY <1>2, <2>1, <2>3, <2>4
<1>. HIDE DEF A
<1>3. Nat \subseteq A
  BY <1>1, <1>2, SetInduction
<1>. QED  BY <1>3 DEF A

LEMMA ModulusIsEven ==
  /\ Half \in Nat /\ Half > 0
  /\ Modulus = 2 * Half
  /\ Half = Power(2, Width - 1)
<1>1. Width - 1 \in Nat /\ (Width - 1) + 1 = Width
  BY ItoaAssumption
<1>2. Power(2, Width - 1) \in Nat /\ Power(2, Width) = 2 * Power(2, Width - 1)
  BY <1>1, PowerValues
<1>3. Power(2, Width - 1) > 0
  BY <1>1, PowersPositive
<1>. QED  BY <1>2, <1>3 DEF Half, Modulus

LEMMA BaseIsSmall ==
  ASSUME NEW b \in Bases
  PROVE  b \in Nat /\ b >= 2 /\ b <= 36
  BY ItoaAssumption

(* The digits of the least int are counted.                                *)
LEMMA LongestNumeral ==
  ASSUME NEW b \in Bases
  PROVE  /\ MaxDigits(b) \in 1 .. Width
         /\ Power(b, MaxDigits(b)) > Half
<1>. DEFINE A == {k \in Nat : Power(b, k) > Half}
            F(k) == Power(b, k) > Half /\ Power(b, k - 1) <= Half
<1>. b \in Nat /\ b >= 2
  BY BaseIsSmall
<1>1. Width \in A
  <2>1. Width \in Nat /\ Width - 1 \in Nat /\ (Width - 1) + 1 = Width
    BY ItoaAssumption
  <2>2. Power(2, Width) = 2 * Power(2, Width - 1)
    BY <2>1, PowerValues
  <2>3. Power(2, Width) <= Power(b, Width)
    BY <2>1, PowersOfTwoLeast
  <2>4. Power(b, Width) \in Nat
    BY <2>1, PowerValues
  <2>. QED  BY <2>1, <2>2, <2>3, <2>4, ModulusIsEven
<1>2. PICK m \in A : \A k \in A : m <= k
  <2>1. A \in SUBSET Nat /\ A # {}
    BY <1>1
  <2>. HIDE DEF A
  <2>. QED  BY <2>1, LeastNumber
<1>3. m # 0
  BY PowerValues, ModulusIsEven
<1>4. m - 1 \in Nat /\ m - 1 \notin A
  BY <1>2, <1>3
<1>5. m \in 1 .. Width /\ F(m)
  <2>1. Width \in Nat
    BY ItoaAssumption
  <2>2. Power(b, m - 1) \in Nat
    BY <1>4, PowerValues
  <2>. QED  BY <1>1, <1>2, <1>3, <1>4, <2>1, <2>2, ModulusIsEven
<1>6. MaxDigits(b) = CHOOSE k \in 1 .. Width : F(k)
  BY DEF MaxDigits, Half
<1>. HIDE DEF F
<1>7. MaxDigits(b) \in 1 .. Width /\ F(MaxDigits(b))
  BY <1>5, <1>6
<1>. QED  BY <1>7 DEF F

-----------------------------------------------------------------------------
(* Quotients.                                                              *)

LEMMA QuotientValues ==
  ASSUME NEW n \in Nat, NEW b \in Nat, b > 0
  PROVE  /\ Quotient(n, b, 0) = n
         /\ \A k \in Nat : /\ Quotient(n, b, k) \in Nat
                           /\ Quotient(n, b, k + 1) = Quotient(n, b, k) \div b
<1>. DEFINE step == [x \in Nat |-> x \div b]
            F(q) == q = [i \in Nat |-> IF i = 0 THEN n ELSE q[i-1] \div b]
            q == CHOOSE x : F(x)
<1>0. \A x \in Nat : x \div b \in Nat
  OBVIOUS
<1>1. PICK f : Recurrence(f, Nat, n, step)
  <2>. HIDE DEF step
  <2>. QED  BY RecursionOnNat
<1>2. f[0] = n /\ \A i \in Nat : f[i + 1] = step[f[i]]
  BY <1>1 DEF Recurrence
<1>3. \A i \in Nat : f[i] \in Nat
  <2>. DEFINE A == {i \in Nat : f[i] \in Nat}
  <2>1. 0 \in A
    BY <1>2
  <2>2. ASSUME NEW i \in Nat, i \in A PROVE i + 1 \in A
    <3>1. f[i] \in Nat /\ f[i + 1] = step[f[i]]
      BY <1>2, <2>2
    <3>2. step[f[i]] = f[i] \div b
      BY <3>1
    <3>. QED  BY <3>1, <3>2, <1>0
  <2>. HIDE DEF A
  <2>3. Nat \subseteq A
    BY <2>1, <2>2, SetInduction
  <2>. QED  BY <2>3 DEF A
<1>4. \A i \in Nat : i # 0 => f[i] = f[i-1] \div b
  <2>. SUFFICES ASSUME NEW i \in Nat, i # 0 PROVE f[i] = f[i-1] \div b
    OBVIOUS
  <2>1. i - 1 \in Nat /\ (i - 1) + 1 = i
    OBVIOUS
  <2>2. f[i - 1] \in Nat /\ f[i] = step[f[i-1]]
    BY <2>1, <1>2, <1>3
  <2>. QED  BY <2>2
<1>5. F(f)
  <2>1. f = [i \in Nat |-> f[i]]
    BY <1>1 DEF Recurrence
  <2>. QED  BY <2>1, <1>2, <1>4
<1>6. F(q)
  <2>. HIDE DEF F
  <2>. QED  BY <1>5
<1>. HIDE DEF q
<1>7. q[0] = n /\ \A k \in Nat : q[k + 1] = q[k] \div b
  BY <1>6
<1>8. \A k \in Nat : q[k] \in Nat
  <2>. DEFINE A == {k \in Nat : q[k] \in Nat}
  <2>1. 0 \in A
    BY <1>7
  <2>2. ASSUME NEW k \in Nat, k \in A PROVE k + 1 \in A
    BY <1>7, <2>2, <1>0
  <2>. HIDE DEF A
  <2>3. Nat \subseteq A
    BY <2>1, <2>2, SetInduction
  <2>. QED  BY <2>3 DEF A
<1>9. \A k : Quotient(n, b, k) = q[k]
  BY DEF Quotient, q
<1>. QED  BY <1>7, <1>8, <1>9

LEMMA DivMod ==
  ASSUME NEW n \in Nat, NEW b \in Nat, b > 0
  PROVE  /\ (n \div b) \in Nat /\ (n % b) \in 0 .. b - 1
         /\ n = (n \div b) * b + (n % b)
  OBVIOUS

(* k divisions by b are a division by its k-th power, rounded down.        *)
LEMMA QuotientTimesPower ==
  ASSUME NEW n \in Nat, NEW b \in Nat, b > 0
  PROVE  \A k \in Nat : Power(b, k) * Quotient(n, b, k) <= n
<1>. DEFINE A == {k \in Nat : Power(b, k) * Quotient(n, b, k) <= n}
<1>1. 0 \in A
  BY PowerValues, QuotientValues
<1>2. ASSUME NEW k \in Nat, k \in A PROVE k + 1 \in A
  <2>. DEFINE p == Power(b, k)
              q == Quotient(n, b, k)
              r == q \div b
  <2>1. p \in Nat /\ q \in Nat /\ Power(b, k + 1) = b * p /\ Quotient(n, b, k + 1) = r
    BY PowerValues, QuotientValues
  <2>2. p * q <= n
    BY <1>2
  <2>. HIDE DEF p, q
  <2>3. r \in Nat /\ r * b <= q
    BY <2>1, DivMod
  <2>. HIDE DEF r
  <2>4. \A x, y, z \in Nat : x <= y => z * x <= z * y
    OBVIOUS
  <2>5. r * b \in Nat
    BY <2>3
  <2>6. p * (r * b) <= p * q
    BY <2>1, <2>3, <2>4, <2>5
  <2>7. \A x, y, z \in Nat : (x * y) * z = y * (z * x)
    OBVIOUS
  <2>8. (b * p) * r = p * (r * b)
    BY <2>1, <2>3, <2>7
  <2>9. p * q \in Nat /\ p * (r * b) \in Nat
    BY <2>1, <2>3, <2>5
  <2>. QED  BY <2>1, <2>2, <2>6, <2>8, <2>9
<1>. HIDE DEF A
<1>3. Nat \subseteq A
  BY <1>1, <1>2, SetInduction
<1>. QED  BY <1>3 DEF A

LEMMA QuotientsShrink ==
  ASSUME NEW n \in Nat, NEW b \in Nat, b > 0
  PROVE  \A k \in Nat : Quotient(n, b, k) <= n
<1>. SUFFICES ASSUME NEW k \in Nat PROVE Quotient(n, b, k) <= n
  OBVIOUS
<1>1. Power(b, k) \in Nat /\ Power(b, k) > 0 /\ Quotient(n, b, k) \in Nat
  BY PowerValues, PowersPositive, QuotientValues
<1>2. Power(b, k) * Quotient(n, b, k) <= n
  BY QuotientTimesPower
<1>3. \A x, y \in Nat : x > 0 => y <= x * y
  OBVIOUS
<1>4. Quotient(n, b, k) <= Power(b, k) * Quotient(n, b, k)
  BY <1>1, <1>3
<1>5. Power(b, k) * Quotient(n, b, k) \in Nat
  BY <1>1
<1>. QED  BY <1>1, <1>2, <1>4, <1>5

(* While something is left, the numeral is shorter than the longest one.   *)
LEMMA DigitsAreFew ==
  ASSUME NEW n \in Nat, n <= Half, NEW b \in Bases, NEW k \in Nat,
         Quotient(n, b, k) # 0
  PROVE  k < MaxDigits(b)
<1>. DEFINE d == MaxDigits(b)
<1>1. b \in Nat /\ b > 0
  BY BaseIsSmall
<1>2. d \in Nat /\ Power(b, d) > Half
  BY LongestNumeral, ItoaAssumption
<1>. HIDE DEF d
<1>. SUFFICES ASSUME d <= k PROVE FALSE
  BY <1>2 DEF d
<1>3. Power(b, d) <= Power(b, k)
  BY <1>1, <1>2, PowersGrow
<1>4. Power(b, k) \in Nat /\ Power(b, d) \in Nat /\ Quotient(n, b, k) \in Nat
  BY <1>1, <1>2, PowerValues, QuotientValues
<1>5. Power(b, k) * Quotient(n, b, k) <= n
  BY <1>1, QuotientTimesPower
<1>6. \A x, y \in Nat : y # 0 => x <= x * y
  OBVIOUS
<1>7. Power(b, k) <= Power(b, k) * Quotient(n, b, k)
  BY <1>4, <1>6
<1>8. Power(b, k) * Quotient(n, b, k) \in Nat
  BY <1>4
<1>. QED  BY <1>2, <1>3, <1>4, <1>5, <1>7, <1>8, ModulusIsEven

-----------------------------------------------------------------------------
(* Characters, numbers and the cells they need.                            *)

Characters == (Zero .. Zero + 9) \cup (LetterA .. LetterA + 25)

LEMMA CharacterOfDigit ==
  ASSUME NEW d \in 0 .. 35
  PROVE  /\ Character(d) \in Characters
         /\ Character(d) # NUL /\ Character(d) # Minus
         /\ DigitOf(Character(d)) = d
         /\ Character(d) = Zero <=> d = 0
  BY DEF Character, Characters, DigitOf, NUL, Minus, Zero, LetterA

LEMMA TruncationToInt ==
  ASSUME NEW x \in Nat
  PROVE  /\ ToInt(x) \in -Half .. Half - 1
         /\ (ToInt(x) - x) % Modulus = 0
<1>. DEFINE y == x + Half
            q == y \div Modulus
            r == y % Modulus
            p == q * Modulus
<1>1. Modulus \in Nat /\ Modulus > 0 /\ y \in Nat
  BY ModulusIsEven
<1>2. q \in Nat /\ r \in 0 .. Modulus - 1 /\ y = p + r
  BY <1>1, DivMod
<1>3. ToInt(x) = r - Half
  BY DEF ToInt, Half
<1>. HIDE DEF q, r
<1>4. p \in Nat
  BY <1>1, <1>2
<1>5. (-p) % Modulus = 0
  <2>1. \A a, c \in Nat : c > 0 => (-(a * c)) % c = 0
    OBVIOUS
  <2>. QED  BY <2>1, <1>1, <1>2
<1>. HIDE DEF p
<1>6. ToInt(x) - x = -p /\ ToInt(x) \in -Half .. Half - 1
  BY <1>1, <1>2, <1>3, <1>4, ModulusIsEven
<1>. QED  BY <1>5, <1>6

LEMMA CallTypes ==
  ASSUME TypeOK
  PROVE  /\ argument \in Nat /\ base \in Nat /\ base >= 2 /\ base <= 36
         /\ Magnitude \in 0 .. Half
         /\ negative \in BOOLEAN /\ (negative => Magnitude # 0)
         /\ First \in {0, 1}
         /\ MaxDigits(base) \in Nat /\ MaxDigits(base) >= 1
         /\ \A m \in 0 .. MaxDigits(base) : First + m \in Cells
         /\ 0 \in Cells /\ 1 \in Cells
<1>1. argument \in Nat /\ base \in Bases
  BY ItoaAssumption DEF TypeOK
<1>2. base \in Nat /\ base >= 2 /\ base <= 36
  BY <1>1, BaseIsSmall
<1>3. ToInt(argument) \in -Half .. Half - 1 /\ Half \in Nat
  BY <1>1, TruncationToInt, ModulusIsEven
<1>4. Magnitude \in 0 .. Half /\ (negative => Magnitude # 0)
  BY <1>3 DEF Magnitude, negative
<1>5. negative \in BOOLEAN /\ First \in {0, 1}
  BY DEF First, negative
<1>6. MaxDigits(base) \in Nat /\ MaxDigits(base) >= 1
  BY <1>1, LongestNumeral, ItoaAssumption
<1>7. BufSize \in Nat /\ MaxDigits(base) + 2 <= BufSize
  BY <1>1, ItoaAssumption, BufferSuffices
<1>. HIDE DEF negative
<1>. QED  BY <1>1, <1>2, <1>4, <1>5, <1>6, <1>7 DEF Cells

LEMMA RestValues ==
  ASSUME TypeOK
  PROVE  /\ Rest(0) = Magnitude
         /\ \A k \in Nat : /\ Rest(k) \in 0 .. Half
                           /\ (Rest(k) % base) \in 0 .. base - 1
                           /\ Rest(k + 1) = Rest(k) \div base
                           /\ Rest(k) = Rest(k + 1) * base + (Rest(k) % base)
                           /\ Rest(k) # 0 => k < MaxDigits(base)
<1>1. Magnitude \in Nat /\ Magnitude <= Half /\ base \in Nat /\ base > 0 /\ base \in Bases
  BY CallTypes, ModulusIsEven DEF TypeOK
<1>2. Rest(0) = Magnitude
  BY <1>1, QuotientValues DEF Rest
<1>3. ASSUME NEW k \in Nat
      PROVE  /\ Rest(k) \in Nat /\ Rest(k + 1) = Rest(k) \div base
             /\ Rest(k) <= Magnitude
             /\ Rest(k) # 0 => k < MaxDigits(base)
  BY <1>1, QuotientValues, QuotientsShrink, DigitsAreFew DEF Rest
<1>4. ASSUME NEW k \in Nat
      PROVE  /\ (Rest(k) % base) \in 0 .. base - 1
             /\ Rest(k) = Rest(k + 1) * base + (Rest(k) % base)
  BY <1>1, <1>3, DivMod
<1>5. \A k \in Nat : Rest(k) \in 0 .. Half
  BY <1>1, <1>3, ModulusIsEven
<1>. QED  BY <1>2, <1>3, <1>4, <1>5

LEMMA StrTypes ==
  ASSUME TypeOK
  PROVE  str \in [Cells -> {NUL, Minus} \cup Characters]
  BY DEF TypeOK, Characters

(* The cells of the digits hold characters, so the NUL behind them is the  *)
(* first one from First on.                                                *)
LEMMA DigitCells ==
  ASSUME TypeOK, NEW m \in 0 .. MaxDigits(base), Written(m)
  PROVE  /\ First + m \in Cells /\ str[First + m] = NUL
         /\ \A i \in First .. First + m - 1 :
              /\ i \in Cells /\ i - First \in 0 .. m - 1
              /\ str[i] = Character(Rest(m - 1 - (i - First)) % base)
              /\ str[i] \in Characters /\ str[i] # NUL /\ str[i] # Minus
<1>1. First \in {0, 1} /\ First + m \in Cells /\ MaxDigits(base) \in Nat
  BY CallTypes
<1>2. str[First + m] = NUL
  BY DEF Written
<1>3. ASSUME NEW i \in First .. First + m - 1
      PROVE  /\ i \in Cells /\ i - First \in 0 .. m - 1
             /\ str[i] = Character(Rest(m - 1 - (i - First)) % base)
             /\ str[i] \in Characters /\ str[i] # NUL /\ str[i] # Minus
  <2>. DEFINE j == i - First
  <2>1. j \in 0 .. m - 1 /\ First + j = i /\ m - 1 - j \in Nat
    BY <1>1
  <2>2. i \in Cells
    BY <1>1, ItoaAssumption DEF Cells
  <2>. HIDE DEF j
  <2>3. str[First + j] = Character(Rest(m - 1 - j) % base)
    BY <2>1 DEF Written
  <2>4. (Rest(m - 1 - j) % base) \in 0 .. 35
    <3>1. (Rest(m - 1 - j) % base) \in 0 .. base - 1
      BY <2>1, RestValues
    <3>. QED  BY <3>1, CallTypes
  <2>5. LET c == Character(Rest(m - 1 - j) % base)
        IN  c \in Characters /\ c # NUL /\ c # Minus
    BY <2>4, CharacterOfDigit
  <2>. QED  BY <2>1, <2>2, <2>3, <2>5 DEF j
<1>. QED  BY <1>1, <1>2, <1>3

LEMMA InFrontMoves ==
  ASSUME TypeOK, NEW m \in 0 .. MaxDigits(base), Written(m), NEW c
  PROVE  InFront(c) =
           [i \in Cells |-> CASE i = First                    -> c
                              [] i \in First + 1 .. First + m -> str[i - 1]
                              [] i = First + m + 1            -> NUL
                              [] OTHER                        -> str[i]]
<1>. DEFINE E(i) == /\ i >= First /\ str[i] = NUL
                    /\ \A j \in First .. i - 1 : str[j] # NUL
            end == CHOOSE i \in Cells : E(i)
<1>1. First \in {0, 1} /\ First + m \in Cells /\ MaxDigits(base) \in Nat
  BY CallTypes
<1>2. E(First + m)
  BY <1>1, DigitCells
<1>3. ASSUME NEW i \in Cells, E(i) PROVE i = First + m
  <2>1. i \in Int
    BY ItoaAssumption DEF Cells
  <2>2. ~ (First + m \in First .. i - 1)
    BY <1>2, <1>3
  <2>3. ~ (i \in First .. First + m - 1)
    BY <1>1, <1>2, <1>3
  <2>. QED  BY <1>1, <1>3, <2>1, <2>2, <2>3
<1>4. end = First + m
  <2>. HIDE DEF E
  <2>1. end \in Cells /\ E(end)
    BY <1>1, <1>2
  <2>. HIDE DEF end
  <2>. QED  BY <2>1, <1>3
<1>5. InFront(c) = [i \in Cells |-> CASE i = First              -> c
                                      [] i \in First + 1 .. end -> str[i - 1]
                                      [] i = end + 1            -> NUL
                                      [] OTHER                  -> str[i]]
  BY DEF InFront
<1>. HIDE DEF end
<1>. QED  BY <1>4, <1>5

-----------------------------------------------------------------------------
(* The invariant.                                                          *)

LEMMA InitIInv == Init => IInv
<1>. SUFFICES ASSUME Init PROVE IInv
  OBVIOUS
<1>1. 0 \in 0 .. Half
  BY ModulusIsEven
<1>. QED  BY <1>1 DEF Init, IInv, TypeOK, Half

LEMMA CallStep ==
  ASSUME IInv, NEW x \in Args, NEW b \in Bases, Call(x, b)
  PROVE  IInv'
<1>1. TypeOK'
  <2>1. x \in Nat
    BY ItoaAssumption
  <2>2. ToInt(x) \in -Half .. Half - 1 /\ Half \in Nat
    BY <2>1, TruncationToInt, ModulusIsEven
  <2>3. unsigned_value' \in 0 .. Half
    BY <2>2 DEF Call
  <2>. QED  BY <2>3 DEF Call, Cleared, IInv, TypeOK, Half
<1>2. (0 \in Cells /\ 1 \in Cells /\ First \in {0, 1} /\ MaxDigits(base) >= 1
       /\ MaxDigits(base) \in Nat /\ negative \in BOOLEAN)'
  BY <1>1, CallTypes, PTL
<1>3. (Rest(0) = Magnitude)'
  BY <1>1, RestValues, PTL
<1>4. str'[0] = NUL /\ str'[1] = NUL
  <2>1. 0 \in Cells /\ 1 \in Cells
    BY <1>2 DEF Cells
  <2>. QED  BY <2>1 DEF Call, Cleared, IInv, TypeOK
<1>5. unsigned_value' = Magnitude'
  BY DEF Call, Magnitude, negative
<1>6. Writing(0)'
  BY <1>2, <1>3, <1>4, <1>5 DEF Writing, Written
<1>7. pc' = "digits" /\ 0 \in 0 .. MaxDigits(base')
  BY <1>2 DEF Call
<1>. QED  BY <1>1, <1>6, <1>7 DEF IInv

(* The number, its sign and its quotients are the call's.                  *)
LEMMA SameNumber ==
  ASSUME UNCHANGED <<argument, base>>
  PROVE  /\ First' = First /\ negative' = negative
         /\ \A k : Rest(k)' = Rest(k)
  BY DEF First, negative, Rest, Magnitude

LEMMA DigitStep ==
  ASSUME IInv, Digit
  PROVE  IInv'
<1>. DEFINE d == unsigned_value % base
            c == Character(d)
<1>1. TypeOK /\ pc = "digits" /\ unsigned_value # 0
  BY DEF IInv, Digit
<1>2. PICK m \in 0 .. MaxDigits(base) : Writing(m)
  BY <1>1 DEF IInv
<1>3. First \in {0, 1} /\ base \in Nat /\ base >= 2 /\ base <= 36 /\ MaxDigits(base) \in Nat
  BY <1>1, CallTypes
<1>4. m \in Nat /\ Written(m) /\ unsigned_value = Rest(m)
  BY <1>2, <1>3 DEF Writing
<1>5. /\ d \in 0 .. base - 1 /\ unsigned_value \div base = Rest(m + 1)
      /\ m + 1 \in 0 .. MaxDigits(base)
      /\ Rest(m + 1) \in 0 .. Half
  BY <1>1, <1>3, <1>4, RestValues
<1>6. c \in Characters /\ c # NUL
  BY <1>3, <1>5, CharacterOfDigit
<1>7. str' = [i \in Cells |-> CASE i = First                    -> c
                                [] i \in First + 1 .. First + m -> str[i - 1]
                                [] i = First + m + 1            -> NUL
                                [] OTHER                        -> str[i]]
  BY <1>1, <1>4, InFrontMoves DEF Digit
<1>8. UNCHANGED <<argument, base, pc>> /\ unsigned_value' = Rest(m + 1)
  BY <1>5 DEF Digit
<1>9. First' = First /\ negative' = negative /\ \A k : Rest(k)' = Rest(k)
  BY <1>8, SameNumber
<1>10. \A j \in 0 .. m + 1 : First + j \in Cells
  BY <1>1, <1>4, <1>5, CallTypes
<1>. HIDE DEF c, d
<1>11. TypeOK'
  <2>. DEFINE S == {NUL, Minus} \cup Characters
  <2>1. \A i \in First + 1 .. First + m : i - 1 \in Cells
    <3>1. \A i \in First + 1 .. First + m : i - 1 - First \in 0 .. m /\ i - 1 = First + (i - 1 - First)
      BY <1>3, <1>4
    <3>. QED  BY <3>1, <1>1, <1>3, <1>4, <1>10
  <2>2. str \in [Cells -> S]
    BY <1>1, StrTypes
  <2>3. str' \in [Cells -> S]
    BY <1>6, <1>7, <2>1, <2>2
  <2>. QED  BY <2>3, <1>1, <1>5, <1>8 DEF TypeOK, Characters, Half, Modulus
<1>12. Written(m + 1)'
  <2>1. \A j \in 0 .. m : str'[First + j] = Character(Rest(m - j) % base)
    <3>. SUFFICES ASSUME NEW j \in 0 .. m
                  PROVE  str'[First + j] = Character(Rest(m - j) % base)
      OBVIOUS
    <3>1. First + j \in Cells
      BY <1>10, <1>4
    <3>2. CASE j = 0
      BY <3>1, <3>2, <1>3, <1>4, <1>7 DEF c, d
    <3>3. CASE j # 0
      <4>1. /\ First + j \in First + 1 .. First + m /\ First + j # First
            /\ j - 1 \in 0 .. m - 1 /\ (First + j) - 1 = First + (j - 1)
            /\ m - 1 - (j - 1) = m - j
        BY <3>3, <1>3, <1>4
      <4>2. str'[First + j] = str[First + (j - 1)]
        <5>1. \A i \in Cells : i # First /\ i \in First + 1 .. First + m
                                => str'[i] = str[i - 1]
          BY <1>3, <1>4, <1>7 DEF Cells
        <5>2. str'[First + j] = str[(First + j) - 1]
          BY <3>1, <4>1, <5>1
        <5>. QED  BY <5>2, <4>1
      <4>3. str[First + (j - 1)] = Character(Rest(m - 1 - (j - 1)) % base)
        BY <4>1, <1>4 DEF Written
      <4>. QED  BY <4>1, <4>2, <4>3
    <3>. QED  BY <3>2, <3>3
  <2>2. str'[First + (m + 1)] = NUL
    <3>1. First + (m + 1) \in Cells /\ First + (m + 1) # First
          /\ First + (m + 1) = First + m + 1 /\ First + (m + 1) \notin First + 1 .. First + m
      BY <1>3, <1>4, <1>10
    <3>. QED  BY <3>1, <1>7
  <2>3. (m + 1) - 1 = m
    BY <1>4
  <2>. QED  BY <2>1, <2>2, <2>3, <1>8, <1>9 DEF Written
<1>13. negative => str'[0] = NUL
  <2>. SUFFICES ASSUME negative PROVE str'[0] = NUL
    OBVIOUS
  <2>1. First = 1 /\ str[0] = NUL
    BY <1>2 DEF First, Writing
  <2>2. 0 \in Cells
    BY <1>1, CallTypes
  <2>. QED  BY <2>1, <2>2, <1>4, <1>7
<1>14. Writing(m + 1)'
  <2>1. m + 1 # 0 /\ (m + 1) - 1 = m
    BY <1>4
  <2>2. (IF m + 1 = 0 THEN str[1] = NUL ELSE Rest((m + 1) - 1) # 0)'
    BY <2>1, <1>1, <1>4, <1>9
  <2>. QED  BY <2>2, <1>8, <1>9, <1>12, <1>13 DEF Writing
<1>15. pc' = "digits" /\ m + 1 \in 0 .. MaxDigits(base')
  BY <1>1, <1>5, <1>8
<1>. QED  BY <1>11, <1>14, <1>15 DEF IInv

(* Zero has no digit of its own: its numeral is written at the end.        *)
LEMMA FinishStep ==
  ASSUME IInv, Finish
  PROVE  IInv'
<1>1. TypeOK /\ pc = "digits" /\ unsigned_value = 0 /\ pc' = "done"
  BY DEF IInv, Finish
<1>2. PICK m \in 0 .. MaxDigits(base) : Writing(m)
  BY <1>1 DEF IInv
<1>3. /\ First \in {0, 1} /\ base \in Nat /\ base >= 2 /\ base <= 36
      /\ MaxDigits(base) \in Nat /\ MaxDigits(base) >= 1
      /\ 0 \in Cells /\ 1 \in Cells /\ \A k \in 0 .. MaxDigits(base) : First + k \in Cells
      /\ negative => Magnitude # 0
  BY <1>1, CallTypes
<1>4. m \in Nat /\ Written(m) /\ Rest(m) = 0
  BY <1>1, <1>2, <1>3 DEF Writing
<1>5. UNCHANGED <<argument, base, unsigned_value>>
      /\ str' = [str EXCEPT ![0] = IF negative THEN Minus
                                   ELSE IF str[0] = NUL THEN Zero ELSE str[0]]
  BY DEF Finish
<1>6. First' = First /\ negative' = negative /\ \A k : Rest(k)' = Rest(k)
  BY <1>5, SameNumber
<1>. DEFINE S == {NUL, Minus} \cup Characters
<1>7. str \in [Cells -> S] /\ Minus \in S /\ Zero \in S
  BY <1>1, StrTypes DEF Characters, Zero
<1>8. str' \in [Cells -> S] /\ \A i \in Cells : i # 0 => str'[i] = str[i]
  BY <1>3, <1>5, <1>7
<1>9. TypeOK'
  BY <1>1, <1>5, <1>8 DEF TypeOK, Characters, Modulus
<1>10. negative => First = 1 /\ str'[0] = Minus
  BY <1>3, <1>5, <1>7 DEF First
<1>11. CASE m = 0
  <2>1. Magnitude = 0
    BY <1>1, <1>4, <1>11, RestValues
  <2>2. ~ negative /\ First = 0 /\ str[0] = NUL /\ str[1] = NUL
    BY <2>1, <1>2, <1>3, <1>4, <1>11 DEF First, Writing, Written
  <2>3. str'[0] = Zero /\ str'[1] = NUL
    BY <2>2, <1>3, <1>5, <1>7, <1>8
  <2>4. Rest(0) = 0 /\ Rest(1) = 0 /\ (Rest(0) % base) = 0
    <3>1. Rest(0) = 0 /\ Rest(0 + 1) = Rest(0) \div base
      BY <1>1, <2>1, RestValues
    <3>2. \A b \in Nat : b >= 2 => (0 \div b) = 0 /\ (0 % b) = 0
      OBVIOUS
    <3>. QED  BY <3>1, <3>2, <1>3
  <2>5. Character(0) = Zero
    BY CharacterOfDigit
  <2>6. Written(1)'
    <3>1. \A j \in 0 .. 1 - 1 : str'[First + j] = Character(Rest(1 - 1 - j) % base)
      BY <2>2, <2>3, <2>4, <2>5
    <3>2. str'[First + 1] = NUL
      BY <2>2, <2>3
    <3>. QED  BY <3>1, <3>2, <1>5, <1>6 DEF Written
  <2>7. Numeral(1)'
    BY <2>2, <2>4, <2>6, <1>6 DEF Numeral
  <2>8. 1 \in 1 .. MaxDigits(base')
    BY <1>3, <1>5
  <2>. QED  BY <1>1, <1>9, <2>7, <2>8 DEF IInv
<1>12. CASE m # 0
  <2>1. \A i \in First .. First + m : i \in Cells /\ str'[i] = str[i]
    <3>. SUFFICES ASSUME NEW i \in First .. First + m
                  PROVE  i \in Cells /\ str'[i] = str[i]
      OBVIOUS
    <3>1. i \in Cells
      <4>1. i - First \in 0 .. MaxDigits(base) /\ First + (i - First) = i
        BY <1>2, <1>3, <1>4
      <4>. QED  BY <4>1, <1>3
    <3>2. CASE i # 0
      BY <3>1, <3>2, <1>8
    <3>3. CASE i = 0
      <4>1. First = 0 /\ 0 \in First .. First + m - 1
        BY <3>3, <1>3, <1>4, <1>12
      <4>2. str[0] # NUL
        BY <4>1, <1>1, <1>2, <1>4, DigitCells
      <4>3. ~ negative
        BY <4>1 DEF First
      <4>. QED  BY <3>1, <3>3, <4>2, <4>3, <1>5, <1>7
    <3>. QED  BY <3>2, <3>3
  <2>2. Written(m)'
    <3>1. \A j \in 0 .. m - 1 : str'[First + j] = Character(Rest(m - 1 - j) % base)
      <4>1. \A j \in 0 .. m - 1 : First + j \in First .. First + m
        BY <1>3, <1>4
      <4>. QED  BY <4>1, <2>1, <1>4 DEF Written
    <3>2. str'[First + m] = NUL
      <4>1. First + m \in First .. First + m
        BY <1>3, <1>4
      <4>. QED  BY <4>1, <2>1, <1>4 DEF Written
    <3>. QED  BY <3>1, <3>2, <1>5, <1>6 DEF Written
  <2>3. Rest(m - 1) # 0
    BY <1>2, <1>12 DEF Writing
  <2>4. Numeral(m)'
    BY <2>2, <2>3, <1>4, <1>6, <1>10 DEF Numeral
  <2>5. m \in 1 .. MaxDigits(base')
    BY <1>2, <1>3, <1>4, <1>5, <1>12
  <2>. QED  BY <1>1, <1>9, <2>4, <2>5 DEF IInv
<1>. QED  BY <1>11, <1>12

LEMMA NextIInv == IInv /\ [Next]_vars => IInv'
<1>. SUFFICES ASSUME IInv, [Next]_vars PROVE IInv'
  OBVIOUS
<1>1. CASE \E x \in Args, b \in Bases : Call(x, b)
  BY <1>1, CallStep
<1>2. CASE Digit
  BY <1>2, DigitStep
<1>3. CASE Finish
  BY <1>3, FinishStep
<1>4. CASE UNCHANGED vars
  <2>1. First' = First /\ negative' = negative /\ \A k : Rest(k)' = Rest(k)
    BY <1>4, SameNumber DEF vars
  <2>2. TypeOK'
    BY <1>4 DEF vars, IInv, TypeOK, Modulus
  <2>3. \A m : Written(m)' <=> Written(m)
    BY <1>4, <2>1 DEF vars, Written
  <2>4. \A m : (Writing(m)' <=> Writing(m)) /\ (Numeral(m)' <=> Numeral(m))
    BY <1>4, <2>1, <2>3 DEF vars, Writing, Numeral
  <2>. QED  BY <1>4, <2>2, <2>4 DEF vars, IInv
<1>. QED  BY <1>1, <1>2, <1>3, <1>4 DEF Next

LEMMA Invariance == Spec => []IInv
<1>1. Init => IInv
  BY InitIInv
<1>2. IInv /\ [Next]_vars => IInv'
  BY NextIInv
<1>. QED  BY <1>1, <1>2, PTL DEF Spec

(* The characters written are digits, the arguments fit an int, and what   *)
(* is left to be written is never more than the least int needs.           *)
THEOREM ItoaTypes == Spec => []TypeOK
<1>1. IInv => TypeOK
  BY DEF IInv
<1>. QED  BY <1>1, Invariance, PTL

(* A call writes to the cells of its numeral, its sign and its NUL: at     *)
(* most MaxDigits(base) digits are written, and what moves up moves by one *)
(* cell.                                                                   *)
THEOREM ItoaStaysInBuffer == Spec => StaysInside
<1>. DEFINE Inside == \A i \in MaxDigits(base') + 2 .. BufSize - 1 : str'[i] = str[i]
<1>1. ASSUME IInv, [Next]_vars PROVE Inside
  <2>1. /\ TypeOK /\ MaxDigits(base) \in Nat /\ MaxDigits(base) >= 1
        /\ First \in {0, 1} /\ BufSize \in Nat
    BY <1>1, CallTypes, ItoaAssumption DEF IInv
  <2>2. DOMAIN str = Cells
    BY <2>1 DEF TypeOK
  <2>3. \A n \in Nat : \A i \in n + 2 .. BufSize - 1 : i \in Cells /\ i >= n + 2
    BY <2>1 DEF Cells
  <2>4. CASE \E x \in Args, b \in Bases : Call(x, b)
    <3>1. PICK x \in Args, b \in Bases : Call(x, b)
      BY <2>4
    <3>2. MaxDigits(b) \in Nat
      BY LongestNumeral, ItoaAssumption
    <3>3. \A i \in Cells : i # 0 /\ i # 1 => str'[i] = str[i]
      BY <3>1, <2>2 DEF Call, Cleared
    <3>4. base' = b
      BY <3>1 DEF Call
    <3>. QED  BY <2>3, <3>2, <3>3, <3>4
  <2>5. CASE Digit
    <3>1. PICK m \in 0 .. MaxDigits(base) : Writing(m)
      BY <1>1, <2>5 DEF IInv, Digit
    <3>2. Written(m) /\ Rest(m) # 0
      BY <3>1, <2>5 DEF Writing, Digit
    <3>3. m \in Nat /\ m < MaxDigits(base)
      BY <2>1, <3>1, <3>2, RestValues
    <3>4. str' = InFront(Character(unsigned_value % base)) /\ base' = base
      BY <2>5 DEF Digit
    <3>5. \A i \in Cells : i > First + m + 1 => str'[i] = str[i]
      <4>. DEFINE c == Character(unsigned_value % base)
      <4>1. InFront(c) =
              [i \in Cells |-> CASE i = First                    -> c
                                 [] i \in First + 1 .. First + m -> str[i - 1]
                                 [] i = First + m + 1            -> NUL
                                 [] OTHER                        -> str[i]]
        BY <2>1, <3>1, <3>2, InFrontMoves
      <4>2. str' = InFront(c)
        BY <3>4
      <4>. HIDE DEF c
      <4>. QED  BY <2>1, <3>3, <4>1, <4>2 DEF Cells
    <3>6. \A i \in MaxDigits(base) + 2 .. BufSize - 1 : i \in Cells /\ i > First + m + 1
      BY <2>1, <3>3 DEF Cells
    <3>. QED  BY <3>4, <3>5, <3>6
  <2>6. CASE Finish
    <3>1. base' = base /\ \A i \in Cells : i # 0 => str'[i] = str[i]
      BY <2>6, <2>2 DEF Finish
    <3>. QED  BY <2>1, <2>3, <3>1
  <2>7. CASE UNCHANGED vars
    BY <2>7 DEF vars
  <2>. QED  BY <1>1, <2>4, <2>5, <2>6, <2>7 DEF Next
<1>2. IInv /\ [Next]_vars => [Inside]_vars
  BY <1>1
<1>. HIDE DEF Inside
<1>3. Spec => [][Inside]_vars
  BY <1>2, Invariance, PTL DEF Spec
<1>. QED  BY <1>3 DEF StaysInside, Inside

-----------------------------------------------------------------------------
(* Reading the numeral.                                                    *)

NumeralOf(m) == [k \in 1 .. m |-> Character(Rest(m - k) % base)]

LEMMA FigureValues ==
  ASSUME TypeOK, NEW m \in Nat
  PROVE  \A k \in 1 .. m :
           LET d == Rest(m - k) % base
           IN  /\ NumeralOf(m)[k] = Character(d)
               /\ d \in 0 .. base - 1 /\ d \in 0 .. 35
               /\ NumeralOf(m)[k] \in Characters
               /\ NumeralOf(m)[k] # Minus
               /\ DigitOf(NumeralOf(m)[k]) = d
               /\ NumeralOf(m)[k] = Zero <=> d = 0
<1>. SUFFICES ASSUME NEW k \in 1 .. m
              PROVE  LET d == Rest(m - k) % base
                     IN  /\ NumeralOf(m)[k] = Character(d)
                         /\ d \in 0 .. base - 1 /\ d \in 0 .. 35
                         /\ NumeralOf(m)[k] \in Characters
                         /\ NumeralOf(m)[k] # Minus
                         /\ DigitOf(NumeralOf(m)[k]) = d
                         /\ NumeralOf(m)[k] = Zero <=> d = 0
  OBVIOUS
<1>. DEFINE d == Rest(m - k) % base
<1>1. NumeralOf(m)[k] = Character(d)
  BY DEF NumeralOf
<1>2. m - k \in Nat
  OBVIOUS
<1>3. d \in 0 .. base - 1
  BY <1>2, RestValues
<1>. HIDE DEF d
<1>4. d \in 0 .. 35
  BY <1>3, CallTypes
<1>5. /\ Character(d) \in Characters /\ Character(d) # Minus
      /\ DigitOf(Character(d)) = d /\ (Character(d) = Zero <=> d = 0)
  BY <1>4, CharacterOfDigit
<1>. QED  BY <1>1, <1>3, <1>4, <1>5 DEF d

(* Reading the digits from the first to the last multiplies by the base    *)
(* what the writer had divided by it.                                      *)
LEMMA NumberOfNumeral ==
  ASSUME TypeOK, NEW m \in Nat, Rest(m) = 0
  PROVE  Number(NumeralOf(m)) = Magnitude
<1>. DEFINE F(n) == n = [k \in 0 .. m |-> IF k = 0 THEN 0
                                         ELSE n[k-1] * base + DigitOf(NumeralOf(m)[k])]
            g == [k \in 0 .. m |-> Rest(m - k)]
            n == CHOOSE x : F(x)
<1>1. ASSUME NEW k \in 1 .. m
      PROVE  Rest(m - k) = Rest(m - (k - 1)) * base + DigitOf(NumeralOf(m)[k])
  <2>1. m - k \in Nat /\ (m - k) + 1 = m - (k - 1)
    OBVIOUS
  <2>2. Rest(m - k) = Rest((m - k) + 1) * base + (Rest(m - k) % base)
    BY <2>1, RestValues
  <2>3. DigitOf(NumeralOf(m)[k]) = Rest(m - k) % base
    BY FigureValues
  <2>. QED  BY <2>1, <2>2, <2>3
<1>2. F(g)
  <2>1. \A k \in 1 .. m : k - 1 \in 0 .. m /\ g[k-1] = Rest(m - (k - 1))
    OBVIOUS
  <2>2. \A k \in 0 .. m : k = 0 \/ k \in 1 .. m
    OBVIOUS
  <2>3. m - 0 = m
    OBVIOUS
  <2>4. \A k \in 0 .. m : Rest(m - k) = IF k = 0 THEN 0
                                       ELSE g[k-1] * base + DigitOf(NumeralOf(m)[k])
    BY <1>1, <2>1, <2>2, <2>3
  <2>. QED  BY <2>4
<1>3. F(n)
  <2>. HIDE DEF F, g
  <2>. QED  BY <1>2
<1>. HIDE DEF n
<1>4. n[0] = 0 /\ \A k \in 1 .. m : n[k] = n[k-1] * base + DigitOf(NumeralOf(m)[k])
  BY <1>3
<1>. DEFINE A == {k \in Nat : k <= m => n[k] = Rest(m - k)}
<1>5. 0 \in A
  <2>1. m - 0 = m
    OBVIOUS
  <2>. QED  BY <1>4, <2>1
<1>6. ASSUME NEW k \in Nat, k \in A PROVE k + 1 \in A
  <2>. SUFFICES ASSUME k + 1 <= m PROVE n[k + 1] = Rest(m - (k + 1))
    OBVIOUS
  <2>1. k + 1 \in 1 .. m /\ (k + 1) - 1 = k /\ k <= m
    OBVIOUS
  <2>2. n[k] = Rest(m - k)
    BY <1>6, <2>1
  <2>3. n[k + 1] = n[k] * base + DigitOf(NumeralOf(m)[k + 1])
    BY <1>4, <2>1
  <2>4. Rest(m - (k + 1)) = Rest(m - k) * base + DigitOf(NumeralOf(m)[k + 1])
    BY <1>1, <2>1
  <2>. QED  BY <2>2, <2>3, <2>4
<1>7. Nat \subseteq A
  <2>. HIDE DEF A
  <2>. QED  BY <1>5, <1>6, SetInduction
<1>8. n[m] = Rest(0)
  <2>1. m \in A /\ m - m = 0
    BY <1>7
  <2>. QED  BY <2>1
<1>9. Number(NumeralOf(m)) = n[m]
  <2>1. Len(NumeralOf(m)) = m
    BY DEF NumeralOf
  <2>. QED  BY <2>1 DEF Number, n
<1>. QED  BY <1>8, <1>9, RestValues

(* What the buffer shows after the call: the digits, behind a sign if the  *)
(* int is negative.                                                        *)
LEMMA ShownText ==
  ASSUME TypeOK, NEW m \in 1 .. MaxDigits(base), Numeral(m)
  PROVE  /\ Text = [i \in 1 .. First + m |-> str[i - 1]]
         /\ HasSign(Text) <=> negative
         /\ Figures(Text) = NumeralOf(m)
<1>. DEFINE E(i) == str[i] = NUL /\ \A j \in 0 .. i - 1 : str[j] # NUL
            end == CHOOSE i \in Cells : E(i)
            text == [i \in 1 .. First + m |-> str[i - 1]]
<1>1. /\ First \in {0, 1} /\ MaxDigits(base) \in Nat /\ m \in Nat /\ m >= 1
      /\ negative \in BOOLEAN
  BY CallTypes
<1>2. m \in 0 .. MaxDigits(base) /\ Written(m)
  BY <1>1 DEF Numeral
<1>3. First + m \in Cells /\ str[First + m] = NUL
  BY <1>2, DigitCells
<1>4. negative => First = 1 /\ str[0] = Minus
  BY DEF First, Numeral
<1>5. ~ negative => First = 0
  BY DEF First
<1>6. Minus # NUL
  BY DEF Minus, NUL
<1>7. \A i \in First .. First + m - 1 : str[i] \in Characters /\ str[i] # NUL /\ str[i] # Minus
  BY <1>2, DigitCells
<1>8. \A i \in 0 .. First + m - 1 : str[i] # NUL
  <2>1. \A i \in 0 .. First + m - 1 : i \in First .. First + m - 1 \/ (First = 1 /\ i = 0)
    BY <1>1
  <2>2. First = 1 => negative
    BY <1>5
  <2>. QED  BY <1>4, <1>6, <1>7, <2>1, <2>2
<1>9. E(First + m)
  BY <1>1, <1>3, <1>8
<1>10. ASSUME NEW i \in Cells, E(i) PROVE i = First + m
  <2>1. i \in Int /\ i >= 0
    BY ItoaAssumption DEF Cells
  <2>2. ~ (First + m \in 0 .. i - 1)
    BY <1>3, <1>10
  <2>3. ~ (i \in 0 .. First + m - 1)
    BY <1>8, <1>10
  <2>. QED  BY <1>1, <2>1, <2>2, <2>3
<1>11. end = First + m
  <2>. HIDE DEF E
  <2>1. end \in Cells /\ E(end)
    BY <1>3, <1>9
  <2>. HIDE DEF end
  <2>. QED  BY <2>1, <1>10
<1>12. Text = [i \in 1 .. end |-> str[i - 1]]
  BY DEF Text
<1>. HIDE DEF end
<1>13. Text = text
  BY <1>11, <1>12
<1>14. text \in Seq(Int) /\ Len(text) = First + m /\ Head(text) = str[0]
  <2>1. \A i \in 1 .. First + m : str[i - 1] \in Int
    <3>1. \A i \in 1 .. First + m : i - 1 \in First .. First + m - 1 \/ (First = 1 /\ i - 1 = 0)
      BY <1>1
    <3>2. Characters \subseteq Int /\ Minus \in Int
      BY DEF Characters, Minus, Zero, LetterA
    <3>3. First = 1 => negative
      BY <1>5
    <3>. QED  BY <1>4, <1>7, <3>1, <3>2, <3>3
  <2>2. First + m \in Nat
    BY <1>1
  <2>3. text \in Seq(Int) /\ Len(text) = First + m
    BY <2>1, <2>2
  <2>4. 1 \in 1 .. First + m /\ 1 - 1 = 0
    BY <1>1
  <2>5. text[1] = str[0]
    BY <2>4
  <2>. HIDE DEF text
  <2>. QED  BY <2>3, <2>5, <1>1
<1>15. HasSign(text) <=> negative
  <2>1. HasSign(text) <=> str[0] = Minus
    BY <1>14 DEF HasSign
  <2>2. ~ negative => str[0] # Minus
    BY <1>1, <1>5, <1>7
  <2>. QED  BY <1>4, <2>1, <2>2
<1>16. Figures(text) = NumeralOf(m)
  <2>1. \A k \in 1 .. m : str[First + k - 1] = NumeralOf(m)[k]
    <3>. SUFFICES ASSUME NEW k \in 1 .. m PROVE str[First + k - 1] = NumeralOf(m)[k]
      OBVIOUS
    <3>1. k - 1 \in 0 .. m - 1 /\ m - 1 - (k - 1) = m - k /\ First + (k - 1) = First + k - 1
      BY <1>1
    <3>2. str[First + (k - 1)] = Character(Rest(m - 1 - (k - 1)) % base)
      BY <1>2, <3>1 DEF Written
    <3>. QED  BY <3>1, <3>2 DEF NumeralOf
  <2>2. NumeralOf(m) \in Seq(Int) /\ Len(NumeralOf(m)) = m /\ DOMAIN NumeralOf(m) = 1 .. m
    <3>1. \A k \in 1 .. m : NumeralOf(m)[k] \in Int
      <4>1. \A k \in 1 .. m : NumeralOf(m)[k] \in Characters
        BY <1>1, FigureValues
      <4>. QED  BY <4>1 DEF Characters, Zero, LetterA
    <3>. QED  BY <1>1, <3>1 DEF NumeralOf
  <2>3. CASE negative
    <3>1. Figures(text) = Tail(text) /\ First = 1
      BY <2>3, <1>4, <1>15 DEF Figures
    <3>2. Tail(text) \in Seq(Int) /\ Len(Tail(text)) = m
          /\ \A k \in 1 .. m : Tail(text)[k] = text[k + 1]
      <4>. HIDE DEF text
      <4>. QED  BY <3>1, <1>1, <1>14
    <3>3. \A k \in 1 .. m : text[k + 1] = str[First + k - 1]
      BY <3>1, <1>1
    <3>4. \A k \in 1 .. m : Tail(text)[k] = NumeralOf(m)[k]
      BY <2>1, <3>2, <3>3
    <3>. HIDE DEF text
    <3>. QED  BY <2>2, <3>1, <3>2, <3>4
  <2>4. CASE ~ negative
    <3>1. Figures(text) = text /\ First = 0
      BY <2>4, <1>5, <1>15 DEF Figures
    <3>2. \A k \in 1 .. m : text[k] = str[First + k - 1]
      BY <3>1, <1>1
    <3>3. \A k \in 1 .. m : text[k] = NumeralOf(m)[k]
      BY <2>1, <3>2
    <3>4. Len(text) = m
      BY <1>1, <1>14, <3>1
    <3>. HIDE DEF text
    <3>. QED  BY <2>2, <3>1, <3>3, <3>4, <1>14
  <2>. QED  BY <2>3, <2>4
<1>. QED  BY <1>13, <1>15, <1>16

(* The numeral reads back as the argument, truncated to an int by the      *)
(* call, whatever the buffer held before.                                  *)
THEOREM ItoaReadsBack == Spec => []ReadsBack
<1>1. IInv => ReadsBack
  <2>. SUFFICES ASSUME IInv, pc = "done"
                PROVE  LET n == Reading(Text)
                       IN  /\ \A i \in 1 .. Len(Figures(Text)) :
                                DigitOf(Figures(Text)[i]) \in 0 .. base - 1
                           /\ Head(Figures(Text)) = Zero => Text = <<Zero>>
                           /\ n \in -(Modulus \div 2) .. Modulus \div 2 - 1
                           /\ (n - argument) % Modulus = 0
    BY DEF ReadsBack
  <2>1. TypeOK /\ argument \in Nat /\ MaxDigits(base) \in Nat
        /\ base \in Nat /\ base >= 2 /\ (negative => Magnitude # 0)
    BY CallTypes DEF IInv
  <2>2. PICK m \in 1 .. MaxDigits(base) : Numeral(m)
    BY DEF IInv
  <2>3. m \in Nat /\ m - 1 \in Nat /\ m >= 1 /\ Rest(m) = 0 /\ (m # 1 => Rest(m - 1) # 0)
    BY <2>1, <2>2 DEF Numeral
  <2>4. /\ Text = [i \in 1 .. First + m |-> str[i - 1]]
        /\ HasSign(Text) <=> negative
        /\ Figures(Text) = NumeralOf(m)
    BY <2>1, <2>2, ShownText
  <2>5. Len(NumeralOf(m)) = m /\ Head(NumeralOf(m)) = NumeralOf(m)[1]
    BY <2>3 DEF NumeralOf
  <2>6. \A i \in 1 .. Len(Figures(Text)) : DigitOf(Figures(Text)[i]) \in 0 .. base - 1
    <3>1. \A i \in 1 .. m : DigitOf(NumeralOf(m)[i]) \in 0 .. base - 1
      BY <2>1, <2>3, FigureValues
    <3>. QED  BY <3>1, <2>4, <2>5
  <2>7. Head(Figures(Text)) = Zero => Text = <<Zero>>
    <3>. SUFFICES ASSUME NumeralOf(m)[1] = Zero PROVE Text = <<Zero>>
      BY <2>4, <2>5
    <3>1. (Rest(m - 1) % base) = 0
      BY <2>1, <2>3, FigureValues
    <3>2. Rest(m - 1) = Rest((m - 1) + 1) * base + (Rest(m - 1) % base)
      BY <2>1, <2>3, RestValues
    <3>3. Rest(m - 1) = 0
      BY <2>1, <2>3, <3>1, <3>2
    <3>4. m = 1 /\ Magnitude = 0
      BY <2>1, <2>3, <3>3, RestValues
    <3>5. ~ negative
      BY <2>1, <3>4
    <3>6. Figures(Text) = Text
      BY <2>4, <3>5 DEF Figures
    <3>7. NumeralOf(m) = [k \in 1 .. 1 |-> Zero]
      BY <3>4 DEF NumeralOf
    <3>8. [k \in 1 .. 1 |-> Zero] = <<Zero>>
      OBVIOUS
    <3>9. Text = NumeralOf(m)
      BY <2>4, <3>6
    <3>. QED  BY <3>7, <3>8, <3>9
  <2>8. Reading(Text) = ToInt(argument)
    <3>1. Number(Figures(Text)) = Magnitude
      BY <2>1, <2>3, <2>4, NumberOfNumeral
    <3>2. ToInt(argument) \in Int
      BY <2>1, TruncationToInt, ModulusIsEven
    <3>. QED  BY <2>4, <3>1, <3>2 DEF Reading, Magnitude
  <2>9. /\ ToInt(argument) \in -(Modulus \div 2) .. Modulus \div 2 - 1
        /\ (ToInt(argument) - argument) % Modulus = 0
    BY <2>1, TruncationToInt DEF Half
  <2>. QED  BY <2>6, <2>7, <2>8, <2>9
<1>. QED  BY <1>1, Invariance, PTL
=============================================================================
