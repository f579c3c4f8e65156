-------------------------- MODULE PageTablesProofs ---------------------------
(***************************************************************************)
(* Proofs about PageTables, for every number of entries in a table, size   *)
(* of a block and of the pool, and for every layout: what early_mmu_init   *)
(* maps, and when its pool is too small.                                   *)
(***************************************************************************)
EXTENDS PageTables, FiniteSetTheorems, SequenceTheorems, TLAPS

(* The layout that Init chooses.                                           *)
Layout ==
  /\ kernel_start \in Addresses /\ kernel_start % BlockSize = 0
  /\ kernel_size \in 1 .. RegionSize - (kernel_start % RegionSize)
  /\ devices \in Seq(Addresses) /\ Len(devices) <= MaxDevices
  /\ KernelBlocks \cap DeviceBlocks = {}

Pools == [1 .. PoolTables -> [Entries -> Descriptors]]
Typed ==
  /\ tables \in Pools
  /\ next \in 0 .. page_table_end
  /\ pc \in {"kernel", "blocks", "devices", "on", "overrun"}

(* What has been mapped so far.                                            *)
FirstBlocks(k) == {kernel_start + j * BlockSize : j \in 0 .. k - 1}
FirstDevices(k) == {BlockOf(devices[d]) : d \in 1 .. k}
KernelDone == FirstBlocks(IF pc = "blocks" THEN i ELSE block_num)
DevicesDone == FirstDevices(IF pc = "blocks" THEN 0 ELSE i)

(* Walk, in any pool; and what it ought to find.                           *)
WalkIn(pool, va) ==
  LET l1 == pool[1][L1_INDEX(va)]
  IN  IF l1.kind = "table" THEN pool[l1.to][L2_INDEX(va)] ELSE l1
Translation(a, K, D) ==
  IF a \in K THEN BLOCK_DESC(a, "normal")
  ELSE IF a \in D THEN BLOCK_DESC(a, "device")
  ELSE Invalid
Translates(pool, K, D) ==
  \A a \in Addresses : WalkIn(pool, a) = Translation(BlockOf(a), K, D)

(* The first n tables are in use: the level-1 table, and for each of the   *)
(* regions R a table of its own.                                           *)
InUse(pool, n, R) ==
  /\ \A e \in R : \E t \in 2 .. n : pool[1][e] = TABLE_DESC(t)
  /\ \A e \in Entries \ R : pool[1][e] = Invalid
  /\ \A e, f \in R : pool[1][e] = pool[1][f] => e = f
  /\ R \subseteq Entries /\ Cardinality(R) = n - 1

RegionsIn(S) == {L1_INDEX(a) : a \in S}
RegionsDone == RegionsIn({kernel_start} \cup DevicesDone)
FirstFree(n) == IF pc = "blocks" \/ PoolTables = 2 THEN NULL ELSE n + 1

Mapping ==
  \E n \in 2 .. PoolTables : InUse(tables, n, RegionsDone) /\ next = FirstFree(n)

Progress ==
  /\ pc = "kernel" => i = 0 /\ next = NULL
  /\ pc = "blocks" => i \in 0 .. block_num
  /\ pc \in {"devices", "on", "overrun"} => i \in 0 .. Len(devices)
  /\ pc = "on" => i = Len(devices)
  /\ pc = "overrun" =>
       /\ i < Len(devices) /\ ~ InPool(next)
       /\ tables[1][L1_INDEX(devices[i + 1])].kind = "invalid"

MapInv ==
  /\ Layout /\ Typed /\ Progress
  /\ pc # "kernel" => Mapping /\ Translates(tables, KernelDone, DevicesDone)

-----------------------------------------------------------------------------
(* Division.                                                               *)

LEMMA QuotientAndRest ==
  ASSUME NEW n \in Nat, NEW d \in Nat \ {0}
  PROVE  /\ n \div d \in Nat
         /\ n % d \in 0 .. d - 1
         /\ n = (n \div d) * d + (n % d)
<1>1. n \div d \in Nat
  OBVIOUS
<1>2. n % d \in 0 .. d - 1
  OBVIOUS
<1>3. n = (n \div d) * d + (n % d)
  OBVIOUS
<1>. QED  BY <1>1, <1>2, <1>3

LEMMA OnlyQuotientAndRest ==
  ASSUME NEW q \in Nat, NEW r \in Nat, NEW d \in Nat \ {0}, r < d
  PROVE  (q * d + r) \div d = q /\ (q * d + r) % d = r
<1>. DEFINE n == q * d + r
<1>1. n \in Nat /\ n = q * d + r
  OBVIOUS
<1>. HIDE DEF n
<1>2. n \div d = q /\ n % d = r
  BY <1>1
<1>. QED  BY <1>2 DEF n

LEMMA QuotientBelow ==
  ASSUME NEW n \in Nat, NEW q \in Nat, NEW d \in Nat \ {0}, n < q * d
  PROVE  n \div d <= q - 1
OBVIOUS

LEMMA ProductPositive ==
  ASSUME NEW m \in Nat \ {0}, NEW n \in Nat \ {0}
  PROVE  m * n \in Nat \ {0}
OBVIOUS

LEMMA CancelFactor ==
  ASSUME NEW m \in Nat, NEW n \in Nat, NEW d \in Nat \ {0}, m * d = n * d
  PROVE  m = n
OBVIOUS

(* Digits: what lies below a digit's weight adds up to less than the next. *)
LEMMA BelowNextDigit ==
  ASSUME NEW m \in Nat \ {0}, NEW n \in Nat \ {0}, NEW f \in 0 .. m - 1, NEW r \in 0 .. n - 1
  PROVE  f * n + r \in Nat /\ f * n + r < m * n
<1>1. f * n <= (m - 1) * n
  OBVIOUS
<1>2. (m - 1) * n = m * n - n
  OBVIOUS
<1>3. f * n \in Nat /\ m * n \in Nat
  OBVIOUS
<1>. QED  BY <1>1, <1>2, <1>3

LEMMA RegroupDigits ==
  ASSUME NEW e \in Nat, NEW m \in Nat, NEW f \in Nat, NEW n \in Nat, NEW r \in Nat
  PROVE  (e * m + f) * n + r = e * (m * n) + (f * n + r)
OBVIOUS

LEMMA SmallRest ==
  ASSUME NEW n \in Nat, NEW d \in Nat \ {0}, n <= d - 1
  PROVE  n % d = n
OBVIOUS

-----------------------------------------------------------------------------
(* Addresses: region, block, offset.                                       *)

LEMMA SizesArePositive ==
  /\ PT_ENTRIES \in Nat \ {0} /\ BlockSize \in Nat \ {0} /\ RegionSize \in Nat \ {0}
  /\ PT_ENTRIES * RegionSize \in Nat \ {0}
  /\ PoolTables \in Nat /\ PoolTables >= 2
<1>1. PT_ENTRIES \in Nat \ {0} /\ BlockSize \in Nat \ {0}
  BY LayoutAssumption
<1>2. RegionSize \in Nat \ {0}
  BY <1>1, ProductPositive, Zenon DEF RegionSize
<1>3. PT_ENTRIES * RegionSize \in Nat \ {0}
  BY <1>1, <1>2, ProductPositive, Zenon
<1>4. PoolTables \in Nat /\ PoolTables >= 2
  BY LayoutAssumption
<1>. QED  BY <1>1, <1>2, <1>3, <1>4

Block(a) == a \div BlockSize

LEMMA AddressParts ==
  ASSUME NEW a \in Addresses
  PROVE  /\ a \in Nat /\ Block(a) \in Nat
         /\ L1_INDEX(a) \in Entries /\ L2_INDEX(a) \in Entries
         /\ L1_INDEX(a) = a \div RegionSize
         /\ Block(a) = L1_INDEX(a) * PT_ENTRIES + L2_INDEX(a)
         /\ BlockOf(a) = Block(a) * BlockSize
         /\ BlockOf(a) \in Addresses
<1>. DEFINE q == a \div BlockSize
            r == a % BlockSize
            e == q \div PT_ENTRIES
            f == q % PT_ENTRIES
<1>1. a \in Nat /\ a < PT_ENTRIES * RegionSize
  BY SizesArePositive DEF Addresses
<1>2. q \in Nat /\ r \in 0 .. BlockSize - 1 /\ a = q * BlockSize + r
  BY <1>1, SizesArePositive, QuotientAndRest, Zenon
<1>3. e \in Nat /\ f \in 0 .. PT_ENTRIES - 1 /\ q = e * PT_ENTRIES + f
  <2>. HIDE DEF q
  <2>. QED  BY <1>2, SizesArePositive, QuotientAndRest, Zenon
<1>4. a \div RegionSize \in Nat /\ a \div RegionSize <= PT_ENTRIES - 1
  <2>1. a \div RegionSize \in Nat
    BY <1>1, SizesArePositive, QuotientAndRest, Zenon
  <2>2. PT_ENTRIES \in Nat
    BY SizesArePositive
  <2>3. a \div RegionSize <= PT_ENTRIES - 1
    BY <1>1, <2>2, SizesArePositive, QuotientBelow, Zenon
  <2>. QED  BY <2>1, <2>3
<1>5. L1_INDEX(a) = a \div RegionSize
  BY <1>4, SizesArePositive, SmallRest, Zenon DEF L1_INDEX
<1>6. a \div RegionSize = e
  <2>. HIDE DEF q, r, e, f
  <2>1. e \in Nat /\ f \in Nat /\ r \in Nat /\ PT_ENTRIES \in Nat /\ BlockSize \in Nat
    BY <1>2, <1>3, SizesArePositive
  <2>2. a = e * RegionSize + (f * BlockSize + r)
    <3>1. a = (e * PT_ENTRIES + f) * BlockSize + r
      BY <1>2, <1>3, Zenon
    <3>2. (e * PT_ENTRIES + f) * BlockSize + r
            = e * (PT_ENTRIES * BlockSize) + (f * BlockSize + r)
      BY <2>1, RegroupDigits
    <3>. QED  BY <3>1, <3>2, Zenon DEF RegionSize
  <2>3. f * BlockSize + r \in Nat /\ f * BlockSize + r < RegionSize
    BY <1>2, <1>3, SizesArePositive, BelowNextDigit, Zenon DEF RegionSize
  <2>. QED  BY <1>3, <2>2, <2>3, SizesArePositive, OnlyQuotientAndRest, Zenon
<1>7. L2_INDEX(a) = f /\ Block(a) = q
  BY DEF L2_INDEX, Block
<1>8. L1_INDEX(a) \in Entries /\ L2_INDEX(a) \in Entries
  <2>. HIDE DEF q, r, e, f
  <2>. QED  BY <1>3, <1>4, <1>5, <1>7 DEF Entries
<1>9. BlockOf(a) = q * BlockSize /\ BlockOf(a) \in Addresses
  <2>. HIDE DEF q
  <2>1. q * BlockSize \in Nat
    BY <1>2, SizesArePositive
  <2>2. BlockOf(a) = q * BlockSize
    BY <1>2, <2>1, SizesArePositive DEF BlockOf
  <2>3. BlockOf(a) <= a
    BY <1>1, <1>2, <2>1, <2>2, SizesArePositive
  <2>. QED  BY <1>1, <2>1, <2>2, <2>3, SizesArePositive DEF Addresses
<1>. QED
  <2>. HIDE DEF q, r, e, f
  <2>. QED  BY <1>1, <1>2, <1>3, <1>5, <1>6, <1>7, <1>8, <1>9, Zenon

(* A block is known by its region and its place there.                     *)
LEMMA SameBlock ==
  ASSUME NEW a \in Addresses, NEW b \in Addresses
  PROVE  BlockOf(a) = BlockOf(b)
           <=> L1_INDEX(a) = L1_INDEX(b) /\ L2_INDEX(a) = L2_INDEX(b)
<1>1. ASSUME BlockOf(a) = BlockOf(b)
      PROVE  L1_INDEX(a) = L1_INDEX(b) /\ L2_INDEX(a) = L2_INDEX(b)
  <2>1. Block(a) = Block(b)
    BY <1>1, AddressParts, SizesArePositive, CancelFactor, Zenon
  <2>2. L2_INDEX(a) = L2_INDEX(b)
    BY <2>1 DEF L2_INDEX, Block
  <2>3. L1_INDEX(a) * PT_ENTRIES = L1_INDEX(b) * PT_ENTRIES
    <3>1. /\ Block(a) = L1_INDEX(a) * PT_ENTRIES + L2_INDEX(a)
          /\ Block(b) = L1_INDEX(b) * PT_ENTRIES + L2_INDEX(b)
      BY AddressParts, Zenon
    <3>2. /\ L1_INDEX(a) \in Nat /\ L1_INDEX(b) \in Nat
          /\ L2_INDEX(a) \in Nat /\ PT_ENTRIES \in Nat
      BY AddressParts, SizesArePositive DEF Entries
    <3>3. L1_INDEX(a) * PT_ENTRIES \in Nat /\ L1_INDEX(b) * PT_ENTRIES \in Nat
      BY <3>2
    <3>4. \A x, y, z \in Nat : x + z = y + z => x = y
      OBVIOUS
    <3>5. L1_INDEX(a) * PT_ENTRIES + L2_INDEX(a)
            = L1_INDEX(b) * PT_ENTRIES + L2_INDEX(a)
      BY <2>1, <2>2, <3>1, Zenon
    <3>. QED  BY <3>2, <3>3, <3>4, <3>5, Zenon
  <2>4. L1_INDEX(a) \in Nat /\ L1_INDEX(b) \in Nat
    BY AddressParts DEF Entries
  <2>. QED  BY <2>2, <2>3, <2>4, SizesArePositive, CancelFactor, Zenon
<1>2. ASSUME L1_INDEX(a) = L1_INDEX(b), L2_INDEX(a) = L2_INDEX(b)
      PROVE  BlockOf(a) = BlockOf(b)
  BY <1>2, AddressParts, Zenon
<1>. QED  BY <1>1, <1>2

LEMMA BlockOfBlock ==
  ASSUME NEW a \in Addresses
  PROVE  /\ BlockOf(BlockOf(a)) = BlockOf(a)
         /\ L1_INDEX(BlockOf(a)) = L1_INDEX(a)
<1>1. BlockOf(a) \in Addresses /\ BlockOf(a) = Block(a) * BlockSize /\ Block(a) \in Nat
  BY AddressParts
<1>2. (Block(a) * BlockSize + 0) % BlockSize = 0
  BY <1>1, SizesArePositive, OnlyQuotientAndRest
<1>3. BlockOf(a) \in Nat
  BY <1>1, AddressParts
<1>4. BlockOf(a) % BlockSize = 0
  BY <1>1, <1>2, <1>3
<1>5. BlockOf(BlockOf(a)) = BlockOf(a)
  BY <1>3, <1>4 DEF BlockOf
<1>. QED  BY <1>1, <1>5, SameBlock, Zenon

(* The kernel's blocks are blocks of one region.                           *)
LEMMA KernelInItsRegion ==
  ASSUME Layout
  PROVE  /\ block_num \in Nat \ {0}
         /\ \A j \in 0 .. block_num - 1 :
              /\ kernel_start + j * BlockSize \in Addresses
              /\ BlockOf(kernel_start + j * BlockSize) = kernel_start + j * BlockSize
              /\ L1_INDEX(kernel_start + j * BlockSize) = L1_INDEX(kernel_start)
<1>. DEFINE e == kernel_start \div RegionSize
            o == kernel_start % RegionSize
            q == kernel_start \div BlockSize
<1>1. kernel_start \in Nat /\ kernel_start \in Addresses
  BY AddressParts DEF Layout
<1>2. e \in Nat /\ o \in 0 .. RegionSize - 1 /\ kernel_start = e * RegionSize + o
  BY <1>1, SizesArePositive, QuotientAndRest, Zenon
<1>3. L1_INDEX(kernel_start) = e /\ e <= PT_ENTRIES - 1
  <2>1. L1_INDEX(kernel_start) = e /\ L1_INDEX(kernel_start) \in Entries
    BY <1>1, AddressParts, Zenon
  <2>. QED  BY <2>1 DEF Entries
<1>4. kernel_size \in Nat /\ kernel_size >= 1 /\ o + kernel_size <= RegionSize
  BY <1>2, SizesArePositive DEF Layout
<1>5. q \in Nat /\ kernel_start = q * BlockSize
  <2>1. q \in Nat /\ kernel_start = q * BlockSize + (kernel_start % BlockSize)
    BY <1>1, SizesArePositive, QuotientAndRest, Zenon
  <2>2. kernel_start = q * BlockSize + 0
    BY <2>1, Zenon DEF Layout
  <2>. HIDE DEF q
  <2>3. q \in Nat
    BY <2>1
  <2>4. q * BlockSize \in Nat
    BY <2>3, SizesArePositive
  <2>. QED  BY <2>3, <2>2, <2>4
<1>6. block_num \in Nat /\ block_num * BlockSize <= kernel_size + BlockSize - 1
  <2>. DEFINE n == kernel_size + BlockSize - 1
  <2>1. n \in Nat
    BY <1>4, SizesArePositive
  <2>2. block_num = n \div BlockSize
    BY DEF block_num
  <2>. HIDE DEF n
  <2>3. /\ n \div BlockSize \in Nat /\ n % BlockSize \in 0 .. BlockSize - 1
        /\ n = (n \div BlockSize) * BlockSize + (n % BlockSize)
    BY <2>1, SizesArePositive, QuotientAndRest, Zenon
  <2>4. (n \div BlockSize) * BlockSize \in Nat
    BY <2>3, SizesArePositive
  <2>5. (n \div BlockSize) * BlockSize <= n
    BY <2>1, <2>3, <2>4, SizesArePositive
  <2>. QED  BY <2>2, <2>3, <2>5 DEF n
<1>7. block_num # 0
  <2>1. SUFFICES ASSUME block_num = 0 PROVE FALSE
    OBVIOUS
  <2>. DEFINE n == kernel_size + BlockSize - 1
  <2>2. n \in Nat /\ n >= BlockSize /\ n \div BlockSize = 0
    BY <1>4, <2>1, SizesArePositive DEF block_num
  <2>. HIDE DEF n
  <2>3. /\ n % BlockSize \in 0 .. BlockSize - 1
        /\ n = (n \div BlockSize) * BlockSize + (n % BlockSize)
    BY <2>2, SizesArePositive, QuotientAndRest, Zenon
  <2>. QED  BY <2>2, <2>3, SizesArePositive
<1>. HIDE DEF e, o, q
<1>8. ASSUME NEW j \in 0 .. block_num - 1
      PROVE  /\ kernel_start + j * BlockSize \in Addresses
             /\ BlockOf(kernel_start + j * BlockSize) = kernel_start + j * BlockSize
             /\ L1_INDEX(kernel_start + j * BlockSize) = L1_INDEX(kernel_start)
  <2>. DEFINE b == kernel_start + j * BlockSize
              d == o + j * BlockSize
  <2>1. j \in Nat /\ j + 1 <= block_num /\ j * BlockSize \in Nat
    BY <1>6, SizesArePositive
  <2>2. (j + 1) * BlockSize <= block_num * BlockSize
    BY <1>6, <2>1, SizesArePositive
  <2>3. (j + 1) * BlockSize = j * BlockSize + BlockSize
    BY <2>1, SizesArePositive
  <2>4. j * BlockSize <= kernel_size - 1
    <3>1. block_num * BlockSize \in Nat
      BY <1>6, SizesArePositive
    <3>. QED  BY <1>4, <1>6, <2>1, <2>2, <2>3, <3>1, SizesArePositive
  <2>5. d \in Nat /\ d < RegionSize
    BY <1>2, <1>4, <2>1, <2>4, SizesArePositive
  <2>6. b \in Nat /\ b = e * RegionSize + d
    <3>1. e * RegionSize \in Nat
      BY <1>2, SizesArePositive
    <3>. QED  BY <1>1, <1>2, <2>1, <3>1
  <2>. HIDE DEF b, d
  <2>7. b \div RegionSize = e
    BY <1>2, <2>5, <2>6, SizesArePositive, OnlyQuotientAndRest, Zenon
  <2>8. b \in Addresses
    <3>1. e \in 0 .. PT_ENTRIES - 1 /\ d \in 0 .. RegionSize - 1
      BY <1>2, <1>3, <2>5, SizesArePositive
    <3>2. e * RegionSize + d < PT_ENTRIES * RegionSize
      BY <3>1, SizesArePositive, BelowNextDigit, Zenon
    <3>. QED  BY <2>6, <3>2, SizesArePositive DEF Addresses
  <2>9. L1_INDEX(b) = L1_INDEX(kernel_start)
    BY <1>3, <2>7, <2>8, AddressParts, Zenon
  <2>10. b = (q + j) * BlockSize + 0 /\ q + j \in Nat
    <3>1. (q + j) * BlockSize = q * BlockSize + j * BlockSize
      BY <1>5, <2>1, SizesArePositive
    <3>2. (q + j) * BlockSize \in Nat /\ q + j \in Nat
      BY <1>5, <2>1, SizesArePositive
    <3>. QED  BY <1>5, <3>1, <3>2 DEF b
  <2>11. b % BlockSize = 0
    <3>1. 0 \in Nat /\ 0 < BlockSize
      BY SizesArePositive
    <3>. QED  BY <2>10, <3>1, SizesArePositive, OnlyQuotientAndRest, Zenon
  <2>12. BlockOf(b) = b
    BY <2>6, <2>11 DEF BlockOf
  <2>. QED  BY <2>8, <2>9, <2>12 DEF b
<1>. QED  BY <1>6, <1>7, <1>8

-----------------------------------------------------------------------------
(* What early_mmu_init does to a pool.                                     *)

LEMMA DescriptorTypes ==
  /\ Invalid \in Descriptors /\ Garbage \in Descriptors
  /\ \A t \in 1 .. PoolTables : TABLE_DESC(t) \in Descriptors
  /\ \A pa \in Addresses : \A type \in {"normal", "device"} :
       BLOCK_DESC(pa, type) \in Descriptors
<1>1. Invalid \in Descriptors /\ Garbage \in Descriptors
  BY SizesArePositive DEF Invalid, Garbage, Descriptors
<1>2. \A t \in 1 .. PoolTables : TABLE_DESC(t) \in Descriptors
  BY SizesArePositive DEF TABLE_DESC, Descriptors
<1>3. ASSUME NEW pa \in Addresses, NEW type \in {"normal", "device"}
      PROVE  BLOCK_DESC(pa, type) \in Descriptors
  <2>1. BlockOf(pa) \in Addresses
    BY AddressParts
  <2>. QED  BY <2>1 DEF BLOCK_DESC, Descriptors
<1>. QED  BY <1>1, <1>2, <1>3

(* init_l1_table leaves a pool that translates nothing.                    *)
LEMMA FirstTable ==
  ASSUME NEW pool \in Pools
  PROVE  /\ init_l1_table(pool) \in Pools
         /\ InUse(init_l1_table(pool), 1, {})
         /\ Translates(init_l1_table(pool), {}, {})
<1>. DEFINE new == init_l1_table(pool)
<1>1. 1 \in 1 .. PoolTables
  BY SizesArePositive
<1>2. memset(pool[1], PT_ENTRIES) = [e \in Entries |-> Invalid]
  BY SizesArePositive DEF memset, Entries
<1>3. [e \in Entries |-> Invalid] \in [Entries -> Descriptors]
  BY DescriptorTypes
<1>4. new \in Pools /\ new[1] = [e \in Entries |-> Invalid]
  BY <1>1, <1>2, <1>3 DEF init_l1_table, Pools
<1>. HIDE DEF new
<1>5. InUse(new, 1, {})
  BY <1>4, FS_EmptySet DEF InUse
<1>6. Translates(new, {}, {})
  <2>. SUFFICES ASSUME NEW a \in Addresses
                PROVE  WalkIn(new, a) = Invalid
    BY DEF Translates, Translation
  <2>1. new[1][L1_INDEX(a)] = Invalid
    BY <1>4, AddressParts
  <2>. QED  BY <2>1 DEF WalkIn, Invalid
<1>. QED  BY <1>4, <1>5, <1>6 DEF new

(* init_l2_table gives a region its own, empty table: nothing translates   *)
(* differently.                                                            *)
LEMMA TableTaken ==
  ASSUME NEW pool \in Pools, NEW n \in 1 .. PoolTables - 1, NEW R, InUse(pool, n, R),
         NEW e \in Entries \ R, NEW K, NEW D, Translates(pool, K, D)
  PROVE  /\ init_l2_table(pool, e, n + 1) \in Pools
         /\ init_l2_table(pool, e, n + 1)[1][e] = TABLE_DESC(n + 1)
         /\ InUse(init_l2_table(pool, e, n + 1), n + 1, R \cup {e})
         /\ Translates(init_l2_table(pool, e, n + 1), K, D)
<1>. DEFINE t == n + 1
            new == init_l2_table(pool, e, t)
<1>1. /\ 1 \in 1 .. PoolTables /\ n \in Nat /\ t \in 2 .. PoolTables
      /\ t \in 1 .. PoolTables /\ t # 1
  BY SizesArePositive
<1>2. memset(pool[t], PT_ENTRIES) = [f \in Entries |-> Invalid]
  BY SizesArePositive DEF memset, Entries
<1>3. [f \in Entries |-> Invalid] \in [Entries -> Descriptors]
  BY DescriptorTypes
<1>4. TABLE_DESC(t) \in Descriptors
  BY <1>1, DescriptorTypes
<1>. HIDE DEF t
<1>5. new = [[pool EXCEPT ![t] = [f \in Entries |-> Invalid]]
               EXCEPT ![1] = [pool[1] EXCEPT ![e] = TABLE_DESC(t)]]
  BY <1>1, <1>2 DEF init_l2_table, Pools
<1>6. /\ new \in Pools
      /\ new[t] = [f \in Entries |-> Invalid]
      /\ new[1] = [pool[1] EXCEPT ![e] = TABLE_DESC(t)]
      /\ \A u \in 1 .. PoolTables \ {1, t} : new[u] = pool[u]
  BY <1>1, <1>3, <1>4, <1>5 DEF Pools
<1>7. pool[1] \in [Entries -> Descriptors]
  BY <1>1 DEF Pools
<1>8. /\ new[1][e] = TABLE_DESC(t)
      /\ \A f \in Entries \ {e} : new[1][f] = pool[1][f]
  BY <1>6, <1>7
<1>. HIDE DEF new
<1>9. \A f \in R : \E u \in 2 .. n : pool[1][f] = TABLE_DESC(u)
  BY DEF InUse
<1>10. InUse(new, t, R \cup {e})
  <2>1. \A f \in R : f \in Entries \ {e}
    BY DEF InUse
  <2>2. ASSUME NEW f \in R \cup {e} PROVE \E u \in 2 .. t : new[1][f] = TABLE_DESC(u)
    <3>1. CASE f = e
      BY <1>1, <1>8, <3>1
    <3>2. CASE f # e
      <4>1. PICK u \in 2 .. n : pool[1][f] = TABLE_DESC(u)
        BY <1>9, <3>2
      <4>2. u \in 2 .. t
        BY <1>1 DEF t
      <4>3. f \in Entries \ {e}
        BY <2>1, <3>2
      <4>. QED  BY <1>8, <4>1, <4>2, <4>3
    <3>. QED  BY <3>1, <3>2
  <2>3. \A f \in Entries \ (R \cup {e}) : new[1][f] = Invalid
    BY <1>8 DEF InUse
  <2>4. \A f \in R : pool[1][f] # TABLE_DESC(t)
    <3>1. \A u \in 2 .. n : u # t
      BY <1>1 DEF t
    <3>2. ASSUME NEW f \in R, pool[1][f] = TABLE_DESC(t) PROVE FALSE
      <4>1. PICK u \in 2 .. n : pool[1][f] = TABLE_DESC(u)
        BY <1>9
      <4>2. u = t
        BY <3>2, <4>1 DEF TABLE_DESC
      <4>. QED  BY <3>1, <4>2
    <3>. QED  BY <3>2
  <2>5. \A f, g \in R \cup {e} : new[1][f] = new[1][g] => f = g
    BY <1>8, <2>1, <2>4 DEF InUse
  <2>6. Cardinality(R \cup {e}) = t - 1
    <3>1. R \subseteq Entries /\ Cardinality(R) = n - 1
      BY DEF InUse
    <3>2. IsFiniteSet(Entries)
      BY SizesArePositive, FS_Interval DEF Entries
    <3>3. IsFiniteSet(R)
      BY <3>1, <3>2, FS_Subset
    <3>4. Cardinality(R \cup {e}) = Cardinality(R) + 1
      BY <3>3, FS_AddElement
    <3>. QED  BY <1>1, <3>1, <3>4 DEF t
  <2>7. R \cup {e} \subseteq Entries
    BY DEF InUse
  <2>. QED  BY <2>2, <2>3, <2>5, <2>6, <2>7 DEF InUse
<1>11. ASSUME NEW a \in Addresses PROVE WalkIn(new, a) = WalkIn(pool, a)
  <2>. DEFINE f == L1_INDEX(a)
              g == L2_INDEX(a)
  <2>1. f \in Entries /\ g \in Entries
    BY AddressParts
  <2>. HIDE DEF f, g
  <2>2. CASE f = e
    <3>1. pool[1][f] = Invalid
      BY <2>2 DEF InUse
    <3>2. WalkIn(pool, a) = Invalid
      BY <3>1 DEF WalkIn, Invalid, f
    <3>3. new[1][f] = TABLE_DESC(t) /\ new[t][g] = Invalid
      BY <1>6, <1>8, <2>1, <2>2
    <3>4. WalkIn(new, a) = Invalid
      BY <3>3 DEF WalkIn, TABLE_DESC, f, g
    <3>. QED  BY <3>2, <3>4
  <2>3. CASE f \in R
    <3>1. PICK u \in 2 .. n : pool[1][f] = TABLE_DESC(u)
      BY <1>9, <2>3
    <3>2. u \in 1 .. PoolTables /\ u # 1 /\ u # t
      BY <1>1, SizesArePositive DEF t
    <3>3. new[1][f] = TABLE_DESC(u) /\ new[u] = pool[u]
      BY <1>6, <1>8, <2>1, <2>3, <3>1, <3>2
    <3>. QED  BY <3>1, <3>3 DEF WalkIn, TABLE_DESC, f, g
  <2>4. CASE f # e /\ f \notin R
    <3>1. pool[1][f] = Invalid /\ new[1][f] = Invalid
      BY <1>8, <2>1, <2>4 DEF InUse
    <3>. QED  BY <3>1 DEF WalkIn, Invalid, f
  <2>. QED  BY <2>2, <2>3, <2>4
<1>12. Translates(new, K, D)
  BY <1>11 DEF Translates
<1>. QED  BY <1>6, <1>8, <1>10, <1>12 DEF new, t

(* init_l2_block maps one block to itself.                                 *)
OneBlockMore(new, pool, n, R, pa, type) ==
  /\ new \in Pools /\ InUse(new, n, R)
  /\ \A a \in Addresses :
       WalkIn(new, a) = IF BlockOf(a) = BlockOf(pa) THEN BLOCK_DESC(pa, type)
                        ELSE WalkIn(pool, a)

LEMMA BlockWritten ==
  ASSUME NEW pool \in Pools, NEW n \in 2 .. PoolTables, NEW R, InUse(pool, n, R),
         NEW pa \in Addresses, NEW t, pool[1][L1_INDEX(pa)] = TABLE_DESC(t),
         NEW type \in {"normal", "device"}
  PROVE  OneBlockMore(init_l2_block(pool, t, pa, type), pool, n, R, pa, type)
<1>. DEFINE e == L1_INDEX(pa)
            new == init_l2_block(pool, t, pa, type)
<1>1. e \in Entries /\ L2_INDEX(pa) \in Entries
  BY AddressParts
<1>2. e \in R
  BY <1>1 DEF InUse, Invalid, TABLE_DESC
<1>3. t \in 2 .. n /\ t \in 1 .. PoolTables /\ t # 1 /\ 1 \in 1 .. PoolTables
  <2>1. PICK u \in 2 .. n : pool[1][e] = TABLE_DESC(u)
    BY <1>2 DEF InUse
  <2>2. u = t
    BY <2>1 DEF TABLE_DESC
  <2>. QED  BY <2>2, SizesArePositive
<1>4. BLOCK_DESC(pa, type) \in Descriptors
  BY DescriptorTypes
<1>5. /\ new \in Pools
      /\ new[t] = [pool[t] EXCEPT ![L2_INDEX(pa)] = BLOCK_DESC(pa, type)]
      /\ \A u \in 1 .. PoolTables \ {t} : new[u] = pool[u]
  BY <1>1, <1>3, <1>4 DEF init_l2_block, Pools
<1>6. pool[t] \in [Entries -> Descriptors]
  BY <1>3 DEF Pools
<1>7. \A f \in Entries :
        new[t][f] = IF f = L2_INDEX(pa) THEN BLOCK_DESC(pa, type) ELSE pool[t][f]
  BY <1>1, <1>5, <1>6
<1>. HIDE DEF new
<1>8. new[1] = pool[1]
  BY <1>3, <1>5
<1>9. InUse(new, n, R)
  BY <1>8 DEF InUse
<1>10. ASSUME NEW a \in Addresses
       PROVE  WalkIn(new, a) = IF BlockOf(a) = BlockOf(pa) THEN BLOCK_DESC(pa, type)
                               ELSE WalkIn(pool, a)
  <2>. DEFINE f == L1_INDEX(a)
              g == L2_INDEX(a)
  <2>1. f \in Entries /\ g \in Entries
    BY AddressParts
  <2>2. BlockOf(a) = BlockOf(pa) <=> f = e /\ g = L2_INDEX(pa)
    BY SameBlock
  <2>. HIDE DEF f, g, e
  <2>3. CASE f = e
    <3>1. pool[1][f] = TABLE_DESC(t) /\ new[1][f] = TABLE_DESC(t)
      BY <1>8, <2>3 DEF e
    <3>2. WalkIn(pool, a) = pool[t][g] /\ WalkIn(new, a) = new[t][g]
      BY <3>1 DEF WalkIn, TABLE_DESC, f, g
    <3>. QED  BY <1>7, <2>1, <2>2, <2>3, <3>2
  <2>4. CASE f # e /\ f \in R
    <3>1. PICK u \in 2 .. n : pool[1][f] = TABLE_DESC(u)
      BY <2>4 DEF InUse
    <3>2. u # t
      <4>1. pool[1][f] # pool[1][e]
        BY <1>2, <2>4 DEF InUse
      <4>2. pool[1][e] = TABLE_DESC(t)
        BY DEF e
      <4>. QED  BY <3>1, <4>1, <4>2
    <3>3. new[u] = pool[u]
      <4>1. u \in 1 .. PoolTables
        BY SizesArePositive
      <4>. QED  BY <1>5, <3>2, <4>1
    <3>4. WalkIn(pool, a) = pool[u][g] /\ WalkIn(new, a) = new[u][g]
      BY <1>8, <3>1 DEF WalkIn, TABLE_DESC, f, g
    <3>. QED  BY <2>2, <2>4, <3>3, <3>4
  <2>5. CASE f \notin R
    <3>1. pool[1][f] = Invalid /\ new[1][f] = Invalid /\ f # e
      BY <1>2, <1>8, <2>1, <2>5 DEF InUse
    <3>2. WalkIn(pool, a) = Invalid /\ WalkIn(new, a) = Invalid
      BY <3>1 DEF WalkIn, Invalid, f
    <3>. QED  BY <2>2, <3>1, <3>2
  <2>. QED  BY <2>3, <2>4, <2>5
<1>. QED  BY <1>5, <1>9, <1>10 DEF new, OneBlockMore

-----------------------------------------------------------------------------
(* Every step keeps the invariant.                                         *)

LEMMA InitMapInv == Init => MapInv
<1>. SUFFICES ASSUME Init PROVE MapInv
  OBVIOUS
<1>1. Layout
  <2>1. PICK n \in 0 .. MaxDevices : devices \in [1 .. n -> Addresses]
    BY DEF Init
  <2>2. devices \in Seq(Addresses) /\ Len(devices) <= MaxDevices
    <3>1. n \in Nat /\ n <= MaxDevices
      BY LayoutAssumption
    <3>2. devices \in Seq(Addresses) /\ Len(devices) = n
      BY <2>1, <3>1
    <3>. QED  BY <3>1, <3>2
  <2>. QED  BY <2>2 DEF Init, Layout
<1>2. Typed
  <2>1. tables \in Pools
    BY DescriptorTypes DEF Init, Pools
  <2>. QED  BY <2>1, SizesArePositive DEF Init, Typed, NULL, page_table_end
<1>. QED  BY <1>1, <1>2 DEF Init, MapInv, Progress

LEMMA DevicesOfLayout ==
  ASSUME Layout
  PROVE  /\ Len(devices) \in Nat
         /\ \A d \in 1 .. Len(devices) : devices[d] \in Addresses
BY DEF Layout

(* The kernel's first block is its start, and its blocks are one region.   *)
LEMMA KernelRegion ==
  ASSUME Layout
  PROVE  /\ kernel_start \in Addresses
         /\ kernel_start \in KernelBlocks
         /\ RegionsIn(KernelBlocks) = {L1_INDEX(kernel_start)}
<1>1. kernel_start \in Addresses /\ kernel_start \in Nat
  BY AddressParts DEF Layout
<1>2. kernel_start \in KernelBlocks
  <2>1. kernel_start = kernel_start + 0 * BlockSize
    BY <1>1, SizesArePositive
  <2>2. 0 \in 0 .. block_num - 1
    BY KernelInItsRegion
  <2>. QED  BY <2>1, <2>2 DEF KernelBlocks
<1>3. \A b \in KernelBlocks : L1_INDEX(b) = L1_INDEX(kernel_start)
  BY KernelInItsRegion DEF KernelBlocks
<1>. QED  BY <1>1, <1>2, <1>3 DEF RegionsIn

LEMMA LayoutKept ==
  ASSUME Layout, UNCHANGED layout
  PROVE  /\ Layout' /\ block_num' = block_num /\ block_num \in Nat
         /\ KernelBlocks' = KernelBlocks /\ DeviceBlocks' = DeviceBlocks
         /\ \A k : /\ FirstBlocks(k)' = FirstBlocks(k)
                  /\ FirstDevices(k)' = FirstDevices(k)
<1>1. UNCHANGED <<kernel_start, kernel_size, devices>>
  BY DEF layout
<1>2. block_num' = block_num
  BY <1>1 DEF block_num
<1>3. KernelBlocks' = KernelBlocks /\ DeviceBlocks' = DeviceBlocks
  BY <1>1, <1>2 DEF KernelBlocks, DeviceBlocks
<1>4. Layout'
  BY <1>1, <1>3 DEF Layout
<1>5. block_num \in Nat
  BY KernelInItsRegion
<1>6. ASSUME NEW k
      PROVE  FirstBlocks(k)' = FirstBlocks(k) /\ FirstDevices(k)' = FirstDevices(k)
  BY <1>1 DEF FirstBlocks, FirstDevices
<1>. QED  BY <1>2, <1>3, <1>4, <1>5, <1>6

LEMMA MapKernelStep ==
  ASSUME MapInv, MapKernel
  PROVE  MapInv'
<1>. DEFINE e == L1_INDEX(kernel_start)
            first == init_l1_table(tables)
<1>1. /\ pc = "kernel" /\ pc' = "blocks" /\ i = 0 /\ i' = 0
      /\ next = NULL /\ next' = NULL
      /\ tables' = init_l2_table(first, e, 2)
      /\ UNCHANGED layout
  BY DEF MapKernel, MapInv, Progress
<1>2. tables \in Pools /\ Layout
  BY DEF MapInv, Typed
<1>3. e \in Entries
  BY <1>2, KernelRegion, AddressParts
<1>4. first \in Pools /\ InUse(first, 1, {}) /\ Translates(first, {}, {})
  BY <1>2, FirstTable
<1>. HIDE DEF e, first
<1>5. /\ tables' \in Pools /\ InUse(tables', 2, {e}) /\ Translates(tables', {}, {})
  <2>1. 1 \in 1 .. PoolTables - 1 /\ e \in Entries \ {}
    BY <1>3, SizesArePositive
  <2>2. /\ init_l2_table(first, e, 1 + 1) \in Pools
        /\ InUse(init_l2_table(first, e, 1 + 1), 1 + 1, {} \cup {e})
        /\ Translates(init_l2_table(first, e, 1 + 1), {}, {})
    BY <1>4, <2>1, TableTaken, Zenon
  <2>3. 1 + 1 = 2 /\ {} \cup {e} = {e}
    OBVIOUS
  <2>. QED  BY <1>1, <2>2, <2>3, Zenon
<1>6. KernelDone' = {} /\ DevicesDone' = {}
  BY <1>1 DEF KernelDone, DevicesDone, FirstBlocks, FirstDevices
<1>7. RegionsDone' = {e}
  BY <1>1, <1>6 DEF RegionsDone, RegionsIn, layout, e
<1>8. Mapping'
  <2>1. 2 \in 2 .. PoolTables /\ next' = FirstFree(2)'
    BY <1>1, SizesArePositive DEF FirstFree
  <2>2. InUse(tables', 2, RegionsDone')
    BY <1>5, <1>7
  <2>. QED  BY <2>1, <2>2 DEF Mapping
<1>9. Layout' /\ block_num' \in Nat
  BY <1>1, <1>2, LayoutKept
<1>10. Typed'
  BY <1>1, <1>5, SizesArePositive DEF Typed, NULL, page_table_end
<1>11. Progress'
  BY <1>1, <1>9 DEF Progress
<1>. QED  BY <1>5, <1>6, <1>8, <1>9, <1>10, <1>11 DEF MapInv

LEMMA MapKernelBlockStep ==
  ASSUME MapInv, MapKernelBlock
  PROVE  MapInv'
<1>. DEFINE pa == kernel_start + i * BlockSize
<1>1. /\ pc = "blocks" /\ pc' = "blocks" /\ i < block_num /\ i' = i + 1
      /\ tables' = init_l2_block(tables, 2, pa, "normal")
      /\ UNCHANGED layout /\ next' = next
  BY DEF MapKernelBlock, BlocksLeft
<1>2. tables \in Pools /\ Layout /\ i \in 0 .. block_num
  BY <1>1 DEF MapInv, Typed, Progress
<1>3. /\ block_num \in Nat /\ i \in 0 .. block_num - 1
      /\ i + 1 \in 0 .. block_num
  <2>1. block_num \in Nat
    BY <1>2, KernelInItsRegion
  <2>. QED  BY <1>1, <1>2, <2>1
<1>4. /\ pa \in Addresses /\ BlockOf(pa) = pa
      /\ L1_INDEX(pa) = L1_INDEX(kernel_start)
  BY <1>2, <1>3, KernelInItsRegion, Zenon
<1>. HIDE DEF pa
<1>5. RegionsDone = {L1_INDEX(kernel_start)} /\ DevicesDone = {}
  BY <1>1 DEF RegionsDone, RegionsIn, DevicesDone, FirstDevices
<1>6. RegionsDone' = RegionsDone /\ DevicesDone' = {}
  BY <1>1 DEF RegionsDone, RegionsIn, DevicesDone, FirstDevices, layout
<1>7. PICK n \in 2 .. PoolTables : InUse(tables, n, RegionsDone) /\ next = FirstFree(n)
  BY <1>1 DEF MapInv, Mapping
<1>8. tables[1][L1_INDEX(pa)] = TABLE_DESC(2)
  <2>1. Cardinality({L1_INDEX(kernel_start)}) = 1
    BY FS_Singleton
  <2>2. n = 2
    BY <1>5, <1>7, <2>1, SizesArePositive DEF InUse
  <2>3. \E t \in 2 .. 2 : tables[1][L1_INDEX(pa)] = TABLE_DESC(t)
    BY <1>4, <1>5, <1>7, <2>2 DEF InUse
  <2>. QED  BY <2>3
<1>9. /\ tables' \in Pools /\ InUse(tables', n, RegionsDone)
      /\ \A a \in Addresses :
           WalkIn(tables', a) = IF BlockOf(a) = pa THEN BLOCK_DESC(pa, "normal")
                                ELSE WalkIn(tables, a)
  <2>1. tables \in Pools
    BY <1>2
  <2>2. InUse(tables, n, RegionsDone)
    BY <1>7
  <2>3. pa \in Addresses /\ "normal" \in {"normal", "device"}
    BY <1>4
  <2>4. OneBlockMore(init_l2_block(tables, 2, pa, "normal"), tables, n, RegionsDone, pa,
                     "normal")
    BY <1>8, <2>1, <2>2, <2>3, BlockWritten, Zenon
  <2>5. OneBlockMore(tables', tables, n, RegionsDone, pa, "normal")
    BY <1>1, <2>4, Zenon
  <2>. QED  BY <1>4, <2>5, Zenon DEF OneBlockMore
<1>10. KernelDone' = KernelDone \cup {pa}
  <2>1. KernelDone = FirstBlocks(i) /\ KernelDone' = FirstBlocks(i + 1)
    BY <1>1, <1>2, LayoutKept DEF KernelDone
  <2>2. FirstBlocks(i + 1) = FirstBlocks(i) \cup {pa}
    <3>1. 0 .. (i + 1) - 1 = (0 .. i - 1) \cup {i}
      BY <1>3
    <3>. QED  BY <3>1 DEF FirstBlocks, pa
  <2>. QED  BY <2>1, <2>2
<1>11. Translates(tables', KernelDone', DevicesDone')
  <2>1. ASSUME NEW a \in Addresses
        PROVE  WalkIn(tables', a) = Translation(BlockOf(a), KernelDone \cup {pa}, {})
    <3>1. WalkIn(tables, a) = Translation(BlockOf(a), KernelDone, {})
      BY <1>1, <1>5 DEF MapInv, Translates
    <3>. QED  BY <1>9, <3>1 DEF Translation
  <2>. QED  BY <1>6, <1>10, <2>1 DEF Translates
<1>12. Mapping'
  <2>1. next' = FirstFree(n)'
    BY <1>1, <1>7 DEF FirstFree
  <2>. QED  BY <1>6, <1>9, <2>1 DEF Mapping
<1>13. Typed'
  BY <1>1, <1>9 DEF MapInv, Typed
<1>14. Layout' /\ Progress'
  <2>1. Layout' /\ block_num' = block_num
    BY <1>1, <1>2, LayoutKept
  <2>. QED  BY <1>1, <1>3, <2>1 DEF Progress
<1>. QED  BY <1>11, <1>12, <1>13, <1>14 DEF MapInv

LEMMA KernelMappedStep ==
  ASSUME MapInv, KernelMapped
  PROVE  MapInv'
<1>1. /\ pc = "blocks" /\ pc' = "devices" /\ ~ (i < block_num) /\ i' = 0
      /\ next' = AfterKernel /\ tables' = tables /\ UNCHANGED layout
  BY DEF KernelMapped, BlocksLeft
<1>2. Layout /\ Typed /\ i \in 0 .. block_num
  BY <1>1 DEF MapInv, Progress
<1>3. i = block_num
  BY <1>1, <1>2, LayoutKept
<1>4. KernelDone' = KernelDone
  BY <1>1, <1>2, <1>3, LayoutKept DEF KernelDone
<1>5. DevicesDone' = {} /\ DevicesDone = {}
  BY <1>1 DEF DevicesDone, FirstDevices
<1>6. RegionsDone' = RegionsDone /\ RegionsDone = {L1_INDEX(kernel_start)}
  BY <1>1, <1>5 DEF RegionsDone, RegionsIn, layout
<1>7. PICK n \in 2 .. PoolTables : InUse(tables, n, RegionsDone) /\ next = FirstFree(n)
  BY <1>1 DEF MapInv, Mapping
<1>8. n = 2
  <2>1. Cardinality({L1_INDEX(kernel_start)}) = 1
    BY FS_Singleton
  <2>. QED  BY <1>6, <1>7, <2>1, SizesArePositive DEF InUse
<1>9. next' = FirstFree(2)' /\ next' \in 0 .. page_table_end
  BY <1>1, SizesArePositive DEF AfterKernel, FirstFree, page_table_end, NULL
<1>10. Mapping'
  BY <1>1, <1>6, <1>7, <1>8, <1>9 DEF Mapping
<1>11. Typed'
  BY <1>1, <1>2, <1>9 DEF Typed
<1>12. Layout' /\ Progress'
  <2>1. Layout'
    BY <1>1, <1>2, LayoutKept
  <2>2. Len(devices) \in Nat /\ devices' = devices
    BY <1>1, <1>2, DevicesOfLayout DEF layout
  <2>. QED  BY <1>1, <2>1, <2>2 DEF Progress
<1>13. Translates(tables', KernelDone', DevicesDone')
  BY <1>1, <1>4, <1>5 DEF MapInv, Translates
<1>. QED  BY <1>10, <1>11, <1>12, <1>13 DEF MapInv

(* A device's block joins what a pool translates.                          *)
LEMMA DeviceTranslated ==
  ASSUME NEW pool, NEW new, NEW n, NEW R, NEW K, NEW D, NEW va \in Addresses,
         Translates(pool, K, D), OneBlockMore(new, pool, n, R, va, "device"),
         BlockOf(va) \notin K
  PROVE  Translates(new, K, D \cup {BlockOf(va)})
<1>. SUFFICES ASSUME NEW a \in Addresses
              PROVE  WalkIn(new, a) = Translation(BlockOf(a), K, D \cup {BlockOf(va)})
  BY DEF Translates
<1>1. /\ WalkIn(pool, a) = Translation(BlockOf(a), K, D)
      /\ WalkIn(new, a) = IF BlockOf(a) = BlockOf(va) THEN BLOCK_DESC(va, "device")
                          ELSE WalkIn(pool, a)
  BY DEF Translates, OneBlockMore
<1>2. CASE BlockOf(a) = BlockOf(va)
  <2>1. BlockOf(BlockOf(a)) = BlockOf(va)
    BY <1>2, BlockOfBlock
  <2>. QED  BY <1>1, <1>2, <2>1 DEF Translation, BLOCK_DESC
<1>3. CASE BlockOf(a) # BlockOf(va)
  BY <1>1, <1>3 DEF Translation
<1>. QED  BY <1>2, <1>3

(* The next device in the loop, and what its iteration adds.               *)
LEMMA NextDevice ==
  ASSUME MapInv, pc = "devices", i < Len(devices)
  PROVE  /\ devices[i + 1] \in Addresses
         /\ BlockOf(devices[i + 1]) \notin KernelDone
         /\ tables \in Pools /\ Translates(tables, KernelDone, DevicesDone)
<1>1. Layout /\ Typed /\ i \in 0 .. Len(devices)
  BY DEF MapInv, Progress
<1>2. i + 1 \in 1 .. Len(devices)
  BY <1>1, DevicesOfLayout
<1>3. BlockOf(devices[i + 1]) \in DeviceBlocks
  BY <1>2 DEF DeviceBlocks
<1>4. KernelDone = KernelBlocks
  BY DEF KernelDone, FirstBlocks, KernelBlocks
<1>5. BlockOf(devices[i + 1]) \notin KernelDone
  BY <1>1, <1>3, <1>4 DEF Layout
<1>. QED  BY <1>1, <1>2, <1>5, DevicesOfLayout DEF MapInv, Typed

LEMMA DeviceDone ==
  ASSUME MapInv, pc = "devices", i < Len(devices),
         UNCHANGED <<layout, pc>>, i' = i + 1
  PROVE  /\ KernelDone' = KernelDone
         /\ DevicesDone' = DevicesDone \cup {BlockOf(devices[i + 1])}
         /\ RegionsDone' = RegionsDone \cup {L1_INDEX(devices[i + 1])}
         /\ Layout' /\ Progress'
<1>1. Layout /\ i \in 0 .. Len(devices)
  BY DEF MapInv, Progress
<1>2. Len(devices) \in Nat /\ i \in Nat /\ i + 1 \in 0 .. Len(devices)
  BY <1>1, DevicesOfLayout
<1>3. UNCHANGED layout /\ pc' = pc
  BY Zenon
<1>4. KernelDone' = KernelDone /\ Layout'
  BY <1>1, <1>3, LayoutKept DEF KernelDone
<1>5. DevicesDone' = DevicesDone \cup {BlockOf(devices[i + 1])}
  <2>1. DevicesDone = FirstDevices(i) /\ DevicesDone' = FirstDevices(i + 1)
    BY <1>1, <1>3, LayoutKept DEF DevicesDone
  <2>2. 1 .. i + 1 = (1 .. i) \cup {i + 1}
    BY <1>2
  <2>. QED  BY <2>1, <2>2 DEF FirstDevices
<1>6. RegionsDone' = RegionsDone \cup {L1_INDEX(devices[i + 1])}
  <2>1. L1_INDEX(BlockOf(devices[i + 1])) = L1_INDEX(devices[i + 1])
    BY NextDevice, BlockOfBlock
  <2>2. kernel_start' = kernel_start
    BY <1>3 DEF layout
  <2>. QED  BY <1>5, <2>1, <2>2 DEF RegionsDone, RegionsIn
<1>7. Progress'
  <2>1. devices' = devices
    BY <1>3 DEF layout
  <2>. QED  BY <1>2, <1>3, <2>1 DEF Progress
<1>. QED  BY <1>4, <1>5, <1>6, <1>7

LEMMA MapDeviceStep ==
  ASSUME MapInv, MapDevice
  PROVE  MapInv'
<1>. DEFINE va == devices[i + 1]
            entry == tables[1][L1_INDEX(va)]
<1>1. /\ pc = "devices" /\ i < Len(devices) /\ i' = i + 1
      /\ entry.kind # "invalid"
      /\ tables' = init_l2_block(tables, entry.to, va, "device")
      /\ UNCHANGED <<layout, next, pc>>
  BY DEF MapDevice
<1>2. /\ va \in Addresses /\ BlockOf(va) \notin KernelDone
      /\ tables \in Pools /\ Translates(tables, KernelDone, DevicesDone)
  BY <1>1, NextDevice
<1>3. PICK n \in 2 .. PoolTables : InUse(tables, n, RegionsDone) /\ next = FirstFree(n)
  BY <1>1 DEF MapInv, Mapping
<1>4. L1_INDEX(va) \in RegionsDone
  <2>1. L1_INDEX(va) \in Entries
    BY <1>2, AddressParts
  <2>. QED  BY <1>1, <1>3, <2>1 DEF InUse, Invalid
<1>5. PICK t \in 2 .. n : entry = TABLE_DESC(t)
  BY <1>3, <1>4 DEF InUse
<1>6. entry.to = t
  BY <1>5 DEF TABLE_DESC
<1>7. /\ KernelDone' = KernelDone /\ DevicesDone' = DevicesDone \cup {BlockOf(va)}
      /\ RegionsDone' = RegionsDone \cup {L1_INDEX(va)}
      /\ Layout' /\ Progress'
  <2>1. UNCHANGED <<layout, pc>>
    BY <1>1
  <2>. QED  BY <1>1, <2>1, DeviceDone
<1>8. RegionsDone' = RegionsDone
  BY <1>4, <1>7
<1>. HIDE DEF va
<1>9. OneBlockMore(tables', tables, n, RegionsDone, va, "device")
  <2>1. "device" \in {"normal", "device"}
    OBVIOUS
  <2>2. tables \in Pools
    BY <1>2
  <2>3. InUse(tables, n, RegionsDone)
    BY <1>3
  <2>4. va \in Addresses
    BY <1>2
  <2>5. tables[1][L1_INDEX(va)] = TABLE_DESC(t)
    BY <1>5
  <2>6. OneBlockMore(init_l2_block(tables, t, va, "device"), tables, n, RegionsDone, va,
                     "device")
    BY <2>1, <2>2, <2>3, <2>4, <2>5, BlockWritten, Zenon
  <2>. QED  BY <1>1, <1>6, <2>6, Zenon
<1>10. Translates(tables', KernelDone', DevicesDone')
  <2>1. Translates(tables', KernelDone, DevicesDone \cup {BlockOf(va)})
    BY <1>2, <1>9, DeviceTranslated, Zenon
  <2>. QED  BY <1>7, <2>1
<1>11. Mapping'
  <2>1. InUse(tables', n, RegionsDone')
    BY <1>8, <1>9 DEF OneBlockMore
  <2>2. next' = FirstFree(n)'
    BY <1>1, <1>3 DEF FirstFree
  <2>. QED  BY <2>1, <2>2 DEF Mapping
<1>12. Typed'
  BY <1>1, <1>9 DEF MapInv, Typed, OneBlockMore
<1>. QED  BY <1>7, <1>10, <1>11, <1>12 DEF MapInv

LEMMA MapDeviceInNewRegionStep ==
  ASSUME MapInv, MapDeviceInNewRegion
  PROVE  MapInv'
<1>. DEFINE va == devices[i + 1]
            e == L1_INDEX(va)
            fresh == init_l2_table(tables, e, next)
<1>1. /\ pc = "devices" /\ i < Len(devices) /\ i' = i + 1
      /\ next \in 1 .. PoolTables
      /\ tables[1][e].kind = "invalid"
      /\ tables' = init_l2_block(fresh, next, va, "device")
      /\ next' = IF next + 1 > page_table_end THEN NULL ELSE next + 1
      /\ UNCHANGED <<layout, pc>>
  BY DEF MapDeviceInNewRegion, InPool
<1>2. /\ va \in Addresses /\ BlockOf(va) \notin KernelDone
      /\ tables \in Pools /\ Translates(tables, KernelDone, DevicesDone)
  BY <1>1, NextDevice
<1>3. PICK n \in 2 .. PoolTables : InUse(tables, n, RegionsDone) /\ next = FirstFree(n)
  BY <1>1 DEF MapInv, Mapping
<1>4. /\ next = n + 1 /\ n \in 1 .. PoolTables - 1 /\ n + 1 \in 2 .. PoolTables
      /\ PoolTables # 2
  BY <1>1, <1>3, SizesArePositive DEF FirstFree, NULL
<1>5. e \in Entries \ RegionsDone
  <2>1. e \in Entries
    BY <1>2, AddressParts
  <2>2. ASSUME e \in RegionsDone PROVE FALSE
    <3>1. PICK t \in 2 .. n : tables[1][e] = TABLE_DESC(t)
      BY <1>3, <2>2 DEF InUse
    <3>. QED  BY <1>1, <3>1 DEF TABLE_DESC
  <2>. QED  BY <2>1, <2>2
<1>6. /\ KernelDone' = KernelDone /\ DevicesDone' = DevicesDone \cup {BlockOf(va)}
      /\ RegionsDone' = RegionsDone \cup {e}
      /\ Layout' /\ Progress'
  BY <1>1, DeviceDone
<1>. HIDE DEF va, e, fresh
<1>7. /\ fresh \in Pools /\ fresh[1][e] = TABLE_DESC(n + 1)
      /\ InUse(fresh, n + 1, RegionsDone \cup {e})
      /\ Translates(fresh, KernelDone, DevicesDone)
  <2>1. tables \in Pools
    BY <1>2
  <2>2. n \in 1 .. PoolTables - 1
    BY <1>4
  <2>3. InUse(tables, n, RegionsDone)
    BY <1>3
  <2>4. Translates(tables, KernelDone, DevicesDone)
    BY <1>2
  <2>5. /\ init_l2_table(tables, e, n + 1) \in Pools
        /\ init_l2_table(tables, e, n + 1)[1][e] = TABLE_DESC(n + 1)
        /\ InUse(init_l2_table(tables, e, n + 1), n + 1, RegionsDone \cup {e})
        /\ Translates(init_l2_table(tables, e, n + 1), KernelDone, DevicesDone)
    BY <1>5, <2>1, <2>2, <2>3, <2>4, TableTaken, Zenon
  <2>6. fresh = init_l2_table(tables, e, n + 1)
    BY <1>4 DEF fresh
  <2>. QED  BY <2>5, <2>6, Zenon
<1>8. OneBlockMore(tables', fresh, n + 1, RegionsDone \cup {e}, va, "device")
  <2>1. "device" \in {"normal", "device"} /\ n + 1 \in 2 .. PoolTables
    BY <1>4
  <2>2. fresh \in Pools
    BY <1>7
  <2>3. InUse(fresh, n + 1, RegionsDone \cup {e})
    BY <1>7
  <2>4. va \in Addresses
    BY <1>2
  <2>5. fresh[1][L1_INDEX(va)] = TABLE_DESC(n + 1)
    BY <1>7 DEF e
  <2>6. OneBlockMore(init_l2_block(fresh, n + 1, va, "device"), fresh, n + 1,
                     RegionsDone \cup {e}, va, "device")
    BY <2>1, <2>2, <2>3, <2>4, <2>5, BlockWritten, Zenon
  <2>. QED  BY <1>1, <1>4, <2>6, Zenon
<1>9. Translates(tables', KernelDone', DevicesDone')
  <2>1. Translates(tables', KernelDone, DevicesDone \cup {BlockOf(va)})
    BY <1>2, <1>7, <1>8, DeviceTranslated, Zenon
  <2>. QED  BY <1>6, <2>1
<1>10. next' = n + 2
  BY <1>1, <1>4, SizesArePositive DEF page_table_end
<1>11. Mapping'
  <2>1. InUse(tables', n + 1, RegionsDone')
    BY <1>6, <1>8 DEF OneBlockMore
  <2>2. next' = FirstFree(n + 1)'
    BY <1>1, <1>4, <1>10 DEF FirstFree
  <2>. QED  BY <1>4, <2>1, <2>2 DEF Mapping
<1>12. Typed'
  <2>1. tables' \in Pools
    BY <1>8 DEF OneBlockMore
  <2>2. next' \in 0 .. page_table_end
    BY <1>4, <1>10, SizesArePositive DEF page_table_end
  <2>. QED  BY <1>1, <2>1, <2>2 DEF Typed, page_table_end
<1>. QED  BY <1>6, <1>9, <1>11, <1>12 DEF MapInv

LEMMA OverrunStep ==
  ASSUME MapInv, Overrun
  PROVE  MapInv'
<1>1. /\ pc = "devices" /\ i < Len(devices) /\ pc' = "overrun"
      /\ UNCHANGED <<layout, tables, next, i>>
      /\ ~ InPool(next) /\ tables[1][L1_INDEX(devices[i + 1])].kind = "invalid"
  BY DEF Overrun
<1>2. Layout /\ Typed /\ i \in 0 .. Len(devices)
  BY <1>1 DEF MapInv, Progress
<1>3. Layout'
  BY <1>1, <1>2, LayoutKept
<1>4. /\ KernelDone' = KernelDone /\ DevicesDone' = DevicesDone
  BY <1>1, <1>2, LayoutKept DEF KernelDone, DevicesDone
<1>5. RegionsDone' = RegionsDone
  BY <1>1, <1>4 DEF RegionsDone, RegionsIn, layout
<1>6. Progress'
  BY <1>1, <1>2 DEF Progress, InPool, layout, L1_INDEX
<1>7. Typed'
  BY <1>1, <1>2 DEF Typed
<1>8. Mapping' /\ Translates(tables', KernelDone', DevicesDone')
  BY <1>1, <1>4, <1>5 DEF MapInv, Mapping, FirstFree
<1>. QED  BY <1>3, <1>6, <1>7, <1>8 DEF MapInv

LEMMA EnableMmuStep ==
  ASSUME MapInv, EnableMmu
  PROVE  MapInv'
<1>1. /\ pc = "devices" /\ i = Len(devices) /\ pc' = "on"
      /\ UNCHANGED <<layout, tables, next, i>>
  BY DEF EnableMmu
<1>2. Layout /\ Typed /\ i \in 0 .. Len(devices)
  BY <1>1 DEF MapInv, Progress
<1>3. Layout'
  BY <1>1, <1>2, LayoutKept
<1>4. KernelDone' = KernelDone /\ DevicesDone' = DevicesDone
  BY <1>1, <1>2, LayoutKept DEF KernelDone, DevicesDone
<1>5. RegionsDone' = RegionsDone
  BY <1>1, <1>4 DEF RegionsDone, RegionsIn, layout
<1>6. Progress'
  BY <1>1, <1>2 DEF Progress, layout
<1>7. Typed'
  BY <1>1, <1>2 DEF Typed
<1>8. Mapping' /\ Translates(tables', KernelDone', DevicesDone')
  BY <1>1, <1>4, <1>5 DEF MapInv, Mapping, FirstFree
<1>. QED  BY <1>3, <1>6, <1>7, <1>8 DEF MapInv

LEMMA NextMapInv == MapInv /\ [Next]_vars => MapInv'
<1>. SUFFICES ASSUME MapInv, [Next]_vars PROVE MapInv'
  OBVIOUS
<1>1. CASE MapKernel
  BY <1>1, MapKernelStep
<1>2. CASE MapKernelBlock
  BY <1>2, MapKernelBlockStep
<1>3. CASE KernelMapped
  BY <1>3, KernelMappedStep
<1>4. CASE MapDevice
  BY <1>4, MapDeviceStep
<1>5. CASE MapDeviceInNewRegion
  BY <1>5, MapDeviceInNewRegionStep
<1>6. CASE Overrun
  BY <1>6, OverrunStep
<1>7. CASE EnableMmu
  BY <1>7, EnableMmuStep
<1>8. CASE UNCHANGED vars
  <2>1. /\ UNCHANGED <<kernel_start, kernel_size, devices>>
        /\ UNCHANGED <<tables, next, i, pc>>
    BY <1>8 DEF vars, layout
  <2>2. block_num' = block_num
    BY <2>1 DEF block_num
  <2>3. KernelDone' = KernelDone /\ DevicesDone' = DevicesDone
    BY <2>1, <2>2 DEF KernelDone, DevicesDone, FirstBlocks, FirstDevices
  <2>4. RegionsDone' = RegionsDone
    BY <2>1, <2>3 DEF RegionsDone
  <2>5. Layout'
    BY <2>1, <2>2 DEF MapInv, Layout, KernelBlocks, DeviceBlocks
  <2>6. Typed' /\ Progress'
    BY <2>1, <2>2 DEF MapInv, Typed, Progress, InPool
  <2>7. pc' # "kernel" => Mapping' /\ Translates(tables', KernelDone', DevicesDone')
    BY <2>1, <2>3, <2>4 DEF MapInv, Mapping, FirstFree
  <2>. QED  BY <2>5, <2>6, <2>7 DEF MapInv
<1>9. CASE Done
  BY <1>8, <1>9 DEF Done
<1>. QED  BY <1>1, <1>2, <1>3, <1>4, <1>5, <1>6, <1>7, <1>8, <1>9 DEF Next

(* What the loops have mapped so far is what the tables translate, and the *)
(* tables in use are one for each region reached (mmu.c:366-454).          *)
THEOREM LoopsMapWhatTheyReach == Spec => []MapInv
BY InitMapInv, NextMapInv, PTL DEF Spec

-----------------------------------------------------------------------------
(* What the invariant says of the properties.                              *)

LEMMA MapInvTypes == MapInv => TypeOK
<1>. SUFFICES ASSUME MapInv PROVE TypeOK
  OBVIOUS
<1>1. Layout /\ Typed /\ Progress
  BY DEF MapInv
<1>2. kernel_size \in 1 .. RegionSize
  <2>1. kernel_start \in Nat
    BY <1>1, AddressParts DEF Layout
  <2>2. kernel_start % RegionSize \in 0 .. RegionSize - 1
    BY <2>1, SizesArePositive, QuotientAndRest, Zenon
  <2>. QED  BY <1>1, <2>2, SizesArePositive DEF Layout
<1>3. i \in 0 .. IF pc = "blocks" THEN block_num ELSE MaxDevices
  <2>1. Len(devices) \in Nat /\ Len(devices) <= MaxDevices /\ MaxDevices \in Nat
    BY <1>1, DevicesOfLayout, LayoutAssumption DEF Layout
  <2>. QED  BY <1>1, <2>1 DEF Progress, Typed
<1>. QED  BY <1>1, <1>2, <1>3 DEF Layout, Typed, TypeOK, Pools

LEMMA MapInvTranslates == MapInv => TranslatesExactly
<1>. SUFFICES ASSUME MapInv, pc = "on", NEW a \in Addresses
              PROVE  Walk(a) = IF BlockOf(a) \in KernelBlocks THEN BLOCK_DESC(a, "normal")
                               ELSE IF BlockOf(a) \in DeviceBlocks
                                    THEN BLOCK_DESC(a, "device")
                               ELSE Unmapped
  BY DEF TranslatesExactly
<1>1. KernelDone = KernelBlocks
  BY DEF KernelDone, FirstBlocks, KernelBlocks
<1>2. DevicesDone = DeviceBlocks
  BY DEF MapInv, Progress, DevicesDone, FirstDevices, DeviceBlocks
<1>3. Walk(a) = Translation(BlockOf(a), KernelBlocks, DeviceBlocks)
  <2>1. Walk(a) = WalkIn(tables, a)
    BY DEF Walk, WalkIn
  <2>. QED  BY <1>1, <1>2, <2>1 DEF MapInv, Translates
<1>4. BLOCK_DESC(BlockOf(a), "normal") = BLOCK_DESC(a, "normal")
      /\ BLOCK_DESC(BlockOf(a), "device") = BLOCK_DESC(a, "device")
  BY BlockOfBlock DEF BLOCK_DESC
<1>. QED  BY <1>3, <1>4, Zenon DEF Translation, Invalid, Unmapped

(* The regions of the whole layout, and those reached so far.              *)
LEMMA RegionsOfLayout ==
  ASSUME Layout
  PROVE  /\ Regions = RegionsIn({kernel_start} \cup DeviceBlocks)
         /\ Regions \subseteq Entries /\ IsFiniteSet(Regions)
         /\ \A d \in 1 .. Len(devices) : L1_INDEX(devices[d]) \in Regions
<1>1. RegionsIn(KernelBlocks) = RegionsIn({kernel_start})
  BY KernelRegion DEF RegionsIn
<1>2. Regions = RegionsIn(KernelBlocks) \cup RegionsIn(DeviceBlocks)
  BY DEF Regions, RegionsIn
<1>3. Regions = RegionsIn({kernel_start} \cup DeviceBlocks)
  BY <1>1, <1>2 DEF RegionsIn
<1>4. \A d \in 1 .. Len(devices) :
        /\ L1_INDEX(BlockOf(devices[d])) = L1_INDEX(devices[d])
        /\ L1_INDEX(devices[d]) \in Entries
  BY DevicesOfLayout, BlockOfBlock, AddressParts
<1>5. \A b \in {kernel_start} \cup DeviceBlocks : L1_INDEX(b) \in Entries
  <2>1. L1_INDEX(kernel_start) \in Entries
    BY KernelRegion, AddressParts
  <2>. QED  BY <1>4, <2>1 DEF DeviceBlocks
<1>6. Regions \subseteq Entries
  BY <1>3, <1>5 DEF RegionsIn
<1>7. IsFiniteSet(Entries)
  BY SizesArePositive, FS_Interval DEF Entries
<1>8. IsFiniteSet(Regions)
  BY <1>6, <1>7, FS_Subset
<1>9. \A d \in 1 .. Len(devices) : L1_INDEX(devices[d]) \in Regions
  BY <1>3, <1>4 DEF RegionsIn, DeviceBlocks
<1>. QED  BY <1>3, <1>6, <1>8, <1>9

LEMMA MapInvPool == MapInv => PoolUsedExactly
<1>. SUFFICES ASSUME MapInv PROVE PoolUsedExactly
  OBVIOUS
<1>1. Layout /\ Progress
  BY DEF MapInv
<1>2. ASSUME pc \in {"on", "overrun"}
      PROVE  \E n \in 2 .. PoolTables : InUse(tables, n, RegionsDone) /\ next = FirstFree(n)
  BY <1>2 DEF MapInv, Mapping
<1>3. ASSUME pc = "on" PROVE Cardinality(Regions) + 1 <= PoolTables
  <2>1. PICK n \in 2 .. PoolTables : InUse(tables, n, RegionsDone)
    BY <1>2, <1>3
  <2>2. RegionsDone = Regions
    <3>1. DevicesDone = DeviceBlocks
      BY <1>1, <1>3 DEF Progress, DevicesDone, FirstDevices, DeviceBlocks
    <3>. QED  BY <1>1, <3>1, RegionsOfLayout DEF RegionsDone
  <2>3. Cardinality(Regions) = n - 1
    BY <2>1, <2>2 DEF InUse
  <2>. QED  BY <2>1, <2>3, SizesArePositive
<1>4. ASSUME pc = "overrun" PROVE Cardinality(Regions) + 1 > PoolTables
  <2>. DEFINE e == L1_INDEX(devices[i + 1])
  <2>1. PICK n \in 2 .. PoolTables : InUse(tables, n, RegionsDone) /\ next = FirstFree(n)
    BY <1>2, <1>4
  <2>2. n = PoolTables
    <3>1. ~ InPool(next)
      BY <1>1, <1>4 DEF Progress
    <3>. QED  BY <1>4, <2>1, <3>1, SizesArePositive DEF FirstFree, InPool, NULL
  <2>3. i \in 0 .. Len(devices) /\ i < Len(devices) /\ tables[1][e].kind = "invalid"
    BY <1>1, <1>4 DEF Progress
  <2>4. e \notin RegionsDone
    <3>1. ASSUME e \in RegionsDone PROVE FALSE
      <4>1. PICK t \in 2 .. n : tables[1][e] = TABLE_DESC(t)
        BY <2>1, <3>1 DEF InUse
      <4>. QED  BY <2>3, <4>1 DEF TABLE_DESC
    <3>. QED  BY <3>1
  <2>5. RegionsDone \cup {e} \subseteq Regions
    <3>1. i + 1 \in 1 .. Len(devices) /\ 1 .. i \subseteq 1 .. Len(devices)
      BY <1>1, <2>3, DevicesOfLayout
    <3>2. DevicesDone \subseteq DeviceBlocks
      BY <1>4, <3>1 DEF DevicesDone, FirstDevices, DeviceBlocks
    <3>3. RegionsDone \subseteq Regions
      BY <1>1, <3>2, RegionsOfLayout DEF RegionsDone, RegionsIn
    <3>. QED  BY <1>1, <3>1, <3>3, RegionsOfLayout
  <2>. HIDE DEF e
  <2>6. Cardinality(RegionsDone \cup {e}) <= Cardinality(Regions)
    BY <1>1, <2>5, RegionsOfLayout, FS_Subset
  <2>7. Cardinality(RegionsDone \cup {e}) = PoolTables
    <3>1. IsFiniteSet(RegionsDone)
      BY <1>1, <2>5, RegionsOfLayout, FS_Subset
    <3>2. Cardinality(RegionsDone \cup {e}) = Cardinality(RegionsDone) + 1
      BY <2>4, <3>1, FS_AddElement
    <3>3. Cardinality(RegionsDone) = PoolTables - 1
      BY <2>1, <2>2 DEF InUse
    <3>. QED  BY <3>2, <3>3, SizesArePositive
  <2>8. Cardinality(Regions) \in Nat
    BY <1>1, RegionsOfLayout, FS_CardinalityType
  <2>. QED  BY <2>6, <2>7, <2>8, SizesArePositive
<1>. QED  BY <1>3, <1>4 DEF PoolUsedExactly

(* The tables of the pool, and the pointer to the next free one, are what  *)
(* early_mmu_init takes them for.                                          *)
THEOREM PageTablesTypes == Spec => []TypeOK
BY LoopsMapWhatTheyReach, MapInvTypes, PTL

(* With the MMU on, the kernel and its devices are mapped to themselves,   *)
(* each with its memory type, and nothing else is, whatever the layout and *)
(* however many regions its devices lie in (mmu.c:379-454).                *)
THEOREM KernelAndDevicesAreMapped == Spec => []TranslatesExactly
BY LoopsMapWhatTheyReach, MapInvTranslates, PTL

(* Whether the pool is overrun depends on nothing but the number of        *)
(* regions: mmu.c:406-439 wastes no table, and tests none before it writes.*)
THEOREM PoolHoldsOneTablePerRegion == Spec => []PoolUsedExactly
BY LoopsMapWhatTheyReach, MapInvPool, PTL
=============================================================================
