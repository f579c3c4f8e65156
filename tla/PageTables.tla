----------------------------- MODULE PageTables ------------------------------
(***************************************************************************)
(* early_mmu_init of arch/arm64/memorymanager/mmu.c: it fills a pool of    *)
(* translation tables so that the kernel and its devices are mapped to     *)
(* themselves, and turns the MMU on.  A level-1 entry covers a region,     *)
(* which a level-2 table divides into blocks.                              *)
(*                                                                         *)
(* The layout - where the kernel is, which devices board_devices.c lists - *)
(* is chosen at the start and never changes.  The loops are one step per   *)
(* iteration.                                                              *)
(***************************************************************************)
EXTENDS Naturals, Sequences, FiniteSets

CONSTANTS PT_ENTRIES,   (* 512                                             *)
          BlockSize,    (* L2_BLOCK_SIZE, 2 MB                             *)
          PoolTables,   (* tables in .page_tables: 5                       *)
          MaxDevices,   (* bound on early_device_map_count                 *)
          RamSize       (* from the kernel's start on: 512 MB              *)

ASSUME LayoutAssumption ==
  /\ PT_ENTRIES \in Nat \ {0} /\ BlockSize \in Nat \ {0}
  /\ PoolTables \in Nat \ {0, 1}
  /\ MaxDevices \in Nat /\ RamSize \in Nat

VARIABLES kernel_start, kernel_size,
          devices,      (* the base addresses in early_device_map          *)
          tables,       (* the pool                                        *)
          next,         (* page_table_start, as the number of a table      *)
          i,            (* iterations of the current loop done             *)
          pc            (* where early_mmu_init is                         *)

layout == <<kernel_start, kernel_size, devices>>
vars == <<layout, tables, next, i, pc>>

RegionSize == PT_ENTRIES * BlockSize
Addresses == 0 .. PT_ENTRIES * RegionSize - 1
Entries == 0 .. PT_ENTRIES - 1

L1_INDEX(va) == (va \div RegionSize) % PT_ENTRIES
L2_INDEX(va) == (va \div BlockSize) % PT_ENTRIES
BlockOf(a) == a - (a % BlockSize)

(* A pointer past the pool, and NULL.                                      *)
page_table_end == PoolTables + 1
NULL == 0

Invalid == [kind |-> "invalid", to |-> 0]
Garbage == [kind |-> "garbage", to |-> 0]   (* the section is not loaded   *)
TABLE_DESC(t) == [kind |-> "table", to |-> t]
BLOCK_DESC(pa, type) == [kind |-> type, to |-> BlockOf(pa)]
Descriptors == [kind : {"invalid", "garbage", "table", "normal", "device"},
                to : Addresses \cup 0 .. PoolTables]

block_num == (kernel_size + BlockSize - 1) \div BlockSize

KernelBlocks == {kernel_start + k * BlockSize : k \in 0 .. block_num - 1}
DeviceBlocks == {BlockOf(devices[d]) : d \in 1 .. Len(devices)}

(* The linker script aligns the kernel to a block, and map_kernel supports *)
(* a kernel that does not leave its region.  No device shares a block with *)
(* it.  A device lies in one block: only its base address is ever mapped.  *)
Init ==
  /\ kernel_start \in {a \in Addresses : a % BlockSize = 0}
  /\ kernel_size \in 1 .. RegionSize - (kernel_start % RegionSize)
  /\ devices \in UNION {[1 .. n -> Addresses] : n \in 0 .. MaxDevices}
  /\ KernelBlocks \cap DeviceBlocks = {}
  /\ tables = [t \in 1 .. PoolTables |-> [e \in Entries |-> Garbage]]
  /\ next = NULL /\ i = 0
  /\ pc = "kernel"

-----------------------------------------------------------------------------
(* Clearing with memset, which counts bytes there and entries here.        *)
memset(table, count) ==
  [e \in Entries |-> IF e < count THEN Invalid ELSE table[e]]

init_l1_table(pool) == [pool EXCEPT ![1] = memset(@, PT_ENTRIES)]

(* Deviation: the new table keeps what was in the pool.                    *)
InitL2Uncleared(pool, l1_index, t) == [pool EXCEPT ![1][l1_index] = TABLE_DESC(t)]

init_l2_table(pool, l1_index, t) ==
  [pool EXCEPT ![t] = memset(@, PT_ENTRIES), ![1][l1_index] = TABLE_DESC(t)]

init_l2_block(pool, t, pa, type) ==
  [pool EXCEPT ![t][L2_INDEX(pa)] = BLOCK_DESC(pa, type)]

(* map_kernel: the first table is the level-1 table, the second the        *)
(* level-2 table of the kernel's region.                                   *)
MapKernel ==
  /\ pc = "kernel" /\ pc' = "blocks"
  /\ tables' = init_l2_table(init_l1_table(tables), L1_INDEX(kernel_start), 2)
  /\ UNCHANGED <<layout, next, i>>

(* Deviation: the loop runs once too often.                                *)
BlocksOneMore == i <= block_num

BlocksLeft == i < block_num

MapKernelBlock ==
  /\ pc = "blocks" /\ BlocksLeft
  /\ tables' = init_l2_block(tables, 2, kernel_start + i * BlockSize, "normal")
  /\ i' = i + 1
  /\ UNCHANGED <<layout, next, pc>>

(* Deviation: the last table of the pool is held back.                     *)
LastTableHeldBack == IF 4 < page_table_end THEN 3 ELSE NULL

(* What map_kernel returns: the first free table, if there is one.         *)
AfterKernel == IF 3 < page_table_end THEN 3 ELSE NULL

KernelMapped ==
  /\ pc = "blocks" /\ ~ BlocksLeft
  /\ next' = AfterKernel
  /\ i' = 0
  /\ pc' = "devices"
  /\ UNCHANGED <<layout, tables>>

InPool(t) == t \in 1 .. PoolTables

(* map_devices, in a region that has a table already.                      *)
MapDevice ==
  /\ pc = "devices" /\ i < Len(devices)
  /\ LET va    == devices[i + 1]
         entry == tables[1][L1_INDEX(va)]
     IN  /\ entry.kind # "invalid"
         /\ tables' = init_l2_block(tables, entry.to, va, "device")
  /\ i' = i + 1
  /\ UNCHANGED <<layout, next, pc>>

(* map_devices, in a new region: it takes the next table.                  *)
MapDeviceInNewRegion ==
  /\ pc = "devices" /\ i < Len(devices) /\ InPool(next)
  /\ LET va    == devices[i + 1]
         fresh == init_l2_table(tables, L1_INDEX(va), next)
     IN  /\ tables[1][L1_INDEX(va)].kind = "invalid"
         /\ tables' = init_l2_block(fresh, next, va, "device")
  /\ next' = IF next + 1 > page_table_end THEN NULL ELSE next + 1
  /\ i' = i + 1
  /\ UNCHANGED <<layout, pc>>

(* The table it takes is behind the pool or at address 0.  It is cleared   *)
(* before anything is tested, and what happens then is anybody's guess.    *)
Overrun ==
  /\ pc = "devices" /\ i < Len(devices) /\ ~ InPool(next)
  /\ tables[1][L1_INDEX(devices[i + 1])].kind = "invalid"
  /\ pc' = "overrun"
  /\ UNCHANGED <<layout, tables, next, i>>

heap_start == kernel_start + kernel_size
heap_end == kernel_start + RamSize

(* TTBR0 and SCTLR are written: translation is on, and the allocator gets  *)
(* the heap, from heap_start to heap_end.                                  *)
EnableMmu ==
  /\ pc = "devices" /\ i = Len(devices)
  /\ pc' = "on"
  /\ UNCHANGED <<layout, tables, next, i>>

Done == pc \in {"on", "overrun"} /\ UNCHANGED vars

Next == \/ MapKernel \/ MapKernelBlock \/ KernelMapped
        \/ MapDevice \/ MapDeviceInNewRegion \/ Overrun
        \/ EnableMmu \/ Done

Spec == Init /\ [][Next]_vars

-----------------------------------------------------------------------------
(* Properties.                                                             *)

TypeOK ==
  /\ kernel_start \in Addresses /\ kernel_size \in 1 .. RegionSize
  /\ Len(devices) <= MaxDevices
  /\ tables \in [1 .. PoolTables -> [Entries -> Descriptors]]
  /\ next \in 0 .. page_table_end
  /\ i \in 0 .. IF pc = "blocks" THEN block_num ELSE MaxDevices
  /\ pc \in {"kernel", "blocks", "devices", "on", "overrun"}

(* What the hardware finds when it looks an address up.                    *)
Unmapped == [kind |-> "invalid", to |-> 0]
Walk(va) ==
  LET l1 == tables[1][L1_INDEX(va)]
  IN  IF l1.kind = "table" THEN tables[l1.to][L2_INDEX(va)] ELSE l1

(* With the MMU on, the kernel's blocks and the devices' blocks are mapped *)
(* to themselves, each with its memory type, and nothing else is mapped:   *)
(* no table is shared, left uncleared, or written twice (mmu.c:379-454).   *)
TranslatesExactly ==
  pc = "on" =>
    \A a \in Addresses :
      Walk(a) = IF BlockOf(a) \in KernelBlocks THEN BLOCK_DESC(a, "normal")
                ELSE IF BlockOf(a) \in DeviceBlocks THEN BLOCK_DESC(a, "device")
                ELSE Unmapped

(* The pool is overrun exactly when the level-1 table and one table for    *)
(* each region of the kernel and the devices are more than it holds:       *)
(* mmu.c:406-439 wastes no table, and it is the number of devices' regions *)
(* alone that keeps the writes inside.                                     *)
Regions == {L1_INDEX(a) : a \in KernelBlocks \cup DeviceBlocks}
PoolUsedExactly ==
  /\ pc = "overrun" => Cardinality(Regions) + 1 > PoolTables
  /\ pc = "on" => Cardinality(Regions) + 1 <= PoolTables

(* mmu.c:341: "We have 512M of ram to work with".  The heap that           *)
(* early_mmu_init gives to init_memallc (mmu.c:343-346) is mapped.         *)
HeapMapped ==
  pc = "on" => \A a \in heap_start .. heap_end - 1 : Walk(a).kind = "normal"
=============================================================================
