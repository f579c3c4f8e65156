# TLA+ specifications of the OS project

A verification project for the kernel in `src/`: modules that model its heap
allocator, its process scheduler, the two together, its interrupt-driven console
and timer, its page tables and its number conversion, TLC configurations that
check them on small instances, and TLAPS proofs for every value of the constants.

## Running it

    tlc -workers 2 -config scheduler.cfg MCScheduler     # any run: PROJECT.json "runs"
    tlapm SchedulerProofs.tla                            # any module named *Proofs

## The system

One processor (AArch64, EL1), no threads, no user space. `head.S` clears the BSS,
calls `uart_init` and `early_mmu_init`, sets the vector table, calls `gic_init`,
unmasks interrupts, executes a `brk`, calls `kernel_init` and idles in `wfi`.
From the unmasking on, `el1_irq_handler` may run between any two instructions.

| component | state | operations | interacts with |
|---|---|---|---|
| heap allocator, `driver/memallc.c` | descriptor pool, free list, allocated list, `range` | `init_memallc`, `memallc`, `free_memallc`, `set_range` | called by the boot code and the scheduler; prints |
| scheduler, `driver/scheduler/scheduler.c` | two rings of nodes with heads, `currentProc`, process states | `schedulerInit`, `scheduleProcess`, `procSwitch`, `awakenProcess`, `killScheduler` | takes its nodes from, and returns nodes and processes to, the allocator |
| UART driver, `driver/uart.c` | the device's FIFOs and interrupt bits | `uart_init`, `uart_putc/puts/getc` | called by everybody, by the IRQ handler too |
| interrupt path, `irq.c`, `gic.c`, `entry.S` | enabled and active interrupts, PSTATE.I, saved mask and address | take, acknowledge, serve, end, return | reads the UART, re-arms the timer, prints |
| timer, `driver/timer.c`, `lib/timer_imp.c` | compare value, control bits, `freq` | `init_timer`, `enable_timer`, `timer_interrupt` | its interrupt |
| synchronous exceptions, `traps.c` | saved ELR | `el1_sync_handler` | prints |
| boot, `head.S`, `init/main.c` | where it is | the sequence above | everything |
| page tables, `memorymanager/mmu.c` | table pool, L1/L2 tables | `early_mmu_init` and what it calls | fixes the heap's range |
| `itoa`, `memset` | the caller's buffer | themselves | `itoa` prints interrupt numbers and seconds, `memset` clears tables |
| `reg_switch` | - | - | called by nothing |

What is hard here: blocks are split and merged through pointers with every
order of frees possible; ring pointers survive a switch in which the old process
goes to either queue or is freed; the handler shares an unlocked device driver
with the code it interrupts; interrupt and timer set-up depends on its order.
`PROJECT.json` lists each of these hazards at its line with the properties that
are aimed at it. What makes each component correct:

* allocator: no byte granted twice, grants inside the heap, no byte lost, every
  call returns;
* scheduler: each process in exactly one place and in the state of that place,
  first-in first-out, nothing leaks, a ready process gets its turn;
* console, interrupts, timer: no character lost, every key read, every second
  counted, the boot code not starved, the handler never stuck;
* page tables: what the allocator hands out is mapped; the table pool suffices;
* `itoa`: the text reads back as the number, and stays inside its buffer.

## Modules

| module | models |
|---|---|
| `HeapSpec` | the promise of the allocator: callers hold disjoint regions of the heap |
| `Memallc` | `memallc.c` in full: descriptors, both lists, one step per loop iteration |
| `MemallcRequests` | `Memallc` with what each caller asked for |
| `SchedulerSpec` | the promise of the scheduler: two FIFO queues of processes and a current one |
| `Scheduler` | `scheduler.c` in full: `next`/`prev` pointers, heads, node and process memory |
| `Kernel` | composes `Scheduler` and `Memallc`: `kernel_init`, and then any use of the scheduler |
| `Uart`, `Gic`, `Timer` | the three devices, and the register accesses of their drivers |
| `Interrupts` | composes them: the boot code and the IRQ handler on one processor |
| `PageTables` | `early_mmu_init`: the table pool, the mapping of kernel and devices, the heap's range |
| `Itoa` | `itoa.c`, and the truncation of its argument |
| `MCMemallc`, `MCScheduler` | symmetry sets, and an order of callers and of allocation for the liveness properties |
| `MemallcProofs` | theorems about `Memallc`: callers that free in any order, callers that never free |
| `SchedulerProofs`, `SchedulerQueueProofs` | theorems about `Scheduler`: its links, and the order of its queues |
| `KernelProofs` | theorems about `Kernel`, on those about its two halves |
| `InterruptsProofs`, `PageTablesProofs`, `ItoaProofs` | theorems about `Interrupts`, `PageTables` and `Itoa` |
| `InductionProofs` | induction over the natural numbers, in the form these proofs can use |

`PROJECT.json` "map" gives the source lines of every definition. Definitions
whose comment begins with "Deviation" are plausible mistakes, used only to see
that each property notices one; no specification uses them.

### Memallc

A pointer to a descriptor is its index in `memblk_pool`, NULL is 0. A call is a
program counter (`pc`) with the loop variables `prev` and `current`: `Memallc`
enters the search, `Search`, `NoneFits` and `TakeBlock` are the outcomes of an
iteration, `TakeBlock` includes the split. `FreeMemallc` enters the lookup;
`Unlink` moves the block to the free list and enters `defragment_memblk`. Calls
are not interleaved: the kernel has one thread and the handler does not
allocate. `held` is a history variable: which region each caller was given.
Pointers are numbers, bytes are addresses, and the alignment of sizes, which the
code does not have either, is absent.

The code has a fault that many things follow from. `free_memallc` pushes the
block on the free list and then calls `defragment_memblk`, which meets the block
itself in the list, and when it finds no neighbour pushes it a second time
(`block->next = block`). `kernel_init`'s own `free_memallc(memallc(0x1000))`
already does that. From then on the list is cyclic, so the module has two
specifications: `Spec`, whose callers free in any order, under which only the
properties that survive damaged lists hold, and `AllocOnlySpec`, whose callers
never free, under which the allocator keeps its whole promise. A call can then
be held for ever by a cyclic list; `LoopsEnd` says that nothing else can hold one.

`held` records the bytes that are granted. A request above `range` is granted
only `range` bytes (memallc.c:72-76), and the allocator does not remember what it
was asked for; `MemallcRequests` does, in a history variable.

### Scheduler

One action per function the kernel calls, with every call it makes: a
`ProcSwitch` is the state change of the current process, its requeueing (or its
end, if it is a zombie) and the dequeueing of the next. `killScheduler` is one
step per loop iteration. The heap is represented by what `HeapSpec` promises:
an allocated node is one nobody has, and it may run out (`ScheduleOutOfMemory`).
Nothing in the repository makes a running process block or exit yet, but
`rescheduleProcess` is written for it; `GiveUp` lets it happen, and is marked
external. Following a null pointer is the status `fault`: the exception handler
returns to the same instruction, so the kernel makes no further progress.

`Scheduler` implements `SchedulerSpec` under a mapping that reads the two queues
off the rings by following `next` from their heads. A followed null pointer maps to
the abstract `Stop`: the refinement is about a scheduler that runs, and `KillEnds` and `SwitchesWhenReady` are about the
faults.

### Kernel

`Scheduler` takes memory that nobody has; `Kernel` makes it come from `Memallc`.
A step of the scheduler leaves the calls of `memallc` and `free_memallc` it makes
in `calls`, with the object (a node, a process) each is for, and they run to
their end through the allocator's loops before the kernel takes its next step.
`memallc`'s caller in `Memallc` is the object itself, so `held` says which bytes
back which node. The scheduler's own pointers stay symbolic: what is checked is
that the memory behind them is the scheduler's alone (`MemoryBacksObjects`,
`KernelImplementsHeap`). If that holds, a symbolic node is as good as bytes.

`kernel_init` frees one block before it starts the scheduler, and that is enough
to damage the free list (above). Why the kernel survives it is the question of
this module. The answer is `ServedFromTheEnd`: the freed block was merged with
the rest of the heap into the first block of the list, and every request splits
that one; what the list drags behind it, allocated blocks included, is never
looked at. It is luck of this one order: had `kernel_init` freed the *first* of its
two blocks, `ServedFromTheEnd`, `KernelImplementsHeap` and `KernelGoesOn` would
all fail (`BootFreesTest`), and the frees of `killScheduler` end in a walk that
does not (`kernel_kill`). `GiveUp` is left out here, as no
process of the repository ever exits; the heap and the descriptors are enough
(`HeapSuffices`), as 512 MB are for a few kilobytes and 1024 for a few objects.

### Interrupts

A thread is the list of operations it has still to do; the boot code and the
handler are two such lists and the handler's, when there is one, is the one that
runs. Printing is a poll and a write per character, with a step between them,
because the handler prints through the same driver. Both devices are modelled:
the PL011, whose FIFOs `uart_init` does not enable and which holds one character
each way, and the NS16550, whose poll waits for an *empty* FIFO. Interrupts are
level-sensitive. An exception saves the interrupted code's place (`elr`) and its
mask (`spsr`); `brk` comes back to itself unless the handler steps over it
(`Skip`), as `el1_sync_handler` does for breakpoints. `entry.S` saves ELR on the
stack but leaves SPSR in its register, so the mask that `eret` restores is that of
the last exception; `MaskedInHandlers` says that this is the right one, because
no exception interrupts a handler. The controller's request to the processor follows the lines
with a delay, so a handler can find that its interrupt is gone. `init_timer`,
`uart_init` and `gic_init` are one step each: their register writes change
nothing a handler could see half done. The timer's handler prints the seconds;
what it divides by zero before `init_timer` is any number. The seconds it prints have
become an int on their way into `itoa` (`ToInt`), which has two bits in the run, so that
the texts of two seconds show the sign.

Characters are counted, texts have all the same length, and the calls the boot
code makes to the allocator and the scheduler appear only as the texts they
print. The sender of keys waits while the device is full.

### PageTables

`early_mmu_init` as a loop over the kernel's blocks and one over the devices, one
step per iteration. A table is its number in the pool, which holds garbage
until it is cleared, since the section is not loaded. The layout is chosen at the
start: any aligned kernel inside one region ("Currently only supports <= 1GB"),
any devices outside its blocks. A device is taken to fit one block, because the
code never reads its `size`; all of `board_devices.c` do. Attributes are reduced
to the memory type. Taking a table outside the pool is the state `overrun`, of
which nothing more is said: `init_l2_table` clears memory before any comparison.

### Itoa

One step per digit, on a buffer that keeps its contents from call to call, as
`timer_to_string_imp`'s static one does. Characters are ASCII codes, an int has
`Width` bits, and arguments may be wider, since the seconds have 64. The
reference is the other direction: `Reading` evaluates a numeral, digit by digit
from the left. The buffer is assumed to hold the longest numeral with its sign and
its terminating NUL (`BufferSuffices`), as the buffers of both callers do:
`itoa` has no way to know its length.

## Runs

| run | shows |
|---|---|
| `memallc_any_order` | with frees in any order: `BlocksInHeap`, `HeldInHeap` (no descriptor or grant reaches out of the heap) and `FirstFit`, even on damaged lists; liveness: `LoopsEnd` (a call is held only by a list without an end on which nothing is what the loop looks for) |
| `memallc_alloc_only` | without frees: `TilesHeap` (every byte is free or allocated, exactly once), `GrantsInFull` (a grant has all the bytes asked for, or as many as `range` was), `ImplementsHeap` |
| `memallc_double_grant` | counterexample to `HeldDisjoint`: two callers get the same bytes after a free |
| `scheduler` | `RingsIntact`, `NobodyLost`, `StatesMatch`, `AllFreed`, `ImplementsScheduler`, `KeepsTurn` (nobody in the ready queue is overtaken); liveness: `KillEnds`, `WaitsForTurn` |
| `scheduler_null_current` | counterexample to `SwitchesWhenReady`: an awakened process and nobody current |
| `kernel` | `MemoryBacksObjects`, `ServedFromTheEnd`, `KernelImplementsHeap`, and every call returns (`KernelGoesOn`) |
| `kernel_kill` | counterexample to `KillReturns`: the same kernel calls `killScheduler`, which never returns |
| `interrupts` | `GetcNeverWaits`, `MaskedInHandlers`, `SecondsStayOnGrid`, `SecondsShown`, `LossNeedsHandler`, and the liveness of keys, seconds and boot |
| `interrupts_overrun` | counterexample to `WritesIntoRoom`: an interrupt between poll and write |
| `page_tables` | `TranslatesExactly`: kernel and devices are mapped to themselves and nothing else is; `PoolUsedExactly`: how many regions the pool carries |
| `page_tables_heap` | counterexample to `HeapMapped`: the allocator's heap is not all mapped |
| `itoa` | `ReadsBack`: the text is the numeral of the truncated argument; `StaysInside`: no cell past the longest numeral is written |

**Bounds.** *Allocator:* heaps of 4 and 6 bytes, pools of 3 descriptors (4
in `memallc_double_grant`),
2-3 callers. That is enough for a split, both kinds of merge, a request that
equals a block, one that exceeds `range`, `range` above and below the heap,
a full pool in the middle of a split, and no block that fits. *Scheduler:* 6
processes and 7 nodes, so that the two heads leave memory for five and the sixth
fails. A queue of three shows first, middle and last position; longer ones
repeat the middle. Which free node is taken is immaterial, and the lowest is.
*Kernel:* four processes, objects of each kind of one or two bytes (all eight
combinations), a heap and a descriptor pool that suffice, as the real ones do;
two processes and equal sizes for the counterexample. *Itoa:* ints of 8 bits,
arguments of up to 16, at every boundary of a digit, a sign and a width; five
bases; a buffer longer than any numeral. *Interrupts:* two keys,
a clock of five ticks with two per second (two timer interrupts), ints of two
bits, texts of two characters, a FIFO of two for the 16 of the device. A text of two fills either
device; one that is longer meets the same states again. Two keys and two seconds
allow a key during each kind of handler. *Page tables:* entries of three, blocks
of two addresses, a pool of three tables for the five of the linker script, two
devices: they share a block, a region, the kernel's region, or take a table each
and overrun the pool; kernels of one to three blocks end in the middle of one or
at its end.

**Fairness.** `Memallc`: a call that has started goes on (`WF` on the loop
steps): it is straight code. `LoopsEnd` needs this and no more. `Scheduler`: only a started `killScheduler` goes
on. `Kernel`: a call of the allocator goes on, and in `kernel_kill` also
`killScheduler`. `WaitsForTurn` takes "the kernel switches again and again" as its
premise. `Interrupts`: the processor executes (`WF` on `Step`), a pending
interrupt is signalled and taken, what is written is sent; nothing makes keys
arrive or the clock run. Since keys and ticks are bounded, liveness is about
finitely many interrupts: it says that the handler ends and does not come back
without cause, and nothing about a kernel whose interrupts come faster than it
serves them.

Symmetry (callers; nodes and processes) is used in runs without liveness only.
The runs `memallc_any_order` and `scheduler` break it by a fixed order instead (the
lowest caller asks, the lowest address is allocated), as `Kernel` does for itself.
No run disables the deadlock check: an idle kernel waits in `WaitForInterrupt`,
a crashed one in `Trapped`, a finished set-up of the tables in `Done`.

## Proofs

* `InductionProofs` is what the walks along links need. A theorem that takes a
  predicate as its parameter cannot be used by the provers here, so induction is
  stated with a set: `SetInduction` (a set that holds 0 and with each number the
  next holds them all) and `LeastNumber`, both from the well-foundedness of the
  finite sets. `RecursiveFunction` says that a function given by a first value
  and a step satisfies its own equation, which makes `Walk` and `Queue`, written
  for TLC, definitions to prove about. `RecursionOnNat` is the case of all natural
  numbers: powers, and the quotients of repeated division.
* `MemallcProofs`: `TypeCorrect`, `BlocksStayInHeap`, `RegionsStayInHeap` and
  `TakesFirstFit`, for the callers that free in any order. The lists' order is
  irrelevant to the first three, and has to be, since the lists may be cyclic: the
  invariant `IInv` says that every descriptor in use lies in the heap and that
  every pointer met by a walk is a descriptor in use; a split divides a block, a
  merge joins two that touch. `FirstFit` is about such walks too. The invariant
  `Searched` says which part of the walk the call has behind it, and that nothing
  there was large enough; that `NoneFits` has then seen *every* block a walk of
  any length reaches is a pigeonhole argument (`WalkRepeats`): with `PoolSize`
  descriptors a walk that has not ended repeats itself.
  For the callers that never free it proves `GrantsDisjoint`, `RefinesHeap`
  (`Spec` of `HeapSpec`) and `HeapIsTiled`. The invariant `HInv` says that no
  two descriptors in use share a byte, that each held region is that of a
  descriptor off the free list, and that only the descriptor handed out last can
  be free: a split leaves the remaining tail there. The abstract step of
  `TakeBlock` is `Allocate`; every other step is a stutter. For `TilesHeap` it is
  joined by the shape of the lists (`ListsInOrder`: the allocated list runs down
  the descriptors' numbers and ends at the first) and by `Contiguous`: each
  descriptor begins where the one before it ends.
* `SchedulerProofs`: `SchedulerTypeCorrect`, `RingsStayIntact`, `OnlyReadyChosen`,
  for any number of nodes. The invariant `SInv` colours each node with the ring it
  is in and says that neighbours have equal colours. This gives, without counting
  along a ring, that a dequeued node comes from the queue it was taken for. The
  lemmas on `queueProc` and `dequeueProc` are stated once and each action
  composes them.
* `SchedulerQueueProofs`: `QueuesMatchStates`, `NobodyIsLost`, `KillFreesAll`,
  `NobodyIsOvertaken` and the refinement `SchedulerRefines` of `SchedulerSpec`. A ring is described by the
  sequence of the nodes that follow its head. `queueProc` appends to that
  sequence, `dequeueProc` takes its first, and no action does anything else to it
  (`InOrder`: the two rings are two such sequences, of different nodes, which
  carry every process but the current one).
  The walk that `Queue` makes along `next` is shown, by induction, to return the
  sequence; each action then maps to the abstract one of its name, or stutters.
  `NobodyIsOvertaken` is the safety half of `WaitsForTurn`: while the scheduler
  runs, a process in the ready queue stays there or is the one a switch takes, from
  the front, and what a step does to the queue never puts anybody before it.
* `InterruptsProofs`: `OnlyHandlersCostCharacters`, for any boot code and FIFO
  depth. The invariant `PollInv` says that what a poll saw still holds unless a
  handler has run since, that a handler runs masked until the return at the end
  of its code, and that on the NS16550 at most one character was left behind.
  `PlaceInv` adds where in its code each thread can be, and what the devices
  must look like there: a handler that is before its `uart_getc` has a key, a
  timer that is armed has its compare value a whole number of seconds after the
  first one. From it follow `InterruptsTypes`, `HandlerHasItsKey`,
  `MaskIsGivenBack`, `SecondsAreOnGrid` and `SecondsAreShown`.
* `PageTablesProofs`: `KernelAndDevicesAreMapped`, `PoolHoldsOneTablePerRegion` and
  `PageTablesTypes`, for any block size, table size, pool and layout. The invariant
  `MapInv` says after each iteration which addresses are translated and to what,
  and that the tables in use are the level-1 table and one for each region met so
  far. So the pool overruns exactly if there are more regions than tables.
* `ItoaProofs`: `ItoaReadsBack`, `ItoaStaysInBuffer` and `ItoaTypes`, for every
  width, bases from 2 to 36, every buffer that `BufferSuffices` admits, and arguments of any
  width. The loop writes its digits backwards and divides; the reader comes from the
  other end and multiplies. Both meet the same numbers: with `Rest(k)`, the
  truncated magnitude divided `k` times by the base, the loop is at `Rest(k)` after
  `k` digits and the `k`-th digit is `Rest(k)` modulo the base, while the reader
  has `Rest(k)` when `k` digits are still to come. The invariant `IInv` says so
  of the cells written so far, and an induction over the digits gives the value.
  That no more than `MaxDigits` are written follows from comparing `Rest(k)` with
  the powers of the base.
* `KernelProofs`: `ObjectsHaveMemory`, `FirstBlockServes` and `KernelHeapIsSound`,
  for any number of nodes and processes and any sizes that the heap has room for.
  `IInv` and `SInv` are invariants of the composition because each of its steps is
  one of the allocator or one of the scheduler, so their proofs are used as they
  are. The invariant `KInv` adds where the kernel is (`Untouched`, `BootAllocates`,
  `BootFrees`, `Running`) and `Room`: the head of the free list reaches to the
  heap's end, lies behind everything granted, and no further behind than those
  grants are long. With `HeapSuffices` every search ends at its first iteration
  with a split, which establishes `Room` again (`GrantKeepsRoom`); `BootFrees`
  follows the one free step by step to the merged block whose link leads to
  itself. Nothing is said of the list behind its head. The proof fails for the
  order of boot calls in `BootFreesTest`, as it should.

They rest on the named assumptions about constants in the modules, which TLC
evaluates on the runs, and on nothing else. Each invariant was checked by TLC on
the small instance before it was proved.

Model-checked only: the liveness properties (`LoopsEnd`, `WaitsForTurn`,
`KillEnds`, `KeysRead`, `TimerCatchesUp`, `BootEnds`, `KernelGoesOn`), since fairness
and ENABLED are outside the prover; and `GrantsInFull`, whose history variable
the proofs about `Memallc` do not have. Every other property of a passing run is
a theorem. For `WaitsForTurn` the prover has the part without fairness: `KeepsTurn`.

## Findings

1. `memallc.c:236`: a block is pushed on the free list twice; later requests hand
   out the same bytes twice (`memallc_double_grant`).
2. `memallc.c:229`: a block that is its own predecessor in the list is linked to
   itself. `kernel_init` causes it, and a `killScheduler` after it frees the ready
   queue's head into an endless walk (`kernel_kill`).
3. `scheduler.c:105`: `procSwitch` follows `currentProc` without a test
   (`scheduler_null_current`). `killScheduler` does the same at 159, after it has
   freed the queues' heads (`KillEnds` says that it comes to its end otherwise).
4. `uart.c:105`: on a PL011 an interrupt between poll and write loses a
   character (`interrupts_overrun`). The NS16550 does not, and
   `LossNeedsHandler` says how far the loss can go.
5. `mmu.c:344`: the heap given to the allocator reaches 512 MB past the kernel's
   start, but only the 2 MB blocks of the image are mapped (`page_tables_heap`).
   `kernel_init`'s small requests stay in the last of those blocks.
6. `memallc.c:76`: a request above `range` is lowered and granted, and the caller
   cannot tell (`GrantsInFull` has to allow for it, in `memallc_alloc_only`).
7. `timer_imp.c:113`: the 64-bit seconds reach `itoa` as an int, and the text is
   negative after 2^31 seconds. `SecondsShown` says what the text shows instead: the
   seconds truncated to an int, which has two bits in `interrupts`.

Seen while modelling, without a statement in the repository to hold against it:
the process `procSwitch` chooses keeps state READY (`scheduler.c:117`), only
`scheduleProcess` ever assigns RUNNING, so `StatesMatch` can say no more than that
nobody *else* is RUNNING. A merge forgets the descriptor it empties
(`memallc.c:217`), and the pool of 1024 is never refilled.
And `kernel_init` initializes the UART a second time with interrupts enabled, and on
a PL011 the interrupt of an unread key is cleared with the others (`uart.c:59`).
The key waits until another one comes. `KeysRead` excludes that case by
`Announced`, so no property covers it. Nor does one cover what the null result of
`memallc` does to `scheduleProcess` (`scheduler.c:52`): the model takes it for a crash.

## Not modelled, and the plan

In this order:

1. `disable_timer` and `gic_disable_irq`, should a caller appear: today only tests
   call the one and nothing the other.
2. Exceptions inside a handler, should a handler come to raise one: the model
   would then show what the unsaved SPSR does.
3. Devices larger than a block: `map_devices` would have to read `size` first.

Left out for good: the wording of messages, saving and restoring of general
registers (`entry.S`; its effect is that a thread goes on where it was), the drop
from EL2 and the control-register bits of the MMU and the controller,
`reg_switch.S` (never called), the build and linker scripts, the unit tests.
