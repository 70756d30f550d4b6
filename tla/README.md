# TLA+ models of the kernel

These modules model the boot loader under `src/boot/` and the kernel under
`src/kernel/`, TLC checks them on small instances, and TLAPS proves the safety
properties of seven of them (`Spinlock`, `Kalloc`, `SysArgs`, `Proc`, `Paging`, `Irq`,
`Boot`) for every instance. `PROJECT.json` maps each definition to the source lines it
translates and lists the runs, the mutants, the hazards and the theorems.

## 1. Inventory

The kernel runs on one processor (`mycpu()` returns `cpus[0]`), in ring 0, with
one user process `init`. What is concurrent is interrupts: a handler runs on
top of whatever the processor was doing, whenever EFLAGS.IF is set.

| part | state | operations | module |
|---|---|---|---|
| interrupt masking, spin locks (`spinlock.c`, `cpu.c`) | EFLAGS.IF, `ncli`, `intena`, lock words | `pushcli` `popcli` `acquire` `release` `holding` `mycpu` | `Cpu`, `Spinlock` |
| page allocator (`kalloc.c`) | free list threaded through the frames, heap bounds, `use_lock` | `kinit1` `kinit2` `freerange` `kalloc` `kfree` `dump_freelist` | `Kalloc` |
| address spaces (`paging.c`) | page directories and tables in frames | `walkpgdir` `mappages` `setupkvm` `paging_init` `inituvm` `deallocuvm` `freevm` | `Paging` |
| processes (`proc.c`, `swtch.asm`) | `ptable`, `nextpid`, `c->proc`, `c->scheduler`, cr3, TSS, trap frames | `process_init` `process_alloc` `initproc_init` `scheduler` `switchuvm` `switchkvm` `enter_process` `enter_scheduler` `exit` | `Proc` |
| system calls (`syscall.c`, `syshello.c`, `sysproc.c`) | the trap frame and the process's memory | `syscall_handler`, `sys_hello`, `sys_exit`, `sysarg_get_*` | `Proc`, `SysArgs` |
| interrupts (`idt.c`, `isr.asm`, `pic.c`) | gates, `isr_table`, masks, requests in service | `idt_init` `isr_register` `isr_handler` `pic_init` `pic_enable_irq_line` `pic_send_eoi` | `Irq` |
| keyboard, timer (`kbd.c`, `timer.c`) | `shift` `ctrl` `alt`, `timer_ticks`, the controller's byte | handlers and initialisation | `Irq` |
| boot loader, memory map (`stage1.asm`, `stage2.asm`, `e820.asm`, `pmem.c`) | the BIOS map, `phys_end`, `acpi` | BIOS calls, `pmem_init` | `MemMap` |
| ACPI tables (`acpi.c`), processors (`cpu.c`) | `acpi_info`, `cpus` | `acpi_init` `find_rsdp` `parse_rsdt` `parse_xsdt` `parse_madt` `cpu_init` | `Acpi` |
| IOAPIC, serial port (`ioapic.c`, `uart.c`) | redirection table, the port | `ioapicinit` `ioapicenable` `uartinit` `uartputc`; dispatch of their interrupt | `Ioapic`, `Irq` |
| IDE disk (`ide.c`) | the registers of the drive, its sectors | `ide_init` `ide_wait_ready` `ide_start`; dispatch of its interrupt | `Ide`, `Irq` |
| kernel start (`kernel.c`) | all of the four above | `main` | `Boot` |
| console (`screen.c`) | video memory, cursor, `cons.lock`, `cons.locking` | `cprintf` `panic` `print_char` scrolling | `Console` |
| `lib/string.c` | memory | the nine functions | `Strings`, `Memmove` |
| mode switch, descriptors, port I/O | | | no |

How they interact: every part takes locks through `Spinlock`; `Paging` and
`Proc` live on frames of `Kalloc`; system calls and device handlers are entered
through the dispatch of `Irq`; every part prints through `Console`, whose lock
is taken in handlers and in processes alike; `scheduler` passes `ptable.lock`
across `swtch` to another stack, which releases it. At boot each part works on
what the one before it found: `pmem_init` on the map of the BIOS, `paging_init`
on the two regions of `pmem_init`, `acpi_init` on what is mapped then,
`ioapicinit` on `acpi_info`, `uartinit` on the redirection table.

The behaviours that are hard to get right, and to test, are:

- an interrupt between any two instructions of `pushcli`, or between reading
  `eflags` and `cli`; a handler that takes a lock; `intena` shared by all
  contexts of the processor;
- a lock acquired on one stack and released on another;
- the two phases of boot, in which the free list is built without lock and
  under another address limit than later;
- memory that runs out in any of the allocations of an address space;
- arguments of a system call at the end of the process or near the top of the
  address space, where sums wrap;
- two cascaded interrupt controllers with one EOI each, a system call that is
  interrupted, a line without a driver, a scan code of several bytes;
- a panic or a page fault in the middle of a message;
- firmware that describes the machine in another order, with more, less or
  damaged tables, and memory that reaches the kernel's device space;
- a serial port or a drive that is slower than the loop that polls it.

## 2. Modules

`Cpu` holds what `spinlock.c` does to one CPU as operators on records
(`pushcli(c)`, `acquire(c, l)`, `release(c, l)`...). A failed check is a panic:
the message in `cpu.panic`, after which no step is enabled but that of a halted
machine. `Spinlock`, `Kalloc`, `Proc`, `Irq` and `Console` extend it, so that
the lock code is translated once.

**Spinlock** interleaves contexts on one processor. A context is a thread or an
interrupt handler; `ctx` is the stack of them and only the top one executes.
`pushcli` is split where an interrupt can come: a first step reads eflags,
`FinishCall` executes the rest, which runs with interrupts off.
The history variable `ambient` is the flag a context set itself.
**IrqMutex** is what it promises: locks taken and given back by the one that
runs, and preemption only when none is held. `ImplementsMutex` is the refinement.

**Kalloc** keeps the list as the code does, as a word in each free frame, with
the sentinel `&kmem.head` at the end. `freerange` is one step per page;
`kalloc` and `kfree` are one step each, since interrupts cannot come in once
the lock is taken, what precedes it touches only the caller's frame, and before
`scheduler` there are no interrupts. The frames are those
between the kernel's end and `phys_end`. **FrameAlloc** is the abstract pool: a
set of free and a set of held frames. `ImplementsPool` is the refinement.

**Paging** counts in pages; a table has N entries and is a frame. One step is
one iteration of a loop, so that `kalloc` can return 0 at every place where
the code asks. The free list is the sequence that `Kalloc` implements. `kfree` has the
checks of `kalloc.c:80`, of which only alignment and `kheap_start` can still refuse a
page after `kinit2`. The program given to `inituvm` fits a page or is as large as one.

**Proc** has one program counter, and stacks suspended in `swtch`: stack 0 is
the one of `main` and `scheduler`, stack s that of the process in slot s. A step
is the code between two places where interrupts can come or a lock changes
hands. Processes make any system call with good or bad arguments, fault, and
are interrupted wherever EFLAGS.IF is set, by handlers that print or do not. `MaxInit` above 1 calls
`initproc_init` more often than `main` does, with the same code, so that several
processes and a full table are reached.
**Lifecycle** is the abstract specification: pids, each of which is created once,
runs, may ask for its exit and ends for good. `ImplementsLifecycle` maps the slots of
the table to it.

**SysArgs** is the same handler at the level of bytes: a word of `WordSize`
digits of base `Radix` is fetched from memory, addresses wrap at `SpaceSize`,
and every dereference by the kernel is recorded (`cprintf` prints a null string without
one). `MCSysArgs` gives the stacks
and memory contents that are tried.

**Irq** boots through `main`'s order of initialisation and then runs handlers
stacked by the priorities of the 8259s. The controllers, the keyboard and the
IOAPIC line are an environment, modelled from the port accesses of the code and
marked external in the map. Requests and keys arrive during boot as well, before
`pic_init` and after it, and wait until `scheduler` enables interrupts. COM1's line reaches
the 8259, where it counts if the BIOS left it unmasked, and the IOAPIC; a handler
remembers who sent it (`by`), since `isr_handler` sends its EOI to the 8259 in both cases.
A key is a name: what is kept of the tables in `kbdmapus.c` is which keys come with the
prefix E0, which are modifiers, and that a string comes from one of two tables.

**Console** prints a message character by character. `who` is a thread, a
handler, `page_fault_handler` or `panic`. The conversions `%d %x %p %l %s %%` are
modelled, on words of W bits, and so are a format that ends in `%` and one that is null,
for which `cprintf` panics with its lock held. Numbers are printed digit by digit, as the code
does, because the text is what `MessagesWhole` compares. The screen scrolls,
row by row with the `memcpy` of `Strings`.

**Strings** has each loop of `string.c` as a recursion in the same order of loads
and stores. It has no state: the assumption `FunctionsAsPromised` compares the functions with
closed forms of their comments, and TLC evaluates it with the `console` run, whose module
extends this one. **Memmove** is a call of `memmove` with any two regions.

**Main**, **MemMap**, **Acpi**, **Ioapic**, **Ide** and **Boot** are one chain, each
extending the one before, in the order in which `main` calls the parts. `Main` has
the program counter and what ends a boot: `Stop` stands for `panic`, `error`, an
unhandled page fault and the hanging loader. The constant record `machine` is what the
code meets and never changes: the answers of the BIOS, the tables in memory, whether
there is a serial port, the drive.

- `MemMap` counts in whole pages. It makes the calls of `e820_start` one by one, then the
  rounds of the loop in `pmem_init`, with the truncation of its results to 32 bits.
- `Acpi` has the three regions of `setupkvm` with the checks of `mappages` that can
  fail on them, so that an access to a table is either mapped or a page fault. It walks the
  root table and then the MADT entry by entry, beyond its end too, where a
  machine has zeros, another table or what looks like further entries.
- `Ioapic` starts from a redirection table that the firmware left unmasked; the serial port
  sends whenever it likes, or never.
- `Ide` writes one register per step. The drive is the environment: while busy it
  ignores its registers, the busy spell ends at any time, and data it has not asked for
  is lost. It can be missing, a floating bus, an ATA or an ATAPI drive, with or
  without multiple mode. Only `ide_init` calls `ide_start` today; `Request` calls it
  for a further block, as a file system would, with the same code.
- `Boot` composes them and states what a machine may be. `BootOutcome` says what a boot
  should come to on it (`MemoryFit`, `TablesFit`, `TablesExact`), read off the
  description of the machine and without the code's loops. `MCBoot` lists the machines.

## 3. Runs

Each passing run reaches all actions of its module; each property has a mutant,
a plausible slip in the code it is about, which TLC shows to break it.

| run | what it shows | bounds, and why they are enough |
|---|---|---|
| `spinlock` | No check of `spinlock.c` fires and `acquire` never spins (`NeverStuck`); interrupts are off in critical sections (`InterruptsOff`) and come back as they were (`FlagRestored`), although `intena` is shared; interrupts are enabled again (liveness); refinement of `IrqMutex`. | Two locks, three stacked contexts, three calls per critical section: locks nest, `pushcli` nests in them, and a third context would exist if handlers could nest. The safety part is proved without bounds. |
| `kalloc` | The list holds exactly the free frames, each once (`FreeListExact`), none is lost or donated twice (`Conservation`), no check fires, frames that are held are not written, refinement of `FrameAlloc`. | Real page size; a kernel end and a memory end that are not page aligned; a few frames on each side of the 4 MB limit. KERNBASE is 2^30 because TLC's integers are 32 bits. The safety part is proved without bounds. |
| `proc` | No unexpected panic, no wait for a lock; `c->proc`, cr3, `esp0` and the table agree; `ptable.lock` is handed over right; `myproc()->tf` is the frame of the call in progress; refinement of `Lifecycle`, so that pids are not reused, a zombie stays as it is and keeps its status; every process runs and every call completes. | Three slots and four creations: a full table occurs, and the scheduler passes over every kind of slot. The safety part is proved without bounds. |
| `sysargs` | The kernel dereferences only the process's memory, what it fetched lies there, and it accepts exactly the valid calls. | Base 4 digits and 256 addresses, so that all stack pointers are tried and sums wrap; 20 bytes of process hold the three arguments, the block and the string. The safety part is proved without bounds. |
| `paging` | No frame serves two purposes at any moment; every directory maps the regions of `setupkvm` and nothing else; `freevm` gives everything back, after a failure too; only want of memory panics; the loops end. | N = 8, with a region that spans two tables, one that shares a table with it and one with its own; 0 to 5 frames early and 0 to 6 late, so memory runs out at each allocation; a program of one byte less than a page and of a page. The safety part is proved without bounds. |
| `irq` | Each line in service gets its EOI and no other does, whichever controller sent the interrupt (`AckedExactly`); only a line the BIOS left unmasked and nobody drives stops the kernel (`OnlyBiosLinesPanic`); the keys printed are those pressed, in order and none left out, doubled at most where a prefix E0 explains it, and with the right shift state unless a Shift key repeats or an E0 intervenes (`KeysInOrder`); the timer's requests are served and the keyboard's bytes are read, unless one was left from before `pic_init` (`EveryIrqServed`). | One request of a device and two moves of keys, or three of keys (`MaxRaise`, `MaxEvents`), from Shift, a letter and a key with E0, held ones repeating; devices are the timer, a driverless line (8), the disk on the second controller and COM1, which comes through both; another key is moved only while at most one byte waits (`MaxWire`), so that bytes come before, during and after handlers. More keys at once only lengthen the queue. The safety part is proved without bounds, except for the order of keys. |
| `boot` | The memory, the ACPI region and the device space share no page once paging is on, and if the BIOS's list is in order and without overlap the memory is RAM and the ACPI region is none (`MemoryDivided`); `acpi_info` holds every I/O APIC and override of the tables and only processors of the tables, whatever harmless bytes follow them (`TablesExact`); a line of the I/O APIC raises only vectors that are handled (`LinesRouted`); the boot ends on every machine, with the kernel running on the fit ones and a message on the others (`BootsExactly`); a drive that is found is there (`FoundIsThere`); a block goes to its sectors and no others if the wait for the drive succeeded (`WritesOnlyRequested`), and arrives if the drive asks for it in time (`WriteLands`). | 113 machines: 22 BIOS maps (Qemu's, Bochs', memory just below and just above what fits, more than 4 GB, missing and ignored entries, out of order, overlapping, failing calls), tables of both widths with every kind of entry, damaged or out of reach, and every kind of drive. Room for 2 processors and 2 I/O APICs, 2 polls of the port, 3 cycles of waiting, 3 bytes of announcement: each loop ends in both ways. Real addresses and sizes otherwise. `MemoryDivided`, `LinesRouted`, `FoundIsThere` and `WritesOnlyRequested` are proved without bounds. |
| `console` | Messages are not mixed; the screen shows the end of the output; a panic gets its message out, with the lock held too. | A 2x3 screen wraps and scrolls within a message; three messages; every conversion, a null format and a null string. For `FunctionsAsPromised`: all memories of 6 bytes over 0, a small value and one that is negative as a `char`, every pair of addresses, counts to 3. |

Four runs show disagreements between the code and what is written about it:

- `paging_inituvm`: `inituvm()` ignores the result of `mappages()` (`paging.c:127`).
- `kbd_shift`: the shift flag is toggled, so a Shift key that repeats clears it
  (`kbd.c:63`).
- `boot_identify`: the loop that waits for IDENTIFY goes on only while BSY and one of
  DRQ and ERR are set, so it ends after one round (`ide.c:97`). A drive that is still
  busy is reported as found, with a model read from a bus that holds none, also if it is
  an ATAPI drive, and the first block is sent to it.
- `strings_memmove`: `memmove` to a destination that overlaps the source from above starts
  one byte too high (`string.c:52`), so it leaves the first byte and overwrites the one
  behind the destination. No call in the kernel overlaps.

Seen while modelling, and visible in the definitions rather than in a run of its own:

- `dump_freelist` prints as "number of free frames" one less than there are, unless there
  are none (`kalloc.c:119` and `:123`). The model keeps the number and no property is
  about it.
- `memcmp` compares `char`s, which are signed, where its comment speaks of unsigned values
  (`string.c:62`). `FunctionsAsPromised` has the order for bytes below 128 only.
- After E0 `kbd.c` reads port 60h again in the same handler, so the next byte, or the one
  after it, may be handled twice: a key is printed twice or the shift flag flips.
  `KeysInOrder` says what remains true.
- A key moved before `pic_init` leaves its byte in the keyboard controller; `pic_init`
  makes the 8259 forget the request, nobody reads the port, and the controller never asks
  again. `EveryIrqServed` starts from a controller without such a byte.
- The local APIC gets no EOI from this kernel, so what the IOAPIC sends for COM1 arrives
  once.
- `print_interrupt_state` reads through `myproc()`, which is null in the scheduler
  (`idt.c:52`): an unexpected interrupt there is reported as a page fault.
- After `kinit2` the upper limit in `kfree` is a virtual address that is compared with a
  physical one, so that check accepts every frame.
- With more than 2016 MB of memory `paging_init` panics with "remap", since the
  memory then reaches the device space. `P2V(phys_end)` in `main`, which would wrap
  from 2 GB on, is then not reached, so that addresses that wrap, which
  `AddressAssumption` of `Kalloc` excludes, do not occur.
- A reserved stretch of memory between the extended memory and the ACPI memory is taken
  for the latter, and the tables are then not mapped (`pmem.c:52`, map `Hidden`).
- `parse_madt` reads 36 bytes past the table (`acpi.c:108`). Zeros end the loop; other
  bytes are harmless only as long as they do not look like an entry. The machines
  have all three there; `TablesExact` is about the harmless ones, and on the others only
  that the boot ends is claimed.
- Only processors with an odd id are listed, although the comment `acpi.c:120` speaks of
  enabled ones: the test is made on the id and not on the flags. `TablesExact` leaves open
  which processors of the table are listed.
- On a BIOS list that is out of order or overlaps, the memory `pmem_init` takes may hold
  reserved pages or start above 1 MB, and the ACPI region may hold RAM;
  `src/doc/7.2.Physical_Memory_Management.md:20` says that sorting the list may be desirable.
  `MemoryDivided` then only says that what is mapped does not overlap.
- `ide_start` ignores what `ide_wait_ready` returns. If the drive gets ready between two
  registers, the block goes to a sector made of old and new bytes; without the
  premise `w.ready` TLC refutes `WritesOnlyRequested`. The data follows the command
  at once, and a drive that has not raised DRQ by then loses it.
- The loader passes the size of the kernel in bytes where int 15h/87h takes words, so it
  copies twice as much (`stage2.asm:53`).

## 4. Fairness

Safety properties assume none. The liveness properties assume:

- the processor executes: weak fairness of the steps of kernel code (`KernelStep`,
  `Step`, `Output`, `BootStep`, `HandlerStep`, `FinishCall`). On one processor
  the running code is only ever delayed by handlers;
- handlers return and requests do not starve the code between them: strong fairness
  of `Iret`, and of `FinishCall` at depth 1, which interrupts disable again and
  again (`Spinlock`); the code makes progress between two interrupts;
- `PicInterrupt` is strongly fair: the processor looks for a request after every
  instruction, and critical sections (`SectionEnd`) are short;
- programs end: strong fairness of `ExitCall` (`Proc`). The kernel does not
  preempt a process, so that `EveryProcessRuns` would fail without it;
- `main` runs on and a busy drive answers some day: weak fairness of `Kernel` and
  `Drive` (`Boot`). The serial port and further requests have none.

## 5. Proofs

TLAPS proves, for all values of the constants that satisfy the named
assumptions:

- **SpinlockProofs**: `NeverStuck`, `LockOwnership`, `InterruptsOff`,
  `FlagRestored` and `ImplementsMutex`. Assumed: finitely many locks, `MaxDepth` at
  least 2. `IInv` adds to these three facts: the context below a handler was
  interrupted outside every critical section (`Interrupted`); `intena` is
  meaningful exactly while `ncli > 0`, and is then the flag of the running context,
  and the eflags a context has read are still the current ones when it executes
  `cli`, because `iret` restores them (`FlagsMeaning`); `acquire` is called for
  locks not held (`Asked`). There is one lemma per action, after those on what the
  operators of `Cpu` return.
- **KallocProofs**: `Conservation`, `NeverPanics`, `OthersUntouched`, `DataStays`,
  `ImplementsPool`, that the list is a chain (`ListIsChain`) and that a walk along it
  meets the free frames (`FreeListExact`). Assumed: the kernel
  ends below the 4 MB that are mapped at boot, and addresses do not wrap. "A list
  without cycle that contains exactly the free frames" is stated with a numbering
  `r` of the free frames from the end of the list on (`Chain`), which is
  inductive without induction over the list: `kfree` numbers the new head one
  higher, `kalloc` drops the highest. `Donated` says which frames `freerange` has
  put in so far. The walk is a recursive function on the naturals; that its n-th frame
  is the one with number Cardinality(free) - n is shown by taking the least n
  for which it fails (`LeastExists`), since induction
  over an operator is out of the provers' reach.
- **SysArgsProofs**: `OnlyProcessMemory`, `ArgumentsSound`, `AcceptsExactly`, for
  every size of process and address space and every contents. Assumed: the
  process ends below the top of the address space by more than a word and a
  block (`sz` is one page). `Progress` says what is known after each check that
  succeeded.
- **ProcProofs**: `OnlyExpectedPanics`, `OneCurrentProcess`, `LockHandover`,
  `TfIsCurrent`, for any number of slots and of creations, any statuses, and interrupts
  at every place with EFLAGS.IF set. Assumed: `nextpid` does not overflow. None of the four is inductive:
  the place in the code fixes the lock that is held, `ncli` and the flag (`CpuInv`,
  `LockInv`), and whether scheduler or process runs, and in the latter case what
  `switchuvm` loaded (`SwitchInv`); a slot that has not run is as `initproc_init` left it,
  so the first return from `swtch` goes to `enter_process` with the lock held
  (`TableInv`); pids of used slots differ and are below `nextpid` (`PidInv`); a
  call that prints knows where it goes on and with which result (`CallInv`).
  From the same invariant follows the refinement of `Lifecycle`, with one lemma per
  abstract step.
- **IrqProofs**: `AckedExactly` and `OnlyBiosLinesPanic`, for any devices, any mask left
  by the BIOS, with or without a serial port, and any number of requests. Assumed: line 2
  is the cascade and line 1 the keyboard. `BootInv` says what has been registered at each call of `main`, so that no
  vector is dispatched without gate; `PicInv` that no line is unmasked but by its driver;
  `StackInv` that a line's handler runs with interrupts off, on top of a system call at
  most, with exactly its line (and the cascade) in service until the EOI, or nothing if the
  local APIC sent it.
- **PagingTables** and **PagingProofs**: `FramesAccounted`, `GivesBackAll`, `MapsExactly`, `OnlyMemoryPanics`,
  for tables of any size, any three regions in the upper half that are apart (`RegionAssumption`)
  and any free lists without duplicates of frames from `kheap_start` on (`FrameAssumption`).
  `Apart` says that free frames, directories, live tables and the user page are different
  frames; `Complete` that the frames of the directory and the free ones are together those
  that were free when it was begun; `Mapping` what has been mapped at each iteration
  (`Built`), entry by entry, with the old contents of a new table cleared. A store into
  one table leaves the entries of every other unchanged only because the tables are
  apart, and what `freevm` frees is right only because of the mapping, so the five
  parts are proved together. In the loop that frees the tables an entry below `i` points
  to a frame that is free already; `Live` excludes it. The invariant and the lemmas
  on tables, regions and the free list are in the first module, the steps and the
  theorems in the second.
- **BootProofs**: `MemoryDivided`, `LinesRouted`, `FoundIsThere` and `WritesOnlyRequested`,
  for every machine: any list of the BIOS, in any order and with any overlaps, any number
  of lines of the I/O APIC and any contents of its table, any drive with any timing, and
  any requests for blocks. Assumed (`FirmwareAssumption`): the device space lies between
  KERNBASE and 4 GB, sector numbers have 28 bits, and the MADT fits `acpi_info`. The
  invariant has one part per piece of hardware, and each action disturbs one of them:
  - `MemInv`: the map the loader notes holds exactly the entries that count, in order,
    among those asked for, and the loop of `pmem_init` has met the first extended memory
    and the first candidate for the tables. On a tidy list (`Tidy`: sorted, no overlap,
    extended memory from 1 MB up to less than 4 GB, something reserved above 1 MB before
    memory above 4 GB) a reserved entry counts as a candidate only after the extended
    memory, hence lies above it, and nothing is cut by the conversion to 32 bits
    (`ScanDivides`). On any other list the regions may be anything, but
    `mappages` refuses a page twice, and that check decides whether the boot goes on
    (`PagingApart`): the regions it lets through are apart and do not wrap.
  - `IoInv`: the lines before the current one are masked with their own vectors, and none
    is unmasked before its handler is registered.
  - `IdeInv`: the drive gets no command before IDENTIFY and no other before its answer is
    looked at (`DetectInv`), so a status without BSY is that answer; the registers that
    `ide_start` has written so far stay written, since a drive that was ready does not
    get busy without a command (`WriteInv`), so the six of them name the block
    when the data follows. That they do is arithmetic on the 28 bits of the sector
    number (`SectorsNamed`).

Only model-checked: the liveness properties (fairness is out of the prover's
reach); `KeysInOrder`, which compares filtered sequences (`SelectSeq`) and would need an
induction over them; `TablesExact`, which compares what the loops collect with filtered
and concatenated tables, for the same reason; `Strings`, `Memmove` and `Console`, which use
recursive operators. `LockOwnership` and `OthersUntouched` are proved and have
no run of their own.

## 6. Not modelled

The switch to protected mode, the bytes the loader copies and the texts it prints; the
contents of descriptors; more entries in the MADT than `acpi_info` has room for, which
`MadtAssumption` excludes; BIOS entries that begin or end inside a page, which `mappages`
would round; spurious interrupts of the 8259s (a request is never withdrawn, so vectors 39
and 47 come only from their lines); the contents of the key tables, keys without a string
and the shift bytes some keyboards add to extended keys; the byte the serial interrupt handler echoes, and one
that arrives between the reads in `uartinit` that acknowledge older requests and the
unmasking of the line; `ide_soft_reset`, `getcallerpcs` and the stack trace,
`print_at`, `print_color`, `clear_screen` and `paging_get_paddr`, which nobody calls
or which only print. Several processors do not occur: nothing starts a second one.

## 7. Plan

Done: the modules above, in the order `Cpu`, `Spinlock`, `Kalloc`, `SysArgs`, `Proc`,
`Paging`, `Irq`, `Console`, `Strings`, `Memmove`, then `MemMap` to `Boot` and `Lifecycle`, and the
proofs of section 5. Left: `Paging` on top of `FrameAlloc` instead of its own list.
