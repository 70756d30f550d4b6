----------------------------- MODULE BootProofs -----------------------------
(***************************************************************************)
(* What the boot leaves behind, proved for every machine that meets the    *)
(* assumptions of Boot: the memory it divides, the lines of the I/O APIC   *)
(* it routes, the drive it finds and the sectors it writes.                *)
(***************************************************************************)
EXTENDS Boot, TLAPS

-----------------------------------------------------------------------------
(***************************************************************************)
(* The inductive invariant.                                                *)
(***************************************************************************)
IdePcs ==
    {"ide_init", "ide_select", "ide_identify", "ide_exists", "ide_poll",
     "ide_signature", "ide_insl", "ide_start", "ide_wait", "ide_program", "ide_outsl"}

Pcs == BeforeSerial \cup {"uartinit", "uartputc", "cpu_init"} \cup IdePcs
       \cup {"run", "stopped"}

(* The memory map.  What is noted is what counts of the entries asked for, *)
(* in their order; the loop of pmem_init has met the first of each kind    *)
(* among the entries it has seen.                                          *)

Pages == 0..(Top - 1)

Pmem ==
    [i : Nat, extmem : Nat, entry : Nat, acpi : Pages, acpi_len : Pages, phys_end : Pages]

MemType ==
    /\ e820 \in [calls : Nat, map : Seq(Stretch), cnt : Nat]
    /\ pmem \in Pmem

\* The map holds nothing but entries that count, of the first n.
OnlyNoted(map, n) ==
    \A k \in 1..Len(map) : \E i \in 1..n : Counts(bios.entries[i]) /\ map[k] = bios.entries[i]

\* ... and all of them.
AllNoted(map, n) ==
    \A i \in 1..n : Counts(bios.entries[i]) => \E k \in 1..Len(map) : map[k] = bios.entries[i]

Increasing(map) ==
    \A j, k \in 1..Len(map) : j < k => map[j].base + map[j].len <= map[k].base

MapInv ==
    /\ OnlyNoted(e820.map, e820.calls)
    /\ Tidy(bios.entries) => Increasing(e820.map)
    /\ e820.calls <= Len(bios.entries)
    /\ pc \in {"load_stage2", "e820_start"} => e820 = [calls |-> 0, map |-> <<>>, cnt |-> 0]
    /\ pc = "e820_lp" => e820.cnt = 0 /\ AllNoted(e820.map, e820.calls)
    /\ e820.cnt # 0 =>
          /\ e820.cnt = Len(e820.map) /\ e820.calls = Len(bios.entries)
          /\ AllNoted(e820.map, e820.calls)

BeforeScan ==
    {"load_stage2", "e820_start", "e820_lp", "load_kernel", "copy_extmem", "pmem_init"}

FirstExtended(map, n, extmem) ==
    /\ extmem = 0 => \A k \in 1..n : ~Extended(map[k])
    /\ extmem # 0 => /\ extmem \in 1..n /\ Extended(map[extmem])
                     /\ \A k \in 1..n : Extended(map[k]) => extmem <= k

\* Entry k could be the one for the ACPI tables when the loop came to it.
Candidate(map, k, extmem) ==
    \/ map[k].type = "ACPI"
    \/ map[k].type = "RESERVED" /\ extmem # 0 /\ extmem < k

FirstCandidate(map, n, extmem, entry) ==
    /\ entry = 0 => \A k \in 1..n : ~Candidate(map, k, extmem)
    /\ entry # 0 => /\ entry \in 1..n /\ Candidate(map, entry, extmem)
                    /\ \A k \in 1..n : Candidate(map, k, extmem) => entry <= k

ScanInv ==
    /\ pc \in BeforeScan =>
          pmem.i = 0 /\ pmem.extmem = 0 /\ pmem.entry = 0 /\ pmem.phys_end = 0
    /\ pc = "pmem_entry" =>
          /\ e820.cnt # 0 /\ pmem.i <= e820.cnt /\ pmem.phys_end = 0
          /\ FirstExtended(e820.map, pmem.i, pmem.extmem)
          /\ FirstCandidate(e820.map, pmem.i, pmem.extmem, pmem.entry)
          /\ pmem.entry # 0 => pmem.acpi_len = e820.map[pmem.entry].len % Top

MemInv == MemType /\ MapInv /\ ScanInv /\ TidyDivided /\ RegionsApart

(* The redirection table.  The lines before the current one are set, and   *)
(* only uartinit unmasks one.                                              *)

Masked(i) == [masked |-> TRUE, vector |-> IDT_IRQ_BASE + i, dest |-> 0]

Enabled(i) == [masked |-> FALSE, vector |-> IDT_IRQ_BASE + i, dest |-> 0]

IoInv ==
    /\ DOMAIN redir = 0..machine.ioapic.maxintr /\ line \in Nat
    /\ uart \in [there : BOOLEAN, thr : BOOLEAN, p : Nat, i : Nat]
    /\ uart.there => pc \notin BeforeSerial \cup {"uartinit"}
    /\ pc \in BeforeSerial \ {"ioapic_line"} => line = 0
    /\ pc = "ioapic_line" => \A i \in DOMAIN redir : i < line => redir[i] = Masked(i)
    /\ uart.there => IDT_IRQ_BASE + IDT_IRQ_COM1 \in isr
    /\ uart.there \/ pc \notin BeforeSerial \cup {"stopped"} =>
          \A i \in DOMAIN redir :
              \/ redir[i] = Masked(i)
              \/ uart.there /\ i = IDT_IRQ_COM1 /\ redir[i] = Enabled(i)

(* The drive and the driver.  The first command the drive gets is IDENTIFY *)
(* and it gets no other before its answer is looked at (DetectInv); what   *)
(* ide_start has written into the registers of a drive that was ready is   *)
(* still there when the data follows (WriteInv).                           *)

Phases == {"idle", "busy", "error", "dataIn", "dataOut"}

Regs == {"control", "sectors", "lo", "mi", "hi", "select"}

Driver ==
    [b : {NoBlock} \cup AllRequests, i : Nat, k : Nat \ {0}, ready : BOOLEAN,
     status : SUBSET AllBits, found : BOOLEAN, model : {"none", "described", "junk"}]

Disk ==
    [phase : Phases, cmd : {"none", "IDFY", "RDMUL", "WRMUL", "store"}, intrq : BOOLEAN,
     regs : [Regs -> Nat]]

IdeType ==
    ide \in Driver /\ disk \in Disk /\ (disk.phase = "busy" => disk.cmd # "none")

BeforeIdentify ==
    BeforeSerial \cup {"uartinit", "uartputc", "cpu_init", "ide_init", "ide_select",
                       "ide_identify"}

Detecting == {"ide_exists", "ide_poll", "ide_signature", "ide_insl"}

There == drive.kind \in {"pata", "atapi"}

DetectInv ==
    /\ pc \in BeforeIdentify => disk.phase = "idle"
    /\ ide.found => pc \in {"ide_start", "ide_wait", "ide_program", "ide_outsl", "run", "stopped"}
    /\ pc \in Detecting /\ There =>
          \/ disk.phase = "busy" /\ disk.cmd = "IDFY"
          \/ disk.phase = Answer("IDFY")
    /\ pc \in Detecting \ {"ide_exists"} => drive.kind # "none"
    /\ pc \in {"ide_signature", "ide_insl"} /\ There /\ ide.status \cap {"BSY", "ERR"} = {} =>
          disk.phase = "dataIn" /\ drive.kind = "pata" /\ ~drive.fails
    /\ pc = "ide_insl" => drive.kind # "floating" /\ "ERR" \notin ide.status

\* The first n registers ide_start writes for the block b have their values.
Written(regs, b, n) ==
    \A j \in 1..n : regs[BlockRegs(b)[j][1]] = BlockRegs(b)[j][2]

Asked(b) == b = FirstBlock \/ b \in machine.requests

WriteInv ==
    /\ pc \in {"ide_start", "ide_wait", "ide_program", "ide_outsl"} => Asked(ide.b)
    /\ pc \in {"ide_wait", "ide_program", "ide_outsl"} => ide.b.block_no < FSSIZE
    /\ pc = "ide_program" =>
          /\ ide.k \in 1..7
          /\ ide.ready => /\ There /\ disk.phase # "busy"
                          /\ Written(disk.regs, ide.b, ide.k - 1)
    /\ pc = "ide_outsl" =>
          /\ ide.b.dirty
          /\ ide.ready => /\ disk.phase = "busy" => disk.cmd = "WRMUL"
                          /\ Written(disk.regs, ide.b, 6)

IdeInv == IdeType /\ DetectInv /\ WriteInv /\ FoundIsThere /\ WritesOnlyRequested

IInv ==
    /\ machine \in Machines /\ pc \in Pcs
    /\ MemInv /\ IoInv /\ IdeInv

-----------------------------------------------------------------------------
(* The memory map.                                                         *)

\* The list of the machine at hand.
LEMMA ListFacts ==
    ASSUME machine \in Machines
    PROVE  bios.entries \in Seq(Stretch) /\ Len(bios.entries) >= 1
  <1>1. bios.entries \in Seq(Stretch) /\ bios.entries # <<>>
    BY FirmwareAssumption, Zenon DEF MachineAssumption, bios
  <1> QED
    BY <1>1

\* What it means for it to be tidy.
LEMMA TidyFacts ==
    ASSUME machine \in Machines, Tidy(bios.entries)
    PROVE  /\ \A i, j \in 1..Len(bios.entries) :
                 Counts(bios.entries[i]) /\ Counts(bios.entries[j]) /\ i < j =>
                     bios.entries[i].base + bios.entries[i].len <= bios.entries[j].base
           /\ \A i \in 1..Len(bios.entries) :
                 /\ Counts(bios.entries[i]) /\ Extended(bios.entries[i])
                 /\ \A j \in 1..Len(bios.entries) :
                       Counts(bios.entries[j]) /\ Extended(bios.entries[j]) => i <= j
                 => /\ bios.entries[i].base = ExtPage
                    /\ bios.entries[i].base + bios.entries[i].len < Top
           /\ \A i \in 1..Len(bios.entries) : Counts(bios.entries[i]) =>
                 /\ bios.entries[i].type = "ACPI" => bios.entries[i].base >= ExtPage
                 /\ bios.entries[i].base < Top =>
                       bios.entries[i].base + bios.entries[i].len <= Top
                 /\ bios.entries[i].base >= Top =>
                       \E j \in 1..Len(bios.entries) :
                          /\ Counts(bios.entries[j]) /\ j < i
                          /\ bios.entries[j].type \in {"ACPI", "RESERVED"}
                          /\ bios.entries[j].base \in ExtPage..(Top - 1)
  <1> DEFINE map == bios.entries
  <1>2. DOMAIN map = 1..Len(map)
    BY ListFacts
  <1> DEFINE good  == {i \in DOMAIN map : Counts(map[i])}
             ext   == {i \in good : Extended(map[i])}
             saved == {i \in good : /\ map[i].type \in {"ACPI", "RESERVED"}
                                    /\ map[i].base \in ExtPage..(Top - 1)}
  <1>3. /\ \A i, j \in good : i < j => map[i].base + map[i].len <= map[j].base
        /\ \A i \in ext : (\A j \in ext : i <= j) =>
              map[i].base = ExtPage /\ map[i].base + map[i].len < Top
        /\ \A i \in good :
              /\ map[i].type = "ACPI" => map[i].base >= ExtPage
              /\ map[i].base < Top => map[i].base + map[i].len <= Top
              /\ map[i].base >= Top => \E j \in saved : j < i
    BY Zenon DEF Tidy
  <1> HIDE DEF map
  <1>4. /\ \A i \in 1..Len(map) : Counts(map[i]) <=> i \in good
        /\ \A i \in 1..Len(map) : Counts(map[i]) /\ Extended(map[i]) <=> i \in ext
        /\ \A i \in saved : i \in 1..Len(map) /\ Counts(map[i])
                            /\ map[i].type \in {"ACPI", "RESERVED"}
                            /\ map[i].base \in ExtPage..(Top - 1)
        /\ \A i \in ext : i \in 1..Len(map)
    BY <1>2, Zenon
  <1> HIDE DEF good, ext, saved
  <1>5. \A i \in 1..Len(map) :
           /\ Counts(map[i]) /\ Extended(map[i])
           /\ \A j \in 1..Len(map) : Counts(map[j]) /\ Extended(map[j]) => i <= j
           => map[i].base = ExtPage /\ map[i].base + map[i].len < Top
    BY <1>3, <1>4, Zenon
  <1>6. \A i \in 1..Len(map) : Counts(map[i]) =>
           /\ map[i].type = "ACPI" => map[i].base >= ExtPage
           /\ map[i].base < Top => map[i].base + map[i].len <= Top
           /\ map[i].base >= Top =>
                 \E j \in 1..Len(map) : /\ Counts(map[j]) /\ j < i
                                        /\ map[j].type \in {"ACPI", "RESERVED"}
                                        /\ map[j].base \in ExtPage..(Top - 1)
    BY <1>3, <1>4, Zenon
  <1>7. \A i, j \in 1..Len(map) : Counts(map[i]) /\ Counts(map[j]) /\ i < j =>
           map[i].base + map[i].len <= map[j].base
    BY <1>3, <1>4, Zenon
  <1> QED
    BY <1>5, <1>6, <1>7, Zenon DEF map

\* Noting the next entry keeps the map exact, and in order if the list is tidy.
LEMMA NotedExact ==
    ASSUME machine \in Machines, NEW map \in Seq(Stretch), NEW n \in Nat,
           n < Len(bios.entries),
           OnlyNoted(map, n), AllNoted(map, n), Tidy(bios.entries) => Increasing(map),
           NEW new, new = Noted(map, bios.entries[n + 1])
    PROVE  /\ new \in Seq(Stretch)
           /\ OnlyNoted(new, n + 1) /\ AllNoted(new, n + 1)
           /\ Tidy(bios.entries) => Increasing(new)
  <1> DEFINE e == bios.entries[n + 1]
  <1>1. n + 1 \in 1..Len(bios.entries) /\ e \in Stretch
    BY ListFacts
  <1>2. CASE ~Counts(e)
    <2>1. new = map
      BY <1>2, Zenon DEF Noted
    <2>2. OnlyNoted(map, n + 1)
      BY DEF OnlyNoted
    <2>3. AllNoted(map, n + 1)
      <3>1. \A i \in 1..(n + 1) : i \in 1..n \/ i = n + 1
        OBVIOUS
      <3> QED
        BY <1>2, <3>1, Zenon DEF AllNoted
    <2> QED
      BY <2>1, <2>2, <2>3
  <1>3. CASE Counts(e)
    <2>1. new = Append(map, e)
      BY <1>3 DEF Noted
    <2>2. /\ new \in Seq(Stretch) /\ Len(new) = Len(map) + 1 /\ new[Len(map) + 1] = e
          /\ \A k \in 1..Len(map) : new[k] = map[k]
      BY <1>1, <2>1
    <2> HIDE DEF e
    <2>3. /\ \A k \in 1..Len(new) : k \in 1..Len(map) \/ k = Len(map) + 1
          /\ \A k \in 1..Len(map) : k \in 1..Len(new)
          /\ Len(map) + 1 \in 1..Len(new) /\ n + 1 \in 1..(n + 1)
          /\ \A i \in 1..(n + 1) : i \in 1..n \/ i = n + 1
          /\ \A i \in 1..n : i \in 1..(n + 1)
      BY <2>2
    <2>4. OnlyNoted(new, n + 1)
      <3> SUFFICES ASSUME NEW k \in 1..Len(new)
                   PROVE  \E i \in 1..(n + 1) : Counts(bios.entries[i]) /\ new[k] = bios.entries[i]
        BY Zenon DEF OnlyNoted
      <3>1. CASE k \in 1..Len(map)
        <4>1. PICK i \in 1..n : Counts(bios.entries[i]) /\ map[k] = bios.entries[i]
          BY <3>1, Zenon DEF OnlyNoted
        <4> QED
          BY <2>2, <2>3, <3>1, <4>1, Zenon
      <3>2. CASE k = Len(map) + 1
        BY <1>3, <2>2, <2>3, <3>2, Zenon DEF e
      <3> QED
        BY <2>3, <3>1, <3>2, Zenon
    <2>5. AllNoted(new, n + 1)
      <3> SUFFICES ASSUME NEW i \in 1..(n + 1), Counts(bios.entries[i])
                   PROVE  \E k \in 1..Len(new) : new[k] = bios.entries[i]
        BY Zenon DEF AllNoted
      <3>1. CASE i \in 1..n
        <4>1. PICK k \in 1..Len(map) : map[k] = bios.entries[i]
          BY <3>1, Zenon DEF AllNoted
        <4> QED
          BY <2>2, <2>3, <4>1, Zenon
      <3>2. CASE i = n + 1
        BY <2>2, <2>3, <3>2, Zenon DEF e
      <3> QED
        BY <2>3, <3>1, <3>2, Zenon
    <2>6. ASSUME Tidy(bios.entries), NEW k \in 1..Len(map)
          PROVE  map[k].base + map[k].len <= e.base
      <3>1. PICK i \in 1..n : Counts(bios.entries[i]) /\ map[k] = bios.entries[i]
        BY Zenon DEF OnlyNoted
      <3>2. i \in 1..Len(bios.entries) /\ i < n + 1
        BY <1>1
      <3> QED
        BY <1>1, <1>3, <2>6, <3>1, <3>2, TidyFacts, Zenon DEF e
    <2>7. Tidy(bios.entries) => Increasing(new)
      <3> SUFFICES ASSUME Tidy(bios.entries),
                          NEW j \in 1..Len(new), NEW k \in 1..Len(new), j < k
                   PROVE  new[j].base + new[j].len <= new[k].base
        BY Zenon DEF Increasing
      <3>1. j \in 1..Len(map) /\ (k \in 1..Len(map) \/ k = Len(map) + 1)
        BY <2>2
      <3> QED
        BY <2>2, <2>6, <3>1, Zenon DEF Increasing
    <2> QED
      BY <2>2, <2>4, <2>5, <2>7, Zenon
  <1> QED
    BY <1>2, <1>3, Zenon

\* A round of the loop of pmem_init keeps track of the first extended memory.
LEMMA ExtendedRound ==
    ASSUME NEW map, NEW n \in Nat, NEW extmem \in Nat, FirstExtended(map, n, extmem),
           NEW ext, ext = IF extmem = 0 /\ Extended(map[n + 1]) THEN n + 1 ELSE extmem
    PROVE  ext \in Nat /\ FirstExtended(map, n + 1, ext)
  <1>1. \A k \in 1..(n + 1) : k \in 1..n \/ k = n + 1
    OBVIOUS
  <1>2. \A k \in 1..n : k <= n + 1 /\ k \in 1..(n + 1) /\ ~(n + 1 <= k)
    OBVIOUS
  <1>3. CASE extmem = 0 /\ Extended(map[n + 1])
    <2>1. ext = n + 1 /\ n + 1 \in 1..(n + 1) /\ n + 1 # 0 /\ n + 1 <= n + 1 /\ n + 1 \in Nat
      BY <1>3
    <2>2. \A k \in 1..n : ~Extended(map[k])
      BY <1>3, Zenon DEF FirstExtended
    <2> QED
      BY <1>1, <1>3, <2>1, <2>2, Zenon DEF FirstExtended
  <1>4. CASE extmem = 0 /\ ~Extended(map[n + 1])
    <2>1. ext = 0
      BY <1>4, Zenon
    <2> QED
      BY <1>1, <1>4, <2>1, Zenon DEF FirstExtended
  <1>5. CASE extmem # 0
    <2>1. ext = extmem /\ extmem \in 1..n /\ extmem <= n + 1 /\ extmem \in 1..(n + 1)
      BY <1>5 DEF FirstExtended
    <2> QED
      BY <1>1, <1>5, <2>1, Zenon DEF FirstExtended
  <1> QED
    BY <1>3, <1>4, <1>5

\* ... and of the first entry for the ACPI tables: whether an earlier entry
\* could have been it does not change when the extended memory is met.
LEMMA CandidateRound ==
    ASSUME NEW map, NEW n \in Nat, NEW extmem \in Nat, NEW entry \in Nat,
           FirstExtended(map, n, extmem), FirstCandidate(map, n, extmem, entry),
           NEW ext, ext = IF extmem = 0 /\ Extended(map[n + 1]) THEN n + 1 ELSE extmem,
           NEW first, first = IF entry = 0 /\ AcpiCandidate(map[n + 1], ext)
                              THEN n + 1 ELSE entry
    PROVE  first \in Nat /\ FirstCandidate(map, n + 1, ext, first)
  <1>1. /\ \A k \in 1..(n + 1) : k \in 1..n \/ k = n + 1
        /\ \A k \in 1..n : k <= n + 1 /\ k \in 1..(n + 1) /\ ~(n + 1 < k)
        /\ n + 1 \in 1..(n + 1) /\ n + 1 # 0 /\ n + 1 <= n + 1 /\ n + 1 \in Nat
    OBVIOUS
  <1>2. \A k \in 1..n : Candidate(map, k, ext) <=> Candidate(map, k, extmem)
    <2> SUFFICES ASSUME NEW k \in 1..n
                 PROVE  Candidate(map, k, ext) <=> Candidate(map, k, extmem)
      BY Zenon
    <2>1. CASE extmem = 0 /\ Extended(map[n + 1])
      BY <1>1, <2>1 DEF Candidate
    <2>2. CASE ~(extmem = 0 /\ Extended(map[n + 1]))
      BY <2>2, Zenon
    <2> QED
      BY <2>1, <2>2, Zenon
  <1>3. Candidate(map, n + 1, ext) <=> AcpiCandidate(map[n + 1], ext)
    <2>1. map[n + 1].type = "RESERVED" => ~Extended(map[n + 1])
      BY DEF Extended
    <2>2. map[n + 1].type = "RESERVED" /\ ext # 0 => ext < n + 1
      <3> SUFFICES ASSUME map[n + 1].type = "RESERVED", ext # 0 PROVE ext < n + 1
        BY Zenon
      <3>1. ext = extmem /\ extmem # 0
        BY <2>1, Zenon
      <3>2. extmem \in 1..n
        BY <3>1, Zenon DEF FirstExtended
      <3> QED
        BY <3>1, <3>2
    <2> QED
      BY <2>2, Zenon DEF Candidate, AcpiCandidate
  <1>4. CASE entry # 0
    <2>1. first = entry /\ entry \in 1..n
      BY <1>4 DEF FirstCandidate
    <2> QED
      BY <1>1, <1>2, <1>4, <2>1, Zenon DEF FirstCandidate
  <1>5. CASE entry = 0 /\ AcpiCandidate(map[n + 1], ext)
    <2>1. first = n + 1
      BY <1>5
    <2>2. \A k \in 1..n : ~Candidate(map, k, ext)
      BY <1>2, <1>5, Zenon DEF FirstCandidate
    <2> QED
      BY <1>1, <1>3, <1>5, <2>1, <2>2, Zenon DEF FirstCandidate
  <1>6. CASE entry = 0 /\ ~AcpiCandidate(map[n + 1], ext)
    <2>1. first = 0
      BY <1>6
    <2>2. \A k \in 1..(n + 1) : ~Candidate(map, k, ext)
      BY <1>1, <1>2, <1>3, <1>6, Zenon DEF FirstCandidate
    <2> QED
      BY <2>1, <2>2, Zenon DEF FirstCandidate
  <1> QED
    BY <1>4, <1>5, <1>6, Zenon

\* A number below 2^32 survives the conversion to 32 bits.
LEMMA SmallMod ==
    ASSUME NEW n \in Nat, NEW m \in Nat, n < m
    PROVE  n % m = n
  OBVIOUS

\* The conversion gives a page of the 32-bit address space.
LEMMA CutToPages == \A n \in Nat : n % Top \in Pages
  BY FirmwareAssumption DEF SizeAssumption, Pages

\* Of two stretches that are not empty only one can be below the other.
LEMMA NotBothBelow ==
    ASSUME NEW a \in Nat, NEW b \in Nat, NEW c \in Nat, NEW d \in Nat, b > 0,
           a + b <= c, c + d <= a
    PROVE  FALSE
  OBVIOUS

\* Entry x is the extended memory and entry y a stretch above it without RAM.
Divided(map, x, y) ==
    /\ map[x] \in Stretches /\ map[y] \in Stretches
    /\ map[x].type = "RAM" /\ map[x].base = ExtPage
    /\ map[x].base + map[x].len < Top
    /\ map[y].type \in {"ACPI", "RESERVED"}
    /\ map[y].base >= map[x].base + map[x].len /\ map[y].base < Top
    /\ map[y].base + map[y].len <= Top
    /\ \A e \in Stretches : e.type = "RAM" =>
          e.base + e.len <= map[y].base \/ e.base >= map[y].base + map[y].len

\* When the loop is over, the first extended memory starts at 1 MB, and the
\* first candidate after it is a stretch above it without RAM.
LEMMA ScanDivides ==
    ASSUME machine \in Machines, Tidy(bios.entries), NEW map \in Seq(Stretch),
           OnlyNoted(map, Len(bios.entries)), AllNoted(map, Len(bios.entries)),
           Increasing(map),
           NEW x \in 1..Len(map), FirstExtended(map, Len(map), x),
           NEW y \in 1..Len(map), FirstCandidate(map, Len(map), x, y)
    PROVE  Divided(map, x, y)
  <1> DEFINE E == bios.entries
             L == Len(bios.entries)
  <1>1. /\ E \in Seq(Stretch) /\ L \in Nat
        /\ \A i, j \in 1..L : Counts(E[i]) /\ Counts(E[j]) /\ i < j =>
              E[i].base + E[i].len <= E[j].base
    BY ListFacts, TidyFacts
  <1>2. \A k \in 1..Len(map) : \E i \in 1..L : Counts(E[i]) /\ map[k] = E[i]
    BY Zenon DEF OnlyNoted
  <1>3. \A i \in 1..L : Counts(E[i]) => \E k \in 1..Len(map) : map[k] = E[i]
    BY Zenon DEF AllNoted
  <1>4. \A j, k \in 1..Len(map) : j < k => map[j].base + map[j].len <= map[k].base
    BY Zenon DEF Increasing
  <1>5. \A k \in 1..Len(map) :
           map[k].base \in Nat /\ map[k].len \in Nat /\ map[k].len # 0 /\ map[k].len > 0
    <2> SUFFICES ASSUME NEW k \in 1..Len(map)
                 PROVE  map[k].base \in Nat /\ map[k].len \in Nat /\ map[k].len # 0
                        /\ map[k].len > 0
      OBVIOUS
    <2>1. map[k] \in Stretch
      OBVIOUS
    <2>2. map[k].base \in Nat /\ map[k].len \in Nat
      BY <2>1, Zenon DEF Stretch
    <2>3. map[k].len # 0
      BY <1>2, Zenon DEF Counts
    <2> QED
      BY <2>2, <2>3
  <1>6. \A k \in 1..Len(map) : map[k] \in Stretches
    <2>1. DOMAIN E = 1..L
      BY <1>1
    <2> QED
      BY <1>2, <2>1, Zenon DEF Stretches
  <1>7. \A j, k \in 1..Len(map) : map[j].base + map[j].len <= map[k].base => j < k
    <2> SUFFICES ASSUME NEW j \in 1..Len(map), NEW k \in 1..Len(map),
                        map[j].base + map[j].len <= map[k].base, k <= j
                 PROVE  FALSE
      OBVIOUS
    <2>1. CASE j = k
      <3>1. map[j].base \in Nat /\ map[j].len \in Nat /\ map[j].len > 0
        BY <1>5, Zenon
      <3>2. map[j].base + map[j].len <= map[j].base
        BY <2>1, Zenon
      <3> QED
        BY <3>1, <3>2
    <2>2. CASE k < j
      <3>1. map[k].base + map[k].len <= map[j].base
        BY <1>4, <2>2, Zenon
      <3>2. /\ map[j].base \in Nat /\ map[j].len \in Nat /\ map[j].len > 0
            /\ map[k].base \in Nat /\ map[k].len \in Nat /\ map[k].len > 0
        BY <1>5
      <3> QED
        BY <3>1, <3>2, NotBothBelow, Zenon
    <2> QED
      BY <2>1, <2>2
  <1>8. /\ Extended(map[x]) /\ \A k \in 1..Len(map) : Extended(map[k]) => x <= k
        /\ Candidate(map, y, x) /\ \A k \in 1..Len(map) : Candidate(map, k, x) => y <= k
    <2>1. x # 0 /\ y # 0
      OBVIOUS
    <2> QED
      BY <2>1, Zenon DEF FirstExtended, FirstCandidate
  <1>9. map[x].type = "RAM" /\ map[x].base = ExtPage /\ map[x].base + map[x].len < Top
    <2>1. PICK i \in 1..L : Counts(E[i]) /\ map[x] = E[i]
      BY <1>2, Zenon
    <2>2. \A j \in 1..L : Counts(E[j]) /\ Extended(E[j]) => i <= j
      <3> SUFFICES ASSUME NEW j \in 1..L, Counts(E[j]), Extended(E[j]), j < i
                   PROVE  FALSE
        BY <1>1
      <3>1. PICK k \in 1..Len(map) : map[k] = E[j]
        BY <1>3, Zenon
      <3>2. x <= k
        BY <1>8, <3>1, Zenon
      <3>3. map[k].base + map[k].len <= map[x].base
        BY <1>1, <2>1, <3>1
      <3> QED
        BY <1>7, <3>2, <3>3
    <2>3. Extended(E[i])
      BY <1>8, <2>1
    <2> QED
      BY <1>8, <2>1, <2>2, <2>3, TidyFacts, Zenon DEF Extended
  <1>10. \A k \in 1..Len(map) : map[k].base >= ExtPage /\ k # x => x < k
    <2> SUFFICES ASSUME NEW k \in 1..Len(map), map[k].base >= ExtPage, k < x PROVE FALSE
      OBVIOUS
    <2>1. map[k].base + map[k].len <= map[x].base
      BY <1>4, Zenon
    <2>2. map[k].base \in Nat /\ map[k].len \in Nat /\ map[k].len > 0
      BY <1>5
    <2>3. map[x].base = ExtPage /\ ExtPage \in Nat
      BY <1>9, FirmwareAssumption DEF SizeAssumption
    <2> QED
      BY <2>1, <2>2, <2>3
  <1>11. map[y].type \in {"ACPI", "RESERVED"} /\ x < y
    <2>1. CASE map[y].type = "ACPI"
      <3>1. map[y].base >= ExtPage
        BY <1>2, <2>1, TidyFacts, Zenon
      <3>2. y # x
        BY <1>9, <2>1, Zenon
      <3> QED
        BY <1>10, <2>1, <3>1, <3>2
    <2>2. CASE map[y].type # "ACPI"
      BY <1>8, <2>2, Zenon DEF Candidate
    <2> QED
      BY <2>1, <2>2
  <1>12. map[y].base >= map[x].base + map[x].len
    <2>1. map[x].base + map[x].len <= map[y].base
      BY <1>4, <1>11, Zenon
    <2>2. map[x].base \in Nat /\ map[x].len \in Nat /\ map[y].base \in Nat
      BY <1>5, Zenon
    <2> QED
      BY <2>1, <2>2, Zenon
  <1>13. map[y].base < Top
    <2> SUFFICES ASSUME map[y].base >= Top PROVE FALSE
      BY <1>5, FirmwareAssumption DEF SizeAssumption
    <2>1. PICK i \in 1..L : Counts(E[i]) /\ map[y] = E[i]
      BY <1>2, Zenon
    <2>2. PICK j \in 1..L : /\ Counts(E[j]) /\ j < i /\ E[j].type \in {"ACPI", "RESERVED"}
                            /\ E[j].base \in ExtPage..(Top - 1)
      BY <2>1, TidyFacts, Zenon
    <2>3. PICK k \in 1..Len(map) : map[k] = E[j]
      BY <1>3, <2>2, Zenon
    <2>4. k < y
      <3>1. E[j].base + E[j].len <= E[i].base
        BY <1>1, <2>1, <2>2, Zenon
      <3>2. map[k].base + map[k].len <= map[y].base
        BY <2>1, <2>3, <3>1, Zenon
      <3> QED
        BY <1>7, <3>2, Zenon
    <2>5. x < k
      <3>1. k # x
        BY <1>9, <2>2, <2>3, Zenon
      <3>2. map[k].base >= ExtPage
        BY <1>9, <2>2, <2>3, FirmwareAssumption DEF SizeAssumption
      <3> QED
        BY <1>10, <3>1, <3>2, Zenon
    <2>6. Candidate(map, k, x)
      BY <2>2, <2>3, <2>5 DEF Candidate
    <2> QED
      BY <1>8, <2>4, <2>6
  <1>14. map[y].base + map[y].len <= Top
    BY <1>2, <1>13, TidyFacts, Zenon
  <1>15. \A e \in Stretches : e.type = "RAM" =>
            e.base + e.len <= map[y].base \/ e.base >= map[y].base + map[y].len
    <2> SUFFICES ASSUME NEW e \in Stretches, e.type = "RAM"
                 PROVE  e.base + e.len <= map[y].base \/ e.base >= map[y].base + map[y].len
      BY Zenon
    <2>1. PICK i \in 1..L : Counts(E[i]) /\ e = E[i]
      BY <1>1 DEF Stretches
    <2>2. PICK k \in 1..Len(map) : map[k] = e
      BY <1>3, <2>1, Zenon
    <2>3. k # y
      BY <1>11, <2>2, Zenon
    <2>4. k < y \/ y < k
      BY <2>3
    <2>5. CASE k < y
      BY <1>4, <2>2, <2>5, Zenon
    <2>6. CASE y < k
      <3>1. map[y].base + map[y].len <= e.base
        BY <1>4, <2>2, <2>6, Zenon
      <3>2. /\ map[y].base \in Nat /\ map[y].len \in Nat /\ e.base \in Nat
        BY <1>5, <2>2, Zenon
      <3> QED
        BY <3>1, <3>2, Zenon
    <2> QED
      BY <2>4, <2>5, <2>6, Zenon
  <1> QED
    BY <1>6, <1>9, <1>11, <1>12, <1>13, <1>14, <1>15, Zenon DEF Divided

\* The stretches of the BIOS map only depend on the machine.
LEMMA StretchesKept ==
    ASSUME machine' = machine
    PROVE  Stretches' = Stretches
  BY Zenon DEF Stretches, bios

\* Before paging_init has returned the regions do not matter yet ...
LEMMA ApartLater ==
    ASSUME pc' \in BeforeScan \cup {"pmem_entry", "paging_init", "stopped"}
    PROVE  RegionsApart'
  BY Zenon DEF RegionsApart, BeforePaging, BeforeScan

\* ... and afterwards they stay.
LEMMA ApartKept ==
    ASSUME IInv, pmem' = pmem,
           pc' = pc \/ pc' = "stopped" \/ pc \notin BeforePaging \cup {"stopped"}
    PROVE  RegionsApart'
  BY Zenon DEF IInv, MemInv, RegionsApart

\* paging_init goes on only if no region reaches into another: the page tables
\* would be set up for the same page twice.
LEMMA PagingApart ==
    ASSUME IInv, paging_init, pmem' = pmem
    PROVE  RegionsApart'
  <1>1. CASE pc' = "stopped"
    BY <1>1, ApartLater, Zenon
  <1>2. CASE pc' # "stopped"
    <2>1. /\ Apart(KernelRegion, AcpiRegion)
          /\ Apart(KernelRegion, DevRegion) /\ Apart(AcpiRegion, DevRegion)
      BY <1>2, Zenon DEF paging_init, Goto, Stop
    <2>2. PICK at \in Nat, len \in Nat, end \in Nat :
             /\ at = pmem.acpi /\ len = pmem.acpi_len /\ end = pmem.phys_end
             /\ at < Top /\ len < Top /\ end < Top
      <3>1. pmem.acpi \in Pages /\ pmem.acpi_len \in Pages /\ pmem.phys_end \in Pages
        BY Zenon DEF IInv, MemInv, MemType, Pmem
      <3> QED
        BY <3>1, FirmwareAssumption DEF Pages, SizeAssumption
    <2>3. /\ Top \in Nat /\ KernBase \in Nat \ {0} /\ DevSpace \in Nat /\ KernBase < DevSpace
          /\ DevPages \in Nat \ {0} /\ DevSpace + DevPages <= Top
      BY FirmwareAssumption DEF SizeAssumption
    <2> DEFINE k == IF end = 0 THEN Top ELSE end
               n == IF len = 0 THEN Top ELSE len
               a == Wrap(at + KernBase)
    <2>4. /\ ~(Wrap(KernBase - a) < n) /\ ~(Wrap(a - KernBase) < k)
          /\ ~(Wrap(KernBase - DevSpace) < DevPages) /\ ~(Wrap(DevSpace - KernBase) < k)
          /\ ~(Wrap(a - DevSpace) < DevPages) /\ ~(Wrap(DevSpace - a) < n)
      BY <2>1, <2>2, <2>3 DEF Apart, InRegion, KernelRegion, AcpiRegion, DevRegion, Region, P2V
    <2>5. Wrap(a - KernBase) = at
      BY <2>2, <2>3 DEF Wrap
    <2>6. end # 0 /\ end <= at
      BY <2>2, <2>3, <2>4, <2>5
    <2>7. Wrap(KernBase - a) = Top - at
      BY <2>2, <2>3, <2>6 DEF Wrap
    <2>8. len # 0 /\ at + len <= Top
      BY <2>2, <2>3, <2>4, <2>6, <2>7
    <2>9. end <= DevSpace - KernBase
      BY <2>2, <2>3, <2>4, <2>6 DEF Wrap
    <2>10. at + len <= DevSpace - KernBase \/ DevSpace - KernBase + DevPages <= at
      BY <2>2, <2>3, <2>4, <2>6, <2>8 DEF Wrap
    <2> HIDE DEF k, n, a
    <2>11. /\ pmem.phys_end \in 1..(DevSpace - KernBase) /\ pmem.phys_end <= pmem.acpi
           /\ pmem.acpi < pmem.acpi + pmem.acpi_len /\ pmem.acpi + pmem.acpi_len <= Top
           /\ \/ pmem.acpi + pmem.acpi_len <= DevSpace - KernBase
              \/ DevSpace - KernBase + DevPages <= pmem.acpi
      BY <2>2, <2>3, <2>6, <2>8, <2>9, <2>10
    <2> QED
      BY <2>11, Zenon DEF RegionsApart
  <1> QED
    BY <1>1, <1>2

\* A step that leaves the map and the loop of pmem_init alone.
LEMMA MemKept ==
    ASSUME IInv, machine' = machine, e820' = e820, pmem' = pmem, pc' # "e820_lp",
           pc' \in {"load_stage2", "e820_start"} => pc \in {"load_stage2", "e820_start"},
           pc' \in BeforeScan => pc \in BeforeScan,
           pc' = "pmem_entry" => pc \in BeforeScan /\ e820.cnt # 0, RegionsApart'
    PROVE  MemInv'
  <1>1. MemType /\ MapInv /\ ScanInv /\ TidyDivided
    BY Zenon DEF IInv, MemInv
  <1>2. MemType'
    BY <1>1, Zenon DEF MemType
  <1>3. MapInv'
    BY <1>1, Zenon DEF MapInv, OnlyNoted, AllNoted, bios
  <1>4. TidyDivided'
    BY <1>1, StretchesKept, Zenon DEF TidyDivided, bios
  <1>5. pc' = "pmem_entry" =>
          /\ pmem.i = 0 /\ pmem.extmem = 0 /\ pmem.entry = 0 /\ pmem.phys_end = 0
          /\ pmem.i <= e820.cnt /\ e820.cnt # 0
    BY <1>1 DEF ScanInv, MemType
  <1>6. /\ FirstExtended(e820.map, 0, 0) /\ FirstCandidate(e820.map, 0, 0, 0)
    BY DEF FirstExtended, FirstCandidate
  <1>7. ScanInv'
    <2>1. pc' \in BeforeScan =>
             pmem.i = 0 /\ pmem.extmem = 0 /\ pmem.entry = 0 /\ pmem.phys_end = 0
      BY <1>1, Zenon DEF ScanInv
    <2> QED
      BY <1>5, <1>6, <2>1, Zenon DEF ScanInv
  <1> QED
    BY <1>2, <1>3, <1>4, <1>7, Zenon DEF MemInv

\* The loader's reads and the checks before the loop change no memory.
LEMMA LoaderMem ==
    ASSUME IInv, load_stage2 \/ load_kernel \/ copy_extmem \/ pmem_init
    PROVE  MemInv'
  <1>1. /\ machine' = machine /\ e820' = e820 /\ pmem' = pmem
        /\ pc \in BeforeScan
        /\ \/ pc = "load_stage2" /\ pc' = "e820_start"
           \/ pc' \in {"copy_extmem", "pmem_init", "stopped"}
           \/ pc' = "pmem_entry" /\ e820.cnt # 0
    BY Zenon DEF load_stage2, load_kernel, copy_extmem, pmem_init, disk_load, memvars, Goto, Stop,
           BeforeScan
  <1>2. RegionsApart'
    BY <1>1, ApartLater, Zenon DEF BeforeScan
  <1> QED
    BY <1>1, <1>2, MemKept, Zenon DEF BeforeScan

\* The first call of int 15h.
LEMMA e820_startMem == IInv /\ e820_start => MemInv'
  <1> SUFFICES ASSUME IInv, e820_start PROVE MemInv'
    OBVIOUS
  <1>1. /\ machine \in Machines /\ MapInv /\ ScanInv /\ MemType
        /\ pc = "e820_start" /\ pmem' = pmem /\ machine' = machine
    BY DEF IInv, MemInv, e820_start, Goto
  <1>2. e820 = [calls |-> 0, map |-> <<>>, cnt |-> 0]
    BY <1>1 DEF MapInv
  <1>3. Len(bios.entries) \in Nat /\ Len(bios.entries) >= 1
    BY <1>1, ListFacts
  <1>4. \A n \in Nat : OnlyNoted(<<>>, n) /\ Increasing(<<>>) /\ <<>> \in Seq(Stretch)
    BY DEF OnlyNoted, Increasing
  <1> DEFINE map == Noted(<<>>, bios.entries[1])
  <1>5. map \in Seq(Stretch) /\ OnlyNoted(map, 1) /\ AllNoted(map, 1)
        /\ (Tidy(bios.entries) => Increasing(map))
    <2>1. AllNoted(<<>>, 0) /\ 0 + 1 = 1 /\ 0 \in Nat /\ 0 < Len(bios.entries)
      BY <1>3 DEF AllNoted
    <2> QED
      BY <1>1, <1>4, <2>1, NotedExact, Zenon
  <1> HIDE DEF map
  <1>6. MemType' /\ MapInv' /\ pc' \in {"e820_lp", "load_kernel"}
    <2>1. CASE bios.smap /\ ~LastCall(1)
      <3>1. e820' = [calls |-> 1, map |-> map, cnt |-> 0] /\ pc' = "e820_lp"
        BY <1>2, <2>1, Zenon DEF e820_start, Goto, map
      <3> QED
        BY <1>1, <1>3, <1>5, <3>1 DEF MemType, MapInv, OnlyNoted, AllNoted, bios
    <2>2. CASE ~(bios.smap /\ ~LastCall(1))
      <3>1. e820' = [calls |-> 1, map |-> <<>>, cnt |-> 0] /\ pc' = "load_kernel"
        BY <1>2, <2>2, Zenon DEF e820_start, Goto
      <3> QED
        BY <1>1, <1>3, <1>4, <3>1 DEF MemType, MapInv, OnlyNoted, bios
    <2> QED
      BY <2>1, <2>2
  <1>7. ScanInv' /\ TidyDivided' /\ RegionsApart'
    BY <1>1, <1>6, ApartLater, Zenon DEF ScanInv, TidyDivided, BeforeScan
  <1> QED
    BY <1>6, <1>7, Zenon DEF MemInv

\* Another call, or the end of the list.
LEMMA e820_lpMem == IInv /\ e820_lp => MemInv'
  <1> SUFFICES ASSUME IInv, e820_lp PROVE MemInv'
    BY Zenon
  <1>1. /\ machine \in Machines /\ MapInv /\ ScanInv /\ MemType
        /\ pc = "e820_lp" /\ pmem' = pmem /\ machine' = machine
    BY Zenon DEF IInv, MemInv, e820_lp, Goto
  <1>2. PICK n \in Nat, map \in Seq(Stretch) :
           e820 = [calls |-> n, map |-> map, cnt |-> 0] /\ n <= Len(bios.entries)
           /\ OnlyNoted(map, n) /\ AllNoted(map, n)
           /\ (Tidy(bios.entries) => Increasing(map))
    BY <1>1, Zenon DEF MapInv, MemType
  <1>3. Len(bios.entries) \in Nat
    BY <1>1, ListFacts
  <1>4. MemType' /\ MapInv' /\ pc' \in {"e820_lp", "load_kernel"}
    <2>1. CASE n + 1 > Len(bios.entries)
      <3>1. e820' = [calls |-> n, map |-> map, cnt |-> Len(map)] /\ pc' = "load_kernel"
        BY <1>2, <2>1, Zenon DEF e820_lp, Goto
      <3>2. n = Len(bios.entries) /\ Len(map) \in Nat
        BY <1>2, <1>3, <2>1
      <3> QED
        BY <1>1, <1>2, <3>1, <3>2 DEF MemType, MapInv, OnlyNoted, AllNoted, bios
    <2>2. CASE ~(n + 1 > Len(bios.entries))
      <3> DEFINE new == Noted(map, bios.entries[n + 1])
      <3>1. n < Len(bios.entries) /\ n + 1 <= Len(bios.entries) /\ n + 1 \in Nat
        BY <1>3, <2>2
      <3>2. /\ new \in Seq(Stretch)
            /\ OnlyNoted(new, n + 1) /\ AllNoted(new, n + 1)
            /\ Tidy(bios.entries) => Increasing(new)
        BY <1>1, <1>2, <3>1, NotedExact, Zenon
      <3>3. PICK c \in Nat : /\ e820' = [calls |-> n + 1, map |-> new, cnt |-> c]
                             /\ c # 0 => c = Len(new) /\ n + 1 = Len(bios.entries)
                             /\ pc' = IF LastCall(n + 1) THEN "load_kernel" ELSE "e820_lp"
                             /\ ~LastCall(n + 1) => c = 0
        <4>1. e820' = [calls |-> n + 1, map |-> new,
                       cnt |-> IF LastCall(n + 1) THEN Len(new) ELSE 0]
              /\ pc' = IF LastCall(n + 1) THEN "load_kernel" ELSE "e820_lp"
          BY <1>2, <2>2, Zenon DEF e820_lp, Goto
        <4>2. LastCall(n + 1) => n + 1 = Len(bios.entries)
          BY DEF LastCall
        <4>3. Len(new) \in Nat
          BY <3>2
        <4> HIDE DEF new
        <4> QED
          BY <4>1, <4>2, <4>3, Zenon
      <3> HIDE DEF new
      <3> QED
        BY <1>1, <3>1, <3>2, <3>3 DEF MemType, MapInv, OnlyNoted, AllNoted, bios
    <2> QED
      BY <2>1, <2>2, Zenon
  <1>5. ScanInv' /\ TidyDivided' /\ RegionsApart'
    BY <1>1, <1>4, ApartLater, Zenon DEF ScanInv, TidyDivided, BeforeScan
  <1> QED
    BY <1>4, <1>5 DEF MemInv

\* The fields of pmem after a round of the loop of pmem_init ...
LEMMA PmemRound ==
    ASSUME NEW p \in Pmem,
           NEW a \in Nat, NEW b \in Nat, NEW c \in Nat, NEW d \in Pages,
           NEW q, q = [p EXCEPT !.i = a, !.extmem = b, !.entry = c, !.acpi_len = d]
    PROVE  /\ q \in Pmem
           /\ q.i = a /\ q.extmem = b /\ q.entry = c /\ q.acpi_len = d
           /\ q.phys_end = p.phys_end
  BY Zenon DEF Pmem

\* ... and after the loop.
LEMMA PmemDone ==
    ASSUME NEW p \in Pmem,
           NEW a \in Pages, NEW b \in Pages,
           NEW q, q = [p EXCEPT !.acpi = a, !.phys_end = b]
    PROVE  /\ q \in Pmem
           /\ q.acpi = a /\ q.acpi_len = p.acpi_len /\ q.phys_end = b
  BY Zenon DEF Pmem

\* A round of the loop of pmem_init.
LEMMA pmem_entryMem == IInv /\ pmem_entry => MemInv'
  <1> SUFFICES ASSUME IInv, pmem_entry PROVE MemInv'
    BY Zenon
  <1>1. /\ MapInv /\ ScanInv /\ MemType
        /\ pc = "pmem_entry" /\ pc' = pc /\ e820' = e820 /\ machine' = machine
        /\ pmem.i < e820.cnt
    BY Zenon DEF IInv, MemInv, pmem_entry, Goto
  <1>2. PICK n \in Nat, x \in Nat, y \in Nat :
           /\ n = pmem.i /\ x = pmem.extmem /\ y = pmem.entry
           /\ FirstExtended(e820.map, n, x) /\ FirstCandidate(e820.map, n, x, y)
           /\ y # 0 => pmem.acpi_len = e820.map[y].len % Top
    BY <1>1, Zenon DEF ScanInv, MemType, Pmem
  <1>3. PICK e, ext, first, len :
           /\ e = e820.map[n + 1]
           /\ ext = IF x = 0 /\ Extended(e) THEN n + 1 ELSE x
           /\ first = IF y = 0 /\ AcpiCandidate(e, ext) THEN n + 1 ELSE y
           /\ len = IF y = 0 /\ AcpiCandidate(e, ext) THEN e.len % Top ELSE pmem.acpi_len
    BY Zenon
  <1>4. pmem' = [pmem EXCEPT !.i = n + 1, !.extmem = ext, !.entry = first,
                             !.acpi_len = len]
    BY <1>2, <1>3 DEF pmem_entry
  <1>5. /\ ext \in Nat /\ FirstExtended(e820.map, n + 1, ext)
        /\ first \in Nat /\ FirstCandidate(e820.map, n + 1, ext, first)
    BY <1>2, <1>3, ExtendedRound, CandidateRound, Zenon
  <1>6. e820.cnt = Len(e820.map) /\ e820.cnt \in Nat /\ n + 1 \in 1..Len(e820.map)
    <2>1. e820.cnt = Len(e820.map) /\ e820.cnt \in Nat
      BY <1>1, Zenon DEF ScanInv, MapInv, MemType
    <2>2. n < e820.cnt
      BY <1>1, <1>2, Zenon
    <2> QED
      BY <2>1, <2>2
  <1>7. e \in Stretch /\ e.len \in Nat /\ e.len % Top \in Pages
    <2>1. e \in Stretch
      BY <1>1, <1>3, <1>6 DEF MemType
    <2>2. e.len \in Nat
      BY <2>1, Zenon DEF Stretch
    <2> QED
      BY <2>1, <2>2, CutToPages, Zenon
  <1>8. /\ MemType' /\ pmem'.i = n + 1 /\ pmem'.extmem = ext /\ pmem'.entry = first
        /\ pmem'.phys_end = pmem.phys_end
        /\ pmem'.acpi_len = len
    <2>1. len \in Pages /\ n + 1 \in Nat
      <3>1. pmem.acpi_len \in Pages
        BY <1>1, Zenon DEF MemType, Pmem
      <3>2. n + 1 \in Nat
        OBVIOUS
      <3> QED
        BY <1>3, <1>7, <3>1, <3>2, Zenon
    <2> QED
      <3>1. pmem' \in Pmem
        BY <1>1, <1>4, <1>5, <2>1, Zenon DEF MemType, Pmem
      <3> QED
        BY <1>1, <1>4, <1>5, <2>1, <3>1, PmemRound, Zenon DEF MemType, Pmem, Pages
  <1>9. first # 0 => pmem'.acpi_len = e820.map[first].len % Top
    BY <1>2, <1>3, <1>8, Zenon
  <1>10. MapInv'
    BY <1>1, Zenon DEF MapInv, OnlyNoted, AllNoted, bios
  <1>11. ScanInv' /\ TidyDivided' /\ RegionsApart'
    <2>1. pmem.phys_end = 0 /\ e820.cnt # 0 /\ n + 1 <= e820.cnt
      BY <1>1, <1>6 DEF ScanInv
    <2>2. pc' \notin BeforeScan
      BY <1>1, Zenon DEF BeforeScan
    <2>3. ScanInv'
      BY <1>1, <1>5, <1>8, <1>9, <2>1, <2>2, Zenon DEF ScanInv
    <2> QED
      BY <1>1, <1>8, <2>1, <2>3, ApartLater, Zenon DEF TidyDivided
  <1> QED
    BY <1>8, <1>10, <1>11, Zenon DEF MemInv

\* The end of pmem_init: nothing was found, or the memory is divided.
LEMMA pmem_doneMem == IInv /\ pmem_done => MemInv'
  <1> SUFFICES ASSUME IInv, pmem_done PROVE MemInv'
    OBVIOUS
  <1>1. /\ machine \in Machines /\ MapInv /\ ScanInv /\ MemType
        /\ pc = "pmem_entry" /\ e820' = e820 /\ pmem.i = e820.cnt
        /\ machine' = machine
    BY Zenon DEF IInv, MemInv, pmem_done, Goto, Stop
  <1>2. CASE pmem.extmem = 0 \/ pmem.entry = 0
    <2>1. pc' = "stopped" /\ pmem' = pmem
      BY <1>2, Zenon DEF pmem_done, Stop
    <2>2. RegionsApart'
      BY <2>1, ApartLater, Zenon
    <2> QED
      BY <1>1, <2>1, <2>2, MemKept, Zenon DEF BeforeScan
  <1>3. CASE pmem.extmem # 0 /\ pmem.entry # 0
    <2>1. PICK map \in Seq(Stretch) : map = e820.map
      BY <1>1 DEF MemType
    <2>2. e820.cnt = Len(map) /\ OnlyNoted(map, Len(bios.entries))
          /\ AllNoted(map, Len(bios.entries))
          /\ (Tidy(bios.entries) => Increasing(map))
      BY <1>1, <2>1, Zenon DEF MapInv, ScanInv
    <2>3. PICK x \in 1..Len(map), y \in 1..Len(map) :
             /\ x = pmem.extmem /\ y = pmem.entry
             /\ FirstExtended(map, Len(map), x) /\ FirstCandidate(map, Len(map), x, y)
             /\ pmem.acpi_len = map[y].len % Top
      <3>1. /\ FirstExtended(map, Len(map), pmem.extmem)
            /\ FirstCandidate(map, Len(map), pmem.extmem, pmem.entry)
            /\ pmem.acpi_len = map[pmem.entry].len % Top
        BY <1>1, <1>3, <2>1, <2>2, Zenon DEF ScanInv
      <3>2. pmem.extmem \in 1..Len(map) /\ pmem.entry \in 1..Len(map)
        BY <1>3, <3>1, Zenon DEF FirstExtended, FirstCandidate
      <3> QED
        BY <3>1, <3>2, Zenon
    <2>4. /\ map[x].base \in Nat /\ map[x].len \in Nat
          /\ map[y].base \in Nat /\ map[y].len \in Nat
          /\ map[x].base + map[x].len \in Nat
      <3>1. map[x] \in Stretch /\ map[y] \in Stretch
        OBVIOUS
      <3>2. /\ map[x].base \in Nat /\ map[x].len \in Nat
            /\ map[y].base \in Nat /\ map[y].len \in Nat
        BY <3>1, Zenon DEF Stretch
      <3> QED
        BY <3>2
    <2>5. /\ pmem' = [pmem EXCEPT !.acpi = map[y].base % Top,
                                  !.phys_end = (map[x].base + map[x].len) % Top]
          /\ pc' = "paging_init"
      BY <1>3, <2>1, <2>3, Zenon DEF pmem_done, Goto
    <2>6. /\ MemType' /\ pmem'.acpi = map[y].base % Top /\ pmem'.acpi_len = map[y].len % Top
          /\ pmem'.phys_end = (map[x].base + map[x].len) % Top
      <3>1. pmem' \in Pmem
        BY <1>1, <2>4, <2>5, CutToPages, Zenon DEF MemType, Pmem
      <3> QED
        BY <1>1, <2>3, <2>4, <2>5, <3>1, CutToPages, PmemDone, Zenon DEF MemType, Pmem, Pages
    <2>7. MapInv'
      BY <1>1, <2>5, Zenon DEF MapInv, OnlyNoted, AllNoted, bios
    <2>8. ScanInv' /\ RegionsApart'
      BY <2>5, ApartLater, Zenon DEF ScanInv, BeforeScan
    <2>9. TidyDivided'
      <3> SUFFICES ASSUME Tidy(bios.entries) PROVE TidyDivided'
        BY <1>1, Zenon DEF TidyDivided, bios
      <3>1. Divided(map, x, y)
        BY <1>1, <2>2, <2>3, ScanDivides, Zenon
      <3>2. /\ map[x] \in Stretches /\ map[y] \in Stretches
            /\ map[x].type = "RAM" /\ map[x].base = ExtPage
            /\ map[x].base + map[x].len < Top
            /\ map[y].type \in {"ACPI", "RESERVED"}
            /\ map[y].base >= map[x].base + map[x].len /\ map[y].base < Top
            /\ map[y].base + map[y].len <= Top
            /\ \A e \in Stretches : e.type = "RAM" =>
                  e.base + e.len <= map[y].base \/ e.base >= map[y].base + map[y].len
        BY <3>1, Zenon DEF Divided
      <3>3. /\ Top \in Nat /\ ExtPage \in Nat /\ ExtPage > 0
        BY FirmwareAssumption DEF SizeAssumption
      <3>4. map[y].len < Top
        <4>1. \A a, b, c, d \in Nat : c >= a + b /\ a > 0 /\ c + d <= Top => d < Top
          BY <3>3
        <4>2. map[x].base > 0
          BY <3>2, <3>3, Zenon
        <4> QED
          BY <2>4, <3>2, <4>1, <4>2, Zenon
      <3>5. /\ map[y].base % Top = map[y].base /\ map[y].len % Top = map[y].len
            /\ (map[x].base + map[x].len) % Top = map[x].base + map[x].len
        BY <2>4, <3>2, <3>3, <3>4, SmallMod, Zenon
      <3> QED
        BY <1>1, <2>6, <3>2, <3>5, StretchesKept, Zenon DEF TidyDivided
    <2> QED
      BY <2>6, <2>7, <2>8, <2>9, Zenon DEF MemInv
  <1> QED
    BY <1>2, <1>3, Zenon

\* A step of another part leaves the division of the memory alone.
LEMMA MemSame ==
    ASSUME IInv, machine' = machine, e820' = e820, pmem' = pmem,
           pc' = pc \/ pc' \notin BeforeScan \cup {"pmem_entry"}, RegionsApart'
    PROVE  MemInv'
  <1>1. CASE pc' = pc
    <2>1. MemType /\ MapInv /\ ScanInv /\ TidyDivided
      BY Zenon DEF IInv, MemInv
    <2>2. MemType'
      BY <2>1, Zenon DEF MemType
    <2>3. MapInv'
      BY <1>1, <2>1, Zenon DEF MapInv, OnlyNoted, AllNoted, bios
    <2>4. ScanInv'
      BY <1>1, <2>1, Zenon DEF ScanInv
    <2>5. TidyDivided'
      BY <2>1, StretchesKept, Zenon DEF TidyDivided, bios
    <2> QED
      BY <2>2, <2>3, <2>4, <2>5, Zenon DEF MemInv
  <1>2. CASE pc' \notin BeforeScan \cup {"pmem_entry"}
    <2>1. pc' # "e820_lp" /\ pc' \notin {"load_stage2", "e820_start"}
          /\ pc' \notin BeforeScan /\ pc' # "pmem_entry"
      BY <1>2, Zenon DEF BeforeScan
    <2> QED
      BY <2>1, MemKept, Zenon
  <1> QED
    BY <1>1, <1>2, Zenon

-----------------------------------------------------------------------------
(* The redirection table.                                                  *)

Early == BeforeSerial \ {"ioapic_line"}

Late == {"uartputc", "cpu_init", "run"} \cup IdePcs

Uart == [there : BOOLEAN, thr : BOOLEAN, p : Nat, i : Nat]

\* The places before the loop of ioapicinit, and those after uartinit.
LEMMA Places ==
    /\ "ioapic_line" \notin Early /\ "uartinit" \notin Early \cup BeforeSerial
    /\ \A p : p \in Early <=> p \in BeforeSerial /\ p # "ioapic_line"
    /\ \A p \in Late : p \notin BeforeSerial \cup {"uartinit", "stopped", "ioapic_line"}
  BY Zenon DEF Early, Late, BeforeSerial, IdePcs

\* A step that leaves the redirection table alone, and the port where it is.
LEMMA IoKept ==
    ASSUME IInv, machine' = machine, redir' = redir, line' = line, isr \subseteq isr',
           uart' \in Uart, uart'.there = uart.there,
           \/ pc' = pc \/ pc' = "stopped"
           \/ pc \in Early /\ pc' \in Early
           \/ pc \in Late /\ pc' \in Late
    PROVE  IoInv'
  <1>1. IoInv
    BY Zenon DEF IInv
  <1>2. /\ DOMAIN redir = 0..machine.ioapic.maxintr /\ line \in Nat
        /\ uart.there => pc \notin BeforeSerial \cup {"uartinit"}
        /\ pc \in BeforeSerial \ {"ioapic_line"} => line = 0
        /\ pc = "ioapic_line" => \A i \in DOMAIN redir : i < line => redir[i] = Masked(i)
        /\ uart.there => IDT_IRQ_BASE + IDT_IRQ_COM1 \in isr
        /\ uart.there \/ pc \notin BeforeSerial \cup {"stopped"} =>
              \A i \in DOMAIN redir :
                  \/ redir[i] = Masked(i)
                  \/ uart.there /\ i = IDT_IRQ_COM1 /\ redir[i] = Enabled(i)
    BY <1>1, Zenon DEF IoInv
  <1>3. /\ uart.there => pc' \notin BeforeSerial \cup {"uartinit"}
        /\ pc' \in BeforeSerial \ {"ioapic_line"} => line = 0
        /\ pc' = "ioapic_line" => pc = "ioapic_line"
        /\ pc' \notin BeforeSerial \cup {"stopped"} =>
              pc \notin BeforeSerial \cup {"stopped"}
    <2>1. CASE pc' = pc
      BY <1>2, <2>1, Zenon
    <2>2. CASE pc' = "stopped"
      BY <2>2, Zenon DEF BeforeSerial
    <2>3. CASE pc \in Early /\ pc' \in Early
      BY <1>2, <2>3, Places, Zenon
    <2>4. CASE pc \in Late /\ pc' \in Late
      BY <1>2, <2>4, Places, Zenon
    <2> QED
      BY <2>1, <2>2, <2>3, <2>4, Zenon
  <1>4. uart.there => IDT_IRQ_BASE + IDT_IRQ_COM1 \in isr'
    BY <1>2, Zenon
  <1> QED
    BY <1>2, <1>3, <1>4, Zenon DEF IoInv, Uart, Masked, Enabled

\* The port as it is.
LEMMA UartType == IInv => uart \in Uart
  BY Zenon DEF IInv, IoInv, Uart

\* The loop of ioapicinit starts at line 0.
LEMMA ioapicinitIo == IInv /\ ioapicinit => IoInv'
  <1> SUFFICES ASSUME IInv, ioapicinit PROVE IoInv'
    OBVIOUS
  <1>1. /\ pc = "ioapicinit" /\ machine' = machine /\ redir' = redir /\ line' = line
        /\ isr' = isr /\ uart' = uart /\ (pc' = "stopped" \/ pc' = "ioapic_line")
    BY Zenon DEF ioapicinit, iovars, Goto, Stop
  <1>2. CASE pc' = "stopped"
    BY <1>1, <1>2, UartType, IoKept, Zenon
  <1>3. CASE pc' = "ioapic_line"
    <2>1. /\ DOMAIN redir = 0..machine.ioapic.maxintr /\ uart \in Uart
          /\ ~uart.there /\ line = 0 /\ line \in Nat
      BY <1>1, Zenon DEF IInv, IoInv, BeforeSerial, Uart
    <2>2. \A i \in DOMAIN redir : ~(i < 0)
      <3>1. machine.ioapic.maxintr \in Nat
        BY FirmwareAssumption, Zenon DEF MachineAssumption, IInv
      <3> QED
        BY <2>1, <3>1
    <2>3. pc' \in BeforeSerial \cup {"stopped"}
      BY <1>3, Zenon DEF BeforeSerial
    <2> QED
      BY <1>1, <1>3, <2>1, <2>2, <2>3, Zenon DEF IoInv, Uart
  <1> QED
    BY <1>1, <1>2, <1>3, Zenon

\* A round of the loop masks its line and gives it its vector.
LEMMA ioapic_lineIo == IInv /\ ioapic_line => IoInv'
  <1> SUFFICES ASSUME IInv, ioapic_line PROVE IoInv'
    BY Zenon
  <1>1. /\ pc = "ioapic_line" /\ pc' = "ioapic_line" /\ machine' = machine
        /\ redir' = [redir EXCEPT ![line] = Masked(line)] /\ line' = line + 1
        /\ isr' = isr /\ uart' = uart
    BY Zenon DEF ioapic_line, Goto, Masked
  <1>2. /\ DOMAIN redir = 0..machine.ioapic.maxintr /\ uart \in Uart /\ line \in Nat
        /\ ~uart.there /\ \A i \in DOMAIN redir : i < line => redir[i] = Masked(i)
    BY <1>1, Zenon DEF IInv, IoInv, BeforeSerial, Uart
  <1>3. DOMAIN redir' = DOMAIN redir
        /\ \A i \in DOMAIN redir : redir'[i] = IF i = line THEN Masked(line) ELSE redir[i]
    BY <1>1, Zenon
  <1>4. \A i \in DOMAIN redir : i < line + 1 => i = line \/ i < line
    <2>1. machine.ioapic.maxintr \in Nat
      BY FirmwareAssumption, Zenon DEF MachineAssumption, IInv
    <2> QED
      BY <1>2, <2>1
  <1>5. \A i \in DOMAIN redir : i < line + 1 => redir'[i] = Masked(i)
    BY <1>2, <1>3, <1>4, Zenon
  <1>6. line + 1 \in Nat
    BY <1>2
  <1>7. pc' \in BeforeSerial
    BY <1>1, Zenon DEF BeforeSerial
  <1> QED
    BY <1>1, <1>2, <1>3, <1>5, <1>6, <1>7, Zenon DEF IoInv, Uart, Masked

\* The loop has reached every line when it ends.
LEMMA ioapic_doneIo == IInv /\ ioapic_done => IoInv'
  <1> SUFFICES ASSUME IInv, ioapic_done PROVE IoInv'
    BY Zenon
  <1>1. /\ pc = "ioapic_line" /\ pc' = "uartinit" /\ machine' = machine
        /\ redir' = redir /\ line' = line /\ isr' = isr /\ uart' = uart
        /\ ~(line <= machine.ioapic.maxintr)
    BY Zenon DEF ioapic_done, Goto, iovars, LineLeft
  <1>2. /\ DOMAIN redir = 0..machine.ioapic.maxintr /\ uart \in Uart /\ line \in Nat
        /\ ~uart.there /\ \A i \in DOMAIN redir : i < line => redir[i] = Masked(i)
    BY <1>1, Zenon DEF IInv, IoInv, BeforeSerial, Uart
  <1>3. \A i \in DOMAIN redir : i < line
    <2>1. machine.ioapic.maxintr \in Nat
      BY FirmwareAssumption, Zenon DEF MachineAssumption, IInv
    <2> QED
      BY <1>1, <1>2, <2>1
  <1>4. \A i \in DOMAIN redir : redir[i] = Masked(i)
    BY <1>2, <1>3, Zenon
  <1>5. pc' \notin BeforeSerial /\ pc' # "ioapic_line"
    BY <1>1, Places, Zenon
  <1> QED
    BY <1>1, <1>2, <1>4, <1>5, Zenon DEF IoInv, Uart, Masked

\* The port is found and its line, if there is one, is enabled.
LEMMA uartinitIo == IInv /\ uartinit => IoInv'
  <1> SUFFICES ASSUME IInv, uartinit PROVE IoInv'
    BY Zenon
  <1>1. /\ pc = "uartinit" /\ machine' = machine /\ line' = line
        /\ isr' = isr \cup {IDT_IRQ_BASE + IDT_IRQ_COM1}
        /\ \/ /\ uart' = [uart EXCEPT !.there = TRUE] /\ pc' = "uartputc"
              /\ redir' = [redir EXCEPT ![IDT_IRQ_COM1] = Enabled(IDT_IRQ_COM1)]
           \/ uart' = uart /\ redir' = redir /\ pc' = "cpu_init"
    BY Zenon DEF uartinit, ioapicenable, Enabled, Goto
  <1>2. pc \notin BeforeSerial \cup {"stopped"}
    BY <1>1, Places, Zenon
  <1>3. /\ DOMAIN redir = 0..machine.ioapic.maxintr /\ uart \in Uart /\ line \in Nat
        /\ ~uart.there /\ \A i \in DOMAIN redir : redir[i] = Masked(i)
    BY <1>1, <1>2, Zenon DEF IInv, IoInv, Uart
  <1>4. pc' \notin BeforeSerial \cup {"uartinit"} /\ pc' # "ioapic_line"
    <2>1. pc' \in Late
      BY <1>1, Zenon DEF Late
    <2> QED
      BY <2>1, Places, Zenon
  <1>5. IDT_IRQ_BASE + IDT_IRQ_COM1 \in isr'
    BY <1>1, Zenon
  <1>6. CASE uart' = uart /\ redir' = redir
    BY <1>1, <1>3, <1>4, <1>6, Zenon DEF IoInv, Uart, Masked
  <1>7. CASE /\ uart' = [uart EXCEPT !.there = TRUE]
             /\ redir' = [redir EXCEPT ![IDT_IRQ_COM1] = Enabled(IDT_IRQ_COM1)]
    <2>1. uart' \in Uart /\ uart'.there
      BY <1>3, <1>7, Zenon DEF Uart
    <2>2. /\ DOMAIN redir' = DOMAIN redir
          /\ \A i \in DOMAIN redir :
                \/ redir'[i] = Masked(i)
                \/ i = IDT_IRQ_COM1 /\ redir'[i] = Enabled(i)
      BY <1>3, <1>7, Zenon
    <2> QED
      BY <1>1, <1>3, <1>4, <1>5, <2>1, <2>2, Zenon DEF IoInv, Uart, Masked, Enabled
  <1> QED
    BY <1>1, <1>6, <1>7, Zenon

\* Sending the announcement, and the port sending on.
LEMMA UartIo ==
    ASSUME IInv, uartputc \/ Transmit
    PROVE  IoInv'
  <1>1. uart \in Uart /\ uart.p + 1 \in Nat /\ uart.i + 1 \in Nat
    <2>1. uart \in Uart /\ uart.p \in Nat /\ uart.i \in Nat
      BY UartType, Zenon DEF Uart
    <2> QED
      BY <2>1
  <1>2. /\ machine' = machine /\ redir' = redir /\ line' = line /\ isr' = isr
        /\ pc' = pc \/ (pc = "uartputc" /\ pc' \in {"uartputc", "cpu_init"})
    BY Zenon DEF uartputc, Transmit, Goto
  <1>3. \/ uart' = uart
        \/ uart' = [uart EXCEPT !.i = uart.i + 1]
        \/ uart' = [uart EXCEPT !.i = 0, !.p = uart.p + 1, !.thr = TRUE]
        \/ uart' = [uart EXCEPT !.thr = FALSE]
    BY Zenon DEF uartputc, Transmit
  <1>4. uart' \in Uart /\ uart'.there = uart.there
    <2>1. 0 \in Nat
      OBVIOUS
    <2> QED
      BY <1>1, <1>3, <2>1, Zenon DEF Uart
  <1>5. pc' = pc \/ (pc \in Late /\ pc' \in Late)
    BY <1>2, Zenon DEF Late
  <1> QED
    BY <1>2, <1>4, <1>5, IoKept, Zenon

\* ... so every line has its own vector, and only COM1 can raise one.
LEMMA LinesFollow == IInv => LinesRouted
  <1> SUFFICES ASSUME IInv, uart.there \/ pc \notin BeforeSerial \cup {"stopped"},
                      NEW i \in DOMAIN redir
               PROVE  /\ redir[i].vector = IDT_IRQ_BASE + i
                      /\ redir[i].masked \/ (redir[i].vector \in isr /\ uart.there
                                             /\ redir[i].dest = 0)
    BY Zenon DEF LinesRouted
  <1>1. \/ redir[i] = Masked(i)
        \/ /\ uart.there /\ i = IDT_IRQ_COM1 /\ redir[i] = Enabled(i)
           /\ IDT_IRQ_BASE + IDT_IRQ_COM1 \in isr
    BY Zenon DEF IInv, IoInv
  <1>2. /\ Masked(i).vector = IDT_IRQ_BASE + i /\ Masked(i).masked
        /\ Enabled(i).vector = IDT_IRQ_BASE + i /\ Enabled(i).dest = 0
    BY Zenon DEF Masked, Enabled
  <1> QED
    BY <1>1, <1>2, Zenon

-----------------------------------------------------------------------------
(* The drive and the driver.                                               *)

\* What only depends on the machine stays.
LEMMA MachineKept ==
    ASSUME machine' = machine
    PROVE  /\ drive' = drive /\ There' = There /\ \A cmd : Answer(cmd)' = Answer(cmd)
           /\ \A b : Asked(b)' = Asked(b)
  BY Zenon DEF There, drive, Answer, Asked

\* A step that leaves the drive and the driver alone.
LEMMA IdeKept ==
    ASSUME IInv, machine' = machine, ide' = ide, disk' = disk, platter' = platter,
           \/ pc' = pc
           \/ pc \in BeforeIdentify /\ pc' \in BeforeIdentify \cup {"stopped"}
    PROVE  IdeInv'
  <1>1. IdeType /\ DetectInv /\ WriteInv /\ FoundIsThere /\ WritesOnlyRequested
    BY Zenon DEF IInv, IdeInv
  <1>2. IdeType' /\ FoundIsThere' /\ WritesOnlyRequested'
    BY <1>1, Zenon DEF IdeType, FoundIsThere, WritesOnlyRequested, drive
  <1>3. CASE pc' = pc
    <2>1. DetectInv'
      BY <1>1, <1>3, MachineKept DEF DetectInv
    <2>2. WriteInv'
      BY <1>1, <1>3, MachineKept, Zenon DEF WriteInv
    <2> QED
      BY <1>2, <2>1, <2>2, Zenon DEF IdeInv
  <1>4. CASE pc \in BeforeIdentify /\ pc' \in BeforeIdentify \cup {"stopped"}
    <2>1. /\ \A p \in BeforeIdentify \cup {"stopped"} :
                p \notin Detecting \cup {"ide_start", "ide_wait", "ide_program", "ide_outsl"}
          /\ \A p \in BeforeIdentify :
                p \notin {"ide_start", "ide_wait", "ide_program", "ide_outsl", "run", "stopped"}
      BY Zenon DEF BeforeIdentify, BeforeSerial, Detecting
    <2>2. /\ pc' \notin Detecting /\ pc' \notin {"ide_signature", "ide_insl"}
          /\ pc' \notin {"ide_start", "ide_wait", "ide_program", "ide_outsl"}
          /\ pc' \notin {"ide_wait", "ide_program", "ide_outsl"}
          /\ pc' # "ide_insl" /\ pc' # "ide_program" /\ pc' # "ide_outsl"
      BY <1>4, <2>1, Zenon DEF Detecting
    <2>3. disk.phase = "idle" /\ ~ide.found
      BY <1>1, <1>4, <2>1, Zenon DEF DetectInv
    <2>4. DetectInv'
      BY <2>2, <2>3, Zenon DEF DetectInv
    <2>5. WriteInv'
      BY <2>2, Zenon DEF WriteInv
    <2> QED
      BY <1>2, <2>4, <2>5, Zenon DEF IdeInv
  <1> QED
    BY <1>3, <1>4

\* What kind of drive there can be.
LEMMA DriveKinds ==
    ASSUME machine \in Machines
    PROVE  /\ drive.kind \in {"pata", "atapi", "none", "floating"}
           /\ drive.fails \in BOOLEAN /\ drive.multiple \in BOOLEAN
           /\ machine.requests \subseteq Block
  BY FirmwareAssumption, Zenon DEF MachineAssumption, drive

\* A status is read.
LEMMA StatusType == Status \in SUBSET AllBits
  BY Zenon DEF Status, AllBits

\* A register is written unless the drive is busy.
LEMMA OutbEffect ==
    ASSUME NEW d \in Disk, NEW r \in Regs, NEW v \in Nat
    PROVE  /\ Outb(d, r, v) \in Disk
           /\ Outb(d, r, v).phase = d.phase /\ Outb(d, r, v).cmd = d.cmd
           /\ d.phase # "busy" => Outb(d, r, v).regs = [d.regs EXCEPT ![r] = v]
  <1>1. [d.regs EXCEPT ![r] = v] \in [Regs -> Nat]
    BY DEF Disk
  <1>2. CASE d.phase = "busy" /\ r # "control"
    BY <1>2, Zenon DEF Outb
  <1>3. CASE ~(d.phase = "busy" /\ r # "control")
    <2>1. Outb(d, r, v) = [d EXCEPT !.regs[r] = v]
      BY <1>3, Zenon DEF Outb
    <2>2. /\ [d EXCEPT !.regs[r] = v].regs = [d.regs EXCEPT ![r] = v]
          /\ [d EXCEPT !.regs[r] = v].phase = d.phase
          /\ [d EXCEPT !.regs[r] = v].cmd = d.cmd
          /\ [d EXCEPT !.regs[r] = v] = [d EXCEPT !.regs = [d.regs EXCEPT ![r] = v]]
      BY Zenon DEF Disk
    <2>3. [d EXCEPT !.regs = [d.regs EXCEPT ![r] = v]] \in Disk
      BY <1>1, Zenon DEF Disk
    <2> QED
      BY <2>1, <2>2, <2>3, Zenon
  <1> QED
    BY <1>2, <1>3

\* A command makes the drive busy unless it is already or is not there.
LEMMA CommandEffect ==
    ASSUME machine \in Machines, NEW d \in Disk, NEW cmd \in {"IDFY", "RDMUL", "WRMUL"}
    PROVE  /\ Command(d, cmd) \in Disk /\ Command(d, cmd).regs = d.regs
           /\ \/ Command(d, cmd) = d
              \/ Command(d, cmd).phase = "busy" /\ Command(d, cmd).cmd = cmd
           /\ d.phase # "busy" /\ There =>
                 Command(d, cmd).phase = "busy" /\ Command(d, cmd).cmd = cmd
  <1>1. CASE d.phase = "busy" \/ drive.kind \in {"none", "floating"}
    <2>1. d.phase = "busy" \/ ~There
      BY <1>1, Zenon DEF There
    <2> QED
      BY <1>1, <2>1, Zenon DEF Command
  <1>2. CASE ~(d.phase = "busy" \/ drive.kind \in {"none", "floating"})
    <2>1. Command(d, cmd) = [d EXCEPT !.phase = "busy", !.cmd = cmd, !.intrq = FALSE]
      BY <1>2, Zenon DEF Command
    <2>2. /\ [d EXCEPT !.phase = "busy", !.cmd = cmd, !.intrq = FALSE] \in Disk
          /\ [d EXCEPT !.phase = "busy", !.cmd = cmd, !.intrq = FALSE].regs = d.regs
          /\ [d EXCEPT !.phase = "busy", !.cmd = cmd, !.intrq = FALSE].phase = "busy"
          /\ [d EXCEPT !.phase = "busy", !.cmd = cmd, !.intrq = FALSE].cmd = cmd
      BY Zenon DEF Disk, Phases
    <2> QED
      BY <2>1, <2>2, Zenon
  <1> QED
    BY <1>1, <1>2

\* The answer of the drive to a command.
LEMMA AnswerFacts ==
    /\ \A cmd \in {"IDFY", "RDMUL", "WRMUL", "store"} :
          Answer(cmd) \in Phases /\ Answer(cmd) # "busy"
    /\ Answer("IDFY") \in {"dataIn", "error"}
    /\ Answer("IDFY") = "dataIn" => drive.kind = "pata" /\ ~drive.fails
  BY Zenon DEF Answer, Phases

\* A busy drive finishes its command: only a refused IDENTIFY touches the
\* registers, and no other command is running while it is looked for.
LEMMA DriveAnswersIde == IInv /\ DriveAnswers => IdeInv'
  <1> SUFFICES ASSUME IInv, DriveAnswers PROVE IdeInv'
    BY Zenon
  <1>1. /\ IdeType /\ DetectInv /\ WriteInv /\ FoundIsThere /\ WritesOnlyRequested
        /\ disk.phase = "busy" /\ machine' = machine /\ pc' = pc /\ ide' = ide
        /\ platter' = platter
    BY Zenon DEF IInv, IdeInv, DriveAnswers
  <1>2. PICK ph, q, a, b :
           /\ ph = Answer(disk.cmd) /\ q \in BOOLEAN /\ a \in Nat /\ b \in Nat
           /\ disk.cmd # "IDFY" => a = disk.regs.mi /\ b = disk.regs.hi
           /\ disk' = [disk EXCEPT !.phase = ph, !.intrq = q, !.regs.mi = a, !.regs.hi = b]
    <2>1. disk.regs.mi \in Nat /\ disk.regs.hi \in Nat /\ 20 \in Nat /\ 235 \in Nat
      BY <1>1 DEF IdeType, Disk, Regs
    <2> DEFINE ph == Answer(disk.cmd)
               q  == disk.regs.control = 0 /\ ph # "dataOut"
               sg == disk.cmd = "IDFY" /\ drive.kind = "atapi"
               a  == IF sg THEN 20 ELSE disk.regs.mi
               b  == IF sg THEN 235 ELSE disk.regs.hi
    <2>2. disk' = [disk EXCEPT !.phase = ph, !.intrq = q, !.regs.mi = a, !.regs.hi = b]
      BY DEF DriveAnswers
    <2>3. a \in Nat /\ b \in Nat /\ q \in BOOLEAN
          /\ (disk.cmd # "IDFY" => a = disk.regs.mi /\ b = disk.regs.hi)
      BY <2>1
    <2> HIDE DEF ph, q, sg, a, b
    <2> QED
      BY <2>2, <2>3, Zenon DEF ph
  <1>3. ph \in Phases /\ ph # "busy"
    BY <1>1, <1>2, AnswerFacts, Zenon DEF IdeType, Disk
  <1>4. /\ disk' \in Disk /\ disk'.phase = ph /\ disk'.cmd = disk.cmd
        /\ disk'.regs = [disk.regs EXCEPT !.mi = a, !.hi = b]
    <2>1. disk \in Disk
      BY <1>1, Zenon DEF IdeType
    <2>2. [disk.regs EXCEPT !.mi = a, !.hi = b] \in [Regs -> Nat]
      BY <1>2, <2>1, Zenon DEF Disk, Regs
    <2>3. disk' = [disk EXCEPT !.phase = ph, !.intrq = q,
                               !.regs = [disk.regs EXCEPT !.mi = a, !.hi = b]]
      BY <1>2, <2>1, Zenon DEF Disk
    <2> QED
      BY <1>2, <1>3, <2>1, <2>2, <2>3, Zenon DEF Disk
  <1>5. disk.cmd # "IDFY" => disk'.regs = disk.regs
    <2>1. disk.regs \in [Regs -> Nat]
      BY <1>1, Zenon DEF IdeType, Disk
    <2> QED
      BY <1>2, <1>4, <2>1, Zenon DEF Regs
  <1>6. IdeType' /\ FoundIsThere' /\ WritesOnlyRequested'
    BY <1>1, <1>3, <1>4, Zenon DEF IdeType, FoundIsThere, WritesOnlyRequested, drive
  <1>7. DetectInv'
    <2>1. pc \notin BeforeIdentify
      BY <1>1, Zenon DEF DetectInv
    <2>2. pc \in Detecting /\ There => ph = Answer("IDFY")
      BY <1>1, <1>2, AnswerFacts, Zenon DEF DetectInv
    <2>3. ~(pc \in {"ide_signature", "ide_insl"} /\ There
            /\ ide.status \cap {"BSY", "ERR"} = {})
      BY <1>1, Zenon DEF DetectInv
    <2> QED
      BY <1>1, <1>4, <2>1, <2>2, <2>3, MachineKept DEF DetectInv
  <1>8. WriteInv'
    <2>1. pc = "ide_program" => ~ide.ready
      BY <1>1, Zenon DEF WriteInv
    <2>2. pc = "ide_outsl" /\ ide.ready => disk'.regs = disk.regs
      <3>1. "WRMUL" # "IDFY"
        OBVIOUS
      <3> QED
        BY <1>1, <1>5, <3>1, Zenon DEF WriteInv
    <2> QED
      BY <1>1, <1>3, <1>4, <2>1, <2>2, MachineKept DEF WriteInv
  <1> QED
    BY <1>6, <1>7, <1>8, Zenon DEF IdeInv

\* The fields of the driver after the cycles left have changed ...
LEMMA DriverI ==
    ASSUME NEW d \in Driver, NEW n \in Nat, NEW e, e = [d EXCEPT !.i = n]
    PROVE  /\ e \in Driver /\ e.b = d.b /\ e.k = d.k /\ e.ready = d.ready
           /\ e.status = d.status /\ e.found = d.found /\ e.model = d.model
  BY Zenon DEF Driver

\* ... and the index of the next register.
LEMMA DriverK ==
    ASSUME NEW d \in Driver, NEW k \in Nat \ {0}, NEW e, e = [d EXCEPT !.k = k]
    PROVE  /\ e \in Driver /\ e.b = d.b /\ e.k = k /\ e.ready = d.ready
           /\ e.status = d.status /\ e.found = d.found /\ e.model = d.model
  BY Zenon DEF Driver

\* A wait for the drive, from either place: only a drive that is there and not
\* busy is ready.
LEMMA WaitEffect ==
    ASSUME IInv, NEW here, NEW next, ide_wait_ready(here, next)
    PROVE  /\ pc = here /\ machine' = machine /\ disk' = disk /\ platter' = platter
           /\ ide' \in Driver /\ ide'.b = ide.b /\ ide'.status = ide.status
           /\ ide'.found = ide.found /\ ide'.model = ide.model
           /\ \/ pc' = here /\ ide'.k = ide.k /\ ide'.ready = ide.ready
              \/ /\ pc' = next /\ ide'.k = 1
                 /\ ide'.ready => There /\ disk.phase # "busy"
  <1>1. ide \in Driver /\ ide.i \in Nat /\ machine \in Machines
    BY Zenon DEF IInv, IdeInv, IdeType, Driver
  <1>2. pc = here /\ machine' = machine /\ disk' = disk /\ platter' = platter
    BY Zenon DEF ide_wait_ready, Goto
  <1>3. CASE Spin(ide.i, Status)
    <2>1. ide' = [ide EXCEPT !.i = ide.i - 1] /\ pc' = here
      BY <1>3, Zenon DEF ide_wait_ready, Goto
    <2>2. ide.i > 1
      BY <1>3, Zenon DEF Spin
    <2>3. ide.i - 1 \in Nat /\ 1 \in Nat \ {0}
      BY <1>1, <2>2
    <2> QED
      BY <1>1, <1>2, <2>1, <2>3, DriverI
  <1>4. CASE ~Spin(ide.i, Status)
    <2>1. PICK r \in BOOLEAN : /\ ide' = [ide EXCEPT !.k = 1, !.ready = r] /\ pc' = next
                               /\ r => Ready(Status)
      BY <1>4, Zenon DEF ide_wait_ready, Goto
    <2>2. 1 \in Nat \ {0} /\ 1 \in Nat
      OBVIOUS
    <2>3. ide'.ready = r /\ ide'.k = 1 /\ ide' \in Driver
          /\ ide'.b = ide.b /\ ide'.status = ide.status
          /\ ide'.found = ide.found /\ ide'.model = ide.model
      BY <1>1, <2>1, <2>2, Zenon DEF Driver
    <2>4. Ready(Status) => There /\ disk.phase # "busy"
      <3> SUFFICES ASSUME Ready(Status) PROVE There /\ disk.phase # "busy"
        OBVIOUS
      <3>1. "RDY" \in Status /\ "BSY" \notin Status
        BY DEF Ready
      <3>2. /\ drive.kind = "none" => Status = {}
            /\ drive.kind = "floating" => Status = AllBits
            /\ drive.kind \notin {"none", "floating"} /\ disk.phase = "busy" =>
                  Status = {"BSY"}
        BY Zenon DEF Status
      <3>3. drive.kind # "none" /\ drive.kind # "floating"
        BY <3>1, <3>2, Zenon DEF AllBits
      <3>4. disk.phase # "busy"
        BY <3>1, <3>2, <3>3, Zenon
      <3> QED
        BY <1>1, <3>3, <3>4, DriveKinds, Zenon DEF There
    <2> QED
      BY <1>2, <2>1, <2>3, <2>4, Zenon
  <1> QED
    BY <1>3, <1>4, Zenon

\* What a step leaves alone that only reports go by.
LEMMA ReportKept ==
    ASSUME IInv, machine' = machine, platter' = platter, ide'.found = ide.found,
           ide'.status = ide.status, ide'.model = ide.model
    PROVE  FoundIsThere' /\ WritesOnlyRequested'
  <1>1. FoundIsThere /\ WritesOnlyRequested
    BY Zenon DEF IInv, IdeInv
  <1>2. FoundIsThere'
    BY <1>1, MachineKept, Zenon DEF FoundIsThere
  <1>3. WritesOnlyRequested'
    BY <1>1, Zenon DEF WritesOnlyRequested
  <1> QED
    BY <1>2, <1>3, Zenon

\* Before IDENTIFY the drive has no command and nothing is reported.
LEMMA BeforeInv ==
    ASSUME pc' \in BeforeIdentify, disk'.phase = "idle", ~ide'.found
    PROVE  DetectInv' /\ WriteInv'
  <1>1. /\ pc' \notin Detecting /\ pc' \notin {"ide_signature", "ide_insl"}
        /\ pc' \notin {"ide_start", "ide_wait", "ide_program", "ide_outsl"}
        /\ pc' \notin {"ide_wait", "ide_program", "ide_outsl"}
        /\ pc' # "ide_insl" /\ pc' # "ide_program" /\ pc' # "ide_outsl"
    BY Zenon DEF BeforeIdentify, BeforeSerial, Detecting
  <1>2. DetectInv'
    BY <1>1, Zenon DEF DetectInv
  <1>3. WriteInv'
    BY <1>1, Zenon DEF WriteInv
  <1> QED
    BY <1>2, <1>3, Zenon

\* ... as long as main() is there.
LEMMA BeforeFacts ==
    ASSUME IInv, pc \in BeforeIdentify
    PROVE  ide \in Driver /\ disk \in Disk /\ disk.phase = "idle" /\ ~ide.found
  <1>1. pc \notin {"ide_start", "ide_wait", "ide_program", "ide_outsl", "run", "stopped"}
    BY Zenon DEF BeforeIdentify, BeforeSerial
  <1> QED
    BY <1>1, Zenon DEF IInv, IdeInv, IdeType, DetectInv

\* Selecting the drive.
LEMMA ide_initIde == IInv /\ ide_init => IdeInv'
  <1> SUFFICES ASSUME IInv, ide_init PROVE IdeInv'
    OBVIOUS
  <1>1. /\ pc = "ide_init" /\ pc' = "ide_select" /\ machine' = machine /\ platter' = platter
        /\ disk' = Outb(disk, "select", LBA_SELECT(1, 0))
        /\ ide' = [ide EXCEPT !.i = IDE_WAIT_CYCLES]
    BY Zenon DEF ide_init, Goto
  <1>2. pc \in BeforeIdentify /\ pc' \in BeforeIdentify
    BY <1>1, Zenon DEF BeforeIdentify
  <1>3. LBA_SELECT(1, 0) \in Nat /\ IDE_WAIT_CYCLES \in Nat /\ 1 \in Nat \ {0}
    BY FirmwareAssumption DEF SizeAssumption, LBA_SELECT
  <1>4. /\ ide' \in Driver /\ ide'.found = ide.found /\ ide'.status = ide.status
        /\ ide'.model = ide.model
    BY <1>1, <1>2, <1>3, BeforeFacts, DriverI
  <1>5. disk' \in Disk /\ disk'.phase = "idle"
    BY <1>1, <1>2, <1>3, BeforeFacts, OutbEffect, Zenon DEF Regs
  <1>6. IdeType'
    BY <1>4, <1>5, Zenon DEF IdeType
  <1> QED
    BY <1>1, <1>2, <1>4, <1>5, <1>6, BeforeFacts, BeforeInv, ReportKept, Zenon DEF IdeInv

\* The wait for the drive to be ready.
LEMMA ide_selectIde == IInv /\ ide_select => IdeInv'
  <1> SUFFICES ASSUME IInv, ide_select PROVE IdeInv'
    OBVIOUS
  <1>1. /\ pc = "ide_select" /\ machine' = machine /\ disk' = disk /\ platter' = platter
        /\ ide' \in Driver /\ ide'.status = ide.status
        /\ ide'.found = ide.found /\ ide'.model = ide.model
        /\ pc' = "ide_select" \/ pc' = "ide_identify"
    BY WaitEffect, Zenon DEF ide_select
  <1>2. pc \in BeforeIdentify /\ pc' \in BeforeIdentify
    BY <1>1, Zenon DEF BeforeIdentify
  <1>3. disk \in Disk /\ disk.phase = "idle" /\ ~ide.found
    BY <1>2, BeforeFacts, Zenon
  <1>4. IdeType'
    BY <1>1, <1>3, Zenon DEF IdeType
  <1> QED
    BY <1>1, <1>2, <1>3, <1>4, BeforeInv, ReportKept, Zenon DEF IdeInv

\* IDENTIFY: five registers, and the command to a drive that has no other.
LEMMA ide_identifyIde == IInv /\ ide_identify => IdeInv'
  <1> SUFFICES ASSUME IInv, ide_identify PROVE IdeInv'
    BY Zenon
  <1> DEFINE regs == << <<"control", 0>>, <<"sectors", 0>>, <<"lo", 0>>, <<"mi", 0>>,
                        <<"hi", 0>> >>
  <1>1. /\ pc = "ide_identify" /\ machine' = machine /\ platter' = platter
        /\ \/ /\ ide.k <= Len(regs) /\ pc' = "ide_identify"
              /\ disk' = Outb(disk, regs[ide.k][1], regs[ide.k][2])
              /\ ide' = [ide EXCEPT !.k = ide.k + 1]
           \/ disk' = Command(disk, "IDFY") /\ pc' = "ide_exists" /\ ide' = ide
    BY Zenon DEF ide_identify, Program, Goto
  <1>2. /\ pc \in BeforeIdentify /\ machine \in Machines
        /\ ide \in Driver /\ disk \in Disk /\ disk.phase = "idle" /\ ~ide.found
    <2>1. pc \in BeforeIdentify /\ machine \in Machines
      BY <1>1, Zenon DEF BeforeIdentify, IInv
    <2> QED
      BY <2>1, BeforeFacts, Zenon
  <1>3. CASE /\ ide.k <= Len(regs) /\ pc' = "ide_identify"
             /\ disk' = Outb(disk, regs[ide.k][1], regs[ide.k][2])
             /\ ide' = [ide EXCEPT !.k = ide.k + 1]
    <2>1. ide.k \in Nat \ {0}
      BY <1>2, Zenon DEF Driver
    <2>2. ide.k + 1 \in Nat \ {0} /\ ide.k \in 1..5
      BY <1>3, <2>1
    <2>3. regs[ide.k][1] \in Regs /\ regs[ide.k][2] = 0 /\ regs[ide.k][2] \in Nat
      <3>1. \A j \in 1..5 : regs[j][1] \in Regs /\ regs[j][2] = 0
        BY DEF Regs
      <3> QED
        BY <2>2, <3>1
    <2> HIDE DEF regs
    <2>4. disk' \in Disk /\ disk'.phase = "idle"
      BY <1>2, <1>3, <2>3, OutbEffect, Zenon
    <2>5. /\ ide' \in Driver /\ ide'.found = ide.found /\ ide'.status = ide.status
          /\ ide'.model = ide.model
      BY <1>2, <1>3, <2>2, DriverK
    <2>6. pc' \in BeforeIdentify /\ IdeType'
      BY <1>1, <1>2, <1>3, <2>4, <2>5, Zenon DEF IdeType
    <2> QED
      BY <1>1, <1>2, <2>4, <2>5, <2>6, BeforeInv, ReportKept, Zenon DEF IdeInv
  <1>4. CASE disk' = Command(disk, "IDFY") /\ pc' = "ide_exists" /\ ide' = ide
    <2>1. /\ disk' \in Disk /\ (disk'.phase = "busy" => disk'.cmd # "none")
          /\ There => disk'.phase = "busy" /\ disk'.cmd = "IDFY"
      BY <1>2, <1>4, CommandEffect, Zenon
    <2>2. IdeType'
      BY <1>2, <1>4, <2>1, Zenon DEF IdeType
    <2>3. DetectInv'
      <3>1. pc' \notin BeforeIdentify /\ pc' \notin {"ide_signature", "ide_insl"}
            /\ pc' \notin Detecting \ {"ide_exists"} /\ pc' # "ide_insl"
        BY <1>4, Zenon DEF BeforeIdentify, BeforeSerial
      <3> QED
        BY <1>1, <1>2, <1>4, <2>1, <3>1, MachineKept DEF DetectInv
    <2>4. WriteInv'
      BY <1>4, Zenon DEF WriteInv
    <2> QED
      BY <1>1, <1>4, <2>2, <2>3, <2>4, ReportKept, Zenon DEF IdeInv
  <1> QED
    BY <1>1, <1>3, <1>4, Zenon

\* While the drive is looked for no block is under way.
LEMMA DetectingWrites ==
    ASSUME pc' \in Detecting
    PROVE  WriteInv' /\ pc' \notin BeforeIdentify
  <1>1. /\ pc' \notin {"ide_start", "ide_wait", "ide_program", "ide_outsl"}
        /\ pc' \notin {"ide_wait", "ide_program", "ide_outsl"}
        /\ pc' # "ide_program" /\ pc' # "ide_outsl" /\ pc' \notin BeforeIdentify
    BY Zenon DEF Detecting, BeforeIdentify, BeforeSerial
  <1> QED
    BY <1>1, Zenon DEF WriteInv

After == {"ide_start", "ide_wait", "ide_program", "ide_outsl", "run", "stopped"}

\* Afterwards nothing is asked of the drive's answer any more.
LEMMA AfterDetects ==
    ASSUME pc' \in After
    PROVE  DetectInv'
  <1>1. pc' \notin BeforeIdentify /\ pc' \notin Detecting /\ pc' # "ide_insl"
        /\ pc' \notin {"ide_signature", "ide_insl"}
    BY Zenon DEF After, Detecting, BeforeIdentify, BeforeSerial
  <1> QED
    BY <1>1, Zenon DEF DetectInv, After

\* A drive that is looked for has not been found yet.
LEMMA NotYetFound ==
    ASSUME IInv, pc \in Detecting
    PROVE  ~ide.found /\ IdeType /\ DetectInv /\ machine \in Machines
  <1>1. pc \notin {"ide_start", "ide_wait", "ide_program", "ide_outsl", "run", "stopped"}
    BY Zenon DEF Detecting
  <1> QED
    BY <1>1, Zenon DEF IInv, IdeInv, DetectInv

\* The boot stops without a drive.
LEMMA StoppedIde ==
    ASSUME IInv, machine' = machine, ide' = ide, disk' = disk, platter' = platter,
           pc' = "stopped"
    PROVE  IdeInv'
  <1>1. IdeType'
    BY Zenon DEF IInv, IdeInv, IdeType
  <1>2. DetectInv'
    BY AfterDetects, Zenon DEF After
  <1>3. WriteInv'
    BY Zenon DEF WriteInv
  <1> QED
    BY <1>1, <1>2, <1>3, ReportKept, Zenon DEF IdeInv

\* A status of 0 means that there is no drive.
LEMMA ide_existsIde == IInv /\ ide_exists => IdeInv'
  <1> SUFFICES ASSUME IInv, ide_exists PROVE IdeInv'
    OBVIOUS
  <1>1. /\ pc = "ide_exists" /\ machine' = machine /\ ide' = ide /\ disk' = disk
        /\ platter' = platter
        /\ pc' = "stopped" \/ (pc' = "ide_poll" /\ Status # {})
    BY Zenon DEF ide_exists, Exists, idevars, Goto, Stop
  <1>2. CASE pc' = "stopped"
    BY <1>1, <1>2, StoppedIde, Zenon
  <1>3. CASE pc' = "ide_poll" /\ Status # {}
    <2>1. drive.kind # "none"
      BY <1>3, Zenon DEF Status
    <2>2. pc \in Detecting /\ pc' \in Detecting /\ pc' \notin {"ide_signature", "ide_insl"}
          /\ pc' # "ide_insl"
      BY <1>1, <1>3, Zenon DEF Detecting
    <2>3. ~ide.found /\ IdeType /\ DetectInv
      BY <2>2, NotYetFound, Zenon
    <2>4. IdeType'
      BY <1>1, <2>3, Zenon DEF IdeType
    <2>5. DetectInv'
      BY <1>1, <2>1, <2>2, <2>3, DetectingWrites, MachineKept DEF DetectInv
    <2> QED
      BY <1>1, <2>2, <2>4, <2>5, DetectingWrites, ReportKept, Zenon DEF IdeInv
  <1> QED
    BY <1>1, <1>2, <1>3, Zenon

\* A status without the busy bit and the error bit is the answer of an ATA
\* drive.
LEMMA ide_pollIde == IInv /\ ide_poll => IdeInv'
  <1> SUFFICES ASSUME IInv, ide_poll PROVE IdeInv'
    BY Zenon
  <1>1. /\ pc = "ide_poll" /\ machine' = machine /\ disk' = disk /\ platter' = platter
        /\ ide' = [ide EXCEPT !.status = Status] /\ pc' = "ide_signature"
    BY Zenon DEF ide_poll, Goto
  <1>2. pc \in Detecting /\ pc' \in Detecting /\ pc \in Detecting \ {"ide_exists"}
        /\ pc' \in Detecting \ {"ide_exists"} /\ pc' # "ide_insl"
    BY <1>1, Zenon DEF Detecting
  <1>3. ~ide.found /\ IdeType /\ DetectInv /\ ide \in Driver
    BY <1>2, NotYetFound, Zenon DEF IdeType
  <1>4. ide' \in Driver /\ ide'.found = ide.found /\ ide'.status = Status
    BY <1>1, <1>3, StatusType, Zenon DEF Driver
  <1>5. IdeType'
    BY <1>1, <1>3, <1>4, Zenon DEF IdeType
  <1>6. There /\ Status \cap {"BSY", "ERR"} = {} =>
           disk.phase = "dataIn" /\ drive.kind = "pata" /\ ~drive.fails
    <2> SUFFICES ASSUME There, Status \cap {"BSY", "ERR"} = {}
                 PROVE  disk.phase = "dataIn" /\ drive.kind = "pata" /\ ~drive.fails
      BY Zenon
    <2>1. "BSY" \notin Status /\ "ERR" \notin Status
      OBVIOUS
    <2>2. drive.kind # "none" /\ drive.kind # "floating"
      BY Zenon DEF There
    <2>3. /\ disk.phase = "busy" => Status = {"BSY"}
          /\ disk.phase = "error" => Status = {"RDY", "ERR"}
      BY <2>2, Zenon DEF Status
    <2>4. disk.phase # "busy" /\ disk.phase # "error"
      BY <2>1, <2>3, Zenon
    <2>5. disk.phase = Answer("IDFY")
      BY <1>2, <1>3, <2>4, Zenon DEF DetectInv
    <2> QED
      BY <2>4, <2>5, AnswerFacts, Zenon
  <1>7. DetectInv'
    BY <1>1, <1>2, <1>3, <1>4, <1>6, DetectingWrites, MachineKept DEF DetectInv
  <1>8. FoundIsThere'
    BY <1>3, <1>4, Zenon DEF FoundIsThere
  <1>9. WritesOnlyRequested'
    BY <1>1, Zenon DEF IInv, IdeInv, WritesOnlyRequested
  <1> QED
    BY <1>2, <1>5, <1>7, <1>8, <1>9, DetectingWrites, Zenon DEF IdeInv

\* A floating bus and another kind of drive are told by two registers.
LEMMA ide_signatureIde == IInv /\ ide_signature => IdeInv'
  <1> SUFFICES ASSUME IInv, ide_signature PROVE IdeInv'
    BY Zenon
  <1>1. /\ pc = "ide_signature" /\ machine' = machine /\ ide' = ide /\ disk' = disk
        /\ platter' = platter
        /\ \/ pc' = "stopped" \/ pc' = "ide_poll"
           \/ pc' = "ide_insl" /\ drive.kind # "floating" /\ "ERR" \notin ide.status
    BY Zenon DEF ide_signature, idevars, Goto, Stop
  <1>2. CASE pc' = "stopped"
    BY <1>1, <1>2, StoppedIde, Zenon
  <1>3. CASE \/ pc' = "ide_poll"
             \/ pc' = "ide_insl" /\ drive.kind # "floating" /\ "ERR" \notin ide.status
    <2>1. pc \in Detecting /\ pc' \in Detecting /\ pc \in Detecting \ {"ide_exists"}
          /\ pc \in {"ide_signature", "ide_insl"}
      BY <1>1, <1>3, Zenon DEF Detecting
    <2>2. ~ide.found /\ IdeType /\ DetectInv
      BY <2>1, NotYetFound, Zenon
    <2>3. IdeType'
      BY <1>1, <2>2, Zenon DEF IdeType
    <2>4. DetectInv'
      BY <1>1, <1>3, <2>1, <2>2, DetectingWrites, MachineKept DEF DetectInv
    <2> QED
      BY <1>1, <2>1, <2>3, <2>4, DetectingWrites, ReportKept, Zenon DEF IdeInv
  <1> QED
    BY <1>1, <1>2, <1>3, Zenon

\* The drive is reported.
LEMMA ide_inslIde == IInv /\ ide_insl => IdeInv'
  <1> SUFFICES ASSUME IInv, ide_insl PROVE IdeInv'
    OBVIOUS
  <1>1. /\ pc = "ide_insl" /\ machine' = machine /\ platter' = platter
        /\ ide' = [ide EXCEPT !.model = IF disk.phase = "dataIn" THEN "described" ELSE "junk",
                              !.found = TRUE, !.b = FirstBlock]
        /\ disk' = IF disk.phase = "dataIn" THEN [disk EXCEPT !.phase = "idle"] ELSE disk
        /\ pc' = "ide_start"
    BY Zenon DEF ide_insl, Goto
  <1>2. pc \in Detecting /\ pc \in Detecting \ {"ide_exists"} /\ pc' \in After
    BY <1>1, Zenon DEF Detecting, After
  <1>3. /\ IdeType /\ DetectInv /\ machine \in Machines /\ ide \in Driver /\ disk \in Disk
        /\ disk.phase = "busy" => disk.cmd # "none"
    BY <1>2, NotYetFound, Zenon DEF IdeType
  <1>4. PICK m \in {"described", "junk"} :
           /\ ide' = [ide EXCEPT !.model = m, !.found = TRUE, !.b = FirstBlock]
           /\ disk.phase = "dataIn" => m = "described"
    BY <1>1, Zenon
  <1>5. FirstBlock \in AllRequests
    BY Zenon DEF AllRequests
  <1>6. ide' \in Driver /\ ide'.model = m /\ ide'.b = FirstBlock /\ ide'.status = ide.status
    BY <1>3, <1>4, <1>5, Zenon DEF Driver
  <1>7. disk' \in Disk /\ (disk'.phase = "busy" => disk'.cmd # "none")
    <2>1. CASE disk.phase = "dataIn"
      <3>1. disk' = [disk EXCEPT !.phase = "idle"]
        BY <1>1, <2>1, Zenon
      <3> QED
        BY <1>3, <3>1, Zenon DEF Disk, Phases
    <2>2. CASE disk.phase # "dataIn"
      BY <1>1, <1>3, <2>2, Zenon
    <2> QED
      BY <2>1, <2>2
  <1>8. FoundIsThere'
    <2>1. drive.kind # "none" /\ drive.kind # "floating" /\ "ERR" \notin ide.status
      BY <1>1, <1>2, <1>3, Zenon DEF DetectInv
    <2>2. drive.kind \in {"pata", "atapi"}
      BY <1>3, <2>1, DriveKinds, Zenon
    <2>3. ASSUME "BSY" \notin ide.status
          PROVE  drive.kind = "pata" /\ ~drive.fails /\ m = "described"
      <3>1. ide.status \cap {"BSY", "ERR"} = {}
        BY <2>1, <2>3, Zenon
      <3>2. There
        BY <2>2, Zenon DEF There
      <3> QED
        BY <1>1, <1>3, <1>4, <3>1, <3>2, Zenon DEF DetectInv
    <2> QED
      BY <1>1, <1>6, <2>2, <2>3, MachineKept, Zenon DEF FoundIsThere
  <1>9. WritesOnlyRequested'
    BY <1>1, Zenon DEF IInv, IdeInv, WritesOnlyRequested
  <1>10. WriteInv'
    BY <1>1, <1>6, Zenon DEF WriteInv, Asked
  <1> QED
    BY <1>2, <1>6, <1>7, <1>8, <1>9, <1>10, AfterDetects, Zenon DEF IdeInv, IdeType

\* What the driver may be asked to write.
LEMMA BlockFacts ==
    /\ \A b \in AllRequests : b.dev \in 0..1 /\ b.block_no \in Nat
    /\ machine \in Machines => \A b : Asked(b) => b \in AllRequests
  <1>1. FirstBlock.dev \in 0..1 /\ FirstBlock.block_no \in Nat
    BY DEF FirstBlock
  <1>2. \A m \in Machines : m.requests \subseteq Block
    BY FirmwareAssumption, Zenon DEF MachineAssumption
  <1>3. \A b \in Block : b.dev \in 0..1 /\ b.block_no \in Nat
    BY Zenon DEF Block
  <1> QED
    BY <1>1, <1>2, <1>3, Zenon DEF AllRequests, Asked

\* A block beyond the file system is refused.
LEMMA ide_startIde == IInv /\ ide_start => IdeInv'
  <1> SUFFICES ASSUME IInv, ide_start PROVE IdeInv'
    OBVIOUS
  <1>1. /\ pc = "ide_start" /\ machine' = machine /\ platter' = platter /\ disk' = disk
        /\ ide' = [ide EXCEPT !.i = IDE_WAIT_CYCLES]
        /\ pc' = "stopped" \/ (pc' = "ide_wait" /\ ide.b.block_no < FSSIZE)
    BY Zenon DEF ide_start, InRange, Goto, Stop
  <1>2. IdeType /\ WriteInv /\ ide \in Driver /\ pc' \in After
    BY <1>1, Zenon DEF IInv, IdeInv, IdeType, After
  <1>3. IDE_WAIT_CYCLES \in Nat
    BY FirmwareAssumption DEF SizeAssumption
  <1>4. /\ ide' \in Driver /\ ide'.b = ide.b /\ ide'.found = ide.found
        /\ ide'.status = ide.status /\ ide'.model = ide.model
    BY <1>1, <1>2, <1>3, DriverI
  <1>5. IdeType'
    BY <1>1, <1>2, <1>4, Zenon DEF IdeType
  <1>6. WriteInv'
    BY <1>1, <1>2, <1>4, MachineKept, Zenon DEF WriteInv
  <1> QED
    BY <1>1, <1>2, <1>4, <1>5, <1>6, AfterDetects, ReportKept, Zenon DEF IdeInv

\* The wait before the registers are written.
LEMMA ide_waitIde == IInv /\ ide_wait => IdeInv'
  <1> SUFFICES ASSUME IInv, ide_wait PROVE IdeInv'
    BY Zenon
  <1>1. /\ pc = "ide_wait" /\ machine' = machine /\ disk' = disk /\ platter' = platter
        /\ ide' \in Driver /\ ide'.b = ide.b /\ ide'.status = ide.status
        /\ ide'.found = ide.found /\ ide'.model = ide.model
        /\ \/ pc' = "ide_wait" /\ ide'.k = ide.k /\ ide'.ready = ide.ready
           \/ /\ pc' = "ide_program" /\ ide'.k = 1
              /\ ide'.ready => There /\ disk.phase # "busy"
    BY WaitEffect, Zenon DEF ide_wait
  <1>2. IdeType /\ WriteInv /\ pc' \in After
    BY <1>1, Zenon DEF IInv, IdeInv, After
  <1>3. IdeType'
    BY <1>1, <1>2, Zenon DEF IdeType
  <1>4. Asked(ide.b) /\ ide.b.block_no < FSSIZE
    BY <1>1, <1>2, Zenon DEF WriteInv
  <1>5. WriteInv'
    <2>1. CASE pc' = "ide_wait"
      BY <1>1, <1>4, <2>1, MachineKept, Zenon DEF WriteInv
    <2>2. CASE pc' = "ide_program" /\ ide'.k = 1 /\ (ide'.ready => There /\ disk.phase # "busy")
      <3>1. ide'.k \in 1..7 /\ \A j \in 1..(ide'.k - 1) : FALSE
        BY <2>2
      <3>2. Written(disk'.regs, ide'.b, ide'.k - 1)
        BY <3>1, Zenon DEF Written
      <3> QED
        BY <1>1, <1>4, <2>2, <3>1, <3>2, MachineKept, Zenon DEF WriteInv
    <2> QED
      BY <1>1, <2>1, <2>2, Zenon
  <1> QED
    BY <1>1, <1>2, <1>3, <1>5, AfterDetects, ReportKept, Zenon DEF IdeInv

\* The registers ide_start writes, each once.
LEMMA BlockRegsFacts ==
    ASSUME NEW b \in AllRequests
    PROVE  /\ Len(BlockRegs(b)) = 6
           /\ \A j \in 1..6 : BlockRegs(b)[j][1] \in Regs /\ BlockRegs(b)[j][2] \in Nat
           /\ \A j, l \in 1..6 : j # l => BlockRegs(b)[j][1] # BlockRegs(b)[l][1]
  <1>1. PICK s \in Nat : s = b.block_no * SECTORS_PER_BLOCK
    BY BlockFacts DEF SECTORS_PER_BLOCK
  <1>2. PICK lo \in Nat, mi \in Nat, hi \in Nat, sel \in Nat :
           BlockRegs(b) = << <<"control", 0>>, <<"sectors", 2>>, <<"lo", lo>>, <<"mi", mi>>,
                             <<"hi", hi>>, <<"select", sel>> >>
    <2>1. b.dev % 2 \in Nat
      BY BlockFacts
    <2>2. /\ s % 256 \in Nat /\ (s \div 256) % 256 \in Nat /\ (s \div 65536) % 256 \in Nat
          /\ LBA_SELECT(b.dev, s) \in Nat
      BY <2>1 DEF LBA_SELECT
    <2> QED
      BY <1>1, <2>2 DEF BlockRegs, SECTORS_PER_BLOCK
  <1> QED
    BY <1>2 DEF Regs

\* The registers of a drive that was ready take what is written, one after the
\* other; then comes the command.
LEMMA ide_programIde == IInv /\ ide_program => IdeInv'
  <1> SUFFICES ASSUME IInv, ide_program PROVE IdeInv'
    BY Zenon
  <1>1. PICK b, regs, cmd :
          /\ b = ide.b /\ regs = BlockRegs(b) /\ cmd \in {"WRMUL", "RDMUL"}
          /\ b.dirty => cmd = "WRMUL"
          /\ pc = "ide_program" /\ machine' = machine /\ platter' = platter
          /\ \/ /\ ide.k <= Len(regs) /\ pc' = "ide_program"
                /\ disk' = Outb(disk, regs[ide.k][1], regs[ide.k][2])
                /\ ide' = [ide EXCEPT !.k = ide.k + 1]
             \/ /\ ~(ide.k <= Len(regs)) /\ disk' = Command(disk, cmd) /\ ide' = ide
                /\ pc' = "run" \/ (pc' = "ide_outsl" /\ b.dirty)
    BY Zenon DEF ide_program, Program, Goto
  <1>2. /\ IdeType /\ WriteInv /\ machine \in Machines /\ ide \in Driver /\ disk \in Disk
        /\ pc' \in After
    BY <1>1, Zenon DEF IInv, IdeInv, IdeType, After
  <1>3. /\ Asked(b) /\ b.block_no < FSSIZE /\ ide.k \in 1..7 /\ b \in AllRequests
        /\ ide.ready => There /\ disk.phase # "busy" /\ Written(disk.regs, b, ide.k - 1)
    <2>1. /\ Asked(b) /\ b.block_no < FSSIZE /\ ide.k \in 1..7
          /\ ide.ready => There /\ disk.phase # "busy" /\ Written(disk.regs, b, ide.k - 1)
      BY <1>1, <1>2, Zenon DEF WriteInv
    <2> QED
      BY <1>2, <2>1, BlockFacts, Zenon
  <1>4. /\ Len(regs) = 6
        /\ \A j \in 1..6 : regs[j][1] \in Regs /\ regs[j][2] \in Nat
        /\ \A j, l \in 1..6 : j # l => regs[j][1] # regs[l][1]
    BY <1>1, <1>3, BlockRegsFacts, Zenon
  <1>5. CASE /\ ide.k <= Len(regs) /\ pc' = "ide_program"
             /\ disk' = Outb(disk, regs[ide.k][1], regs[ide.k][2])
             /\ ide' = [ide EXCEPT !.k = ide.k + 1]
    <2>1. PICK k \in 1..6 : k = ide.k
      BY <1>3, <1>4, <1>5
    <2>2. k + 1 \in Nat \ {0} /\ k + 1 \in 1..7 /\ (k + 1) - 1 = k
          /\ \A j \in 1..k : j = k \/ (j \in 1..(k - 1) /\ j \in 1..6 /\ j # k)
      OBVIOUS
    <2>3. /\ ide' \in Driver /\ ide'.b = b /\ ide'.k = k + 1 /\ ide'.ready = ide.ready
          /\ ide'.found = ide.found /\ ide'.status = ide.status /\ ide'.model = ide.model
      BY <1>1, <1>2, <1>5, <2>1, <2>2, DriverK
    <2>4. regs[k][1] \in Regs /\ regs[k][2] \in Nat
      BY <1>4, <2>1, Zenon
    <2>5. /\ disk' \in Disk /\ disk'.phase = disk.phase /\ disk'.cmd = disk.cmd
          /\ disk.phase # "busy" => disk'.regs = [disk.regs EXCEPT ![regs[k][1]] = regs[k][2]]
      <3>1. PICK r \in Regs, v \in Nat : r = regs[k][1] /\ v = regs[k][2]
        BY <2>4, Zenon
      <3>2. disk \in Disk /\ disk' = Outb(disk, r, v)
        BY <1>2, <1>5, <2>1, <3>1, Zenon
      <3>3. /\ disk' \in Disk /\ disk'.phase = disk.phase /\ disk'.cmd = disk.cmd
            /\ disk.phase # "busy" => disk'.regs = [disk.regs EXCEPT ![r] = v]
        BY <3>2, OutbEffect, Zenon
      <3> QED
        BY <3>1, <3>3, Zenon
    <2>6. ide.ready => Written(disk'.regs, b, k)
      <3> SUFFICES ASSUME ide.ready, NEW j \in 1..k
                   PROVE  disk'.regs[regs[j][1]] = regs[j][2]
        BY <1>1, Zenon DEF Written
      <3>1. disk.phase # "busy" /\ Written(disk.regs, b, k - 1)
        BY <1>3, <2>1, Zenon
      <3>2. disk'.regs = [disk.regs EXCEPT ![regs[k][1]] = regs[k][2]]
        BY <2>5, <3>1, Zenon
      <3>3. DOMAIN disk.regs = Regs
        BY <1>2, Zenon DEF Disk
      <3>4. CASE j = k
        BY <2>4, <3>2, <3>3, <3>4, Zenon
      <3>5. CASE j # k
        <4>1. j \in 1..(k - 1) /\ j \in 1..6
          BY <2>2, <3>5, Zenon
        <4>2. disk.regs[regs[j][1]] = regs[j][2]
          BY <1>1, <3>1, <4>1, Zenon DEF Written
        <4>3. regs[j][1] \in Regs /\ regs[j][1] # regs[k][1]
          BY <1>4, <3>5, <4>1, <2>1, Zenon
        <4> QED
          BY <3>2, <3>3, <4>2, <4>3, Zenon
      <3> QED
        BY <3>4, <3>5
    <2>7. IdeType'
      BY <1>2, <2>3, <2>5, Zenon DEF IdeType
    <2>8. WriteInv'
      <3>1. ide'.k - 1 = k /\ ide'.k \in 1..7
        BY <2>2, <2>3, Zenon
      <3>2. /\ Asked(ide'.b) /\ ide'.b.block_no < FSSIZE
            /\ ide'.ready => /\ There /\ disk'.phase # "busy"
                             /\ Written(disk'.regs, ide'.b, ide'.k - 1)
        BY <1>3, <2>3, <2>5, <2>6, <3>1, Zenon
      <3> QED
        BY <1>1, <1>5, <3>1, <3>2, MachineKept, Zenon DEF WriteInv
    <2> QED
      BY <1>1, <1>2, <2>3, <2>7, <2>8, AfterDetects, ReportKept, Zenon DEF IdeInv
  <1>6. CASE /\ ~(ide.k <= Len(regs)) /\ disk' = Command(disk, cmd) /\ ide' = ide
             /\ pc' = "run" \/ (pc' = "ide_outsl" /\ b.dirty)
    <2>1. ide.k - 1 = 6
      BY <1>3, <1>4, <1>6
    <2>2. /\ disk' \in Disk /\ disk'.regs = disk.regs
          /\ disk' = disk \/ (disk'.phase = "busy" /\ disk'.cmd = cmd)
          /\ disk.phase # "busy" /\ There => disk'.phase = "busy" /\ disk'.cmd = cmd
      <3>1. /\ machine \in Machines /\ disk \in Disk /\ cmd \in {"IDFY", "RDMUL", "WRMUL"}
            /\ disk' = Command(disk, cmd)
        BY <1>1, <1>2, <1>6, Zenon
      <3> QED
        BY <3>1, CommandEffect, Zenon
    <2>3. IdeType'
      <3>1. disk.phase = "busy" => disk.cmd # "none"
        BY <1>2, Zenon DEF IdeType
      <3>2. cmd # "none"
        BY <1>1, Zenon
      <3> QED
        BY <1>2, <1>6, <2>2, <3>1, <3>2, Zenon DEF IdeType
    <2>4. WriteInv'
      <3>1. b.dirty /\ ide.ready => /\ disk'.phase = "busy" => disk'.cmd = "WRMUL"
                                    /\ Written(disk'.regs, b, 6)
        BY <1>1, <1>3, <2>1, <2>2, Zenon
      <3> QED
        BY <1>1, <1>3, <1>6, <3>1, MachineKept, Zenon DEF WriteInv
    <2> QED
      BY <1>1, <1>2, <1>6, <2>3, <2>4, AfterDetects, ReportKept, Zenon DEF IdeInv
  <1> QED
    BY <1>1, <1>5, <1>6, Zenon

\* A number below 2^28 in four registers, the device in the last, as the drive
\* reads it.
LEMMA RegistersName ==
    ASSUME NEW s \in Nat, s < 268435456, NEW d \in 0..1, NEW regs,
           regs.lo = s % 256, regs.mi = (s \div 256) % 256,
           regs.hi = (s \div 65536) % 256, regs.select = LBA_SELECT(d, s)
    PROVE  Addressed(regs).dev = d /\ Addressed(regs).sector = s
  <1>1. PICK t \in Nat : t = s \div 16777216 /\ t < 16
    OBVIOUS
  <1>2. PICK sel : sel = regs.select /\ sel = 16 * (d % 2) + (t % 16)
    BY <1>1 DEF LBA_SELECT
  <1>3. sel \div 16 = d /\ sel % 16 = t % 16
    BY <1>1, <1>2
  <1>4. (s % 256) + 256 * ((s \div 256) % 256) + 65536 * ((s \div 65536) % 256)
           + 16777216 * (t % 16) = s
    BY <1>1
  <1>5. /\ regs.select \div 16 = d
        /\ regs.lo + 256 * regs.mi + 65536 * regs.hi + 16777216 * (regs.select % 16) = s
    BY <1>2, <1>3, <1>4
  <1> QED
    BY <1>5 DEF Addressed

\* The sectors the registers name are those of the block.
LEMMA SectorsNamed ==
    ASSUME NEW b \in AllRequests, b.block_no < FSSIZE, NEW regs \in [Regs -> Nat],
           Written(regs, b, 6)
    PROVE  /\ Addressed(regs).dev = b.dev
           /\ Addressed(regs).sector = b.block_no * SECTORS_PER_BLOCK
  <1>1. PICK s \in Nat : s = b.block_no * SECTORS_PER_BLOCK /\ s < 268435456
    <2>1. b.block_no \in Nat /\ FSSIZE \in Nat /\ FSSIZE * 2 <= 268435456
      BY BlockFacts, FirmwareAssumption DEF SizeAssumption, SECTORS_PER_BLOCK
    <2> QED
      BY <2>1 DEF SECTORS_PER_BLOCK
  <1>2. /\ BlockRegs(b)[3] = <<"lo", s % 256>>
        /\ BlockRegs(b)[4] = <<"mi", (s \div 256) % 256>>
        /\ BlockRegs(b)[5] = <<"hi", (s \div 65536) % 256>>
        /\ BlockRegs(b)[6] = <<"select", LBA_SELECT(b.dev, s)>>
    BY <1>1 DEF BlockRegs
  <1>3. /\ regs["lo"] = s % 256 /\ regs["mi"] = (s \div 256) % 256
        /\ regs["hi"] = (s \div 65536) % 256 /\ regs["select"] = LBA_SELECT(b.dev, s)
    <2>1. \A j \in {3, 4, 5, 6} : regs[BlockRegs(b)[j][1]] = BlockRegs(b)[j][2]
      <3>1. \A j \in {3, 4, 5, 6} : j \in 1..6
        OBVIOUS
      <3> QED
        BY <3>1 DEF Written
    <2> QED
      BY <1>2, <2>1
  <1>4. b.dev \in 0..1
    BY BlockFacts, Zenon
  <1> QED
    BY <1>1, <1>3, <1>4, RegistersName

\* The data goes to the sectors of the block if the drive was ready.
LEMMA ide_outslIde == IInv /\ ide_outsl => IdeInv'
  <1> SUFFICES ASSUME IInv, ide_outsl PROVE IdeInv'
    BY Zenon
  <1>1. /\ pc = "ide_outsl" /\ pc' = "run" /\ machine' = machine /\ ide' = ide
        /\ \/ disk' = disk
           \/ disk' = [disk EXCEPT !.phase = "busy", !.cmd = "store"]
        /\ \/ platter' = platter
           \/ platter' = platter \cup
                 {[dev |-> Addressed(disk.regs).dev, sector |-> Addressed(disk.regs).sector + j,
                   data |-> <<ide.b.data, j>>,
                   ready |-> ide.ready] : j \in 0..(SECTORS_PER_BLOCK - 1)}
    BY Zenon DEF ide_outsl, Goto
  <1>2. /\ IdeType /\ WriteInv /\ WritesOnlyRequested /\ FoundIsThere /\ machine \in Machines
        /\ ide \in Driver /\ disk \in Disk /\ pc' \in After
    BY <1>1, Zenon DEF IInv, IdeInv, IdeType, After
  <1>3. IdeType'
    BY <1>1, <1>2, Zenon DEF IdeType, Disk, Phases
  <1>4. WriteInv'
    BY <1>1, Zenon DEF WriteInv
  <1>5. FoundIsThere'
    BY <1>1, <1>2, MachineKept, Zenon DEF FoundIsThere
  <1>6. /\ ide.b \in AllRequests /\ ide.b.block_no < FSSIZE /\ ide.b.dirty
        /\ ide.ready => Written(disk.regs, ide.b, 6)
    <2>1. /\ Asked(ide.b) /\ ide.b.block_no < FSSIZE /\ ide.b.dirty
          /\ ide.ready => Written(disk.regs, ide.b, 6)
      BY <1>1, <1>2, Zenon DEF WriteInv
    <2> QED
      BY <1>2, <2>1, BlockFacts, Zenon
  <1>7. WritesOnlyRequested'
    <2> SUFFICES ASSUME NEW w \in platter', w.ready, w \notin platter
                 PROVE  \E b \in AllRequests :
                           /\ b.dirty /\ b.block_no < FSSIZE /\ w.dev = b.dev
                           /\ \E j \in 0..(SECTORS_PER_BLOCK - 1) :
                                 /\ w.data = <<b.data, j>>
                                 /\ w.sector = b.block_no * SECTORS_PER_BLOCK + j
      BY <1>2, Zenon DEF WritesOnlyRequested
    <2>1. PICK j \in 0..(SECTORS_PER_BLOCK - 1) :
             w = [dev |-> Addressed(disk.regs).dev,
                  sector |-> Addressed(disk.regs).sector + j,
                  data |-> <<ide.b.data, j>>, ready |-> ide.ready]
      BY <1>1
    <2>2. /\ w.dev = Addressed(disk.regs).dev /\ w.sector = Addressed(disk.regs).sector + j
          /\ w.data = <<ide.b.data, j>> /\ ide.ready
      BY <2>1, Zenon
    <2>3. disk.regs \in [Regs -> Nat] /\ Written(disk.regs, ide.b, 6)
      BY <1>2, <1>6, <2>2, Zenon DEF Disk
    <2>4. /\ Addressed(disk.regs).dev = ide.b.dev
          /\ Addressed(disk.regs).sector = ide.b.block_no * SECTORS_PER_BLOCK
      BY <1>6, <2>3, SectorsNamed, Zenon
    <2> QED
      BY <1>6, <2>2, <2>4, Zenon
  <1> QED
    BY <1>2, <1>3, <1>4, <1>5, <1>7, AfterDetects, Zenon DEF IdeInv

\* The running kernel asks for another block.
LEMMA RequestIde == IInv /\ Request => IdeInv'
  <1> SUFFICES ASSUME IInv, Request PROVE IdeInv'
    OBVIOUS
  <1>1. /\ pc' = "ide_start" /\ machine' = machine /\ platter' = platter /\ disk' = disk
        /\ \E b \in machine.requests : ide' = [ide EXCEPT !.b = b]
    BY Zenon DEF Request, Goto
  <1>2. IdeType /\ ide \in Driver /\ machine \in Machines /\ pc' \in After
    BY <1>1, Zenon DEF IInv, IdeInv, IdeType, After
  <1>3. PICK b \in machine.requests : ide' = [ide EXCEPT !.b = b]
    BY <1>1, Zenon
  <1>4. Asked(b) /\ b \in AllRequests
    BY <1>2, BlockFacts, Zenon DEF Asked
  <1>5. /\ ide' \in Driver /\ ide'.b = b /\ ide'.found = ide.found
        /\ ide'.status = ide.status /\ ide'.model = ide.model
    BY <1>2, <1>3, <1>4, Zenon DEF Driver
  <1>6. IdeType'
    BY <1>1, <1>2, <1>5, Zenon DEF IdeType
  <1>7. WriteInv'
    BY <1>1, <1>4, <1>5, MachineKept, Zenon DEF WriteInv
  <1> QED
    BY <1>1, <1>2, <1>5, <1>6, <1>7, AfterDetects, ReportKept, Zenon DEF IdeInv

-----------------------------------------------------------------------------
(***************************************************************************)
(* The steps of the boot keep the invariant.                               *)
(***************************************************************************)

\* Where the steps of a part are, and where they go.
LEMMA MemPcs ==
    MemStep => /\ machine' = machine /\ pc \in BeforeScan \cup {"pmem_entry"}
               /\ pc' \in BeforeScan \cup {"pmem_entry", "paging_init", "stopped"}
  <1>1. load_stage2 \/ load_kernel \/ copy_extmem \/ pmem_init =>
           /\ machine' = machine /\ pc \in BeforeScan
           /\ pc' \in BeforeScan \cup {"pmem_entry", "stopped"}
    BY Zenon DEF load_stage2, load_kernel, copy_extmem, pmem_init, disk_load, Goto, Stop, BeforeScan
  <1>2. e820_start \/ e820_lp => machine' = machine /\ pc \in BeforeScan /\ pc' \in BeforeScan
    BY Zenon DEF e820_start, e820_lp, Goto, BeforeScan
  <1>3. pmem_entry \/ pmem_done =>
           /\ machine' = machine /\ pc = "pmem_entry"
           /\ pc' \in {"pmem_entry", "paging_init", "stopped"}
    BY Zenon DEF pmem_entry, pmem_done, Goto, Stop
  <1> QED
    BY <1>1, <1>2, <1>3, Zenon DEF MemStep

\* The same for the ACPI tables and the processors ...
LEMMA AcpiPcs ==
    AcpiStep =>
        /\ machine' = machine
        /\ \/ /\ pc \in {"paging_init", "acpi_init", "parse_sdt", "parse_madt"}
              /\ pc' \in {"acpi_init", "parse_sdt", "parse_madt", "ioapicinit", "stopped"}
           \/ pc = "cpu_init" /\ pc' = "ide_init"
  <1>1. paging_init =>
           machine' = machine /\ pc = "paging_init" /\ pc' \in {"acpi_init", "stopped"}
    BY Zenon DEF paging_init, Goto, Stop
  <1>2. acpi_init => /\ machine' = machine /\ pc = "acpi_init"
                     /\ pc' \in {"parse_sdt", "ioapicinit", "stopped"}
    BY Zenon DEF acpi_init, Goto, Stop
  <1>3. parse_sdt => /\ machine' = machine /\ pc = "parse_sdt"
                     /\ pc' \in {"parse_sdt", "parse_madt", "ioapicinit", "stopped"}
    BY Zenon DEF parse_sdt, Goto, Stop
  <1>4. parse_madt => /\ machine' = machine /\ pc = "parse_madt"
                      /\ pc' \in {"parse_sdt", "parse_madt"}
    BY Zenon DEF parse_madt, Goto
  <1>5. cpu_init => machine' = machine /\ pc = "cpu_init" /\ pc' = "ide_init"
    BY Zenon DEF cpu_init, Goto
  <1> QED
    BY <1>1, <1>2, <1>3, <1>4, <1>5, Zenon DEF AcpiStep

\* ... for the I/O APIC and the serial port ...
LEMMA IoPcs ==
    IoStep => /\ machine' = machine
              /\ pc \in {"ioapicinit", "ioapic_line", "uartinit", "uartputc"}
              /\ pc' \in {"ioapic_line", "uartinit", "uartputc", "cpu_init", "stopped"}
  BY Zenon DEF IoStep, ioapicinit, ioapic_line, ioapic_done, uartinit, uartputc, Goto, Stop

\* ... and for the drive.
LEMMA IdeStepPcs ==
    IdeStep => /\ machine' = machine /\ pc \in IdePcs
               /\ pc' \in IdePcs \cup {"run", "stopped"}
  <1>1. ide_select \/ ide_wait =>
           machine' = machine /\ pc \in IdePcs /\ pc' \in IdePcs
    BY Zenon DEF ide_select, ide_wait, ide_wait_ready, Goto, IdePcs
  <1>2. ide_identify \/ ide_program =>
           machine' = machine /\ pc \in IdePcs /\ pc' \in IdePcs \cup {"run"}
    BY Zenon DEF ide_identify, ide_program, Program, Goto, IdePcs
  <1>3. ide_exists \/ ide_poll \/ ide_signature =>
           machine' = machine /\ pc \in IdePcs /\ pc' \in IdePcs \cup {"stopped"}
    BY Zenon DEF ide_exists, ide_poll, ide_signature, Goto, Stop, IdePcs
  <1>4. ide_insl \/ ide_start \/ ide_outsl =>
           machine' = machine /\ pc \in IdePcs /\ pc' \in IdePcs \cup {"run", "stopped"}
    BY Zenon DEF ide_insl, ide_start, ide_outsl, Goto, Stop, IdePcs
  <1> QED
    BY <1>1, <1>2, <1>3, <1>4, Zenon DEF IdeStep

\* The boot starts with nothing noted, routed, found or written.
LEMMA InitIInv == Init => IInv
  <1> SUFFICES ASSUME Init PROVE IInv
    BY Zenon
  <1>1. machine \in Machines /\ pc = "load_stage2"
    BY Zenon DEF Init
  <1>2. pc \in BeforeScan /\ pc \in BeforeSerial /\ pc \in BeforeIdentify /\ pc \in Pcs
    BY <1>1, Zenon DEF BeforeScan, BeforeSerial, BeforeIdentify, Pcs
  <1>3. MemInv
    <2>1. /\ e820 = [calls |-> 0, map |-> <<>>, cnt |-> 0]
          /\ pmem = [i |-> 0, extmem |-> 0, entry |-> 0,
                     acpi |-> 0, acpi_len |-> 0, phys_end |-> 0]
      BY Zenon DEF Init, MemInit
    <2>2. /\ e820.calls = 0 /\ e820.map = <<>> /\ e820.cnt = 0
          /\ pmem.i = 0 /\ pmem.extmem = 0 /\ pmem.entry = 0 /\ pmem.phys_end = 0
      BY <2>1, Zenon
    <2>3. MemType
      BY <2>1, FirmwareAssumption DEF MemType, Pmem, Pages, SizeAssumption
    <2>4. MapInv
      <3>1. /\ Len(bios.entries) >= 1 /\ Len(bios.entries) \in Nat
        BY <1>1, ListFacts
      <3>2. OnlyNoted(<<>>, 0) /\ AllNoted(<<>>, 0) /\ Increasing(<<>>)
        BY DEF OnlyNoted, AllNoted, Increasing
      <3>3. 0 <= Len(bios.entries)
        BY <3>1
      <3> QED
        BY <1>1, <2>1, <2>2, <3>2, <3>3, Zenon DEF MapInv
    <2>5. ScanInv /\ TidyDivided /\ RegionsApart
      BY <1>1, <2>2, Zenon DEF ScanInv, TidyDivided, RegionsApart, BeforePaging
    <2> QED
      BY <2>3, <2>4, <2>5, Zenon DEF MemInv
  <1>4. IoInv
    <2>1. /\ redir = [i \in 0..machine.ioapic.maxintr |-> machine.ioapic.left]
          /\ line = 0 /\ uart = [there |-> FALSE, thr |-> FALSE, p |-> 0, i |-> 0]
      BY Zenon DEF Init, IoInit
    <2>2. /\ DOMAIN redir = 0..machine.ioapic.maxintr /\ line \in Nat
          /\ uart \in [there : BOOLEAN, thr : BOOLEAN, p : Nat, i : Nat]
      BY <2>1, Zenon
    <2>3. ~uart.there
      BY <2>1, Zenon
    <2> QED
      BY <1>1, <1>2, <2>1, <2>2, <2>3, Zenon DEF IoInv
  <1>5. IdeInv
    <2>1. /\ ide = [b |-> NoBlock, i |-> 0, k |-> 1, ready |-> FALSE, status |-> {},
                    found |-> FALSE, model |-> "none"]
          /\ disk = [phase |-> "idle", cmd |-> "none", intrq |-> FALSE,
                     regs |-> [control |-> 0, sectors |-> 1, lo |-> 1, mi |-> 0, hi |-> 0,
                               select |-> 0]]
          /\ platter = {}
      BY Zenon DEF Init, IdeInit
    <2>2. ide \in Driver
      <3>1. 1 \in Nat \ {0} /\ 0 \in Nat /\ {} \in SUBSET AllBits
        OBVIOUS
      <3> QED
        BY <2>1, <3>1, Zenon DEF Driver
    <2>3. disk \in Disk
      <3>1. [control |-> 0, sectors |-> 1, lo |-> 1, mi |-> 0, hi |-> 0, select |-> 0]
               \in [Regs -> Nat]
        BY DEF Regs
      <3> QED
        BY <2>1, <3>1, Zenon DEF Disk, Phases
    <2>4. disk.phase = "idle" /\ ~ide.found
      BY <2>1, Zenon
    <2>5. IdeType
      BY <2>2, <2>3, <2>4, Zenon DEF IdeType
    <2>6. DetectInv /\ WriteInv
      BY <1>1, <2>4, Zenon DEF DetectInv, WriteInv, Detecting
    <2>7. FoundIsThere /\ WritesOnlyRequested
      BY <2>1, <2>4, Zenon DEF FoundIsThere, WritesOnlyRequested
    <2> QED
      BY <2>5, <2>6, <2>7, Zenon DEF IdeInv
  <1> QED
    BY <1>1, <1>2, <1>3, <1>4, <1>5, Zenon DEF IInv

\* How the places of the parts lie among the sets the invariant speaks of.
LEMMA PlacesOf ==
    /\ BeforeScan \cup {"pmem_entry", "paging_init"} \subseteq Early
    /\ BeforeScan \cup {"pmem_entry", "paging_init"} \subseteq BeforeIdentify
    /\ {"paging_init", "acpi_init", "parse_sdt", "parse_madt", "ioapicinit"} \subseteq Early
    /\ {"paging_init", "acpi_init", "parse_sdt", "parse_madt", "ioapicinit", "ioapic_line",
        "uartinit", "uartputc", "cpu_init", "ide_init"} \subseteq BeforeIdentify
    /\ IdePcs \cup {"run", "cpu_init"} \subseteq Late
    /\ Early \subseteq Pcs /\ Late \subseteq Pcs
    /\ {"ioapic_line", "uartinit", "uartputc", "cpu_init", "stopped"} \subseteq Pcs
  BY Zenon DEF BeforeScan, Early, BeforeSerial, BeforeIdentify, Late, IdePcs, Pcs

\* Nothing goes back to the loader or to pmem_init.
LEMMA PlacesAfterScan ==
    \A p \in Late \cup {"stopped"} : p \notin BeforeScan \cup {"pmem_entry"}
  BY Zenon DEF BeforeScan, Late, IdePcs

\* A step of the loader or of pmem_init.
LEMMA MemNext ==
    ASSUME IInv, MemStep, UNCHANGED <<acpivars, iovars, idevars>>
    PROVE  IInv'
  <1>1. /\ machine' = machine /\ pc \in BeforeScan \cup {"pmem_entry"}
        /\ pc' \in BeforeScan \cup {"pmem_entry", "paging_init", "stopped"}
    BY MemPcs, Zenon
  <1>2. /\ redir' = redir /\ line' = line /\ isr' = isr /\ uart' = uart
        /\ ide' = ide /\ disk' = disk /\ platter' = platter
    BY Zenon DEF iovars, idevars
  <1>3. MemInv'
    BY LoaderMem, e820_startMem, e820_lpMem, pmem_entryMem, pmem_doneMem, Zenon DEF MemStep
  <1>4. /\ pc' = "stopped" \/ (pc \in Early /\ pc' \in Early)
        /\ pc \in BeforeIdentify /\ pc' \in BeforeIdentify \cup {"stopped"}
        /\ pc' \in Pcs
    BY <1>1, PlacesOf, Zenon
  <1>5. IoInv'
    BY <1>1, <1>2, <1>4, UartType, IoKept, Zenon
  <1>6. IdeInv'
    BY <1>1, <1>2, <1>4, IdeKept, Zenon
  <1> QED
    BY <1>1, <1>3, <1>4, <1>5, <1>6, Zenon DEF IInv

\* A step of paging_init, of acpi_init or of cpu_init.
LEMMA AcpiNext ==
    ASSUME IInv, AcpiStep, UNCHANGED <<memvars, iovars, idevars>>
    PROVE  IInv'
  <1>1. /\ machine' = machine
        /\ \/ /\ pc \in {"paging_init", "acpi_init", "parse_sdt", "parse_madt"}
              /\ pc' \in {"acpi_init", "parse_sdt", "parse_madt", "ioapicinit", "stopped"}
           \/ pc = "cpu_init" /\ pc' = "ide_init"
    BY AcpiPcs, Zenon
  <1>2. /\ e820' = e820 /\ pmem' = pmem
        /\ redir' = redir /\ line' = line /\ isr' = isr /\ uart' = uart
        /\ ide' = ide /\ disk' = disk /\ platter' = platter
    BY Zenon DEF memvars, iovars, idevars
  <1>3. "ide_init" \in IdePcs
    BY Zenon DEF IdePcs
  <1>4. /\ \/ pc' = "stopped" \/ (pc \in Early /\ pc' \in Early)
           \/ (pc \in Late /\ pc' \in Late)
        /\ pc \in BeforeIdentify /\ pc' \in BeforeIdentify \cup {"stopped"}
        /\ pc' \in Pcs
    BY <1>1, <1>3, PlacesOf, Zenon
  <1>5. pc' \notin BeforeScan \cup {"pmem_entry"}
    BY <1>1, Zenon DEF BeforeScan
  <1>6. MemInv'
    <2>1. pc = "paging_init" => paging_init
      BY Zenon DEF AcpiStep, acpi_init, parse_sdt, parse_madt, cpu_init
    <2>2. pc # "paging_init" => pc \notin BeforePaging \cup {"stopped"}
      BY <1>1, Zenon DEF BeforePaging
    <2>3. RegionsApart'
      BY <1>2, <2>1, <2>2, PagingApart, ApartKept, Zenon
    <2> QED
      BY <1>1, <1>2, <1>5, <2>3, MemSame, Zenon
  <1>7. IoInv'
    BY <1>1, <1>2, <1>4, UartType, IoKept, Zenon
  <1>8. IdeInv'
    BY <1>1, <1>2, <1>4, IdeKept, Zenon
  <1> QED
    BY <1>1, <1>4, <1>6, <1>7, <1>8, Zenon DEF IInv

\* A step of ioapicinit or of uartinit.
LEMMA IoNext ==
    ASSUME IInv, IoStep, UNCHANGED <<memvars, acpivars, idevars>>
    PROVE  IInv'
  <1>1. /\ machine' = machine
        /\ pc \in {"ioapicinit", "ioapic_line", "uartinit", "uartputc"}
        /\ pc' \in {"ioapic_line", "uartinit", "uartputc", "cpu_init", "stopped"}
    BY IoPcs, Zenon
  <1>2. /\ e820' = e820 /\ pmem' = pmem
        /\ ide' = ide /\ disk' = disk /\ platter' = platter
    BY Zenon DEF memvars, idevars
  <1>3. /\ pc \in BeforeIdentify /\ pc' \in BeforeIdentify \cup {"stopped"}
        /\ pc' \in Pcs
    BY <1>1, PlacesOf, Zenon
  <1>4. pc' \notin BeforeScan \cup {"pmem_entry"}
    BY <1>1, Zenon DEF BeforeScan
  <1>5. MemInv'
    <2>1. pc \notin BeforePaging \cup {"stopped"}
      BY <1>1, Zenon DEF BeforePaging
    <2> QED
      BY <1>1, <1>2, <1>4, <2>1, ApartKept, MemSame, Zenon
  <1>6. IoInv'
    BY ioapicinitIo, ioapic_lineIo, ioapic_doneIo, uartinitIo, UartIo, Zenon DEF IoStep
  <1>7. IdeInv'
    BY <1>1, <1>2, <1>3, IdeKept, Zenon
  <1> QED
    BY <1>1, <1>3, <1>5, <1>6, <1>7, Zenon DEF IInv

\* A step of ide_init, of ide_start or of the kernel asking for a block.
LEMMA IdeNext ==
    ASSUME IInv,
           \/ ide_init /\ UNCHANGED <<memvars, acpivars>>
           \/ (IdeStep \/ Request) /\ UNCHANGED <<memvars, acpivars, iovars>>
    PROVE  IInv'
  <1>1. /\ machine' = machine /\ pc \in IdePcs \cup {"run"}
        /\ pc' \in IdePcs \cup {"run", "stopped"}
    <2>1. CASE ide_init
      BY <2>1, Zenon DEF ide_init, Goto, IdePcs
    <2>2. CASE IdeStep
      BY <2>2, IdeStepPcs, Zenon
    <2>3. CASE Request
      BY <2>3, Zenon DEF Request, Goto, IdePcs
    <2> QED
      BY <2>1, <2>2, <2>3, Zenon
  <1>2. /\ e820' = e820 /\ pmem' = pmem
        /\ redir' = redir /\ line' = line /\ isr \subseteq isr' /\ uart' = uart
    <2>1. CASE ide_init /\ UNCHANGED <<memvars, acpivars>>
      BY <2>1, Zenon DEF ide_init, memvars
    <2>2. CASE (IdeStep \/ Request) /\ UNCHANGED <<memvars, acpivars, iovars>>
      BY <2>2, Zenon DEF memvars, iovars
    <2> QED
      BY <2>1, <2>2, Zenon
  <1>3. (pc' = "stopped" \/ (pc \in Late /\ pc' \in Late)) /\ pc' \in Pcs
    BY <1>1, PlacesOf, Zenon
  <1>4. pc' \notin BeforeScan \cup {"pmem_entry"}
    BY <1>3, PlacesAfterScan, Zenon
  <1>5. MemInv'
    <2>1. pc \notin BeforePaging \cup {"stopped"}
      BY <1>1, Zenon DEF BeforePaging, IdePcs
    <2> QED
      BY <1>1, <1>2, <1>4, <2>1, ApartKept, MemSame, Zenon
  <1>6. IoInv'
    BY <1>1, <1>2, <1>3, UartType, IoKept, Zenon
  <1>7. IdeInv'
    BY ide_initIde, ide_selectIde, ide_identifyIde, ide_existsIde, ide_pollIde,
       ide_signatureIde, ide_inslIde, ide_startIde, ide_waitIde, ide_programIde,
       ide_outslIde, RequestIde, Zenon DEF IdeStep
  <1> QED
    BY <1>1, <1>3, <1>5, <1>6, <1>7, Zenon DEF IInv

\* The serial port and the drive move beside main().
LEMMA DevicesNext ==
    ASSUME IInv, Port \/ Drive
    PROVE  IInv'
  <1>1. /\ machine' = machine /\ pc' = pc /\ e820' = e820 /\ pmem' = pmem
    BY Zenon DEF Port, Drive, Transmit, DriveAnswers, memvars
  <1>2. MemInv'
    BY <1>1, ApartKept, MemSame, Zenon
  <1>3. CASE Port
    <2>1. ide' = ide /\ disk' = disk /\ platter' = platter /\ Transmit
      BY <1>3, Zenon DEF Port, idevars
    <2> QED
      BY <1>1, <1>2, <2>1, UartIo, IdeKept, Zenon DEF IInv
  <1>4. CASE Drive
    <2>1. /\ redir' = redir /\ line' = line /\ isr' = isr /\ uart' = uart /\ DriveAnswers
      BY <1>4, Zenon DEF Drive, iovars
    <2>2. IoInv'
      BY <1>1, <2>1, UartType, IoKept, Zenon
    <2> QED
      BY <1>1, <1>2, <2>1, <2>2, DriveAnswersIde, Zenon DEF IInv
  <1> QED
    BY <1>3, <1>4, Zenon

\* Every step of the boot keeps the invariant.
LEMMA NextIInv == IInv /\ [Next]_vars => IInv'
  <1> SUFFICES ASSUME IInv, [Next]_vars PROVE IInv'
    OBVIOUS
  <1>1. CASE Kernel
    BY <1>1, MemNext, AcpiNext, IoNext, IdeNext, Zenon DEF Kernel
  <1>2. CASE NewRequest
    BY <1>2, IdeNext, Zenon DEF NewRequest
  <1>3. CASE Port \/ Drive
    BY <1>3, DevicesNext, Zenon
  <1>4. CASE UNCHANGED vars
    <2>1. /\ machine' = machine /\ pc' = pc /\ e820' = e820 /\ pmem' = pmem
          /\ redir' = redir /\ line' = line /\ isr' = isr /\ uart' = uart
          /\ ide' = ide /\ disk' = disk /\ platter' = platter
      BY <1>4, Zenon DEF vars, memvars, iovars, idevars
    <2>2. IoInv'
      BY <2>1, UartType, IoKept, Zenon
    <2> QED
      BY <2>1, <2>2, ApartKept, MemSame, IdeKept, Zenon DEF IInv
  <1> QED
    BY <1>1, <1>2, <1>3, <1>4, Zenon DEF Next

-----------------------------------------------------------------------------
(***************************************************************************)
(* The theorems.                                                           *)
(***************************************************************************)

\* IInv is an invariant of the boot on every machine of the assumptions.
THEOREM Invariance == Spec => []IInv
  BY InitIInv, NextIInv, PTL DEF Spec

\* Whatever list the BIOS gives, in order or not and overlapping or not, the
\* regions that setupkvm maps share no page once paging is on.  If the list is
\* tidy, the memory pmem_init hands to the allocator is moreover one stretch of
\* RAM from 1 MB up, the region it hands to setupkvm for the tables is a stretch
\* of the list above it and free of RAM, and no address is cut by the conversion
\* to 32 bits.
THEOREM MemoryIsDivided == Spec => []MemoryDivided
  <1>1. IInv => MemoryDivided
    BY Zenon DEF IInv, MemInv, MemoryDivided
  <1> QED
    BY <1>1, Invariance, PTL

\* Whatever the firmware left in the redirection table and however many lines
\* the I/O APIC has, once the serial port is reached every line has its own
\* vector and none but that of COM1 is unmasked, and that one has a handler.
THEOREM LinesAreRouted == Spec => []LinesRouted
  BY Invariance, LinesFollow, PTL

\* Whatever is at the drive's place and however the end of its busy spells
\* falls among the polls of ide_init, a drive that is reported is there, and one
\* whose answer had come is an ATA drive with the model that is printed.
THEOREM FoundDriveIsThere == Spec => []FoundIsThere
  <1>1. IInv => FoundIsThere
    BY Zenon DEF IInv, IdeInv
  <1> QED
    BY <1>1, Invariance, PTL

\* For every block of the file system and both devices, the registers that
\* ide_start fills one by one name the sectors of the block: what it sends to
\* a drive that was ready lands there and nowhere else.
THEOREM WritesWhereRequested == Spec => []WritesOnlyRequested
  <1>1. IInv => WritesOnlyRequested
    BY Zenon DEF IInv, IdeInv
  <1> QED
    BY <1>1, Invariance, PTL

=============================================================================
