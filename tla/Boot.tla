-------------------------------- MODULE Boot --------------------------------
(***************************************************************************)
(* The boot as a whole: the loader, then main() with the parts that read   *)
(* what the machine is (pmem_init, paging_init, acpi_init, ioapicinit,     *)
(* uartinit, cpu_init, ide_init), in its order, on every machine of the    *)
(* set Machines.  Each part works on what the ones before it left, and the *)
(* serial port and the drive move beside it.                               *)
(***************************************************************************)
EXTENDS Ide

CONSTANT Machines

Stretch == [base : Nat, len : Nat, type : STRING, size : Nat, ignore : BOOLEAN]

Block == [dev : 0..1, block_no : Nat, dirty : BOOLEAN, data : STRING]

\* What a machine is made of, as far as the boot meets it.
MachineAssumption ==
    \A m \in Machines :
        /\ m.bios.entries \in Seq(Stretch) /\ m.bios.entries # <<>>
        /\ m.drive \in [kind : {"pata", "atapi", "none", "floating"},
                        fails : BOOLEAN, multiple : BOOLEAN]
        /\ m.requests \subseteq Block
        /\ m.ioapic.maxintr \in Nat /\ m.com1 \in BOOLEAN

\* The device space is above KERNBASE and below 4 GB.  Every block of the file
\* system has a 28-bit sector number.
SizeAssumption ==
    /\ ExtPage \in Nat \ {0} /\ Top \in Nat /\ ExtPage < Top
    /\ KernBase \in Nat \ {0} /\ DevSpace \in Nat /\ KernBase < DevSpace
    /\ DevPages \in Nat \ {0} /\ DevSpace + DevPages <= Top
    /\ IDE_WAIT_CYCLES \in Nat
    /\ FSSIZE \in Nat /\ FSSIZE * SECTORS_PER_BLOCK <= 268435456

\* The arrays of acpi_info have room for what is read as the MADT; parse_madt
\* does not check.
MadtAssumption ==
    \A m \in Machines : \A t \in DOMAIN m.fw.tables :
        m.fw.tables[t].sig = "APIC" =>
            LET entries == Stream(m.fw.tables[t]) IN
            /\ Len(SelectSeq(entries, LAMBDA e : e.type = "CPU")) <= MAX_CPUS
            /\ Len(SelectSeq(entries, LAMBDA e : e.type = "IOAPIC")) <= MAX_IOAPIC

ASSUME FirmwareAssumption ==
    MachineAssumption /\ SizeAssumption /\ MadtAssumption

vars == <<machine, pc, panic, memvars, acpivars, iovars, idevars>>

Init ==
    /\ machine \in Machines /\ pc = "load_stage2" /\ panic = NoPanic
    /\ MemInit /\ AcpiInit /\ IoInit /\ IdeInit

Kernel ==
    \/ MemStep /\ UNCHANGED <<acpivars, iovars, idevars>>
    \/ AcpiStep /\ UNCHANGED <<memvars, iovars, idevars>>
    \/ IoStep /\ UNCHANGED <<memvars, acpivars, idevars>>
    \/ ide_init /\ UNCHANGED <<memvars, acpivars>>
    \/ IdeStep /\ UNCHANGED <<memvars, acpivars, iovars>>

NewRequest == Request /\ UNCHANGED <<memvars, acpivars, iovars>>

Port == Transmit /\ UNCHANGED <<memvars, acpivars, idevars>>

Drive == DriveAnswers /\ UNCHANGED <<memvars, acpivars, iovars>>

Next == Kernel \/ NewRequest \/ Port \/ Drive

\* main() runs on, and a busy drive answers some day; the serial port may
\* never send anything, and no further block need be asked for.
Spec == Init /\ [][Next]_vars /\ WF_vars(Kernel) /\ WF_vars(Drive)

-----------------------------------------------------------------------------
Stretches == {bios.entries[i] : i \in {i \in DOMAIN bios.entries : Counts(bios.entries[i])}}

\* The list is in increasing order and nothing overlaps or reaches across 4 GB.
\* Its first extended memory, if any, starts at 1 MB, where the kernel was
\* copied to, and ends in 32 bits, as pmem_init says it assumes.  ACPI memory is
\* above 1 MB, and something is reserved below 4 GB before anything above is
\* listed.  The code sorts nothing and checks none of this.
Tidy(map) ==
    LET good  == {i \in DOMAIN map : Counts(map[i])}
        ext   == {i \in good : Extended(map[i])}
        saved == {i \in good : /\ map[i].type \in {"ACPI", "RESERVED"}
                               /\ map[i].base \in ExtPage..(Top - 1)}
    IN  /\ \A i, j \in good : i < j => map[i].base + map[i].len <= map[j].base
        /\ \A i \in ext : (\A j \in ext : i <= j) =>
              map[i].base = ExtPage /\ map[i].base + map[i].len < Top
        /\ \A i \in good :
              /\ map[i].type = "ACPI" => map[i].base >= ExtPage
              /\ map[i].base < Top => map[i].base + map[i].len <= Top
              /\ map[i].base >= Top => \E j \in saved : j < i

\* On a tidy list all memory from 1 MB up to phys_end is RAM, and the region
\* for the ACPI tables is a stretch of the list above it that holds no RAM.
TidyDivided ==
    pmem.phys_end # 0 /\ Tidy(bios.entries) =>
        /\ \E e \in Stretches :
              e.type = "RAM" /\ e.base = ExtPage /\ e.base + e.len = pmem.phys_end
        /\ \E e \in Stretches :
              /\ e.type \in {"ACPI", "RESERVED"} /\ e.base >= pmem.phys_end
              /\ pmem.acpi = e.base /\ pmem.acpi_len = e.len
        /\ \A e \in Stretches : e.type = "RAM" =>
              \/ e.base + e.len <= pmem.acpi \/ e.base >= pmem.acpi + pmem.acpi_len

BeforePaging ==
    {"load_stage2", "e820_start", "e820_lp", "load_kernel", "copy_extmem", "pmem_init",
     "pmem_entry", "paging_init"}

\* On any list, when main() goes on behind paging_init the physical memory from
\* 0 up to phys_end, the ACPI region and what the device space hides share no
\* page and do not wrap around.
RegionsApart ==
    pc \notin BeforePaging \cup {"stopped"} =>
        LET dev == DevSpace - KernBase
            end == pmem.acpi + pmem.acpi_len
        IN  /\ pmem.phys_end \in 1..dev /\ pmem.phys_end <= pmem.acpi
            /\ pmem.acpi < end /\ end <= Top
            /\ end <= dev \/ dev + DevPages <= pmem.acpi

\* What pmem_init hands to the allocator and to setupkvm.  On a tidy list it is
\* RAM, and apart from it a region for the ACPI tables that is none ("There
\* should not be any overlap with kernel space").  On a list that is out of
\* order or overlaps it may be neither, but the boot goes on only if the regions
\* setupkvm maps have no page in common.
MemoryDivided == TidyDivided /\ RegionsApart

BeforeSerial ==
    {"load_stage2", "e820_start", "e820_lp", "load_kernel", "copy_extmem", "pmem_init",
     "pmem_entry", "paging_init", "acpi_init", "parse_sdt", "parse_madt", "ioapicinit",
     "ioapic_line"}

\* When main() goes on to the serial port, and ever after, a line of the I/O
\* APIC can only raise a vector that has a handler, whatever the firmware had
\* left in the redirection table: every line has its own vector, and is masked
\* unless it is COM1 with a port behind it.
LinesRouted ==
    uart.there \/ pc \notin BeforeSerial \cup {"stopped"} =>
        \A i \in DOMAIN redir :
            /\ redir[i].vector = IDT_IRQ_BASE + i
            /\ redir[i].masked \/ (redir[i].vector \in isr /\ uart.there /\ redir[i].dest = 0)

\* A drive that ide_init reports as found is there; and if it had answered the
\* IDENTIFY command when its status was read, it is an ATA drive that did not
\* report an error, and the model that is printed is its own.
FoundIsThere ==
    ide.found =>
        /\ drive.kind \in {"pata", "atapi"}
        /\ "BSY" \notin ide.status =>
              drive.kind = "pata" /\ ~drive.fails /\ ide.model = "described"

\* "Detect that disk 0 on the primary ATA bus is there and is a PATA (IDE)
\* device": what ide_init reports as found is such a drive.
FoundIsPata == ide.found => drive.kind = "pata"

AllRequests == {FirstBlock} \cup UNION {m.requests : m \in Machines}

\* A block reaches the sectors of its number on the device of its request and
\* no other sector of either device, unless the drive had not become ready
\* when the bounded wait of ide_start gave up.
WritesOnlyRequested ==
    \A w \in platter : w.ready =>
        \E b \in AllRequests :
            /\ b.dirty /\ b.block_no < FSSIZE /\ w.dev = b.dev
            /\ \E j \in 0..(SECTORS_PER_BLOCK - 1) :
                  w.data = <<b.data, j>> /\ w.sector = b.block_no * SECTORS_PER_BLOCK + j

\* A drive that was ready and asks for the data by the time ide_start sends it
\* gets all of the block and signals its interrupt.
WriteLands ==
    \A b \in AllRequests :
        (pc = "ide_outsl" /\ ide.b = b /\ ide.ready /\ disk.phase = "dataOut")
            ~> /\ disk.intrq
               /\ \A j \in 0..(SECTORS_PER_BLOCK - 1) :
                     \E w \in platter : w.data = <<b.data, j>>

=============================================================================
