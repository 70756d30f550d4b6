------------------------------- MODULE MCBoot -------------------------------
(***************************************************************************)
(* The machines the boot is checked on: every memory map below with one    *)
(* set of tables, every set of tables with one memory map, and every drive *)
(* on one of these.                                                        *)
(***************************************************************************)
EXTENDS BootOutcome

Entry(base, len, type) ==
    [base |-> base, len |-> len, type |-> type, size |-> 20, ignore |-> FALSE]

Low == <<Entry(0, 159, "RAM"), Entry(159, 1, "RESERVED"), Entry(240, 16, "RESERVED")>>
Rom == Entry(1048512, 64, "RESERVED")                      \* 0xfffc0000

Bios(entries) ==
    [smap |-> TRUE, entries |-> entries, end |-> "ebx",
     reads |-> TRUE, moves |-> TRUE, a20 |-> TRUE]

\* 128 MB as Qemu lists them, tables at the end of the memory.
Qemu == Bios(Low \o <<Entry(256, 32480, "RAM"), Entry(32736, 32, "RESERVED"), Rom>>)

\* The same with n pages of extended memory.
WithMemory(n) == Bios(Low \o <<Entry(256, n, "RAM"), Entry(256 + n, 32, "RESERVED"), Rom>>)

Bochs ==
    [Bios(Low \o <<Entry(256, 32480, "RAM"), Entry(32736, 16, "ACPI"), Rom>>)
        EXCEPT !.end = "carry"]

\* More than 4 GB, an empty entry, one to be ignored, one that is not there.
Odd ==
    Bios(Low \o <<[Entry(256, 32480, "RAM") EXCEPT !.size = 24],
                  Entry(32736, 0, "RESERVED"),
                  [Entry(32736, 16, "ACPI") EXCEPT !.size = 24, !.ignore = TRUE],
                  [Entry(32736, 0, "RAM") EXCEPT !.size = 0],
                  Entry(32752, 16, "NVS"), Entry(32768, 16, "ACPI"), Rom,
                  Entry(1048576, 524288, "RAM"), Entry(1572864, 256, "RESERVED")>>)

\* Reserved memory comes before the ACPI memory, and is taken for it.
Hidden == Bios(Low \o <<Entry(256, 32480, "RAM"), Entry(32736, 16, "RESERVED"),
                        Entry(32752, 16, "ACPI"), Rom>>)

\* Lists that are out of order or overlap: the tables before the memory, the
\* reserved memory before it and none after it, extended memory that is not the
\* lowest, reserved memory inside the extended memory, extended memory twice.
Untidy ==
    {Bios(<<Rom, Entry(32736, 16, "ACPI"), Entry(256, 32480, "RAM")>> \o Low),
     Bios(<<Entry(32736, 32, "RESERVED"), Rom, Entry(256, 32480, "RAM")>> \o Low),
     Bios(Low \o <<Entry(4096, 28640, "RAM"), Entry(32736, 32, "RESERVED"),
                   Entry(256, 3584, "RAM")>>),
     Bios(Low \o <<Entry(256, 32480, "RAM"), Entry(20000, 16, "RESERVED"), Rom>>),
     Bios(Low \o <<Entry(256, 16384, "RAM"), Entry(32736, 32, "RESERVED"),
                   Entry(256, 32480, "RAM")>>)}

Maps ==
    Untidy \cup
    {Qemu, Bochs, Odd, Hidden,
     WithMemory(515808), WithMemory(515809), WithMemory(524032), WithMemory(786176),
     Bios(<<Entry(0, 160, "RAM")>>), Bios(Low), Bios(Low \o <<Rom>>),
     Bios(Low \o <<Entry(256, 32480, "RAM")>>), Bios(Low \o <<Entry(256, 32480, "RAM"), Rom>>),
     [Qemu EXCEPT !.smap = FALSE], [Qemu EXCEPT !.a20 = FALSE],
     [Qemu EXCEPT !.reads = FALSE], [Qemu EXCEPT !.moves = FALSE]}

-----------------------------------------------------------------------------
Cpu(id) == [type |-> "CPU", len |-> 8, id |-> id, apic |-> id]
Ioa(id, addr) == [type |-> "IOAPIC", len |-> 12, id |-> id, addr |-> addr]
Override(source, target) == [type |-> "INT", len |-> 10, source |-> source, target |-> target]
Nmi == [type |-> "NMI", len |-> 6]

IoapicPage == 1043456                                      \* 0xfec00000

\* What stands behind a MADT: padding, another table, what reads as entries.
Zeros == <<[type |-> "CPU", len |-> 0, id |-> 0, apic |-> 0]>>
NextTable == <<[type |-> "text", len |-> 83]>>
MoreEntries == <<Cpu(5), Ioa(3, IoapicPage)>> \o NextTable

EntryLists ==
    {<<Cpu(0), Ioa(0, IoapicPage), Override(0, 2), Override(5, 5), Nmi>>,
     <<Cpu(1), Ioa(2, IoapicPage), Override(0, 2), Override(9, 9), Override(0, 3), Cpu(3)>>,
     <<Cpu(1), Cpu(2)>>,
     <<Ioa(1, IoapicPage), Ioa(2, IoapicPage + 1)>>,
     <<Ioa(1, 32000)>>, <<Ioa(1, 600000)>>}

Tables == [list : EntryLists, after : {Zeros, NextTable, MoreEntries}]

\* The tables of m from page at on: the root tables of both kinds, another
\* table and the MADT.
Placed(at, m) ==
    [t \in at..(at + 3) |->
        CASE t = at     -> [sig |-> "RSDT", words |-> <<at + 2, at + 3>>]
          [] t = at + 1 -> [sig |-> "XSDT", words |-> <<at + 2, 0, at + 3, 0>>]
          [] t = at + 2 -> [sig |-> "FACP"]
          [] t = at + 3 -> [sig |-> "APIC", entries |-> m.list, after |-> m.after]]

\* Firmware with the root pointer at the addresses sigs, of that revision and
\* checksum.
Fw(at, m, sigs, revision, sum) ==
    [ebda |-> 40960 - 1024, signatures |-> sigs, tables |-> Placed(at, m),
     rsdp |-> [a \in sigs |-> [revision |-> revision, sum |-> sum,
                               rsdt |-> at, xsdt |-> at + 1]]]

Plain == [list |-> <<Cpu(1), Ioa(0, IoapicPage), Override(0, 2)>>, after |-> Zeros]

\* First and last slot of the EBDA and of the ROM, both, between two slots.
Signatures ==
    {{}, {638976}, {638976 + 1008}, {638976 + 1024}, {917504}, {1048560},
     {638976, 917504}, {917504 + 8}}

Firmware ==
    {Fw(32740, m, {1048560}, 0, 0) : m \in Tables}
    \cup {Fw(32740, m, {638976 + 1008}, 2, 0) : m \in Tables}
    \cup {Fw(32740, Plain, s, r, n) : s \in Signatures, r \in {0, 2}, n \in {0, 7, 256}}
    \cup {Fw(1000, Plain, {917504}, 0, 0), Fw(500000, Plain, {917504}, 0, 0)}

-----------------------------------------------------------------------------
Drives ==
    [kind : {"pata", "atapi"}, fails : BOOLEAN, multiple : BOOLEAN]
    \cup [kind : {"none", "floating"}, fails : {FALSE}, multiple : {FALSE}]

Ata == [kind |-> "pata", fails |-> FALSE, multiple |-> TRUE]

Left == [masked |-> FALSE, vector |-> 0, dest |-> 0]

Blocks ==
    {[dev |-> 1, block_no |-> n, dirty |-> w, data |-> "block"] :
        n \in {1, 128, 999, 1000}, w \in BOOLEAN}

Machine(b, f, d, com1, requests) ==
    [bios |-> b, fw |-> f, drive |-> d, com1 |-> com1, requests |-> requests,
     ioapic |-> [maxintr |-> 5, left |-> Left]]

\* The tables of a map are in its first ACPI or reserved memory above 1 MB ...
TablesAt(b) ==
    LET at == {i \in DOMAIN b.entries : /\ b.entries[i].type \in {"ACPI", "RESERVED"}
                                        /\ b.entries[i].base >= 256 /\ b.entries[i].len > 0
                                        /\ ~b.entries[i].ignore}
    IN  IF b = Hidden THEN 32752 ELSE IF at = {} THEN 1000 ELSE b.entries[Min(at)].base

MCMachines ==
    {Machine(b, Fw(TablesAt(b), Plain, {917504}, 0, 0), Ata, TRUE, {}) : b \in Maps}
    \cup {Machine(Qemu, f, Ata, FALSE, {}) : f \in Firmware}
    \cup {Machine(Qemu, Fw(32740, Plain, {917504}, 0, 0), d, FALSE, Blocks) : d \in Drives}

=============================================================================
