---------------------------- MODULE BootOutcome -----------------------------
(***************************************************************************)
(* What the boot should come to on a machine, read off the description of  *)
(* the machine and not from the steps of the code: which tables there are  *)
(* to find, and whether the kernel can run.                                *)
(***************************************************************************)
EXTENDS Boot, SequencesExt

-----------------------------------------------------------------------------
(* What the machine is, read off its description.                          *)

Usable == SelectSeq(bios.entries, Counts)

FirstWith(s, Test(_)) == s[Min({i \in DOMAIN s : Test(s[i])})]

HasExtended == \E i \in DOMAIN Usable : Extended(Usable[i])

ExtMem == FirstWith(Usable, Extended)

\* Where the tables are looked for: in the first stretch of ACPI memory, or of
\* reserved memory that is listed after the extended memory.
ForTables ==
    {i \in DOMAIN Usable :
        \/ Usable[i].type = "ACPI"
        \/ Usable[i].type = "RESERVED" /\ \E j \in 1..(i - 1) : Extended(Usable[j])}

TableMem == Usable[Min(ForTables)]

Within(page, e) == page >= e.base /\ page < e.base + e.len

Reachable(page) == page < ExtMem.base + ExtMem.len \/ Within(page, TableMem)

\* The places where the ACPI specification puts the root pointer.
Roots ==
    {a \in fw.signatures : /\ a % 16 = 0
                           /\ \/ a \in (fw.ebda * 16)..(fw.ebda * 16 + 1023)
                              \/ a \in 917504..1048575}

RootPtr == fw.rsdp[Min(Roots)]

RootTable == fw.tables[IF RootPtr.revision = 0 THEN RootPtr.rsdt ELSE RootPtr.xsdt]

\* The addresses of the tables the root table lists.
Listed == SelectSeq(RootTable.words, LAMBDA w : w # 0)

Madts == SelectSeq(Listed, LAMBDA t : fw.tables[t].sig = "APIC")

MadtEntries == FlattenSeq([i \in DOMAIN Madts |-> fw.tables[Madts[i]].entries])

OfType(type) == SelectSeq(MadtEntries, LAMBDA e : e.type = type)

\* What stands behind the MADT does not begin like an entry that is recorded.
NothingBehind ==
    \A i \in DOMAIN Madts :
        LET next == Head(fw.tables[Madts[i]].after)
        IN  next.len = 0 \/ next.type \notin {"CPU", "IOAPIC", "INT"}

Clear(a, n, b, k) == a + n <= b \/ b + k <= a

\* Loading works, the BIOS describes a machine whose memory leaves room for
\* the device space and for a stretch with the tables, and ...
MemoryFit ==
    /\ bios.reads /\ bios.moves /\ bios.a20 /\ bios.smap
    /\ ~(Len(bios.entries) = 1 /\ bios.end = "ebx")
    /\ HasExtended /\ ForTables # {}
    /\ LET dev == DevSpace - KernBase
           end == ExtMem.base + ExtMem.len
       IN  /\ end <= dev /\ end <= TableMem.base /\ TableMem.base + TableMem.len <= Top
           /\ Clear(TableMem.base, TableMem.len, dev, DevPages)

\* ... the tables are in memory the kernel maps, are sound, and name one I/O
\* APIC in the device space.
TablesFit ==
    /\ Roots # {} /\ RootPtr.sum % 256 = 0
    /\ Reachable(IF RootPtr.revision = 0 THEN RootPtr.rsdt ELSE RootPtr.xsdt)
    /\ \A i \in DOMAIN Listed : Reachable(Listed[i])
    /\ Len(OfType("IOAPIC")) = 1
    /\ OfType("IOAPIC")[1].addr \in DevSpace..(DevSpace + DevPages - 1)

-----------------------------------------------------------------------------
\* After acpi_init acpi_info holds what the tables of the firmware say, no more
\* and no less and in their order: every I/O APIC, for each overridden interrupt
\* the last override, and processors of the table and no others, which cpu_init
\* passes on.  This is so although parse_madt reads 36 bytes past the end of the
\* MADT, unless these begin like another entry.  It is empty if the checksum of
\* the root pointer is wrong.
TablesExact ==
    pc \in {"ioapicinit", "ioapic_line", "ide_init"} =>
        LET cpu == OfType("CPU")
            ioa == OfType("IOAPIC")
            int == OfType("INT")
            listed(keep) == SelectSeq(cpu, LAMBDA e : e \in keep)
        IN  IF RootPtr.sum % 256 # 0 THEN acpi_info = NoInfo
            ELSE NothingBehind =>
                 /\ \E keep \in SUBSET ToSet(cpu) :
                       acpi_info.cpu = [i \in DOMAIN listed(keep) |->
                           [id |-> listed(keep)[i].id, apic |-> listed(keep)[i].apic]]
                 /\ acpi_info.ioapic =
                       [i \in DOMAIN ioa |-> [id |-> ioa[i].id, addr |-> ioa[i].addr]]
                 /\ acpi_info.int_map =
                        {<<int[i].source, int[i].target>> : i \in
                            {i \in DOMAIN int : \A j \in DOMAIN int :
                                j > i => int[j].source # int[i].source}}
                 /\ pc = "ide_init" =>
                       cpus = [i \in DOMAIN acpi_info.cpu |-> acpi_info.cpu[i].apic]

\* The boot ends, however slow the serial port and the drive are and whatever
\* stands behind the MADT.  Unless that begins like another entry: on a machine
\* that is fit in the sense above and has a working ATA drive the kernel gets to
\* run, on one that is not fit or has no drive it stops with a message and never
\* runs.
BootsExactly ==
    LET known == Roots # {} => NothingBehind
        there == drive.kind \in {"pata", "atapi"}
        works == drive.kind = "pata" /\ ~drive.fails
    IN  /\ <>(pc = "run" \/ (pc = "stopped" /\ ~(works /\ MemoryFit /\ TablesFit /\ known)))
        /\ [](pc = "run" => (there /\ MemoryFit /\ TablesFit) \/ ~known)

=============================================================================
