-------------------------------- MODULE Acpi --------------------------------
(***************************************************************************)
(* kernel/drivers/acpi.c: finding the root pointer, walking the root table *)
(* and reading the MADT (the table that lists processors, I/O APICs and    *)
(* interrupt overrides) into acpi_info; and cpu_init of kernel/cpu.c.      *)
(*                                                                         *)
(* machine.fw is what the firmware left in memory: the EBDA word and the   *)
(* low addresses (in bytes) where the signature "RSD PTR " stands, the     *)
(* contents of the root pointer, and the tables by their address (in       *)
(* pages).  A root table is its 32-bit words, which the revision says to   *)
(* read one by one or in pairs.  A MADT is its entries, each with its      *)
(* length in bytes, and what the 36 bytes behind it read as: parse_madt is *)
(* given the length of the whole table but counts from behind its header.  *)
(***************************************************************************)
EXTENDS MemMap, Functions

CONSTANTS KernBase,             \* KERNBASE
          DevSpace, DevPages,   \* DEVSPACE and the size setupkvm maps there
          MAX_CPUS, MAX_IOAPIC

VARIABLES acpi_info,   \* the arrays up to their count, int_map where it was set
          walk,        \* rsdp and s of acpi_init, i of parse_sdt, e of parse_madt
          cpus         \* apicid of the processors cpu_init filled in

acpivars == <<acpi_info, walk, cpus>>

NoInfo == [cpu |-> <<>>, ioapic |-> <<>>, int_map |-> {}]

AcpiInit ==
    /\ acpi_info = NoInfo /\ cpus = <<>>
    /\ walk = [rsdp |-> 0, s |-> 0, i |-> 1, e |-> 1, off |-> 0]

fw == machine.fw

-----------------------------------------------------------------------------
(* The regions setupkvm maps, as page and number of pages of the virtual   *)
(* address space, which wraps around: a size of 0 makes mappages go on to  *)
(* the page before the first.                                              *)

\* The sum or difference of two page numbers, in 32-bit addresses.
Wrap(x) == IF x < 0 THEN x + Top ELSE IF x >= Top THEN x - Top ELSE x

P2V(page) == Wrap(page + KernBase)

Region(page, n) == [va |-> page, n |-> IF n = 0 THEN Top ELSE n]

InRegion(va, r) == Wrap(va - r.va) < r.n

Apart(r, s) == ~InRegion(r.va, s) /\ ~InRegion(s.va, r)

KernelRegion == Region(KernBase, pmem.phys_end)
AcpiRegion == Region(P2V(pmem.acpi), pmem.acpi_len)
DevRegion == Region(DevSpace, DevPages)

Mapped(va) == InRegion(va, KernelRegion) \/ InRegion(va, AcpiRegion) \/ InRegion(va, DevRegion)

\* paging_init: mappages panics on a page that is already mapped.
paging_init ==
    /\ pc = "paging_init" /\ UNCHANGED acpivars
    /\ IF /\ Apart(KernelRegion, AcpiRegion)
          /\ Apart(KernelRegion, DevRegion) /\ Apart(AcpiRegion, DevRegion)
       THEN Goto("acpi_init") ELSE Stop("remap")

-----------------------------------------------------------------------------
\* The first multiple of 16 bytes from start with the signature, or 0.
scan_rsdp(start, end) ==
    LET hits == {a \in fw.signatures : /\ a >= start /\ a < end
                                       /\ (a - start) % 16 = 0}
    IN  IF hits = {} THEN 0 ELSE CHOOSE a \in hits : \A b \in hits : a <= b

find_rsdp ==
    LET ebda == fw.ebda * 16
        p    == scan_rsdp(ebda, ebda + 1024)
    IN  IF p # 0 THEN p ELSE scan_rsdp(917504, 1048575)   \* 0xE0000, 0xFFFFF

\* The root pointer at address a, and the table at page t.
RsdpAt(a) == fw.rsdp[a]

Junk == [sig |-> "junk"]

TableAt(t) == IF t \in DOMAIN fw.tables THEN fw.tables[t] ELSE Junk

\* A null rsdp is dereferenced; page 0 is not mapped.  A bad checksum is only
\* warned about, with acpi_info left empty.
acpi_init ==
    /\ pc = "acpi_init" /\ UNCHANGED <<acpi_info, cpus>>
    /\ LET rsdp == find_rsdp
           root == RsdpAt(rsdp)
           s    == (IF root.revision # 0 THEN root.xsdt ELSE root.rsdt) % Top
       IN  IF rsdp = 0
           THEN Stop("page fault not handled!") /\ UNCHANGED walk
           ELSE /\ walk' = [walk EXCEPT !.rsdp = rsdp, !.s = s]
                /\ IF root.sum % 256 # 0 THEN Goto("ioapicinit")
                   ELSE IF Mapped(P2V(s)) THEN Goto("parse_sdt")
                   ELSE Stop("page fault not handled!")

\* The tables a root table points to: the low word of each entry.
Entries(s, revision) ==
    IF revision = 0 THEN s.words
    ELSE [i \in 1..(Len(s.words) \div 2) |-> s.words[2 * i - 1]]

\* One round of the loop of parse_sdt, or its end.
parse_sdt ==
    /\ pc = "parse_sdt" /\ UNCHANGED <<acpi_info, cpus>>
    /\ LET ptrs == Entries(TableAt(walk.s), RsdpAt(walk.rsdp).revision)
           t    == ptrs[walk.i]
       IN  IF walk.i > Len(ptrs) THEN Goto("ioapicinit") /\ UNCHANGED walk
           ELSE IF ~Mapped(P2V(t))
           THEN Stop("page fault not handled!") /\ UNCHANGED walk
           ELSE IF TableAt(t).sig = "APIC"
           THEN Goto("parse_madt") /\ walk' = [walk EXCEPT !.e = 1, !.off = 8]
           ELSE Goto("parse_sdt") /\ walk' = [walk EXCEPT !.i = @ + 1]

\* What parse_madt meets behind the two words of struct madt, and the length
\* in the header of the table.
Stream(t) == t.entries \o t.after

TableLen(t) == 36 + 8 + SumFunction([i \in DOMAIN t.entries |-> t.entries[i].len])

\* Faulty variant of Record: the interrupt overrides are not kept.
RecordNoOverride(info, e) ==
    CASE e.type = "CPU" /\ e.id % 2 = 1 ->
            [info EXCEPT !.cpu = Append(@, [id |-> e.id, apic |-> e.apic])]
      [] e.type = "IOAPIC" ->
            [info EXCEPT !.ioapic = Append(@, [id |-> e.id, addr |-> e.addr])]
      [] OTHER -> info

\* The switch of parse_madt.  Only a processor with an odd id is listed.
Record(info, e) ==
    CASE e.type = "CPU" /\ e.id % 2 = 1 ->
            [info EXCEPT !.cpu = Append(@, [id |-> e.id, apic |-> e.apic])]
      [] e.type = "IOAPIC" ->
            [info EXCEPT !.ioapic = Append(@, [id |-> e.id, addr |-> e.addr])]
      [] e.type = "INT" ->
            [info EXCEPT !.int_map = {m \in @ : m[1] # e.source} \cup {<<e.source, e.target>>}]
      [] OTHER -> info

\* Faulty variant of MadtEnds: no guard rail.
MadtEndsLate(off, len, e) == off >= len

\* The loop is over, or stops at an entry that says it has no length.
MadtEnds(off, len, e) == off >= len \/ e.len = 0

\* One round of the loop of parse_madt, or its end.
parse_madt ==
    /\ pc = "parse_madt" /\ UNCHANGED cpus
    /\ LET t == TableAt(Entries(TableAt(walk.s), RsdpAt(walk.rsdp).revision)[walk.i])
           e == Stream(t)[walk.e]
       IN  IF MadtEnds(walk.off, TableLen(t), e)
           THEN /\ walk' = [walk EXCEPT !.i = @ + 1]
                /\ Goto("parse_sdt") /\ UNCHANGED acpi_info
           ELSE /\ acpi_info' = Record(acpi_info, e)
                /\ walk' = [walk EXCEPT !.off = @ + e.len,
                                        !.e = IF e.len = 0 THEN @ ELSE @ + 1]
                /\ Goto("parse_madt")

cpu_init ==
    /\ pc = "cpu_init" /\ UNCHANGED <<acpi_info, walk>>
    /\ cpus' = [i \in DOMAIN acpi_info.cpu |-> acpi_info.cpu[i].apic]
    /\ Goto("ide_init")

AcpiStep == paging_init \/ acpi_init \/ parse_sdt \/ parse_madt \/ cpu_init

=============================================================================
