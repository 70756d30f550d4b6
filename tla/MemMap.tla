------------------------------- MODULE MemMap -------------------------------
(***************************************************************************)
(* The memory map: stage 2 of the loader asks the BIOS for it              *)
(* (boot/e820.asm), loads the kernel and copies it to 1 MB, and pmem_init  *)
(* (kernel/pmem.c) picks from it the memory the kernel will use and the    *)
(* region where it will look for the ACPI tables.                          *)
(*                                                                         *)
(* Addresses and lengths are in pages, and whole ones: a stretch that      *)
(* begins or ends inside a page, which mappages later rounds, does not     *)
(* occur.  machine.bios is what the BIOS answers: whether int 15h/e820 is  *)
(* supported, the entries in the order of the calls, whether the end comes *)
(* with the last entry (ebx = 0) or as a carry on the call after it, and   *)
(* whether the disk reads, the copy to high memory and the A20 gate work.  *)
(***************************************************************************)
EXTENDS Main

CONSTANTS ExtPage,    \* PMEM_EXTENDED_ADDR
          Top         \* 2^32

VARIABLES e820,       \* calls made, entries noted at MEM_MAP + 4, [MEM_MAP]
          pmem        \* i, extmem, acpi (indices, 0 for NULL), then the results

memvars == <<e820, pmem>>

MemInit ==
    /\ e820 = [calls |-> 0, map |-> <<>>, cnt |-> 0]
    /\ pmem = [i |-> 0, extmem |-> 0, entry |-> 0,
               acpi |-> 0, acpi_len |-> 0, phys_end |-> 0]

bios == machine.bios

-----------------------------------------------------------------------------
\* disk_load: a carry or a short count is reported, and the loader hangs.
disk_load(here, next) ==
    /\ pc = here /\ UNCHANGED memvars
    /\ IF bios.reads THEN Goto(next) ELSE Stop("Disk read error!")

load_stage2 == disk_load("load_stage2", "e820_start")

\* An entry counts if the BIOS returned bytes, its ignore bit (24-byte
\* answers only) is not clear, and its length is not 0.
Counts(e) == e.size # 0 /\ ~(e.size > 20 /\ e.ignore) /\ e.len # 0

Noted(map, e) == IF Counts(e) THEN Append(map, e) ELSE map

\* The answer to call k comes with ebx = 0.
LastCall(k) == k = Len(bios.entries) /\ bios.end = "ebx"

\* The first call: unsupported, or a list of one entry, is a failure that
\* leaves the count at 0; stage 2 does not look at the carry.
e820_start ==
    /\ pc = "e820_start" /\ UNCHANGED pmem
    /\ IF bios.smap /\ ~LastCall(1)
       THEN /\ e820' = [e820 EXCEPT !.calls = 1, !.map = Noted(<<>>, bios.entries[1])]
            /\ Goto("e820_lp")
       ELSE e820' = [e820 EXCEPT !.calls = 1] /\ Goto("load_kernel")

e820_lp ==
    /\ pc = "e820_lp" /\ UNCHANGED pmem
    /\ LET k == e820.calls + 1 IN
       IF k > Len(bios.entries)                              \* carry
       THEN e820' = [e820 EXCEPT !.cnt = Len(e820.map)] /\ Goto("load_kernel")
       ELSE LET map == Noted(e820.map, bios.entries[k]) IN
            /\ e820' = [calls |-> k, map |-> map,
                        cnt |-> IF LastCall(k) THEN Len(map) ELSE 0]
            /\ Goto(IF LastCall(k) THEN "load_kernel" ELSE "e820_lp")

load_kernel == disk_load("load_kernel", "copy_extmem")

copy_extmem ==
    /\ pc = "copy_extmem" /\ UNCHANGED memvars
    /\ IF bios.moves THEN Goto("pmem_init") ELSE Stop("Load to himem failed")

-----------------------------------------------------------------------------
\* The checks before the loop of pmem_init.
pmem_init ==
    /\ pc = "pmem_init" /\ UNCHANGED memvars
    /\ IF ~bios.a20 THEN Stop("A20 line not enabled")
       ELSE IF e820.cnt = 0 THEN Stop("physical memory map not initialized")
       ELSE Goto("pmem_entry")

Extended(e) == e.type = "RAM" /\ e.base >= ExtPage

\* Faulty variant of AcpiCandidate: reserved memory below the extended
\* memory would do too.
AnyReserved(e, extmem) == e.type \in {"ACPI", "RESERVED"}

AcpiCandidate(e, extmem) ==
    e.type = "ACPI" \/ (extmem # 0 /\ e.type = "RESERVED")

\* One round of the loop: the first of each kind is taken, extmem first.
pmem_entry ==
    /\ pc = "pmem_entry" /\ pmem.i < e820.cnt
    /\ LET i   == pmem.i + 1
           e   == e820.map[i]
           ext == IF pmem.extmem = 0 /\ Extended(e) THEN i ELSE pmem.extmem
           new == pmem.entry = 0 /\ AcpiCandidate(e, ext)
       IN  pmem' = [pmem EXCEPT !.i = i, !.extmem = ext,
                                !.entry = IF new THEN i ELSE @,
                                !.acpi_len = IF new THEN e.len % Top ELSE @]
    /\ Goto("pmem_entry") /\ UNCHANGED e820

\* After the loop: the 64-bit addresses become 32-bit ones.
pmem_done ==
    /\ pc = "pmem_entry" /\ pmem.i = e820.cnt /\ UNCHANGED e820
    /\ IF pmem.extmem = 0 THEN Stop("extended memory not found") /\ UNCHANGED pmem
       ELSE IF pmem.entry = 0 THEN Stop("acpi memory not found") /\ UNCHANGED pmem
       ELSE LET ext == e820.map[pmem.extmem] IN
            /\ pmem' = [pmem EXCEPT !.acpi = e820.map[pmem.entry].base % Top,
                                    !.phys_end = (ext.base + ext.len) % Top]
            /\ Goto("paging_init")

MemStep ==
    \/ load_stage2 \/ e820_start \/ e820_lp \/ load_kernel \/ copy_extmem
    \/ pmem_init \/ pmem_entry \/ pmem_done

=============================================================================
