------------------------------- MODULE Paging -------------------------------
(***************************************************************************)
(* Page tables: kernel/paging.c, as main() and initproc_init() use it.     *)
(* paging_init() builds the directory of the kernel out of the frames of   *)
(* kinit1(); after kinit2() a process gets its directory from setupkvm()   *)
(* and its code page from inituvm(); freevm() takes a directory apart.     *)
(* One step is one iteration of the loops of mappages, deallocuvm and      *)
(* freevm, so that memory can run out in any of them.                      *)
(*                                                                         *)
(* Addresses are page numbers and a table has N entries.  A frame named f  *)
(* is the physical page f; the kernel reaches it at P2V(f).  The free list *)
(* is the sequence kalloc() and kfree() make of it (module Kalloc).        *)
(***************************************************************************)
EXTENDS Integers, Sequences, Functions

CONSTANTS N,           \* NPDENTRIES and NPTENTRIES
          KernPage,    \* KERNBASE
          PhysPages,   \* phys_end
          HeapStart,   \* the physical page of kheap_start
          Acpi, AcpiPages, Dev, DevPages,  \* the two other regions of setupkvm
          Early, Late, \* frames kinit1 and kinit2 put on the free list
          PGSIZE,
          InitSizes    \* sizes initcode may be linked with

Idx == 0..(N - 1)

Pages == 0..(N * N - 1)

\* The frames of the heap, above the kernel.
Frames == HeapStart..(PhysPages - 1)

P2V(page) == page + KernPage

\* The calls of mappages in setupkvm, in order.
Regions ==
    <<[va |-> KernPage,  n |-> PhysPages, pa |-> 0],
      [va |-> P2V(Acpi), n |-> AcpiPages, pa |-> Acpi],
      [va |-> Dev,       n |-> DevPages,  pa |-> Dev]>>

RegionPages(k) == Regions[k].va..(Regions[k].va + Regions[k].n - 1)

\* The memory map of the machine: each region has a page, above KERNBASE, and
\* they are apart.
ASSUME RegionAssumption ==
    /\ N \in Nat \ {0} /\ KernPage \in Nat /\ KernPage % N = 0 /\ KernPage > 0
    /\ PhysPages \in Nat /\ Acpi \in Nat /\ AcpiPages \in Nat /\ Dev \in Nat /\ DevPages \in Nat
    /\ \A k \in 1..3 : Regions[k].n > 0 /\ RegionPages(k) \subseteq KernPage..(N * N - 1)
    /\ \A j, k \in 1..3 : j # k => RegionPages(j) \cap RegionPages(k) = {}

ASSUME FrameAssumption ==
    /\ HeapStart \in Nat \ {0} /\ PGSIZE \in Nat /\ InitSizes \subseteq Nat
    /\ Early \subseteq Seq(Frames) /\ Late \subseteq Seq(Frames)
    /\ \A s \in Early, t \in Late : IsInjective(s \o t)

VARIABLES pc, panic,
          mem,        \* contents of the frames, as entries
          freelist,   \* the free list, its head first
          late,       \* what kinit2 will add
          kpgdir,     \* the directory of the kernel, 0 before paging_init
          pgdir,      \* the directory setupkvm, inituvm or freevm works on
          k, a, pa,   \* the call of mappages and its locals; a is also the
                      \* local of deallocuvm
          i,          \* the loop variable of freevm
          mapfail,    \* freevm was called by setupkvm
          page,       \* the local mem of inituvm
          given       \* history: the frames free when setupkvm was called that
                      \* freevm can still find

vars == <<pc, panic, mem, freelist, late, kpgdir, pgdir, k, a, pa, i, mapfail, page, given>>

Entry == [p : BOOLEAN, addr : 0..(N * N), u : BOOLEAN]

\* A zero entry, and a word of the junk kfree() fills a frame with, 0x01010101,
\* in which PTE_P is set.
Zero == [p |-> FALSE, addr |-> 0, u |-> FALSE]

Junk == [p |-> TRUE, addr |-> N * N, u |-> FALSE]

\* kfree() fills the frame and then stores the link in its first word.
Filled == [e \in Idx |-> IF e = 0 THEN Zero ELSE Junk]

\* memset(.., 0, PGSIZE)
Cleared == [e \in Idx |-> Zero]

PDX(va) == va \div N

PTX(va) == va % N

Init ==
    /\ pc = "paging_init" /\ panic = "none"
    /\ mem = [f \in Frames |-> Filled]
    /\ freelist \in Early /\ late \in Late
    /\ kpgdir = 0 /\ pgdir = 0 /\ k = 0 /\ a = 0 /\ pa = 0 /\ i = 0
    /\ mapfail = FALSE /\ page = 0 /\ given = {}

At(label) == panic = "none" /\ pc = label

Stops(msg) ==
    /\ panic' = msg
    /\ UNCHANGED <<pc, mem, freelist, late, kpgdir, pgdir, k, a, pa, i, mapfail, page, given>>

\* Set the locals of mappages for the pages of region r.
StartMap(r) == a' = r.va /\ pa' = r.pa

\* Faulty variant of Popped: kalloc() leaves the frame it returns on the list.
PoppedStays == freelist

\* The free list after kalloc() returned its head.
Popped == Tail(freelist)

-----------------------------------------------------------------------------
\* setupkvm() up to the first mappages.
Setupkvm ==
    /\ panic = "none" /\ pc \in {"paging_init", "initproc"}
    /\ IF freelist = <<>> THEN Stops("kalloc")
       ELSE /\ pgdir' = Head(freelist) /\ freelist' = Popped
            /\ mem' = [mem EXCEPT ![Head(freelist)] = Cleared]
            /\ pc' = "map" /\ k' = 1 /\ StartMap(Regions[1])
            /\ given' = Range(freelist)
            /\ UNCHANGED <<panic, late, kpgdir, i, mapfail, page>>

\* Faulty variant of NewTable: the table keeps the junk of kfree().
TableNotCleared(t) == mem

\* walkpgdir() with alloc: the memory after a new table t is entered.
NewTable(t) == [mem EXCEPT ![t] = Cleared]

WithTable(t) ==
    [NewTable(t) EXCEPT ![pgdir][PDX(a)] = [p |-> TRUE, addr |-> t, u |-> TRUE]]

\* Faulty variant of LastPage: PGROUNDDOWN(va + size).
LastPageBeyond == Regions[k].va + Regions[k].n

\* The local `last' of mappages: PGROUNDDOWN(va + size - 1).
LastPage == Regions[k].va + Regions[k].n - 1

\* What follows the last page of a region: the next call of mappages, or
\* setupkvm returns to paging_init or to initproc_init.
RegionDone ==
    IF k < 3 THEN /\ k' = k + 1 /\ StartMap(Regions[k + 1]) /\ UNCHANGED <<pc, kpgdir>>
    ELSE /\ UNCHANGED <<k, a, pa>>
         /\ IF kpgdir = 0 THEN kpgdir' = pgdir /\ pc' = "kinit2"
            ELSE pc' = "inituvm" /\ UNCHANGED kpgdir

\* The store of mappages into memory m, where the table exists.
WithPage(m, user) ==
    [m EXCEPT ![m[pgdir][PDX(a)].addr][PTX(a)] = [p |-> TRUE, addr |-> pa, u |-> user]]

Present(m) == m[m[pgdir][PDX(a)].addr][PTX(a)].p

\* One iteration of mappages; without memory for a table it returns -1 and
\* setupkvm calls freevm.
MapPage ==
    /\ At("map")
    /\ LET walk == mem[pgdir][PDX(a)].p
           m    == IF walk THEN mem ELSE WithTable(Head(freelist))
       IN  IF ~walk /\ freelist = <<>>
           THEN /\ mapfail' = TRUE /\ pc' = "dealloc" /\ a' = 0
                /\ UNCHANGED <<panic, mem, freelist, kpgdir, k, pa>>
           ELSE IF Present(m)
           THEN panic' = "remap" /\ UNCHANGED <<pc, mem, freelist, kpgdir, k, a, pa, mapfail>>
           ELSE /\ mem' = WithPage(m, FALSE)
                /\ freelist' = IF walk THEN freelist ELSE Popped
                /\ IF a = LastPage THEN RegionDone
                   ELSE a' = a + 1 /\ pa' = pa + 1 /\ UNCHANGED <<pc, k, kpgdir>>
                /\ UNCHANGED <<panic, mapfail>>
    /\ UNCHANGED <<late, pgdir, i, page, given>>

\* kinit2(), and the boot up to initproc_init.
Kinit2 ==
    /\ At("kinit2") /\ pc' = "initproc"
    /\ freelist' = late \o freelist
    /\ UNCHANGED <<panic, mem, late, kpgdir, pgdir, k, a, pa, i, mapfail, page, given>>

-----------------------------------------------------------------------------
\* The physical page the directory d maps va to and whether user mode may use
\* it, or nothing.
Walk(d, va) ==
    LET pde == mem[d][PDX(va)]
        pte == mem[pde.addr][PTX(va)]
    IN  IF pde.p /\ pte.p THEN {[pa |-> pte.addr, u |-> pde.u /\ pte.u]} ELSE {}

\* inituvm(): kalloc() is not checked, and memset on the null page faults
\* unless the directory in use (kpgdir) maps it.
Inituvm ==
    /\ At("inituvm")
    /\ \E sz \in InitSizes :
          IF sz >= PGSIZE THEN Stops("inituvm: more than a page")
          ELSE IF freelist = <<>> /\ Walk(kpgdir, 0) = {} THEN Stops("page fault not handled!")
          ELSE /\ page' = Head(freelist) /\ freelist' = Popped
               /\ mem' = [mem EXCEPT ![Head(freelist)] = Cleared]
               /\ pc' = "usermap" /\ a' = 0 /\ pa' = Head(freelist)
               /\ UNCHANGED <<panic, late, kpgdir, pgdir, k, i, mapfail, given>>

\* The mappages of inituvm, of one page; its result is ignored, and when it
\* failed nothing refers to the page any more.
MapUser ==
    /\ At("usermap") /\ pc' = "ready"
    /\ LET walk == mem[pgdir][PDX(a)].p
           m    == IF walk THEN mem ELSE WithTable(Head(freelist))
       IN  IF ~walk /\ freelist = <<>>
           THEN given' = given \ {page} /\ UNCHANGED <<panic, mem, freelist>>
           ELSE IF Present(m) THEN panic' = "remap" /\ UNCHANGED <<mem, freelist, given>>
           ELSE /\ mem' = WithPage(m, TRUE)
                /\ freelist' = IF walk THEN freelist ELSE Popped
                /\ UNCHANGED <<panic, given>>
    /\ UNCHANGED <<late, kpgdir, pgdir, k, a, pa, i, mapfail, page>>

-----------------------------------------------------------------------------
(* freevm(), of a directory setupkvm() could not finish, or of one that is *)
(* not in use.                                                             *)

Freevm ==
    /\ At("ready") /\ pc' = "dealloc" /\ a' = 0
    /\ UNCHANGED <<panic, mem, freelist, late, kpgdir, pgdir, k, pa, i, mapfail, page, given>>

\* kfree() of the frame f, into memory m.  It rejects what is below the heap;
\* what is past the memory, which it tells only before kinit2, counts as
\* rejected, too.
Kfree(m, f) ==
    IF f \in Frames
    THEN /\ mem' = [m EXCEPT ![f] = Filled]
         /\ freelist' = <<f>> \o freelist /\ UNCHANGED panic
    ELSE panic' = "kfree" /\ UNCHANGED <<mem, freelist>>

\* Faulty variant of SkipTable: the jump lands where the table begins.
SkipBack == PDX(a) * N

\* deallocuvm() jumps over a directory entry that is not present.
SkipTable == (PDX(a) + 1) * N

\* One iteration of deallocuvm(pgdir, KERNBASE, 0), or its end.
Dealloc ==
    /\ At("dealloc")
    /\ IF a < KernPage
       THEN LET pde == mem[pgdir][PDX(a)]
                pte == mem[pde.addr][PTX(a)]
            IN  /\ UNCHANGED <<pc, i>>
                /\ IF ~pde.p THEN a' = SkipTable /\ UNCHANGED <<panic, mem, freelist>>
                   ELSE /\ a' = a + 1
                        /\ IF pte.p THEN Kfree([mem EXCEPT ![pde.addr][PTX(a)] = Zero], pte.addr)
                           ELSE UNCHANGED <<panic, mem, freelist>>
       ELSE pc' = "tables" /\ i' = 0 /\ UNCHANGED <<panic, mem, freelist, a>>
    /\ UNCHANGED <<late, kpgdir, pgdir, k, pa, mapfail, page, given>>

\* Faulty variant of TableLoopEnds: only the tables of the user part.
TablesOfUser == i = PDX(KernPage)

TableLoopEnds == i = N

\* One iteration of the loop of freevm, then the directory itself; setupkvm
\* goes on to panic.
FreeTables ==
    /\ At("tables")
    /\ IF TableLoopEnds
       THEN /\ mem' = [mem EXCEPT ![pgdir] = Filled]
            /\ freelist' = <<pgdir>> \o freelist
            /\ pgdir' = 0 /\ pc' = "freed" /\ UNCHANGED i
            /\ panic' = IF mapfail THEN "mappages" ELSE panic
       ELSE /\ i' = i + 1 /\ UNCHANGED <<pc, pgdir>>
            /\ IF mem[pgdir][i].p THEN Kfree(mem, mem[pgdir][i].addr)
               ELSE UNCHANGED <<panic, mem, freelist>>
    /\ UNCHANGED <<late, kpgdir, k, a, pa, mapfail, page, given>>

Ended == (panic # "none" \/ pc = "freed") /\ UNCHANGED vars

Step == \/ Setupkvm \/ MapPage \/ Kinit2 \/ Inituvm \/ MapUser
        \/ Freevm \/ Dealloc \/ FreeTables

Next == Step \/ Ended

Spec == Init /\ [][Next]_vars

FairSpec == Spec /\ WF_vars(Step)

-----------------------------------------------------------------------------
\* Frames never serve two purposes, at no step of building, failing or freeing:
\* the free list has no frame twice, and the directories, their tables and the
\* user pages are different frames that are not on it.
FramesAccounted ==
    LET free  == Range(freelist)
        dirs  == {kpgdir, pgdir} \ {0}
        slots == {x \in dirs \X Idx :
                    mem[x[1]][x[2]].p /\ (x[1] = pgdir /\ pc = "tables" => x[2] >= i)}
        tab(x) == mem[x[1]][x[2]].addr
        user  == IF pgdir = 0 \/ pc = "tables" THEN {}
                 ELSE UNION {{w.pa : w \in Walk(pgdir, v)} : v \in 0..(KernPage - 1)}
    IN  /\ IsInjective(freelist) /\ dirs \cap free = {}
        /\ \A x \in slots : tab(x) \in Frames \ (free \cup dirs)
        /\ \A x, y \in slots : tab(x) = tab(y) => x = y
        /\ user \cap (free \cup dirs \cup {tab(x) : x \in slots}) = {}

\* freevm() gives back every frame of the directory, whether setupkvm() failed
\* half way or the address space was complete.
GivesBackAll == pc = "freed" => Range(freelist) = given

\* What setupkvm() is to map a page to.
Expected(va) ==
    UNION {{[pa |-> Regions[r].pa + (va - Regions[r].va), u |-> FALSE] :
              x \in {va} \cap RegionPages(r)} : r \in 1..3}

\* Every finished directory maps the kernel's half to physical memory, ACPI and
\* devices, out of reach of user mode and alike in all directories (so cr3 may
\* change under the running kernel), and nothing else but the code page.
MapsExactly ==
    /\ kpgdir # 0 => \A v \in Pages : Walk(kpgdir, v) = Expected(v)
    /\ pc \in {"inituvm", "usermap"} => \A v \in Pages : Walk(pgdir, v) = Expected(v)
    /\ pc = "ready" => /\ \A v \in Pages \ {0} : Walk(pgdir, v) = Expected(v)
                       /\ Walk(pgdir, 0) \subseteq {[pa |-> page, u |-> TRUE]}

Messages ==
    {"none", "kalloc", "mappages", "page fault not handled!"}
    \cup {msg \in {"inituvm: more than a page"} : \E sz \in InitSizes : sz >= PGSIZE}

\* Only want of memory, or an initcode that does not fit in a page, stops the
\* kernel here: no page is mapped twice and no frame is freed that is not one,
\* whatever a table held before it was one.
OnlyMemoryPanics == panic \in Messages

\* The loops end: they stop at their last page by equality, or jump.
BuildEnds == <>(pc = "freed" \/ panic # "none")

\* "Load the initcode into address 0 of pgdir."
InitcodeLoaded == pc = "ready" => Walk(pgdir, 0) = {[pa |-> page, u |-> TRUE]}
=============================================================================
