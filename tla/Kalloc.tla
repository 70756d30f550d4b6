------------------------------- MODULE Kalloc -------------------------------
(***************************************************************************)
(* The physical page allocator, kernel/kalloc.c, from boot on: kinit1 puts *)
(* the frames above the kernel image that the boot page table maps on the  *)
(* free list, paging_init allocates from it, kinit2 adds the rest of RAM   *)
(* and turns locking on, and then the kernel allocates and frees.          *)
(*                                                                         *)
(* The free list is threaded through the frames themselves: mem[v] is the  *)
(* first word of the page at v, which is the `next' of a free frame and    *)
(* the data of an allocated one.  main() runs all of this on one thread    *)
(* with interrupts off, so a call is one step; the loop of freerange is    *)
(* one step per frame.                                                     *)
(***************************************************************************)
EXTENDS Cpu, FiniteSets

CONSTANTS KERNBASE,   \* where the kernel maps physical address 0
          KEnd,       \* __k_end, the end of the kernel image (virtual)
          PhysEnd,    \* phys_end, the end of RAM (physical)
          AddrMax,    \* the largest address (2^32 - 1)
          Sentinel,   \* KMEM_SENTINEL, the address of kmem.freelist
          Data,       \* what a holder of a frame writes to it
          Foreign     \* what is in a page that is not the allocator's

PGSIZE == 4096

PGROUNDUP(a) == ((a + PGSIZE - 1) \div PGSIZE) * PGSIZE

PGROUNDDOWN(a) == (a \div PGSIZE) * PGSIZE

P2V(a) == a + KERNBASE

V2P(a) == a - KERNBASE

\* What the boot page table maps (main), and the initial kheap_end.
EntryEnd == 4 * 1024 * 1024

KheapEnd0 == 2046 * 65536   \* 0x07fe0000

\* The kernel ends inside the first 4 MB, RAM goes at least that far, and
\* its direct map does not wrap around the address space.
ASSUME AddressAssumption ==
    /\ KERNBASE \in Nat /\ KERNBASE > 0 /\ KERNBASE % PGSIZE = 0
    /\ KEnd \in Nat /\ P2V(0) < KEnd /\ KEnd <= P2V(EntryEnd)
    /\ PhysEnd \in Nat /\ EntryEnd <= PhysEnd
    /\ AddrMax \in Nat /\ P2V(PhysEnd) + PGSIZE <= AddrMax

\* Pages the model keeps: from the one with the end of the kernel image to
\* the one with the end of RAM.  Frames are the whole pages between them.
Pages == {v \in PGROUNDDOWN(KEnd) .. P2V(PhysEnd) : v % PGSIZE = 0}

Frames == {v \in Pages : KEnd <= v /\ v + PGSIZE <= P2V(PhysEnd)}

ASSUME WordAssumption ==
    /\ Sentinel \notin Pages \cup {0} /\ Data \notin Pages /\ Foreign \notin Pages
    /\ Sentinel # Data /\ Sentinel # Foreign /\ Data # Foreign

Word == Pages \cup {Sentinel, Data, Foreign}

VARIABLES pc,          \* how far main() is
          p,           \* the loop variable of freerange
          kheap_start, kheap_end,
          freelist,    \* kmem.freelist
          use_lock,    \* kmem.use_lock
          kmemlock,    \* kmem.lock
          cpu,
          mem,         \* mem[v]: the first word of page v
          ret,         \* what the last kalloc returned
          dumped,      \* the number dump_freelist printed
          free, used   \* history: the frames given to kfree, and by kalloc

heap == <<freelist, use_lock, kmemlock, cpu, mem, ret, free, used>>
vars == <<pc, p, kheap_start, kheap_end, heap, dumped>>

Init ==
    /\ pc = "boot" /\ p = 0
    /\ kheap_start = 0 /\ kheap_end = KheapEnd0
    /\ freelist = 0 /\ use_lock = FALSE /\ kmemlock = initlock
    /\ cpu = CpuBoot
    /\ mem = [v \in Pages |-> IF v \in Frames THEN Data ELSE Foreign]
    /\ ret = 0 /\ dumped = -1
    /\ free = {} /\ used = {}

\* Faulty variant of Critical: the lock is not released.
CriticalKeepsLock ==
    IF use_lock
    THEN LET c == AcquireCpu(cpu, kmemlock, cpu.iflag)
         IN  [cpu |-> c, lock |-> IF Alive(c) THEN Taken ELSE kmemlock]
    ELSE [cpu |-> cpu, lock |-> kmemlock]

\* The critical section of kalloc and kfree around a step on the list: the
\* CPU and the lock after it.
Critical ==
    IF use_lock
    THEN LET c == Section(cpu, kmemlock)
         IN  [cpu |-> c, lock |-> IF Alive(c) THEN Dropped ELSE kmemlock]
    ELSE [cpu |-> cpu, lock |-> kmemlock]

\* The check at the head of kfree().
kfreeAccepts(v) ==
    ~(v % PGSIZE # 0 \/ v < kheap_start \/ V2P(v) >= kheap_end)

\* Faulty variant of kfree's list operation: the old list is dropped.
PushLosesList(v) == freelist' = v /\ mem' = [mem EXCEPT ![v] = Sentinel]

\* Another: memset fills two pages.
PushFillsTwo(v) ==
    freelist' = v /\ mem' = [mem EXCEPT ![v] = freelist, ![v + PGSIZE] = Foreign]

\* r->next = kmem.freelist; kmem.freelist = r, over the junk of memset.
Push(v) == freelist' = v /\ mem' = [mem EXCEPT ![v] = freelist]

\* kfree(v)
kfree(v) ==
    /\ free' = free \cup {v}
    /\ IF ~kfreeAccepts(v) \/ ~Alive(Critical.cpu)
       THEN /\ cpu' = IF kfreeAccepts(v) THEN Critical.cpu ELSE Panic(cpu, "kfree")
            /\ UNCHANGED <<freelist, kmemlock, mem>>
       ELSE /\ cpu' = Critical.cpu /\ kmemlock' = Critical.lock
            /\ Push(v)
    /\ UNCHANGED <<use_lock, ret>>

\* The start and the loop condition of freerange(vstart, vend).
RangeStart(vstart) == PGROUNDUP(vstart)

\* Faulty variant of RangeHas: a page that ends at vend is left out.
RangeHasStrict(q, vend) == q + PGSIZE < vend

RangeHas(q, vend) == q + PGSIZE <= vend

\* Where freerange stops: kinit1 frees up to 4 MB, kinit2 up to phys_end.
RangeEnd == IF pc = "kinit1" THEN P2V(EntryEnd) ELSE P2V(PhysEnd)

\* kend = PGROUNDUP(&__k_end) in main().
kend == PGROUNDUP(KEnd)

\* main() calls kinit1(kend, P2V(4 MB)), up to freerange.
Kinit1 ==
    /\ pc = "boot" /\ pc' = "kinit1"
    /\ kheap_start' = kend
    /\ freelist' = Sentinel
    /\ kmemlock' = initlock /\ use_lock' = FALSE
    /\ p' = RangeStart(kend)
    /\ UNCHANGED <<kheap_end, cpu, mem, ret, dumped, free, used>>

\* One round of the loop of freerange.
FreeRange ==
    /\ pc \in {"kinit1", "kinit2"} /\ Alive(cpu) /\ RangeHas(p, RangeEnd)
    /\ kfree(p)
    /\ p' = p + PGSIZE
    /\ UNCHANGED <<pc, kheap_start, kheap_end, dumped, used>>

\* kinit1 returns.
Kinit1Return ==
    /\ pc = "kinit1" /\ Alive(cpu) /\ ~RangeHas(p, RangeEnd)
    /\ pc' = "early"
    /\ UNCHANGED <<p, kheap_start, kheap_end, heap, dumped>>

\* main() calls kinit2(P2V(4 MB), P2V(phys_end)), up to freerange.
Kinit2 ==
    /\ pc = "early" /\ pc' = "kinit2"
    /\ kheap_end' = P2V(PhysEnd)
    /\ p' = RangeStart(P2V(EntryEnd))
    /\ UNCHANGED <<kheap_start, heap, dumped>>

\* p->next; the sentinel is &kmem.freelist, so its `next' is the list head.
NextOf(q) == IF q = Sentinel THEN freelist ELSE mem[q]

\* The pointer after n rounds of the loop of dump_freelist.
Walk == [n \in 0..Cardinality(Frames) |->
            LET q[k \in 0..n] == IF k = 0 THEN freelist ELSE NextOf(q[k - 1])
            IN  q[n]]

\* dump_freelist(): rounds until the pointer's next is the sentinel.
dump_freelist ==
    CHOOSE n \in 0..Cardinality(Frames) :
        /\ NextOf(Walk[n]) = Sentinel
        /\ \A k \in 0..(n - 1) : NextOf(Walk[k]) # Sentinel

\* The rest of kinit2: turn locking on and dump the list.
Kinit2Return ==
    /\ pc = "kinit2" /\ Alive(cpu) /\ ~RangeHas(p, RangeEnd)
    /\ pc' = "ready"
    /\ use_lock' = TRUE
    /\ dumped' = dump_freelist
    /\ UNCHANGED <<p, kheap_start, kheap_end, freelist, kmemlock, cpu, mem, ret, free, used>>

\* Faulty variant of kalloc's test: the last frame is taken for the end of
\* the list.
EmptyOneEarly(r) == r = Sentinel \/ mem[r] = Sentinel

Empty(r) == r = Sentinel

\* kalloc()
kalloc ==
    /\ pc \in {"early", "ready"} /\ Alive(cpu)
    /\ cpu' = Critical.cpu /\ kmemlock' = Critical.lock
    /\ IF Empty(freelist) \/ ~Alive(Critical.cpu)
       THEN ret' = 0 /\ UNCHANGED <<freelist, free, used>>
       ELSE /\ ret' = freelist
            /\ free' = free \ {freelist} /\ used' = used \cup {freelist}
            /\ freelist' = mem[freelist]
    /\ UNCHANGED <<pc, p, kheap_start, kheap_end, use_lock, mem, dumped>>

\* A holder gives its frame back.
FreeUsed(v) ==
    /\ pc \in {"early", "ready"} /\ Alive(cpu) /\ v \in used
    /\ kfree(v)
    /\ used' = used \ {v}
    /\ UNCHANGED <<pc, p, kheap_start, kheap_end, dumped>>

\* A holder writes to its frame.
Write(v) ==
    /\ Alive(cpu) /\ v \in used /\ mem[v] # Data
    /\ mem' = [mem EXCEPT ![v] = Data]
    /\ UNCHANGED <<pc, p, kheap_start, kheap_end, freelist, use_lock, kmemlock, cpu,
                   ret, dumped, free, used>>

MainStep == Kinit1 \/ FreeRange \/ Kinit1Return \/ Kinit2 \/ Kinit2Return

Next == MainStep \/ kalloc \/ \E v \in Frames : FreeUsed(v) \/ Write(v)

Spec == Init /\ [][Next]_vars

-----------------------------------------------------------------------------
TypeOK ==
    /\ pc \in {"boot", "kinit1", "early", "kinit2", "ready"} /\ p \in Nat
    /\ kheap_start \in Nat /\ kheap_end \in Nat
    /\ freelist \in Pages \cup {Sentinel, 0}
    /\ use_lock \in BOOLEAN /\ kmemlock \in LockState /\ cpu \in CpuState
    /\ mem \in [Pages -> Word]
    /\ ret \in Frames \cup {0}
    /\ free \subseteq Frames /\ used \subseteq Frames

\* The list that starts at kmem.freelist and ends at the sentinel has every
\* free frame on it once and nothing else: no cycle, no lost frame, no frame
\* somebody holds.
FreeListExact ==
    pc # "boot" =>
        \E n \in 0..Cardinality(Frames) :
            /\ Walk[n] = Sentinel
            /\ {Walk[k] : k \in 0..(n - 1)} = free
            /\ Cardinality(free) = n

\* No frame of kinit1 is donated again by kinit2, no frame is both free and
\* handed out, and after kinit2 every whole frame of RAM above the kernel is
\* one or the other: none is lost, whatever was allocated between the two.
Conservation ==
    /\ free \cap used = {}
    /\ pc = "early" => free \cup used = {v \in Frames : v + PGSIZE <= P2V(EntryEnd)}
    /\ pc = "ready" => free \cup used = Frames

\* The guard of kfree and the checks of the lock never fire, and the lock is
\* free and the CPU as it was when a call returns, although use_lock changes.
NeverPanics ==
    cpu = CpuBoot /\ kmemlock = initlock

\* The page with the end of the kernel image and the one with the end of RAM
\* are never written.
OthersUntouched == \A v \in Pages \ Frames : mem[v] = Foreign

\* What a holder wrote to a frame stays there until it frees the frame: no
\* other kalloc, kfree or freerange touches it.
DataStays ==
    [][\A v \in used \cap used' : mem[v] = Data => mem'[v] = Data]_vars

\* The linked list implements the pool of FrameAlloc: what kalloc returns was
\* free, and it returns 0 only when nothing is.
Pool == INSTANCE FrameAlloc WITH Null <- 0

ImplementsPool == Pool!Spec
=============================================================================
