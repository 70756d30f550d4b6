---------------------------- MODULE KallocProofs ----------------------------
(***************************************************************************)
(* The page allocator, proved for every size of the kernel and of RAM: the *)
(* free list is a chain through exactly the free frames, so kalloc and     *)
(* kfree implement the pool of FrameAlloc and touch nobody's data.         *)
(***************************************************************************)
EXTENDS Kalloc, FiniteSetTheorems, FunctionTheorems, TLAPS

-----------------------------------------------------------------------------
(* Addresses.                                                              *)

\* Rounding up gives the next multiple of the page size.
LEMMA RoundUp ==
    ASSUME NEW a \in Nat
    PROVE  /\ PGROUNDUP(a) \in Nat /\ PGROUNDUP(a) % PGSIZE = 0
           /\ a <= PGROUNDUP(a) /\ PGROUNDUP(a) < a + PGSIZE
           /\ a % PGSIZE = 0 => PGROUNDUP(a) = a
  BY DEF PGROUNDUP, PGSIZE

\* Rounding down gives the multiple of the page size at or below.
LEMMA RoundDown ==
    ASSUME NEW a \in Nat
    PROVE  PGROUNDDOWN(a) \in Nat /\ PGROUNDDOWN(a) <= a /\ a < PGROUNDDOWN(a) + PGSIZE
  BY DEF PGROUNDDOWN, PGSIZE

\* The end of the 4 MB the boot page table maps is the start of a frame.
LEMMA Entry ==
    /\ P2V(EntryEnd) \in Nat /\ P2V(EntryEnd) % PGSIZE = 0
    /\ P2V(PhysEnd) \in Nat /\ P2V(EntryEnd) <= P2V(PhysEnd)
    /\ KEnd \in Nat /\ KERNBASE \in Nat /\ KERNBASE < KEnd /\ KEnd <= P2V(EntryEnd)
    /\ PhysEnd \in Nat
  BY AddressAssumption DEF P2V, EntryEnd, PGSIZE

\* The heap starts at kend, which is not beyond those 4 MB.
LEMMA Kend ==
    /\ kend \in Nat /\ kend % PGSIZE = 0 /\ KEnd <= kend /\ kend <= P2V(EntryEnd)
    /\ kend < KEnd + PGSIZE /\ RangeStart(kend) = kend
    /\ RangeStart(P2V(EntryEnd)) = P2V(EntryEnd)
  <1>1. kend \in Nat /\ kend % PGSIZE = 0 /\ KEnd <= kend /\ kend < KEnd + PGSIZE
    BY Entry, RoundUp DEF kend
  <1>2. RangeStart(kend) = kend /\ RangeStart(P2V(EntryEnd)) = P2V(EntryEnd)
    BY <1>1, Entry, RoundUp DEF RangeStart
  <1>3. kend <= P2V(EntryEnd)
    BY <1>1, Entry DEF PGSIZE
  <1> QED
    BY <1>1, <1>2, <1>3

\* A frame is an aligned page between kend and the end of RAM.
LEMMA FrameIs ==
    ASSUME NEW v
    PROVE  v \in Frames <=> /\ v \in Nat /\ v % PGSIZE = 0 /\ kend <= v
                            /\ v + PGSIZE <= P2V(PhysEnd)
  <1>1. PGROUNDDOWN(KEnd) \in Nat /\ PGROUNDDOWN(KEnd) <= KEnd
    BY Entry, RoundDown
  <1>2. ASSUME v \in Frames
        PROVE  /\ v \in Nat /\ v % PGSIZE = 0 /\ kend <= v /\ v + PGSIZE <= P2V(PhysEnd)
    <2>1. v \in Int /\ v % PGSIZE = 0 /\ KEnd <= v /\ v + PGSIZE <= P2V(PhysEnd)
      BY <1>1, <1>2, Entry DEF Frames, Pages
    <2>2. v \in Nat /\ kend <= v
      BY <2>1, Entry, Kend DEF PGSIZE
    <2> QED
      BY <2>1, <2>2
  <1>3. ASSUME v \in Nat, v % PGSIZE = 0, kend <= v, v + PGSIZE <= P2V(PhysEnd)
        PROVE  v \in Frames
    <2>1. KEnd <= v /\ PGROUNDDOWN(KEnd) <= v /\ v <= P2V(PhysEnd)
      BY <1>1, <1>3, Entry, Kend DEF PGSIZE
    <2> QED
      BY <1>1, <1>3, <2>1, Entry DEF Frames, Pages
  <1> QED
    BY <1>2, <1>3

\* Frames are pages, and neither the null pointer nor the sentinel is one.
LEMMA FramesPages == Frames \subseteq Pages /\ 0 \notin Frames /\ Sentinel \notin Frames
  <1>1. 0 \notin Frames
    BY FrameIs, Kend, Entry
  <1> QED
    BY <1>1, WordAssumption DEF Frames

-----------------------------------------------------------------------------
(***************************************************************************)
(* The inductive invariant.  r numbers the free frames from the end of the *)
(* list to its head; the frames that are free or held are those below the  *)
(* cursor of freerange while it runs.                                      *)
(***************************************************************************)
Chain(r) ==
    /\ \A v \in free : /\ r[v] >= 1
                       /\ r[v] = 1 => mem[v] = Sentinel
                       /\ r[v] > 1 => mem[v] \in free /\ r[mem[v]] = r[v] - 1
    /\ \A v \in free : \A w \in free : r[v] = r[w] => v = w
    /\ free = {} => freelist = Sentinel
    /\ free # {} => freelist \in free /\ \A v \in free : r[v] <= r[freelist]

Chained == \E r \in [Frames -> Nat] : Chain(r)

Donated ==
    IF pc = "boot" THEN {}
    ELSE IF pc \in {"kinit1", "kinit2"} THEN {v \in Frames : v < p}
    ELSE IF pc = "early" THEN {v \in Frames : v < P2V(EntryEnd)}
    ELSE Frames

Cursor ==
    /\ pc = "kinit1" => p % PGSIZE = 0 /\ kend <= p /\ p <= P2V(EntryEnd)
    /\ pc = "kinit2" => p % PGSIZE = 0 /\ P2V(EntryEnd) <= p

Bounds ==
    /\ pc # "boot" => kheap_start = kend
    /\ pc \in {"boot", "kinit1", "early"} => kheap_end = KheapEnd0
    /\ pc \in {"kinit2", "ready"} => kheap_end = P2V(PhysEnd)
    /\ pc = "kinit1" => used = {}

IInv ==
    /\ TypeOK /\ NeverPanics /\ OthersUntouched
    /\ pc # "boot" => Chained
    /\ free \cap used = {} /\ free \cup used = Donated
    /\ Cursor /\ Bounds

-----------------------------------------------------------------------------
(* kalloc and kfree.                                                       *)

\* The critical section leaves the CPU and the lock as they were.
LEMMA CriticalEffect ==
    ASSUME cpu = CpuBoot, kmemlock = initlock
    PROVE  Critical.cpu = CpuBoot /\ Critical.lock = initlock /\ Alive(CpuBoot)
  <1> DEFINE C(n) == [iflag |-> FALSE, ncli |-> n, intena |-> FALSE, panic |-> NoPanic]
  <1>1. CpuBoot = C(0) /\ Cli(C(0), FALSE) = C(1) /\ Cli(C(1), FALSE) = C(2)
    <2>1. CpuBoot = C(0)
      BY DEF CpuBoot
    <2>2. /\ Cli(C(0), FALSE) = [C(0) EXCEPT !.iflag = FALSE, !.intena = FALSE, !.ncli = 1]
          /\ Cli(C(1), FALSE) = [C(1) EXCEPT !.iflag = FALSE, !.intena = FALSE, !.ncli = 2]
      BY DEF Cli
    <2>3. Cli(C(0), FALSE) = C(1)
      BY <2>2, Zenon
    <2>4. Cli(C(1), FALSE) = C(2)
      BY <2>2, Zenon
    <2> QED
      BY <2>1, <2>3, <2>4, Zenon
  <1>2. popcli(C(2)) = C(1) /\ popcli(C(1)) = C(0)
    <2>1. 2 - 1 = 1 /\ 1 - 1 = 0 /\ ~(1 < 0) /\ ~(0 < 0) /\ 1 # 0
      OBVIOUS
    <2>2. popcli(C(2)) = C(1)
      BY <2>1, Zenon DEF popcli
    <2>3. popcli(C(1)) = C(0)
      BY <2>1, Zenon DEF popcli
    <2> QED
      BY <2>2, <2>3
  <1>3. holding(C(1)) = C(1)
    BY <1>1, <1>2, Zenon DEF holding, pushcli
  <1>4. ~holds(initlock) /\ holds(Taken) /\ Dropped = initlock
    BY DEF holds, initlock, Taken, Dropped
  <1>5. C(0).iflag = FALSE /\ C(0).panic = NoPanic /\ C(1).panic = NoPanic
    OBVIOUS
  <1> HIDE DEF C
  <1>6. AcquireCpu(CpuBoot, initlock, CpuBoot.iflag) = C(1)
    BY <1>1, <1>3, <1>4, <1>5, Zenon DEF AcquireCpu
  <1>7. ReleaseCpu(C(1), Taken) = CpuBoot
    BY <1>1, <1>2, <1>3, <1>4, <1>5 DEF ReleaseCpu, Alive
  <1> QED
    BY <1>1, <1>4, <1>5, <1>6, <1>7, Zenon DEF Critical, Section, Alive

\* Putting a frame at the head of the chain.
LEMMA PushChain ==
    ASSUME TypeOK, Chained, NEW v \in Frames, v \notin free, Push(v), free' = free \cup {v}
    PROVE  Chained'
  <1>1. PICK r \in [Frames -> Nat] : Chain(r)
    BY DEF Chained
  <1>2. /\ free \subseteq Frames /\ mem \in [Pages -> Word] /\ v \in Pages
    BY FramesPages DEF TypeOK
  <1>3. /\ freelist' = v /\ mem'[v] = freelist
        /\ \A w \in free : mem'[w] = mem[w]
    BY <1>2, FramesPages DEF Push
  <1> DEFINE n == IF free = {} THEN 1 ELSE r[freelist] + 1
  <1>4. n \in Nat /\ n >= 1 /\ \A w \in free : r[w] < n
    BY <1>1, <1>2 DEF Chain
  <1>5a. PICK s \in [Frames -> Nat] : s = [r EXCEPT ![v] = n]
    BY <1>4, Zenon
  <1>5. s[v] = n /\ \A w \in free : s[w] = r[w] /\ r[w] \in Nat
    BY <1>2, <1>4, <1>5a
  <1>6. n = 1 => free = {} /\ freelist = Sentinel
    BY <1>1, <1>2, <1>4 DEF Chain
  <1>7. n > 1 => freelist \in free /\ r[freelist] = n - 1
    BY <1>1, <1>2, <1>4 DEF Chain
  <1> HIDE DEF n
  <1>8. \A w \in free' : /\ s[w] >= 1
                         /\ s[w] = 1 => mem'[w] = Sentinel
                         /\ s[w] > 1 => mem'[w] \in free' /\ s[mem'[w]] = s[w] - 1
    <2>1. ASSUME NEW w \in free
          PROVE  /\ s[w] >= 1
                 /\ s[w] = 1 => mem'[w] = Sentinel
                 /\ s[w] > 1 => mem'[w] \in free' /\ s[mem'[w]] = s[w] - 1
      BY <1>1, <1>3, <1>5 DEF Chain
    <2>2. /\ s[v] >= 1
          /\ s[v] = 1 => mem'[v] = Sentinel
          /\ s[v] > 1 => mem'[v] \in free' /\ s[mem'[v]] = s[v] - 1
      BY <1>3, <1>4, <1>5, <1>6, <1>7
    <2> QED
      BY <2>1, <2>2
  <1>9. \A w \in free' : \A u \in free' : s[w] = s[u] => w = u
    BY <1>1, <1>4, <1>5 DEF Chain
  <1>10. freelist' \in free' /\ free' # {} /\ \A w \in free' : s[w] <= s[freelist']
    BY <1>3, <1>4, <1>5
  <1>11. Chain(s)'
    BY <1>8, <1>9, <1>10 DEF Chain
  <1> QED
    BY <1>11, Zenon DEF Chained

\* Taking the frame at the head of the chain.
LEMMA PopChain ==
    ASSUME TypeOK, Chained, free # {}, freelist' = mem[freelist], mem' = mem,
           free' = free \ {freelist}
    PROVE  Chained' /\ freelist \in free
  <1>1. PICK r \in [Frames -> Nat] : Chain(r)
    BY DEF Chained
  <1>2. free \subseteq Frames /\ freelist \in free /\ \A v \in free : r[v] \in Nat
    BY <1>1, Zenon DEF TypeOK, Chain
  <1>3. \A v \in free' : v \in free /\ r[v] < r[freelist]
    BY <1>1, <1>2 DEF Chain
  <1>4. CASE r[freelist] = 1
    <2>1. free' = {} /\ freelist' = Sentinel
      BY <1>1, <1>2, <1>3, <1>4 DEF Chain
    <2>2. Chain(r)'
      BY <2>1, Zenon DEF Chain
    <2> QED
      BY <1>2, <2>2, Zenon DEF Chained
  <1>5. CASE r[freelist] > 1
    <2>1. freelist' \in free /\ r[freelist'] = r[freelist] - 1
      BY <1>1, <1>2, <1>5, Zenon DEF Chain
    <2>2. freelist' \in free'
      BY <1>2, <2>1
    <2>3. \A v \in free' : r[v] <= r[freelist']
      BY <1>2, <1>3, <2>1
    <2>4. \A v \in free' : /\ r[v] >= 1
                           /\ r[v] = 1 => mem'[v] = Sentinel
                           /\ r[v] > 1 => mem'[v] \in free' /\ r[mem'[v]] = r[v] - 1
      BY <1>1, <1>2, <1>3 DEF Chain
    <2>5. \A v \in free' : \A w \in free' : r[v] = r[w] => v = w
      BY <1>1, <1>3 DEF Chain
    <2>6. Chain(r)'
      BY <2>2, <2>3, <2>4, <2>5 DEF Chain
    <2> QED
      BY <1>2, <2>6 DEF Chained
  <1> QED
    BY <1>1, <1>2, <1>4, <1>5 DEF Chain

\* kfree of a frame that is not on the list, when its check passes.
LEMMA KfreeEffect ==
    ASSUME IInv, pc # "boot", NEW v \in Frames, v \notin free, kfreeAccepts(v), kfree(v)
    PROVE  /\ freelist' = v /\ mem' \in [Pages -> Word] /\ NeverPanics'
           /\ OthersUntouched' /\ Chained' /\ free' = free \cup {v}
           /\ \A w \in Pages : w # v => mem'[w] = mem[w]
           /\ use_lock' = use_lock /\ ret' = ret
  <1>1. /\ TypeOK /\ cpu = CpuBoot /\ kmemlock = initlock /\ OthersUntouched /\ Chained
    BY DEF IInv, NeverPanics
  <1>2. Critical.cpu = CpuBoot /\ Critical.lock = initlock /\ Alive(CpuBoot)
    BY <1>1, CriticalEffect, Zenon
  <1>3. /\ cpu' = CpuBoot /\ kmemlock' = initlock /\ Push(v) /\ free' = free \cup {v}
        /\ use_lock' = use_lock /\ ret' = ret
    BY <1>2 DEF kfree
  <1>4. freelist \in Word
    <2>1. PICK r \in [Frames -> Nat] : Chain(r)
      BY <1>1 DEF Chained
    <2> QED
      BY <1>1, <2>1, FramesPages, Zenon DEF Chain, TypeOK, Word
  <1>5. mem' \in [Pages -> Word] /\ \A w \in Pages : w # v => mem'[w] = mem[w]
    BY <1>1, <1>3, <1>4, Zenon DEF Push, TypeOK
  <1>6. OthersUntouched'
    BY <1>1, <1>5 DEF OthersUntouched
  <1>7. Chained'
    BY <1>1, <1>3, PushChain
  <1> QED
    BY <1>3, <1>5, <1>6, <1>7, Zenon DEF NeverPanics, Push

\* The check of kfree accepts every frame that is in the heap at the time.
LEMMA Accepts ==
    ASSUME IInv, pc # "boot", NEW v \in Frames,
           pc \in {"kinit1", "early"} => v < P2V(EntryEnd)
    PROVE  kfreeAccepts(v)
  <1>1. v \in Nat /\ v % PGSIZE = 0 /\ kend <= v /\ v + PGSIZE <= P2V(PhysEnd)
    BY FrameIs
  <1>2. kheap_start = kend /\ pc \in {"kinit1", "early", "kinit2", "ready"}
    BY DEF IInv, Bounds, TypeOK
  <1>3. V2P(v) < kheap_end
    <2>1. CASE pc \in {"kinit1", "early"}
      <3>1. EntryEnd \in Nat /\ KheapEnd0 \in Nat /\ EntryEnd < KheapEnd0
        BY SMT DEF EntryEnd, KheapEnd0
      <3>2. kheap_end = KheapEnd0 /\ v < P2V(EntryEnd)
        BY <2>1 DEF IInv, Bounds
      <3> QED
        BY <1>1, <3>1, <3>2, Entry DEF V2P, P2V
    <2>2. CASE pc \in {"kinit2", "ready"}
      BY <1>1, <2>2, Entry DEF IInv, Bounds, V2P, P2V, PGSIZE
    <2> QED
      BY <1>2, <2>1, <2>2
  <1>4. V2P(v) \in Int /\ kheap_end \in Nat /\ kend \in Nat
    BY <1>1, Entry, Kend DEF V2P, IInv, TypeOK
  <1> QED
    BY <1>1, <1>2, <1>3, <1>4 DEF kfreeAccepts

-----------------------------------------------------------------------------
(* One lemma per action: each preserves the invariant.                     *)

\* Before kinit1 nothing is free and nothing is used.
LEMMA InitIInv == Init => IInv
  <1> SUFFICES ASSUME Init PROVE IInv
    OBVIOUS
  <1>1. cpu \in CpuState /\ kmemlock \in LockState
    BY DEF Init, CpuBoot, CpuState, initlock, LockState
  <1>2. TypeOK
    <2>1. KheapEnd0 \in Nat
      BY SMT DEF KheapEnd0
    <2> QED
      BY <1>1, <2>1, Zenon DEF Init, TypeOK, Word
  <1>3. NeverPanics /\ OthersUntouched
    BY DEF Init, NeverPanics, OthersUntouched
  <1>4. Donated = {}
    BY DEF Init, Donated
  <1> QED
    BY <1>2, <1>3, <1>4 DEF Init, IInv, Cursor, Bounds

\* kinit1 makes the list empty and starts at the first frame.
LEMMA Kinit1IInv == IInv /\ Kinit1 => IInv'
  <1> SUFFICES ASSUME IInv, Kinit1 PROVE IInv'
    OBVIOUS
  <1>1. /\ pc = "boot" /\ pc' = "kinit1" /\ kheap_start' = kend /\ freelist' = Sentinel
        /\ kmemlock' = initlock /\ use_lock' = FALSE /\ p' = kend
        /\ kheap_end' = kheap_end /\ cpu' = cpu /\ mem' = mem /\ ret' = ret
        /\ free' = free /\ used' = used
    BY Kend DEF Kinit1
  <1>2. free = {} /\ used = {} /\ kheap_end = KheapEnd0
    BY <1>1 DEF IInv, Donated, Bounds
  <1>3. TypeOK'
    BY <1>1, Kend, Zenon DEF IInv, TypeOK, initlock, LockState
  <1>4. NeverPanics' /\ OthersUntouched'
    BY <1>1 DEF IInv, NeverPanics, OthersUntouched
  <1>5. Chained'
    <2>1. PICK r \in [Frames -> Nat] : TRUE
      <3>1. [v \in Frames |-> 0] \in [Frames -> Nat]
        OBVIOUS
      <3> QED
        BY <3>1, Zenon
    <2>2. Chain(r)'
      BY <1>1, <1>2 DEF Chain
    <2> QED
      BY <2>2 DEF Chained
  <1>6. Donated' = {}
    <2>1. \A v \in Frames : ~(v < kend)
      BY FrameIs, Kend
    <2> QED
      BY <1>1, <2>1 DEF Donated
  <1>7. Cursor' /\ Bounds'
    BY <1>1, <1>2, Kend DEF Cursor, Bounds
  <1> QED
    BY <1>1, <1>2, <1>3, <1>4, <1>5, <1>6, <1>7, Zenon DEF IInv

\* An iteration of freerange frees a frame the list does not have yet.
LEMMA FreeRangeIInv == IInv /\ FreeRange => IInv'
  <1> SUFFICES ASSUME IInv, FreeRange PROVE IInv'
    OBVIOUS
  <1>1. /\ pc \in {"kinit1", "kinit2"} /\ pc # "boot" /\ p + PGSIZE <= RangeEnd /\ kfree(p)
        /\ p' = p + PGSIZE /\ pc' = pc /\ kheap_start' = kheap_start
        /\ kheap_end' = kheap_end /\ used' = used
    BY DEF FreeRange, RangeHas
  <1>2. p \in Nat /\ p % PGSIZE = 0 /\ kend <= p /\ kend \in Nat
    BY <1>1, Kend, Entry DEF IInv, TypeOK, Cursor
  <1>3. pc = "kinit1" => p + PGSIZE <= P2V(EntryEnd)
    BY <1>1 DEF RangeEnd
  <1>4. p + PGSIZE <= P2V(PhysEnd)
    BY <1>1, <1>2, Entry DEF RangeEnd, PGSIZE
  <1>5. p \in Frames
    BY <1>2, <1>4, FrameIs
  <1>6. Donated = {v \in Frames : v < p}
    BY <1>1 DEF Donated
  <1>7. p \notin free /\ p \notin used
    BY <1>2, <1>6 DEF IInv
  <1>8. kfreeAccepts(p)
    <2>1. pc \in {"kinit1", "early"} => p < P2V(EntryEnd)
      BY <1>1, <1>2, <1>3, Entry DEF PGSIZE
    <2> QED
      BY <1>1, <1>5, <2>1, Accepts
  <1>9. /\ freelist' = p /\ mem' \in [Pages -> Word] /\ NeverPanics'
        /\ OthersUntouched' /\ Chained' /\ free' = free \cup {p}
        /\ use_lock' = use_lock /\ ret' = ret
    BY <1>1, <1>5, <1>7, <1>8, KfreeEffect, Zenon
  <1>10. TypeOK'
    <2>1. cpu' \in CpuState /\ kmemlock' \in LockState
      BY <1>9 DEF NeverPanics, CpuBoot, CpuState, initlock, LockState
    <2>2. p' \in Nat
      BY <1>1, <1>2 DEF PGSIZE
    <2> QED
      BY <1>1, <1>5, <1>9, <2>1, <2>2, FramesPages DEF IInv, TypeOK
  <1>11. Donated' = Donated \cup {p}
    <2>1. Donated' = {v \in Frames : v < p + PGSIZE}
      BY <1>1 DEF Donated
    <2>2. \A v \in Frames : v < p + PGSIZE <=> v < p \/ v = p
      BY <1>2, FrameIs DEF PGSIZE
    <2> QED
      BY <1>5, <1>6, <2>1, <2>2
  <1>12. free' \cap used' = {} /\ free' \cup used' = Donated'
    BY <1>1, <1>7, <1>9, <1>11 DEF IInv
  <1>13. Cursor'
    <2>1. (p + PGSIZE) % PGSIZE = 0
      BY <1>2 DEF PGSIZE
    <2>2. kend <= p + PGSIZE /\ (pc = "kinit2" => P2V(EntryEnd) <= p + PGSIZE)
      BY <1>2, Entry DEF IInv, Cursor, PGSIZE
    <2> QED
      BY <1>1, <1>3, <2>1, <2>2, Zenon DEF Cursor
  <1>14. Bounds'
    BY <1>1 DEF IInv, Bounds
  <1> QED
    BY <1>1, <1>9, <1>10, <1>12, <1>13, <1>14, Zenon DEF IInv

\* When freerange stops in kinit1 the frames of the boot map are free.
LEMMA Kinit1ReturnIInv == IInv /\ Kinit1Return => IInv'
  <1> SUFFICES ASSUME IInv, Kinit1Return PROVE IInv'
    OBVIOUS
  <1>1. /\ pc = "kinit1" /\ pc' = "early" /\ ~(p + PGSIZE <= P2V(EntryEnd))
        /\ UNCHANGED <<p, kheap_start, kheap_end, freelist, use_lock, kmemlock, cpu, mem,
                       ret, free, used>>
    BY DEF Kinit1Return, RangeHas, RangeEnd, heap
  <1>2. p = P2V(EntryEnd)
    BY <1>1, Entry DEF IInv, TypeOK, Cursor, PGSIZE
  <1>3. Donated' = Donated
    BY <1>1, <1>2 DEF Donated
  <1>4. TypeOK' /\ NeverPanics' /\ OthersUntouched'
    BY <1>1 DEF IInv, TypeOK, NeverPanics, OthersUntouched
  <1>5. Chained'
    BY <1>1 DEF IInv, Chained, Chain
  <1>6. Cursor' /\ Bounds'
    BY <1>1 DEF IInv, Cursor, Bounds
  <1> QED
    BY <1>1, <1>3, <1>4, <1>5, <1>6 DEF IInv

\* kinit2 goes on with the first frame behind the boot map.
LEMMA Kinit2IInv == IInv /\ Kinit2 => IInv'
  <1> SUFFICES ASSUME IInv, Kinit2 PROVE IInv'
    OBVIOUS
  <1>1. /\ pc = "early" /\ pc' = "kinit2" /\ kheap_end' = P2V(PhysEnd) /\ p' = P2V(EntryEnd)
        /\ UNCHANGED <<kheap_start, freelist, use_lock, kmemlock, cpu, mem, ret, free, used>>
    BY Kend DEF Kinit2, heap
  <1>2. Donated' = Donated
    BY <1>1 DEF Donated
  <1>3. TypeOK' /\ NeverPanics' /\ OthersUntouched'
    BY <1>1, Entry DEF IInv, TypeOK, NeverPanics, OthersUntouched
  <1>4. Chained'
    BY <1>1 DEF IInv, Chained, Chain
  <1>5. Cursor' /\ Bounds'
    BY <1>1, Entry DEF IInv, Cursor, Bounds
  <1> QED
    BY <1>1, <1>2, <1>3, <1>4, <1>5 DEF IInv

\* When freerange stops in kinit2 every frame is free or used; the dump
\* changes nothing.
LEMMA Kinit2ReturnIInv == IInv /\ Kinit2Return => IInv'
  <1> SUFFICES ASSUME IInv, Kinit2Return PROVE IInv'
    OBVIOUS
  <1>1. /\ pc = "kinit2" /\ pc' = "ready" /\ ~(p + PGSIZE <= P2V(PhysEnd)) /\ use_lock' = TRUE
        /\ UNCHANGED <<p, kheap_start, kheap_end, freelist, kmemlock, cpu, mem, ret, free, used>>
    BY DEF Kinit2Return, RangeHas, RangeEnd
  <1>2. Donated' = Donated
    <2>1. p \in Nat
      BY DEF IInv, TypeOK
    <2>2. \A v \in Frames : v < p
      BY <1>1, <2>1, FrameIs, Entry DEF PGSIZE
    <2> QED
      BY <1>1, <2>2 DEF Donated
  <1>3. TypeOK' /\ NeverPanics' /\ OthersUntouched'
    BY <1>1 DEF IInv, TypeOK, NeverPanics, OthersUntouched
  <1>4. Chained'
    BY <1>1 DEF IInv, Chained, Chain
  <1>5. Cursor' /\ Bounds'
    BY <1>1 DEF IInv, Cursor, Bounds
  <1> QED
    BY <1>1, <1>2, <1>3, <1>4, <1>5, Zenon DEF IInv

\* kalloc takes the head of the list, or fails because nothing is free.
LEMMA KallocEffect ==
    ASSUME IInv, kalloc
    PROVE  /\ pc \in {"early", "ready"} /\ cpu' = CpuBoot /\ kmemlock' = initlock
           /\ UNCHANGED <<pc, p, kheap_start, kheap_end, use_lock, mem>>
           /\ \/ free = {} /\ ret' = 0 /\ UNCHANGED <<freelist, free, used>>
              \/ /\ freelist \in free /\ ret' = freelist /\ freelist' = mem[freelist]
                 /\ free' = free \ {freelist} /\ used' = used \cup {freelist}
  <1>1. cpu = CpuBoot /\ kmemlock = initlock /\ pc \in {"early", "ready"} /\ Chained /\ TypeOK
    BY DEF IInv, NeverPanics, kalloc
  <1>2. Critical.cpu = CpuBoot /\ Critical.lock = initlock /\ Alive(CpuBoot)
    BY <1>1, CriticalEffect
  <1>3. free = {} <=> freelist = Sentinel
    <2>1. PICK r \in [Frames -> Nat] : Chain(r)
      BY <1>1 DEF Chained
    <2> QED
      BY <1>1, <2>1, FramesPages DEF Chain, TypeOK
  <1>4. free # {} => freelist \in free
    BY <1>1 DEF Chained, Chain
  <1> QED
    BY <1>1, <1>2, <1>3, <1>4 DEF kalloc, Empty

\* kalloc preserves the invariant: the frame it returns leaves the chain.
LEMMA KallocIInv == IInv /\ kalloc => IInv'
  <1> SUFFICES ASSUME IInv, kalloc PROVE IInv'
    OBVIOUS
  <1>1. /\ pc \in {"early", "ready"} /\ cpu' = CpuBoot /\ kmemlock' = initlock
        /\ UNCHANGED <<pc, p, kheap_start, kheap_end, use_lock, mem>>
    BY KallocEffect
  <1>2. NeverPanics' /\ OthersUntouched' /\ cpu' \in CpuState /\ kmemlock' \in LockState
    BY <1>1 DEF IInv, NeverPanics, OthersUntouched, TypeOK
  <1>3. Cursor' /\ Donated' = Donated
    BY <1>1 DEF IInv, Cursor, Donated
  <1>4. Bounds'
    BY <1>1 DEF IInv, Bounds
  <1>5. CASE free = {} /\ ret' = 0 /\ UNCHANGED <<freelist, free, used>>
    <2>1. TypeOK'
      BY <1>1, <1>2, <1>5 DEF IInv, TypeOK
    <2>2. Chained'
      BY <1>1, <1>5 DEF IInv, Chained, Chain
    <2> QED
      BY <1>1, <1>2, <1>3, <1>4, <1>5, <2>1, <2>2, Zenon DEF IInv
  <1>6. CASE /\ freelist \in free /\ ret' = freelist /\ freelist' = mem[freelist]
             /\ free' = free \ {freelist} /\ used' = used \cup {freelist}
    <2>1. TypeOK /\ Chained /\ pc # "boot"
      BY <1>1 DEF IInv
    <2>2. Chained'
      BY <1>1, <1>6, <2>1, PopChain
    <2>3. freelist' \in Pages \cup {Sentinel}
      <3>1. PICK r \in [Frames -> Nat] : Chain(r)
        BY <2>1 DEF Chained
      <3>2. r[freelist] \in Nat /\ free \subseteq Frames
        BY <1>6, <2>1 DEF TypeOK
      <3> QED
        BY <1>6, <3>1, <3>2, FramesPages DEF Chain
    <2>4. TypeOK'
      BY <1>1, <1>2, <1>6, <2>1, <2>3 DEF TypeOK
    <2>5. free' \cap used' = {} /\ free' \cup used' = Donated'
      BY <1>3, <1>6 DEF IInv
    <2> QED
      BY <1>1, <1>2, <1>3, <1>4, <2>2, <2>4, <2>5, Zenon DEF IInv
  <1> QED
    BY <1>5, <1>6, KallocEffect

\* A holder's kfree passes the check and puts the frame back.
LEMMA FreeUsedEffect ==
    ASSUME IInv, NEW v \in Frames, FreeUsed(v)
    PROVE  /\ pc \in {"early", "ready"} /\ v \in used /\ v \notin free
           /\ freelist' = v /\ mem' \in [Pages -> Word] /\ NeverPanics'
           /\ OthersUntouched' /\ Chained' /\ free' = free \cup {v} /\ used' = used \ {v}
           /\ \A w \in Pages : w # v => mem'[w] = mem[w]
           /\ UNCHANGED <<pc, p, kheap_start, kheap_end, use_lock, ret>>
  <1>1. /\ pc \in {"early", "ready"} /\ pc # "boot" /\ v \in used /\ kfree(v)
        /\ used' = used \ {v} /\ UNCHANGED <<pc, p, kheap_start, kheap_end>>
    BY DEF FreeUsed
  <1>2. v \notin free /\ v \in Donated
    BY <1>1 DEF IInv
  <1>3. pc \in {"kinit1", "early"} => v < P2V(EntryEnd)
    BY <1>1, <1>2 DEF Donated
  <1>4. kfreeAccepts(v)
    BY <1>1, <1>3, Accepts
  <1>5. /\ freelist' = v /\ mem' \in [Pages -> Word] /\ NeverPanics'
        /\ OthersUntouched' /\ Chained' /\ free' = free \cup {v}
        /\ \A w \in Pages : w # v => mem'[w] = mem[w]
        /\ use_lock' = use_lock /\ ret' = ret
    BY <1>1, <1>2, <1>4, KfreeEffect
  <1> QED
    BY <1>1, <1>2, <1>5

\* A holder that frees its frame preserves the invariant.
LEMMA FreeUsedIInv ==
    ASSUME NEW v \in Frames
    PROVE  IInv /\ FreeUsed(v) => IInv'
  <1> SUFFICES ASSUME IInv, FreeUsed(v) PROVE IInv'
    OBVIOUS
  <1>1. /\ pc \in {"early", "ready"} /\ v \in used /\ v \notin free
        /\ freelist' = v /\ mem' \in [Pages -> Word] /\ NeverPanics'
        /\ OthersUntouched' /\ Chained' /\ free' = free \cup {v} /\ used' = used \ {v}
        /\ UNCHANGED <<pc, p, kheap_start, kheap_end, use_lock, ret>>
    BY FreeUsedEffect
  <1>2. cpu' \in CpuState /\ kmemlock' \in LockState
    BY <1>1 DEF IInv, TypeOK, NeverPanics
  <1>3. TypeOK'
    BY <1>1, <1>2, FramesPages DEF IInv, TypeOK
  <1>4. Donated' = Donated /\ Cursor' /\ Bounds'
    BY <1>1 DEF IInv, Donated, Cursor, Bounds
  <1>5. free' \cap used' = {} /\ free' \cup used' = Donated'
    BY <1>1, <1>4 DEF IInv
  <1> QED
    BY <1>1, <1>3, <1>4, <1>5 DEF IInv

\* A holder that writes its frame does not touch the chain.
LEMMA WriteIInv ==
    ASSUME NEW v \in Frames
    PROVE  IInv /\ Write(v) => IInv'
  <1> SUFFICES ASSUME IInv, Write(v) PROVE IInv'
    OBVIOUS
  <1>1. /\ v \in used /\ mem' = [mem EXCEPT ![v] = Data]
        /\ UNCHANGED <<pc, p, kheap_start, kheap_end, freelist, use_lock, kmemlock, cpu,
                       ret, free, used>>
    BY DEF Write
  <1>2. mem \in [Pages -> Word] /\ v \notin free /\ free \subseteq Frames /\ v \in Pages
    BY <1>1, FramesPages DEF IInv, TypeOK
  <1>3. mem' \in [Pages -> Word] /\ \A w \in Pages : w # v => mem'[w] = mem[w]
    BY <1>1, <1>2 DEF Word
  <1>4. TypeOK'
    BY <1>1, <1>3 DEF IInv, TypeOK
  <1>5. NeverPanics' /\ OthersUntouched'
    BY <1>1, <1>3 DEF IInv, NeverPanics, OthersUntouched
  <1>6. pc # "boot" => Chained'
    <2>1. \A w \in free : mem'[w] = mem[w]
      BY <1>2, <1>3, FramesPages
    <2>2. ASSUME NEW r \in [Frames -> Nat], Chain(r) PROVE Chain(r)'
      BY <1>1, <2>1, <2>2 DEF Chain
    <2> QED
      BY <2>2 DEF IInv, Chained
  <1>7. Donated' = Donated /\ Cursor' /\ Bounds'
    BY <1>1 DEF IInv, Donated, Cursor, Bounds
  <1> QED
    BY <1>1, <1>4, <1>5, <1>6, <1>7 DEF IInv

\* Every step preserves the invariant.
LEMMA NextIInv == IInv /\ [Next]_vars => IInv'
  <1> SUFFICES ASSUME IInv, [Next]_vars PROVE IInv'
    OBVIOUS
  <1>1. CASE MainStep
    BY <1>1, Kinit1IInv, FreeRangeIInv, Kinit1ReturnIInv, Kinit2IInv, Kinit2ReturnIInv
       DEF MainStep
  <1>2. CASE kalloc
    BY <1>2, KallocIInv
  <1>3. CASE \E v \in Frames : FreeUsed(v) \/ Write(v)
    BY <1>3, FreeUsedIInv, WriteIInv
  <1>4. CASE UNCHANGED vars
    <2>1. TypeOK' /\ NeverPanics' /\ OthersUntouched'
      BY <1>4 DEF vars, heap, IInv, TypeOK, NeverPanics, OthersUntouched
    <2>2. pc # "boot" => Chained'
      BY <1>4 DEF vars, heap, IInv, Chained, Chain
    <2>3. Donated' = Donated /\ Cursor' /\ Bounds'
      BY <1>4 DEF vars, heap, IInv, Donated, Cursor, Bounds
    <2> QED
      BY <1>4, <2>1, <2>2, <2>3 DEF vars, heap, IInv
  <1> QED
    BY <1>1, <1>2, <1>3, <1>4 DEF Next

-----------------------------------------------------------------------------
(* The walk along the list.                                                *)

\* RAM has finitely many frames.
LEMMA FiniteFrames == IsFiniteSet(Frames) /\ Cardinality(Frames) \in Nat
  <1>1. PGROUNDDOWN(KEnd) \in Int /\ P2V(PhysEnd) \in Int
    BY Entry, RoundDown
  <1>2. IsFiniteSet(PGROUNDDOWN(KEnd) .. P2V(PhysEnd))
    BY <1>1, FS_Interval
  <1>3. Frames \in SUBSET (PGROUNDDOWN(KEnd) .. P2V(PhysEnd))
    BY Zenon DEF Frames, Pages
  <1>4. IsFiniteSet(Frames)
    BY <1>2, <1>3, FS_Subset, Zenon
  <1> QED
    BY <1>4, FS_CardinalityType, Zenon

\* A nonempty set of natural numbers has a least element.
LEMMA LeastExists ==
    ASSUME NEW T \in SUBSET Nat, T # {}
    PROVE  \E x \in T : \A y \in T : x <= y
  <1> DEFINE R == OpToRel(<, Nat)
  <1>1. IsWellFoundedOn(R, Nat)
    BY NatLessThanWellFounded, Zenon
  <1>2. \A x, y \in Nat : <<y, x>> \in R <=> y < x
    BY DEF OpToRel
  <1> HIDE DEF R
  <1>3. PICK x \in T : \A y \in T : ~ (<<y, x>> \in R)
    BY <1>1, WFMin, Zenon
  <1>4. ASSUME NEW y \in T PROVE x <= y
    <2>1. x \in Nat /\ y \in Nat /\ ~ (y < x)
      BY <1>2, <1>3, Zenon
    <2> QED
      BY <2>1
  <1> QED
    BY <1>4

\* The numbers of the chain are all of 1..N: below the head there is one for
\* each.
LEMMA ChainNumbers ==
    ASSUME NEW r \in [Frames -> Nat], Chain(r), free \subseteq Frames, free # {},
           NEW i \in 1..r[freelist]
    PROVE  \E v \in free : r[v] = i
  <1> DEFINE N == r[freelist]
             T == {j \in Nat : j < N /\ ~\E v \in free : r[v] = N - j}
  <1>1. freelist \in free /\ N \in Nat /\ \A v \in free : r[v] \in Nat
    BY DEF Chain
  <1> HIDE DEF N
  <1>2. T = {}
    <2> SUFFICES ASSUME T # {} PROVE FALSE
      OBVIOUS
    <2>0. T \in SUBSET Nat
      OBVIOUS
    <2>1. PICK j \in T : \A k \in T : j <= k
      BY <2>0, LeastExists, Zenon
    <2>2. j \in Nat /\ j < N /\ ~\E v \in free : r[v] = N - j
      OBVIOUS
    <2>3. j # 0
      BY <1>1, <2>2 DEF N
    <2>4. j - 1 \in Nat /\ j - 1 < j /\ j - 1 < N /\ N - (j - 1) = N - j + 1
          /\ N - j + 1 > 1 /\ N - j + 1 - 1 = N - j
      BY <1>1, <2>2, <2>3
    <2>a. j - 1 \notin T
      BY <2>1, <2>2, <2>4
    <2>b. \A k \in Nat : k < N /\ k \notin T => \E v \in free : r[v] = N - k
      OBVIOUS
    <2>c. \E v \in free : r[v] = N - (j - 1)
      BY <2>4, <2>a, <2>b
    <2>5. PICK v \in free : r[v] = N - j + 1
      BY <2>4, <2>c, Zenon
    <2> HIDE DEF T
    <2>d. r[v] > 1 /\ r[v] - 1 = N - j
      BY <1>1, <2>2, <2>4, <2>5
    <2>e. r[v] > 1 => mem[v] \in free /\ r[mem[v]] = r[v] - 1
      BY Zenon DEF Chain
    <2>6. mem[v] \in free /\ r[mem[v]] = N - j
      BY <2>d, <2>e
    <2> QED
      BY <2>2, <2>6
  <1>3. r[freelist] - i \in Nat /\ r[freelist] - i < N /\ N - (r[freelist] - i) = i
    BY <1>1 DEF N
  <1> QED
    BY <1>2, <1>3

\* The nodes from the head on: the free frames and then the sentinel.
Nodes(n, w) ==
    /\ w \in [0..n -> free \cup {Sentinel}]
    /\ w[0] = freelist /\ w[n] = Sentinel
    /\ \A k \in 0..(n - 1) : w[k] \in free /\ NextOf(w[k]) = w[k + 1]
    /\ {w[k] : k \in 0..(n - 1)} = free

\* The chain is the nodes of a walk, which meets every free frame once.
LEMMA ChainNodes ==
    ASSUME TypeOK, Chained
    PROVE  \E n \in Nat : /\ n = Cardinality(free) /\ n <= Cardinality(Frames)
                          /\ \E w : Nodes(n, w)
  <1>1. PICK r \in [Frames -> Nat] : Chain(r)
    BY DEF Chained
  <1>2. free \subseteq Frames /\ Sentinel \notin free
    BY FramesPages DEF TypeOK
  <1>3. CASE free = {}
    <2>1. freelist = Sentinel /\ Cardinality(free) = 0
      BY <1>1, <1>3, FS_EmptySet DEF Chain
    <2> DEFINE w == [k \in 0..0 |-> Sentinel]
    <2>2. Nodes(0, w)
      BY <1>3, <2>1 DEF Nodes
    <2> QED
      BY <2>1, <2>2, FiniteFrames
  <1>4. CASE free # {}
    <2>1. freelist \in free /\ r[freelist] \in Nat /\ r[freelist] >= 1
      BY <1>1, <1>2, <1>4 DEF Chain
    <2>2. PICK N \in Nat : N = r[freelist] /\ N >= 1
      BY <2>1
    <2> DEFINE pos == [i \in 1..N |-> CHOOSE v \in free : r[v] = i]
    <2>3. \A i \in 1..N : pos[i] \in free /\ r[pos[i]] = i
      BY <1>1, <1>2, <1>4, <2>2, ChainNumbers
    <2>4. \A v \in free : r[v] \in 1..N
      BY <1>1, <1>2, <1>4, <2>2 DEF Chain
    <2>5. pos \in [1..N -> free]
      BY <2>3
    <2> HIDE DEF pos
    <2>6. \A v \in free : \A i \in 1..N : r[v] = i => pos[i] = v
      BY <1>1, <2>3 DEF Chain
    <2>7. Cardinality(free) = N
      <3>1. \A a, b \in 1..N : pos[a] = pos[b] => a = b
        BY <2>3
      <3>2. \A v \in free : \E a \in 1..N : pos[a] = v
        BY <2>4, <2>6
      <3>3. pos \in Bijection(1..N, free)
        BY <2>5, <3>1, <3>2, Fun_IsBij, Zenon
      <3>4. ExistsBijection(1..N, free)
        BY <3>3, Zenon DEF ExistsBijection
      <3> QED
        BY <3>4, FS_CountingElements, Zenon
    <2>8. N <= Cardinality(Frames)
      BY <1>2, <2>7, FiniteFrames, FS_Subset
    <2> DEFINE w == [k \in 0..N |-> IF k = N THEN Sentinel ELSE pos[N - k]]
    <2>9. /\ w[N] = Sentinel
          /\ \A k \in 0..(N - 1) : k \in 0..N /\ N - k \in 1..N /\ w[k] = pos[N - k]
      BY <2>2
    <2>10. w \in [0..N -> free \cup {Sentinel}]
      BY <2>2, <2>3
    <2> HIDE DEF w
    <2>11. w[0] = freelist
      <3>1. 0 \in 0..(N - 1) /\ N - 0 = N /\ N \in 1..N
        BY <2>2
      <3>2. pos[N] = freelist
        BY <2>1, <2>2, <2>6, <3>1
      <3> QED
        BY <2>9, <3>1, <3>2
    <2>12. ASSUME NEW k \in 0..(N - 1)
           PROVE  w[k] \in free /\ NextOf(w[k]) = w[k + 1]
      <3>1. w[k] \in free /\ r[w[k]] = N - k
        BY <2>3, <2>9
      <3>2. NextOf(w[k]) = mem[w[k]]
        BY <1>2, <3>1 DEF NextOf
      <3>3. CASE k = N - 1
        <4>1. N - k = 1 /\ k + 1 = N
          BY <2>2, <3>3
        <4>2. mem[w[k]] = Sentinel
          BY <1>1, <3>1, <4>1 DEF Chain
        <4> QED
          BY <2>9, <3>1, <3>2, <4>1, <4>2
      <3>4. CASE k # N - 1
        <4>1. N - k > 1 /\ k + 1 \in 0..(N - 1) /\ N - (k + 1) = N - k - 1
          BY <2>2, <3>4
        <4>2. mem[w[k]] \in free /\ r[mem[w[k]]] = N - k - 1
          BY <1>1, <3>1, <4>1 DEF Chain
        <4>3. w[k + 1] = pos[N - (k + 1)] /\ N - (k + 1) \in 1..N
          BY <2>9, <4>1
        <4> QED
          BY <2>6, <3>1, <3>2, <4>1, <4>2, <4>3
      <3> QED
        BY <3>3, <3>4
    <2>13. {w[k] : k \in 0..(N - 1)} = free
      <3>1. ASSUME NEW v \in free PROVE \E k \in 0..(N - 1) : w[k] = v
        <4>1. r[v] \in 1..N /\ pos[r[v]] = v
          BY <2>4, <2>6
        <4>2. N - r[v] \in 0..(N - 1) /\ N - (N - r[v]) = r[v]
          BY <2>2, <4>1
        <4> QED
          BY <2>9, <4>1, <4>2
      <3> QED
        BY <2>12, <3>1
    <2>14. Nodes(N, w)
      BY <2>9, <2>10, <2>11, <2>12, <2>13, Zenon DEF Nodes
    <2> QED
      BY <2>7, <2>8, <2>14
  <1> QED
    BY <1>3, <1>4

\* Walk follows the nodes.  The function it is defined by exists, because the
\* nodes satisfy its equation; and whatever satisfies it is the nodes, since
\* there is no first place where it differs.
LEMMA WalkNodes ==
    ASSUME NEW N \in Nat, NEW w, Nodes(N, w), N <= Cardinality(Frames), NEW n \in 0..N
    PROVE  Walk[n] = w[n]
  <1> DEFINE q[k \in 0..n] == IF k = 0 THEN freelist ELSE NextOf(q[k - 1])
             u == [k \in 0..n |-> w[k]]
  <1>1. Walk[n] = q[n]
    BY FiniteFrames DEF Walk
  <1>2. \A k \in 0..n : k \in 0..N /\ (k # 0 => k - 1 \in 0..n /\ k - 1 \in 0..(N - 1))
    OBVIOUS
  <1>3. u = [k \in 0..n |-> IF k = 0 THEN freelist ELSE NextOf(u[k - 1])]
    BY <1>2 DEF Nodes
  <1>4. q = [k \in 0..n |-> IF k = 0 THEN freelist ELSE NextOf(q[k - 1])]
    <2> HIDE DEF u
    <2> QED
      BY <1>3, Zenon DEF q
  <1> HIDE DEF q
  <1> DEFINE T == {k \in 0..n : q[k] # w[k]}
  <1>5. T = {}
    <2> SUFFICES ASSUME T # {} PROVE FALSE
      OBVIOUS
    <2>0. T \in SUBSET Nat
      OBVIOUS
    <2>1. PICK j \in T : \A k \in T : j <= k
      BY <2>0, LeastExists, Zenon
    <2>2. j \in 0..n /\ q[j] # w[j]
      OBVIOUS
    <2>3. j # 0
      BY <1>4, <2>2 DEF Nodes
    <2>4. j - 1 \in 0..n /\ j - 1 \in 0..(N - 1) /\ ~(j <= j - 1) /\ j - 1 + 1 = j
      BY <2>2, <2>3
    <2>5. q[j - 1] = w[j - 1]
      BY <2>1, <2>4
    <2>6. q[j] = NextOf(w[j - 1])
      BY <1>4, <2>2, <2>3, <2>5
    <2> QED
      BY <2>2, <2>4, <2>6, Zenon DEF Nodes
  <1> QED
    BY <1>1, <1>5

-----------------------------------------------------------------------------
(* The theorems.                                                           *)

\* The strengthened invariant holds in every reachable state.
THEOREM Invariance == Spec => []IInv
  BY InitIInv, NextIInv, PTL DEF Spec

\* Pointers of the allocator stay inside the pages of the heap, and what it
\* hands out are frames.
THEOREM TypeCorrect == Spec => []TypeOK
  <1>1. IInv => TypeOK
    BY DEF IInv
  <1> QED
    BY <1>1, Invariance, PTL

\* The list from kmem.freelist is a finite chain that ends at the sentinel and
\* has exactly the free frames on it, each once: r numbers them.
THEOREM ListIsChain == Spec => [](pc # "boot" => Chained)
  <1>1. IInv => (pc # "boot" => Chained)
    BY DEF IInv
  <1> QED
    BY <1>1, Invariance, PTL

\* From kmem.freelist one reaches every free frame once, then the sentinel, and
\* nothing else.
THEOREM ListExact == Spec => []FreeListExact
  <1>1. IInv => FreeListExact
    <2> SUFFICES ASSUME IInv, pc # "boot"
                 PROVE  \E n \in 0..Cardinality(Frames) :
                           /\ Walk[n] = Sentinel
                           /\ {Walk[k] : k \in 0..(n - 1)} = free
                           /\ Cardinality(free) = n
      BY Zenon DEF FreeListExact
    <2>1. TypeOK /\ Chained
      BY DEF IInv
    <2>2. PICK N \in Nat : /\ N = Cardinality(free) /\ N <= Cardinality(Frames)
                           /\ \E w : Nodes(N, w)
      BY <2>1, ChainNodes
    <2>3. PICK w : Nodes(N, w)
      BY <2>2
    <2>4. \A n \in 0..N : Walk[n] = w[n]
      BY <2>2, <2>3, WalkNodes
    <2>5. N \in 0..N /\ N \in 0..Cardinality(Frames) /\ \A k \in 0..(N - 1) : k \in 0..N
      BY <2>2, FiniteFrames
    <2>6. Walk[N] = Sentinel
      BY <2>3, <2>4, <2>5 DEF Nodes
    <2>7. {Walk[k] : k \in 0..(N - 1)} = {w[k] : k \in 0..(N - 1)}
      BY <2>4, <2>5
    <2>8. {Walk[k] : k \in 0..(N - 1)} = free
      BY <2>3, <2>7, Zenon DEF Nodes
    <2> QED
      BY <2>2, <2>5, <2>6, <2>8
  <1> QED
    BY <1>1, Invariance, PTL

\* No frame is free and handed out, donated twice or lost between kinit1,
\* paging_init and kinit2.
THEOREM FramesConserved == Spec => []Conservation
  <1>1. IInv => Conservation
    <2> SUFFICES ASSUME IInv PROVE Conservation
      OBVIOUS
    <2>1. \A v \in Frames : v < P2V(EntryEnd) <=> v + PGSIZE <= P2V(EntryEnd)
      BY FrameIs, Entry DEF PGSIZE
    <2> QED
      BY <2>1 DEF IInv, Donated, Conservation
  <1> QED
    BY <1>1, Invariance, PTL

\* kfree's check never refuses a frame of the heap, and the lock of the
\* allocator is free whenever no call is in progress.
THEOREM AllocatorNeverPanics == Spec => []NeverPanics
  <1>1. IInv => NeverPanics
    BY DEF IInv
  <1> QED
    BY <1>1, Invariance, PTL

\* The kernel image and the pages beyond RAM are never written.
THEOREM NothingElseWritten == Spec => []OthersUntouched
  <1>1. IInv => OthersUntouched
    BY DEF IInv
  <1> QED
    BY <1>1, Invariance, PTL

\* No call of somebody else changes the data of a frame that is held.
THEOREM HeldDataStays == Spec => DataStays
  <1>1. IInv /\ [Next]_vars
        => [\A v \in used \cap used' : mem[v] = Data => mem'[v] = Data]_vars
    <2> SUFFICES ASSUME IInv, Next, NEW v \in used \cap used', mem[v] = Data
                 PROVE  mem'[v] = Data
      BY DEF vars
    <2>0. v \in Pages /\ v \in Frames /\ mem \in [Pages -> Word]
      BY FramesPages DEF IInv, TypeOK
    <2>1. CASE Kinit1 \/ Kinit1Return \/ Kinit2 \/ Kinit2Return
      BY <2>1, Zenon DEF Kinit1, Kinit1Return, Kinit2, Kinit2Return, heap
    <2>2. CASE FreeRange
      <3>1. IInv' /\ free' = free \cup {p} /\ used' = used
        BY <2>2, FreeRangeIInv DEF FreeRange, kfree
      <3>2. v # p
        BY <3>1 DEF IInv
      <3> QED
        BY <2>0, <2>2, <3>2 DEF FreeRange, kfree, Push
    <2>3. CASE kalloc
      BY <2>3 DEF kalloc
    <2>4. ASSUME NEW w \in Frames, FreeUsed(w) PROVE mem'[v] = Data
      BY <2>0, <2>4, FreeUsedEffect
    <2>5. ASSUME NEW w \in Frames, Write(w) PROVE mem'[v] = Data
      BY <2>0, <2>5 DEF Write
    <2> QED
      BY <2>1, <2>2, <2>3, <2>4, <2>5 DEF Next, MainStep
  <1> QED
    BY <1>1, Invariance, PTL DEF Spec, DataStays

\* Every step of the allocator is a step of the pool or invisible to it.
LEMMA PoolStep == IInv /\ IInv' /\ [Next]_vars => [Pool!Next]_(Pool!vars)
  <1> SUFFICES ASSUME IInv, IInv', [Next]_vars PROVE [Pool!Next]_(Pool!vars)
    OBVIOUS
  <1>1. CASE Kinit1 \/ Kinit1Return \/ Kinit2 \/ Kinit2Return
    BY <1>1 DEF Kinit1, Kinit1Return, Kinit2, Kinit2Return, heap, Pool!vars
  <1>2. CASE FreeRange
    <2>1. free' = free \cup {p} /\ used' = used /\ ret' = ret
      BY <1>2 DEF FreeRange, kfree
    <2>2. p \in Frames
      BY <2>1 DEF IInv, TypeOK
    <2>3. p \notin free /\ p \notin used
      <3>1. p \in Nat /\ Donated = {v \in Frames : v < p}
        BY <1>2 DEF IInv, TypeOK, FreeRange, Donated
      <3> QED
        BY <3>1 DEF IInv
    <2>4. PICK v \in Frames : v = p
      BY <2>2
    <2>5. Pool!Donate(v)
      BY <2>1, <2>3, <2>4 DEF Pool!Donate
    <2> QED
      BY <2>5 DEF Pool!Next
  <1>3. CASE kalloc
    <2>1. CASE free = {} /\ ret' = 0 /\ UNCHANGED <<freelist, free, used>>
      BY <2>1 DEF Pool!Next, Pool!AllocFails
    <2>2. CASE /\ freelist \in free /\ ret' = freelist /\ freelist' = mem[freelist]
               /\ free' = free \ {freelist} /\ used' = used \cup {freelist}
      <3>1. PICK v \in Frames : v = freelist
        BY <2>2 DEF IInv, TypeOK
      <3>2. Pool!Alloc(v)
        BY <2>2, <3>1 DEF Pool!Alloc
      <3> QED
        BY <3>2 DEF Pool!Next
    <2> QED
      BY <1>3, <2>1, <2>2, KallocEffect
  <1>4. ASSUME NEW v \in Frames, FreeUsed(v) PROVE Pool!Next
    <2>1. v \in used /\ free' = free \cup {v} /\ used' = used \ {v} /\ ret' = ret
      BY <1>4, FreeUsedEffect
    <2>2. Pool!Free(v)
      BY <2>1 DEF Pool!Free
    <2> QED
      BY <1>4, <2>2 DEF Pool!Next
  <1>5. ASSUME NEW v \in Frames, Write(v) PROVE UNCHANGED Pool!vars
    BY <1>5 DEF Write, Pool!vars
  <1>6. CASE UNCHANGED vars
    BY <1>6 DEF vars, heap, Pool!vars
  <1> QED
    BY <1>1, <1>2, <1>3, <1>4, <1>5, <1>6 DEF Next, MainStep

\* The list of kalloc.c implements the pool: what kalloc returns was free,
\* kfree makes it available again, and kalloc fails only when nothing is.
THEOREM KallocRefinesPool == Spec => ImplementsPool
  <1>1. Init => Pool!Init
    BY DEF Init, Pool!Init
  <1> QED
    BY <1>1, PoolStep, Invariance, PTL DEF Spec, ImplementsPool, Pool!Spec
=============================================================================
