---------------------------- MODULE PagingTables ----------------------------
(***************************************************************************)
(* The inductive invariant of Paging, and the lemmas its proof rests on:   *)
(* page numbers, the free list, the regions of setupkvm, and what a store  *)
(* into a page table changes, for every size of a table and memory map.    *)
(***************************************************************************)
EXTENDS Paging, TLAPS

-----------------------------------------------------------------------------
(* Page numbers.                                                           *)

\* A page number is the index into the directory and the one into the table.
LEMMA Index ==
    ASSUME NEW va \in Pages
    PROVE  /\ PDX(va) \in Idx /\ PTX(va) \in Idx
           /\ va = N * PDX(va) + PTX(va)
  <1>1. N \in Nat /\ N > 0 /\ va \in Nat /\ va < N * N /\ N * N \in Nat
    BY RegionAssumption DEF Pages
  <1>2. va \div N \in Int /\ va % N \in Int /\ 0 <= va % N /\ va % N < N
        /\ va = N * (va \div N) + (va % N)
    BY <1>1
  <1>3. 0 <= va \div N
    BY <1>1, <1>2
  <1>4. va \div N < N
    BY <1>1, <1>2, <1>3
  <1> QED
    BY <1>1, <1>2, <1>3, <1>4 DEF PDX, PTX, Idx

\* Two pages with the same indices are the same page.
LEMMA SameIndex ==
    ASSUME NEW va \in Pages, NEW wa \in Pages, PDX(va) = PDX(wa), PTX(va) = PTX(wa)
    PROVE  va = wa
  BY Index

\* Page 0 has the indices 0.
LEMMA PageZero == 0 \in Pages /\ 0 \in Idx /\ PDX(0) = 0 /\ PTX(0) = 0 /\ 0 < KernPage
  <1>1. N \in Nat /\ N > 0 /\ N * N > 0 /\ N * N \in Nat
    BY RegionAssumption
  <1>2. 0 \div N = 0 /\ 0 % N = 0
    BY <1>1
  <1> QED
    BY <1>1, <1>2, RegionAssumption DEF Pages, Idx, PDX, PTX

\* No table serves both halves: KERNBASE is the start of one.
LEMMA Halves ==
    ASSUME NEW va \in Pages, NEW wa \in Pages, va < KernPage, KernPage <= wa
    PROVE  PDX(va) # PDX(wa)
  <1>1. N \in Nat /\ N > 0 /\ KernPage \in Nat /\ KernPage % N = 0
    BY RegionAssumption
  <1>2. PICK q \in Int : KernPage = N * q
    <2>1. KernPage = N * (KernPage \div N) + (KernPage % N) /\ KernPage \div N \in Int
      BY <1>1
    <2>2. KernPage = N * (KernPage \div N)
      BY <1>1, <2>1
    <2> QED
      BY <2>1, <2>2, Zenon
  <1>3. PICK x \in Int, y \in Int, b \in Int, c \in Int :
           /\ x = PDX(va) /\ y = PDX(wa) /\ b = PTX(va) /\ c = PTX(wa)
           /\ va = N * x + b /\ wa = N * y + c /\ 0 <= b /\ b < N /\ 0 <= c /\ c < N
    BY <1>1, Index DEF Idx
  <1>4. va \in Int /\ wa \in Int
    BY <1>1 DEF Pages
  <1>5. ~(q <= x)
    <2>1. q <= x => N * q <= N * x
      BY <1>1
    <2> QED
      BY <1>1, <1>2, <1>3, <1>4, <2>1
  <1>6. ~(y < q)
    <2>1. y < q => N * y + N <= N * q
      BY <1>1
    <2> QED
      BY <1>1, <1>2, <1>3, <1>4, <2>1
  <1> QED
    BY <1>3, <1>5, <1>6

\* The jump of deallocuvm goes up.
LEMMA SkipUp == ASSUME a \in Pages PROVE SkipTable \in Nat /\ SkipTable > 0
  <1>1. PICK x \in Nat : x = PDX(a)
    BY Index DEF Idx
  <1>2. N \in Nat /\ N > 0
    BY RegionAssumption
  <1>3. (x + 1) * N \in Nat /\ (x + 1) * N > 0
    BY <1>2
  <1> QED
    BY <1>1, <1>3, Zenon DEF SkipTable

-----------------------------------------------------------------------------
(* Memory and the free list.                                               *)

Memory == [Frames -> [Idx -> Entry]]

\* Storing one entry changes no other.
LEMMA Store ==
    ASSUME NEW m \in Memory, NEW f \in Frames, NEW x \in Idx, NEW v \in Entry, NEW m2,
           m2 = [m EXCEPT ![f][x] = v]
    PROVE  /\ m2 \in Memory /\ m2[f][x] = v
           /\ \A g \in Frames, y \in Idx : g # f \/ y # x => m2[g][y] = m[g][y]
           /\ \A g \in Frames : g # f => m2[g] = m[g]
  BY Zenon DEF Memory

\* Filling one frame changes no other.
LEMMA Fill ==
    ASSUME NEW m \in Memory, NEW f \in Frames, NEW c \in [Idx -> Entry], NEW m2,
           m2 = [m EXCEPT ![f] = c]
    PROVE  m2 \in Memory /\ m2[f] = c /\ \A g \in Frames : g # f => m2[g] = m[g]
  BY Zenon DEF Memory

\* What memset and kfree leave in a frame, and what an entry may be.
LEMMA Contents ==
    /\ Zero \in Entry /\ ~Zero.p
    /\ Cleared \in [Idx -> Entry] /\ Filled \in [Idx -> Entry]
    /\ \A x \in Idx : Cleared[x] = Zero
    /\ \A ad \in 0..(N * N) : \A us \in BOOLEAN :
          LET e == [p |-> TRUE, addr |-> ad, u |-> us]
          IN  e \in Entry /\ e.p /\ e.addr = ad /\ e.u = us
  <1>1. N * N \in Nat
    BY RegionAssumption
  <1>2. Zero \in Entry /\ ~Zero.p /\ Junk \in Entry
    BY <1>1 DEF Zero, Entry, Junk
  <1>3. Cleared \in [Idx -> Entry] /\ Filled \in [Idx -> Entry] /\ \A x \in Idx : Cleared[x] = Zero
    BY <1>2, Zenon DEF Cleared, Filled
  <1>4. \A ad \in 0..(N * N) : \A us \in BOOLEAN :
          LET e == [p |-> TRUE, addr |-> ad, u |-> us]
          IN  e \in Entry /\ e.p /\ e.addr = ad /\ e.u = us
    BY DEF Entry
  <1> QED
    BY <1>2, <1>3, <1>4

\* kalloc takes the head of the free list.
LEMMA Take ==
    ASSUME NEW s \in Seq(Frames), s # <<>>, IsInjective(s), NEW h, NEW t,
           h = Head(s), t = Tail(s)
    PROVE  /\ h \in Frames /\ h \in Range(s)
           /\ t \in Seq(Frames) /\ IsInjective(t)
           /\ Range(t) = Range(s) \ {h}
  <1>1. /\ Len(s) \in Nat /\ Len(s) >= 1 /\ DOMAIN s = 1..Len(s) /\ h = s[1]
        /\ \A j \in 1..Len(s) : s[j] \in Frames
    OBVIOUS
  <1>2. /\ t \in Seq(Frames) /\ Len(t) = Len(s) - 1 /\ DOMAIN t = 1..(Len(s) - 1)
        /\ \A j \in 1..(Len(s) - 1) : t[j] = s[j + 1]
    <2>1. t \in Seq(Frames) /\ Len(t) = Len(s) - 1 /\ \A j \in 1..Len(t) : t[j] = s[j + 1]
      BY <1>1
    <2>2. DOMAIN t = 1..Len(t)
      BY <2>1
    <2> QED
      BY <2>1, <2>2, Zenon
  <1>3. \A j, l \in 1..Len(s) : s[j] = s[l] => j = l
    BY <1>1, Zenon DEF IsInjective
  <1>4. \A j \in 1..(Len(s) - 1) : j + 1 \in 1..Len(s) /\ j + 1 # 1
    BY <1>1
  <1>5. \A j \in 1..Len(s) : j # 1 => j - 1 \in 1..(Len(s) - 1) /\ (j - 1) + 1 = j
    BY <1>1
  <1>6. 1 \in 1..Len(s)
    BY <1>1
  <1>7. h \in Frames /\ h \in Range(s)
    BY <1>1, <1>6, Zenon DEF Range
  <1>8. IsInjective(t)
    <2>1. \A j, l \in 1..(Len(s) - 1) : j + 1 = l + 1 => j = l
      BY <1>1
    <2>2. ASSUME NEW j \in 1..(Len(s) - 1), NEW l \in 1..(Len(s) - 1), t[j] = t[l]
          PROVE  j = l
      <3>1. s[j + 1] = s[l + 1]
        BY <1>2, <2>2, Zenon
      <3> QED
        BY <1>3, <1>4, <2>1, <3>1, Zenon
    <2> QED
      BY <1>2, <2>2, Zenon DEF IsInjective
  <1>9. Range(t) = Range(s) \ {h}
    <2>1. ASSUME NEW f \in Range(t) PROVE f \in Range(s) /\ f # h
      <3>1. PICK j \in 1..(Len(s) - 1) : f = s[j + 1]
        BY <1>2, Zenon DEF Range
      <3> QED
        BY <1>1, <1>3, <1>4, <1>6, <3>1 DEF Range
    <2>2. ASSUME NEW f \in Range(s), f # h PROVE f \in Range(t)
      <3>1. PICK j \in 1..Len(s) : f = s[j]
        BY <1>1, Zenon DEF Range
      <3>2. j # 1
        BY <1>1, <2>2, <3>1, Zenon
      <3>3. f = t[j - 1] /\ j - 1 \in DOMAIN t
        BY <1>2, <1>5, <3>1, <3>2
      <3> QED
        BY <3>3, Zenon DEF Range
    <2> QED
      BY <2>1, <2>2
  <1> QED
    BY <1>2, <1>7, <1>8, <1>9, Zenon

\* Two lists without a frame in common make one, and the other way round.
LEMMA Join ==
    ASSUME NEW s \in Seq(Frames), NEW t \in Seq(Frames), NEW w, w = s \o t
    PROVE  /\ w \in Seq(Frames) /\ Range(w) = Range(s) \cup Range(t)
           /\ IsInjective(w) <=> /\ IsInjective(s) /\ IsInjective(t)
                                 /\ Range(s) \cap Range(t) = {}
  <1>1. PICK m \in Nat, n \in Nat : m = Len(s) /\ n = Len(t)
    OBVIOUS
  <1>2. w \in Seq(Frames) /\ Len(w) = m + n
        /\ \A j \in 1..(m + n) : w[j] = IF j <= m THEN s[j] ELSE t[j - m]
    BY <1>1
  <1>3. DOMAIN w = 1..(m + n) /\ DOMAIN s = 1..m /\ DOMAIN t = 1..n
    BY <1>1, <1>2
  <1>4. \A j \in 1..m : j \in 1..(m + n) /\ w[j] = s[j]
    BY <1>2
  <1>5. ASSUME NEW j \in 1..n
        PROVE  m + j \in 1..(m + n) /\ m + j \notin 1..m /\ w[m + j] = t[j]
    <2>1. m + j \in 1..(m + n) /\ m + j \notin 1..m /\ ~(m + j <= m) /\ (m + j) - m = j
      OBVIOUS
    <2> QED
      BY <1>2, <2>1, Zenon
  <1>6. ASSUME NEW j \in 1..(m + n), j \notin 1..m
        PROVE  \E l \in 1..n : j = m + l /\ w[j] = t[l]
    <2>1. j - m \in 1..n /\ j = m + (j - m) /\ ~(j <= m)
      BY <1>6
    <2>2. w[j] = t[j - m]
      BY <1>2, <2>1
    <2> QED
      BY <2>1, <2>2, Zenon
  <1>7. Range(w) = Range(s) \cup Range(t)
    <2>1. ASSUME NEW f \in Range(w) PROVE f \in Range(s) \cup Range(t)
      <3>1. PICK j \in 1..(m + n) : f = w[j]
        BY <1>3, Zenon DEF Range
      <3>2. CASE j \in 1..m
        BY <1>3, <1>4, <3>1, <3>2, Zenon DEF Range
      <3>3. CASE j \notin 1..m
        BY <1>3, <1>6, <3>1, <3>3, Zenon DEF Range
      <3> QED
        BY <3>2, <3>3
    <2>2. \A f \in Range(s) : f \in Range(w)
      BY <1>3, <1>4, Zenon DEF Range
    <2>3. \A f \in Range(t) : f \in Range(w)
      <3> SUFFICES ASSUME NEW j \in 1..n PROVE t[j] \in Range(w)
        BY <1>3, Zenon DEF Range
      <3> QED
        BY <1>3, <1>5, Zenon DEF Range
    <2> QED
      BY <2>1, <2>2, <2>3, Zenon
  <1>8. ASSUME IsInjective(w)
        PROVE  IsInjective(s) /\ IsInjective(t) /\ Range(s) \cap Range(t) = {}
    <2>0. \A j, l \in 1..(m + n) : w[j] = w[l] => j = l
      BY <1>3, <1>8, Zenon DEF IsInjective
    <2>1. IsInjective(s)
      BY <1>3, <1>4, <2>0, Zenon DEF IsInjective
    <2>2. IsInjective(t)
      <3> SUFFICES ASSUME NEW j \in 1..n, NEW l \in 1..n, t[j] = t[l] PROVE j = l
        BY <1>3, Zenon DEF IsInjective
      <3>1. m + j \in 1..(m + n) /\ m + l \in 1..(m + n) /\ w[m + j] = w[m + l]
        BY <1>5, Zenon
      <3>2. m + j = m + l
        BY <2>0, <3>1, Zenon
      <3> QED
        BY <3>2
    <2>3. Range(s) \cap Range(t) = {}
      <3> SUFFICES ASSUME NEW f \in Range(s), f \in Range(t) PROVE FALSE
        BY Zenon
      <3>1. PICK j \in 1..m : f = s[j]
        BY <1>3, Zenon DEF Range
      <3>2. PICK l \in 1..n : f = t[l]
        BY <1>3, Zenon DEF Range
      <3>3. m + l \in 1..(m + n) /\ m + l \notin 1..m /\ w[m + l] = f
        BY <1>5, <3>2, Zenon
      <3>4. j \in 1..(m + n) /\ w[j] = f
        BY <1>4, <3>1, Zenon
      <3>5. j = m + l
        BY <2>0, <3>3, <3>4, Zenon
      <3> QED
        BY <3>3, <3>5, Zenon
    <2> QED
      BY <2>1, <2>2, <2>3, Zenon
  <1>9. ASSUME IsInjective(s), IsInjective(t), Range(s) \cap Range(t) = {}
        PROVE  IsInjective(w)
    <2>1. \A j, l \in 1..m : s[j] = s[l] => j = l
      BY <1>3, <1>9, Zenon DEF IsInjective
    <2>2. \A j, l \in 1..n : t[j] = t[l] => j = l
      BY <1>3, <1>9, Zenon DEF IsInjective
    <2>3. ASSUME NEW j \in 1..m, NEW l \in 1..n PROVE s[j] # t[l]
      <3>1. s[j] \in Range(s) /\ t[l] \in Range(t)
        BY <1>3, Zenon DEF Range
      <3> QED
        BY <1>9, <3>1, Zenon
    <2>4. ASSUME NEW j \in 1..(m + n), NEW l \in 1..(m + n), w[j] = w[l]
          PROVE  j = l
      <3>1. CASE j \in 1..m /\ l \in 1..m
        BY <1>4, <2>1, <2>4, <3>1, Zenon
      <3>2. CASE j \in 1..m /\ l \notin 1..m
        <4>1. PICK x \in 1..n : l = m + x /\ w[l] = t[x]
          BY <1>6, <3>2, Zenon
        <4> QED
          BY <1>4, <2>3, <2>4, <3>2, <4>1, Zenon
      <3>3. CASE j \notin 1..m /\ l \in 1..m
        <4>1. PICK x \in 1..n : j = m + x /\ w[j] = t[x]
          BY <1>6, <3>3, Zenon
        <4> QED
          BY <1>4, <2>3, <2>4, <3>3, <4>1, Zenon
      <3>4. CASE j \notin 1..m /\ l \notin 1..m
        <4>1. PICK x \in 1..n : j = m + x /\ w[j] = t[x]
          BY <1>6, <3>4, Zenon
        <4>2. PICK y \in 1..n : l = m + y /\ w[l] = t[y]
          BY <1>6, <3>4, Zenon
        <4> QED
          BY <2>2, <2>4, <4>1, <4>2, Zenon
      <3> QED
        BY <3>1, <3>2, <3>3, <3>4, Zenon
    <2> QED
      BY <1>3, <2>4, Zenon DEF IsInjective
  <1> QED
    BY <1>2, <1>7, <1>8, <1>9, Zenon

\* kfree puts a frame at the head.
LEMMA Give ==
    ASSUME NEW s \in Seq(Frames), NEW f \in Frames, NEW w, w = <<f>> \o s
    PROVE  /\ w \in Seq(Frames) /\ Range(w) = Range(s) \cup {f}
           /\ IsInjective(s) /\ f \notin Range(s) => IsInjective(w)
  <1>1. <<f>> \in Seq(Frames) /\ DOMAIN <<f>> = 1..1 /\ <<f>>[1] = f
    OBVIOUS
  <1>2. Range(<<f>>) = {f} /\ IsInjective(<<f>>)
    <2>1. 1..1 = {1}
      OBVIOUS
    <2>2. DOMAIN <<f>> = {1}
      BY <1>1, <2>1, Zenon
    <2>3. IsInjective(<<f>>)
      BY <2>2, Zenon DEF IsInjective
    <2>4. \A x : x \in Range(<<f>>) <=> x = f
      BY <1>1, <2>2, Zenon DEF Range
    <2> QED
      BY <2>3, <2>4
  <1>3. /\ w \in Seq(Frames) /\ Range(w) = Range(<<f>>) \cup Range(s)
        /\ IsInjective(w) <=> /\ IsInjective(<<f>>) /\ IsInjective(s)
                              /\ Range(<<f>>) \cap Range(s) = {}
    BY <1>1, Join, Zenon
  <1> QED
    BY <1>2, <1>3, Zenon

-----------------------------------------------------------------------------
(***************************************************************************)
(* The inductive invariant.  A directory d agrees with a set S of pages    *)
(* when a page that has a table is mapped in it iff it is in S, to where   *)
(* setupkvm wants it, and no page without a table is in S (Agrees).  So    *)
(* the invariant knows what every table in use holds, and mappages never   *)
(* finds a page present; what is live in a directory, the free list and    *)
(* the user page are apart (Apart), and together they are the frames that  *)
(* were free when setupkvm was called (Complete).                          *)
(***************************************************************************)
Pcs == {"paging_init", "map", "kinit2", "initproc", "inituvm", "usermap", "ready",
        "dealloc", "tables", "freed"}

Kernel == {va \in Pages : \E r \in 1..3 : va \in RegionPages(r)}

\* The pages mappages has mapped so far.
Built == {va \in Pages : \E r \in 1..3 : /\ va \in RegionPages(r)
                                         /\ r < k \/ (r = k /\ va < a)}

\* The entry setupkvm wants for a page.
Wanted(va) ==
    LET r == CHOOSE r \in 1..3 : va \in RegionPages(r)
    IN  [p |-> TRUE, addr |-> Regions[r].pa + (va - Regions[r].va), u |-> FALSE]

UserEntry == [p |-> TRUE, addr |-> page, u |-> TRUE]

\* The entry for a page, where its table exists.
Pte(d, va) == mem[mem[d][PDX(va)].addr][PTX(va)]

AgreesAt(d, S, va) ==
    IF mem[d][PDX(va)].p THEN Pte(d, va) = IF va \in S THEN Wanted(va) ELSE Zero
    ELSE va \notin S

Agrees(d, S) == \A va \in Pages : AgreesAt(d, S, va)

Dirs == {kpgdir, pgdir} \ {0}

Free == Range(freelist)

Live(d, e) == mem[d][e].p /\ (d = pgdir /\ pc = "tables" => e >= i)

Tab(d, e) == mem[d][e].addr

\* The user page is mapped, or about to be.
UserPage ==
    \/ pc = "usermap"
    \/ pc = "ready" /\ mem[pgdir][0].p
    \/ pc = "dealloc" /\ a = 0 /\ mem[pgdir][0].p

Typed ==
    /\ pc \in Pcs /\ mem \in Memory
    /\ freelist \in Seq(Frames) /\ late \in Seq(Frames)
    /\ kpgdir \in Frames \cup {0} /\ pgdir \in Frames \cup {0}
    /\ a \in Nat /\ i \in 0..N /\ mapfail \in BOOLEAN

\* Which directories there are.
Phase ==
    /\ pc = "paging_init" => kpgdir = 0 /\ pgdir = 0
    /\ pc \in {"kinit2", "initproc"} => kpgdir = pgdir /\ pgdir # 0
    /\ pc \in {"map", "dealloc", "tables"} => pgdir # kpgdir /\ pgdir # 0
    /\ pc \in {"inituvm", "usermap", "ready"} => pgdir # kpgdir /\ pgdir # 0 /\ kpgdir # 0
    /\ pc = "freed" => pgdir = 0
    /\ panic \in Messages

Apart ==
    /\ IsInjective(freelist)
    /\ \A d \in Dirs : d \notin Free
    /\ \A d \in Dirs, e \in Idx :
          Live(d, e) => Tab(d, e) \in Frames /\ Tab(d, e) \notin Free /\ Tab(d, e) \notin Dirs
    /\ \A d1, d2 \in Dirs, e1, e2 \in Idx :
          Live(d1, e1) /\ Live(d2, e2) /\ Tab(d1, e1) = Tab(d2, e2) => d1 = d2 /\ e1 = e2
    /\ UserPage => /\ page \in Frames /\ page \notin Free /\ page \notin Dirs
                   /\ \A d \in Dirs, e \in Idx : Live(d, e) => Tab(d, e) # page

\* The frames that belong to pgdir or are free.
Ours(f) ==
    \/ f \in Free \/ f = pgdir
    \/ \E e \in Idx : Live(pgdir, e) /\ Tab(pgdir, e) = f
    \/ UserPage /\ f = page

Complete ==
    /\ pc \in {"map", "kinit2", "inituvm", "usermap", "ready", "dealloc", "tables"} =>
          given \subseteq Frames /\ \A f \in Frames : f \in given <=> Ours(f)
    /\ pc = "freed" => Free = given
    /\ kpgdir = 0 \/ pc = "kinit2" =>
          IsInjective(late) /\ \A f \in Range(late) : f \notin given /\ f \notin Free

Mapping ==
    /\ kpgdir # 0 => Agrees(kpgdir, Kernel)
    /\ pc = "map" => /\ k \in 1..3 /\ a \in RegionPages(k)
                     /\ pa = Regions[k].pa + (a - Regions[k].va)
                     /\ Agrees(pgdir, Built)
    /\ pc \in {"inituvm", "usermap"} => Agrees(pgdir, Kernel)
    /\ pc \in {"map", "inituvm", "usermap"} => ~mem[pgdir][0].p
    /\ pc = "usermap" => a = 0 /\ pa = page
    /\ pc = "ready" =>
          /\ \A va \in Pages \ {0} : AgreesAt(pgdir, Kernel, va)
          /\ mem[pgdir][0].p => mem[pgdir][0].u /\ Pte(pgdir, 0) = UserEntry
    /\ pc = "dealloc" =>
          \A va \in Pages : va < KernPage /\ mem[pgdir][PDX(va)].p =>
              Pte(pgdir, va) = IF va = 0 /\ a = 0 THEN UserEntry ELSE Zero

IInv == Typed /\ Phase /\ Apart /\ Complete /\ Mapping

-----------------------------------------------------------------------------
(* The regions of setupkvm.                                                *)

\* The parameters of a call of mappages.
LEMMA RegionIs ==
    ASSUME NEW r \in 1..3
    PROVE  /\ Regions[r].va \in Nat /\ Regions[r].n \in Nat /\ Regions[r].n > 0
           /\ Regions[r].pa \in Nat /\ Regions[r].pa <= Regions[r].va
  <1>1. KernPage \in Nat /\ Acpi \in Nat /\ Dev \in Nat
        /\ PhysPages \in Nat /\ AcpiPages \in Nat /\ DevPages \in Nat
    BY RegionAssumption, Zenon
  <1>2. Regions[r].n > 0
    BY RegionAssumption, Zenon
  <1>3. CASE r = 1
    BY <1>1, <1>2, <1>3 DEF Regions
  <1>4. CASE r = 2
    BY <1>1, <1>2, <1>4 DEF Regions, P2V
  <1>5. CASE r = 3
    BY <1>1, <1>2, <1>5 DEF Regions
  <1> QED
    BY <1>3, <1>4, <1>5

\* A page of a region is above KERNBASE, of no other region, and wanted where
\* the call of mappages says.
LEMMA RegionPage ==
    ASSUME NEW r \in 1..3, NEW va \in RegionPages(r)
    PROVE  /\ va \in Pages /\ va \in Nat /\ KernPage <= va /\ va \in Kernel
           /\ \A q \in 1..3 : va \in RegionPages(q) => q = r
           /\ Wanted(va) = [p |-> TRUE, addr |-> Regions[r].pa + (va - Regions[r].va),
                            u |-> FALSE]
           /\ Regions[r].pa + (va - Regions[r].va) \in 0..(N * N)
  <1>1. va \in KernPage..(N * N - 1) /\ KernPage \in Nat /\ N * N \in Nat
    BY RegionAssumption
  <1>2. va \in Pages /\ va \in Nat /\ KernPage <= va
    BY <1>1 DEF Pages
  <1>3. \A q \in 1..3 : va \in RegionPages(q) => q = r
    BY RegionAssumption
  <1>4. (CHOOSE q \in 1..3 : va \in RegionPages(q)) = r
    BY <1>3, Zenon
  <1>5. Wanted(va) = [p |-> TRUE, addr |-> Regions[r].pa + (va - Regions[r].va), u |-> FALSE]
    BY <1>4, Zenon DEF Wanted
  <1>6. Regions[r].pa + (va - Regions[r].va) \in 0..(N * N)
    BY <1>1, RegionIs DEF RegionPages
  <1> QED
    BY <1>2, <1>3, <1>5, <1>6, Zenon DEF Kernel

\* The pages of a region, one after the other.
LEMMA RegionWalk ==
    ASSUME NEW r \in 1..3
    PROVE  /\ Regions[r].va \in RegionPages(r)
           /\ \A va \in RegionPages(r) : ~(va < Regions[r].va)
           /\ \A va \in RegionPages(r) : va # Regions[r].va + Regions[r].n - 1 =>
                 /\ va + 1 \in RegionPages(r)
                 /\ \A wa \in RegionPages(r) : wa < va + 1 <=> wa < va \/ wa = va
           /\ \A va \in RegionPages(r) : va = Regions[r].va + Regions[r].n - 1 =>
                 \A wa \in RegionPages(r) : wa < va \/ wa = va
  BY RegionIs DEF RegionPages

\* The lower half belongs to no region.
LEMMA LowerHalf ==
    /\ KernPage \in Nat /\ 0 \notin Kernel
    /\ \A va \in Nat : va < KernPage => va \in Pages /\ va \notin Kernel
  <1>1. 1 \in 1..3 /\ Regions[1].va \in RegionPages(1)
    BY RegionWalk
  <1>2. KernPage \in Nat /\ KernPage > 0 /\ N * N \in Nat /\ KernPage <= N * N - 1
    BY <1>1, RegionAssumption
  <1>3. ASSUME NEW va \in Nat, va < KernPage PROVE va \in Pages /\ va \notin Kernel
    <2>1. va \in Pages
      BY <1>2, <1>3 DEF Pages
    <2>2. ASSUME NEW r \in 1..3, va \in RegionPages(r) PROVE FALSE
      BY <1>2, <1>3, <2>2, RegionPage
    <2> QED
      BY <2>1, <2>2, Zenon DEF Kernel
  <1> QED
    BY <1>2, <1>3, Zenon

-----------------------------------------------------------------------------
(* What keeps a directory as it is.                                        *)

\* A directory whose frame and tables are not written maps what it mapped.
LEMMA AgreesKept ==
    ASSUME NEW d, NEW S, mem'[d] = mem[d],
           \A e \in Idx : mem[d][e].p => mem'[mem[d][e].addr] = mem[mem[d][e].addr]
    PROVE  /\ \A va \in Pages : AgreesAt(d, S, va) => AgreesAt(d, S, va)'
           /\ Agrees(d, S) => Agrees(d, S)'
  <1>1. ASSUME NEW va \in Pages, AgreesAt(d, S, va) PROVE AgreesAt(d, S, va)'
    <2>1. PDX(va) \in Idx /\ PTX(va) \in Idx
      BY Index, Zenon
    <2>2. CASE mem[d][PDX(va)].p
      <3>1. Pte(d, va)' = Pte(d, va)
        BY <2>1, <2>2, Zenon DEF Pte
      <3> QED
        BY <1>1, <2>2, <3>1, Zenon DEF AgreesAt
    <2>3. CASE ~mem[d][PDX(va)].p
      BY <1>1, <2>3, Zenon DEF AgreesAt
    <2> QED
      BY <2>2, <2>3, Zenon
  <1> QED
    BY <1>1, Zenon DEF Agrees

\* So does the kernel's when no memory is written.
LEMMA KernelSame ==
    ASSUME IInv, mem' = mem, kpgdir' = kpgdir
    PROVE  kpgdir' # 0 => Agrees(kpgdir, Kernel)'
  <1> SUFFICES ASSUME kpgdir # 0 PROVE Agrees(kpgdir, Kernel)'
    BY Zenon
  <1>1. Agrees(kpgdir, Kernel)
    BY Zenon DEF IInv, Mapping
  <1> QED
    BY <1>1, Zenon DEF Agrees, AgreesAt, Pte

\* A live table is a frame that is not free, nor a directory, nor the user page.
LEMMA LiveApart ==
    ASSUME IInv, NEW d \in Dirs, NEW e \in Idx, Live(d, e)
    PROVE  /\ Tab(d, e) \in Frames /\ Tab(d, e) \notin Free /\ Tab(d, e) \notin Dirs
           /\ UserPage => Tab(d, e) # page
  BY Zenon DEF IInv, Apart

\* No two live entries have the same table.
LEMMA LiveOnce ==
    ASSUME IInv, NEW d1 \in Dirs, NEW d2 \in Dirs, NEW e1 \in Idx, NEW e2 \in Idx,
           Live(d1, e1), Live(d2, e2), Tab(d1, e1) = Tab(d2, e2)
    PROVE  d1 = d2 /\ e1 = e2
  BY Zenon DEF IInv, Apart

\* A directory is a frame that is not free.
LEMMA DirApart == ASSUME IInv, NEW d \in Dirs PROVE d \in Frames /\ d \notin Free /\ d # 0
  BY DEF IInv, Typed, Apart, Dirs

\* The tables of the kernel's directory are live.
LEMMA KernelTables ==
    ASSUME IInv, kpgdir # 0, NEW e \in Idx, mem[kpgdir][e].p
    PROVE  /\ kpgdir \in Dirs /\ Live(kpgdir, e)
           /\ Tab(kpgdir, e) \in Frames /\ Tab(kpgdir, e) \notin Free
           /\ Tab(kpgdir, e) \notin Dirs
           /\ UserPage => Tab(kpgdir, e) # page
  <1>1. kpgdir \in Dirs
    BY Zenon DEF Dirs
  <1>2. Live(kpgdir, e)
    BY Zenon DEF IInv, Phase, Live
  <1> QED
    BY <1>1, <1>2, Zenon DEF IInv, Apart

\* A frame that is free, the process's directory, a live table of this one, or
\* the user page.
NotKernel(f) ==
    /\ f # kpgdir
    /\ \/ f \in Free \/ f \in Dirs \/ (UserPage /\ f = page)
       \/ \E e \in Idx : pgdir # 0 /\ pgdir # kpgdir /\ Live(pgdir, e) /\ Tab(pgdir, e) = f

\* The kernel's directory stays when only such frames are written.
LEMMA KernelKept ==
    ASSUME IInv, kpgdir' = kpgdir, NEW f, NotKernel(f), NEW g, NotKernel(g),
           \A c \in Frames : c # f /\ c # g => mem'[c] = mem[c]
    PROVE  kpgdir # 0 => Agrees(kpgdir, Kernel)'
  <1> SUFFICES ASSUME kpgdir # 0 PROVE Agrees(kpgdir, Kernel)'
    OBVIOUS
  <1>1. PICK d \in Frames : d = kpgdir
    BY DEF IInv, Typed
  <1>2. mem'[d] = mem[d]
    BY <1>1, Zenon DEF NotKernel
  <1>3. ASSUME NEW e \in Idx, mem[d][e].p
        PROVE  mem'[mem[d][e].addr] = mem[mem[d][e].addr]
    <2>1. PICK t \in Frames : t = Tab(kpgdir, e)
      BY <1>1, <1>3, KernelTables
    <2>2. /\ kpgdir \in Dirs /\ Live(kpgdir, e) /\ t \notin Free /\ t \notin Dirs
          /\ UserPage => t # page
      BY <1>1, <1>3, <2>1, KernelTables
    <2>3. ASSUME NEW x \in Idx, pgdir # 0, pgdir # kpgdir, Live(pgdir, x) PROVE Tab(pgdir, x) # t
      <3>1. pgdir \in Dirs
        BY <2>3, Zenon DEF Dirs
      <3> QED
        BY <2>1, <2>2, <2>3, <3>1, Zenon DEF IInv, Apart
    <2>4. t # f /\ t # g
      BY <2>2, <2>3 DEF NotKernel
    <2> QED
      BY <1>1, <2>1, <2>4, Zenon DEF Tab
  <1>4. Agrees(d, Kernel)
    BY <1>1, Zenon DEF IInv, Mapping
  <1>5. Agrees(d, Kernel)'
    BY <1>2, <1>3, <1>4, AgreesKept, Zenon
  <1> QED
    BY <1>1, <1>5, Zenon DEF Agrees, AgreesAt, Pte

\* What is on the free list is a frame.
LEMMA FreeFrames == ASSUME IInv PROVE Free \subseteq Frames
  BY DEF IInv, Typed, Free, Range

\* Frames stay apart where nothing becomes free or live, and a new user page
\* comes from the free list.
LEMMA ApartKept ==
    ASSUME Apart, IsInjective(freelist'), Free' \subseteq Free, Dirs' \subseteq Dirs,
           Free \subseteq Frames,
           \A d \in Dirs', e \in Idx : Live(d, e)' => Live(d, e) /\ Tab(d, e)' = Tab(d, e),
           UserPage' => (UserPage /\ page' = page) \/ page' \in Free \ Free'
    PROVE  Apart'
  <1>1. \A d \in Dirs' : d \notin Free'
    BY DEF Apart
  <1>2. \A d \in Dirs', e \in Idx : Live(d, e)' =>
           Tab(d, e)' \in Frames /\ Tab(d, e)' \notin Free' /\ Tab(d, e)' \notin Dirs'
    BY DEF Apart
  <1>3. ASSUME NEW d1 \in Dirs', NEW d2 \in Dirs', NEW e1 \in Idx, NEW e2 \in Idx,
               Live(d1, e1)', Live(d2, e2)', Tab(d1, e1)' = Tab(d2, e2)'
        PROVE  d1 = d2 /\ e1 = e2
    <2>1. /\ d1 \in Dirs /\ d2 \in Dirs /\ Live(d1, e1) /\ Live(d2, e2)
          /\ Tab(d1, e1) = Tab(d2, e2)
      BY <1>3, Zenon
    <2> QED
      BY <2>1 DEF Apart
  <1>4. UserPage' => /\ page' \in Frames /\ page' \notin Free' /\ page' \notin Dirs'
                     /\ \A d \in Dirs', e \in Idx : Live(d, e)' => Tab(d, e)' # page'
    BY DEF Apart
  <1> QED
    BY <1>1, <1>2, <1>3, <1>4, Zenon DEF Apart

\* Frames stay apart when one that has no use any more is freed.
LEMMA ApartGive ==
    ASSUME Apart, NEW f \in Frames, Free' = Free \cup {f}, IsInjective(freelist'),
           Dirs' \subseteq Dirs, f \notin Dirs', ~UserPage',
           \A d \in Dirs', e \in Idx :
              Live(d, e)' => Live(d, e) /\ Tab(d, e)' = Tab(d, e) /\ Tab(d, e) # f
    PROVE  Apart'
  <1>1. \A d \in Dirs' : d \notin Free'
    BY Zenon DEF Apart
  <1>2. \A d \in Dirs', e \in Idx : Live(d, e)' =>
           Tab(d, e)' \in Frames /\ Tab(d, e)' \notin Free' /\ Tab(d, e)' \notin Dirs'
    BY DEF Apart
  <1>3. ASSUME NEW d1 \in Dirs', NEW d2 \in Dirs', NEW e1 \in Idx, NEW e2 \in Idx,
               Live(d1, e1)', Live(d2, e2)', Tab(d1, e1)' = Tab(d2, e2)'
        PROVE  d1 = d2 /\ e1 = e2
    <2>1. /\ d1 \in Dirs /\ d2 \in Dirs /\ Live(d1, e1) /\ Live(d2, e2)
          /\ Tab(d1, e1) = Tab(d2, e2)
      BY <1>3
    <2> QED
      BY <2>1 DEF Apart
  <1> QED
    BY <1>1, <1>2, <1>3 DEF Apart

\* The free list after kfree.
LEMMA Given ==
    ASSUME IInv, NEW f \in Frames, f \notin Free, freelist' = <<f>> \o freelist
    PROVE  freelist' \in Seq(Frames) /\ Free' = Free \cup {f} /\ IsInjective(freelist')
  <1>1. PICK w : w = <<f>> \o freelist
    BY Zenon
  <1>2. w \in Seq(Frames) /\ Range(w) = Range(freelist) \cup {f} /\ IsInjective(w)
    BY <1>1, Give, Zenon DEF IInv, Typed, Apart, Free
  <1> QED
    BY <1>1, <1>2, Zenon DEF Free

-----------------------------------------------------------------------------
(* mappages.                                                               *)

\* The store of mappages: the page a gets the entry E in the directory d, and
\* no other page of this or of the kernel's directory changes.
Entered(d, S, E) ==
    /\ mem' \in Memory
    /\ mem'[d][PDX(a)].p /\ mem'[mem'[d][PDX(a)].addr][PTX(a)] = E
    /\ \A va \in Pages \ {a} : AgreesAt(d, S, va) => AgreesAt(d, S, va)'
    /\ kpgdir' = kpgdir /\ kpgdir # 0 => Agrees(kpgdir, Kernel)'

\* The memory m with the entry E at y of the frame f.
Put(m, f, y, E) == [m EXCEPT ![f][y] = E]

EnteredOld(d, S, E) ==
    /\ Entered(d, S, E)
    /\ mem'[d] = mem[d] /\ (kpgdir # 0 => mem'[kpgdir] = mem[kpgdir])

\* The same where the page needs the new table h.
EnteredNew(d, S, E, h) ==
    /\ Entered(d, S, E)
    /\ mem'[d][PDX(a)].p /\ mem'[d][PDX(a)].u /\ mem'[d][PDX(a)].addr = h
    /\ \A e \in Idx : e # PDX(a) => mem'[d][e] = mem[d][e]
    /\ kpgdir # 0 => mem'[kpgdir] = mem[kpgdir]

\* The store into a table the directory has.
LEMMA StoreOld ==
    ASSUME IInv, NEW d \in Frames, d = pgdir, pgdir # kpgdir, pc # "tables", a \in Pages,
           mem[d][PDX(a)].p, NEW S, NEW E \in Entry, NEW f, f = Tab(d, PDX(a)),
           mem' = Put(mem, f, PTX(a), E)
    PROVE  EnteredOld(d, S, E)
  <1>1. PICK x \in Idx, y \in Idx : x = PDX(a) /\ y = PTX(a)
    BY Index
  <1>2. d # 0 /\ d \in Dirs
    BY FrameAssumption DEF Dirs, Frames
  <1>3. Live(pgdir, x) /\ Tab(pgdir, x) = f
    BY <1>1, Zenon DEF Live
  <1>4. f \in Frames /\ f \notin Dirs
    BY <1>2, <1>3, LiveApart, Zenon
  <1>5. mem \in Memory
    BY Zenon DEF IInv, Typed
  <1>6. /\ mem' \in Memory /\ mem'[f][y] = E
        /\ \A z \in Idx : z # y => mem'[f][z] = mem[f][z]
        /\ \A g \in Frames : g # f => mem'[g] = mem[g]
    BY <1>1, <1>4, <1>5, Zenon DEF Put, Memory
  <1>7. mem'[d] = mem[d]
    BY <1>2, <1>4, <1>6, Zenon
  <1>8. mem'[d][x].p /\ mem'[mem'[d][x].addr][y] = E
    BY <1>1, <1>6, <1>7, Zenon DEF Tab
  <1>9. ASSUME NEW va \in Pages, va # a, AgreesAt(d, S, va) PROVE AgreesAt(d, S, va)'
    <2>1. PICK v \in Idx, w \in Idx : v = PDX(va) /\ w = PTX(va)
      BY Index
    <2>2. CASE mem[d][v].p
      <3>1. Live(pgdir, v) /\ Tab(pgdir, v) \in Frames
        <4>1. Live(pgdir, v)
          BY <2>2, Zenon DEF Live
        <4> QED
          BY <1>2, <4>1, LiveApart, Zenon
      <3>2. Tab(d, v) # f \/ w # y
        <4>1. Tab(d, v) = f => v = x
          BY <1>2, <1>3, <3>1, LiveOnce, Zenon
        <4>2. v = x /\ w = y => va = a
          BY <1>1, <2>1, SameIndex, Zenon
        <4> QED
          BY <1>9, <4>1, <4>2
      <3>3. mem'[Tab(d, v)][w] = mem[Tab(d, v)][w]
        BY <1>6, <2>1, <3>1, <3>2
      <3>4. Pte(d, va)' = Pte(d, va)
        BY <1>7, <2>1, <3>3, Zenon DEF Pte, Tab
      <3> QED
        BY <1>7, <1>9, <3>4, Zenon DEF AgreesAt
    <2>3. CASE ~mem[d][v].p
      BY <1>7, <1>9, <2>1, <2>3, Zenon DEF AgreesAt
    <2> QED
      BY <2>2, <2>3, Zenon
  <1>10. ASSUME kpgdir' = kpgdir, kpgdir # 0 PROVE Agrees(kpgdir, Kernel)'
    <2>1. kpgdir \in Dirs
      BY <1>10 DEF Dirs
    <2>2. NotKernel(f)
      BY <1>2, <1>3, <1>4, <2>1 DEF NotKernel
    <2> QED
      BY <1>6, <1>10, <2>2, KernelKept
  <1>11. kpgdir # 0 => mem'[kpgdir] = mem[kpgdir]
    BY <1>4, <1>6, Zenon DEF Dirs, IInv, Typed
  <1> QED
    BY <1>1, <1>6, <1>7, <1>8, <1>9, <1>10, <1>11, Zenon DEF EnteredOld, Entered

\* A frame number fits an entry.
LEMMA FrameFits == Frames \subseteq 0..(N * N)
  <1>1. 1 \in 1..3 /\ Regions[1].va = KernPage /\ Regions[1].n = PhysPages
    BY DEF Regions
  <1>2. PhysPages \in Nat /\ PhysPages > 0 /\ KernPage \in Nat /\ N * N \in Nat
    BY <1>1, RegionAssumption
  <1>3. KernPage + PhysPages - 1 \in RegionPages(1)
    BY <1>1, <1>2 DEF RegionPages
  <1>4. KernPage + PhysPages - 1 \in KernPage..(N * N - 1)
    BY <1>1, <1>3, RegionAssumption
  <1> QED
    BY <1>2, <1>4, FrameAssumption DEF Frames

\* The store into a new table.
LEMMA StoreNew ==
    ASSUME IInv, NEW d \in Frames, d = pgdir, pgdir # kpgdir, pc # "tables", a \in Pages,
           ~mem[d][PDX(a)].p, NEW S, NEW E \in Entry, NEW h \in Free,
           mem' = Put(WithTable(h), h, PTX(a), E)
    PROVE  EnteredNew(d, S, E, h)
  <1>1. PICK x \in Idx, y \in Idx : x = PDX(a) /\ y = PTX(a)
    BY Index
  <1>2. d # 0 /\ d \in Dirs
    BY FrameAssumption DEF Dirs, Frames
  <1>3. h \in Frames /\ h \notin Dirs /\ h # d
    BY <1>2, FreeFrames, DirApart, Zenon
  <1>4. mem \in Memory
    BY Zenon DEF IInv, Typed
  <1>5. PICK n : n = [p |-> TRUE, addr |-> h, u |-> TRUE]
    BY Zenon
  <1>6. n \in Entry /\ n.p /\ n.u /\ n.addr = h
    BY <1>3, <1>5, FrameFits, Contents, Zenon
  <1>7. PICK m1, m2 : /\ m1 = [mem EXCEPT ![h] = Cleared] /\ m2 = [m1 EXCEPT ![d][x] = n]
                      /\ mem' = Put(m2, h, y, E)
    BY <1>1, <1>5, Zenon DEF WithTable, NewTable
  <1>8. /\ mem' \in Memory /\ mem'[h][y] = E /\ mem'[d][x] = n
        /\ \A z \in Idx : z # y => mem'[h][z] = Zero
        /\ \A z \in Idx : z # x => mem'[d][z] = mem[d][z]
        /\ \A g \in Frames : g # h /\ g # d => mem'[g] = mem[g]
    <2>1. m1 \in Memory /\ m1[h] = Cleared /\ \A g \in Frames : g # h => m1[g] = mem[g]
      BY <1>3, <1>4, <1>7, Contents DEF Memory
    <2>2. /\ m2 \in Memory /\ m2[d][x] = n /\ \A z \in Idx : z # x => m2[d][z] = m1[d][z]
          /\ \A g \in Frames : g # d => m2[g] = m1[g]
      BY <1>6, <1>7, <2>1 DEF Memory
    <2>3. /\ mem' \in Memory /\ mem'[h][y] = E
          /\ \A z \in Idx : z # y => mem'[h][z] = m2[h][z]
          /\ \A g \in Frames : g # h => mem'[g] = m2[g]
      <3>1. PICK m3 : m3 = [m2 EXCEPT ![h][y] = E]
        BY Zenon
      <3>2. /\ m3 \in Memory /\ m3[h][y] = E
            /\ \A z \in Idx : z # y => m3[h][z] = m2[h][z]
            /\ \A g \in Frames : g # h => m3[g] = m2[g]
        BY <1>3, <2>2, <3>1 DEF Memory
      <3>3. mem' = m3
        BY <1>7, <3>1, Zenon DEF Put
      <3> QED
        BY <3>2, <3>3, Zenon
    <2>4. mem'[d] = m2[d] /\ m1[d] = mem[d] /\ m2[h] = Cleared
      BY <1>3, <2>1, <2>2, <2>3, Zenon
    <2>5. mem'[d][x] = n /\ \A z \in Idx : z # x => mem'[d][z] = mem[d][z]
      BY <2>2, <2>4, Zenon
    <2>6. \A z \in Idx : Cleared[z] = Zero
      BY Contents, Zenon
    <2>7. \A z \in Idx : z # y => mem'[h][z] = Zero
      BY <2>3, <2>4, <2>6
    <2>8. \A g \in Frames : g # h /\ g # d => mem'[g] = mem[g]
      BY <2>1, <2>2, <2>3, Zenon
    <2> QED
      BY <2>3, <2>5, <2>7, <2>8, Zenon
  <1>9. mem'[d][x].p /\ mem'[mem'[d][x].addr][y] = E
    BY <1>6, <1>8
  <1>10. ASSUME NEW va \in Pages, va # a, AgreesAt(d, S, va) PROVE AgreesAt(d, S, va)'
    <2>1. PICK v \in Idx, w \in Idx : v = PDX(va) /\ w = PTX(va)
      BY Index, Zenon
    <2>2. CASE v = x
      <3>1. w # y
        BY <1>1, <1>10, <2>1, <2>2, SameIndex, Zenon
      <3>2. Pte(d, va)' = Zero
        <4>1. mem'[h][w] = Zero
          BY <1>8, <3>1, Zenon
        <4>2. mem'[d][v].addr = h
          BY <1>6, <1>8, <2>2, Zenon
        <4> QED
          BY <2>1, <4>1, <4>2, Zenon DEF Pte
      <3>3. va \notin S
        BY <1>1, <1>10, <2>1, <2>2, Zenon DEF AgreesAt
      <3> QED
        BY <3>2, <3>3, Zenon DEF AgreesAt
    <2>3. CASE v # x /\ mem[d][v].p
      <3>1. Live(pgdir, v) /\ Tab(pgdir, v) \in Frames /\ Tab(pgdir, v) \notin Free
            /\ Tab(pgdir, v) \notin Dirs
        <4>1. Live(pgdir, v)
          BY <2>3, Zenon DEF Live
        <4> QED
          BY <1>2, <4>1, LiveApart, Zenon
      <3>2. mem'[Tab(d, v)] = mem[Tab(d, v)]
        BY <1>2, <1>8, <3>1, Zenon
      <3>3. mem'[d][v] = mem[d][v]
        BY <1>8, <2>3, Zenon
      <3>4. Pte(d, va)' = Pte(d, va)
        BY <2>1, <3>2, <3>3, Zenon DEF Pte, Tab
      <3> QED
        BY <1>10, <2>1, <3>3, <3>4, Zenon DEF AgreesAt
    <2>4. CASE v # x /\ ~mem[d][v].p
      <3>1. mem'[d][v] = mem[d][v]
        BY <1>8, <2>4, Zenon
      <3> QED
        BY <1>10, <2>1, <2>4, <3>1, Zenon DEF AgreesAt
    <2> QED
      BY <2>2, <2>3, <2>4, Zenon
  <1>11. ASSUME kpgdir' = kpgdir, kpgdir # 0 PROVE Agrees(kpgdir, Kernel)'
    <2>1. kpgdir \in Dirs
      BY <1>11, Zenon DEF Dirs
    <2>2. NotKernel(h) /\ NotKernel(d)
      BY <1>2, <1>3, <2>1, Zenon DEF NotKernel
    <2> QED
      BY <1>8, <1>11, <2>2, KernelKept
  <1>12. kpgdir # 0 => mem'[kpgdir] = mem[kpgdir]
    BY <1>3, <1>8, Zenon DEF Dirs, IInv, Typed
  <1>13. Entered(d, S, E)
    BY <1>1, <1>8, <1>9, <1>10, <1>11, Zenon DEF Entered
  <1> QED
    BY <1>1, <1>6, <1>8, <1>12, <1>13, Zenon DEF EnteredNew

\* Frames stay apart when the head h of the free list becomes the table x of
\* pgdir.
LEMMA ApartTable ==
    ASSUME Apart, Free \subseteq Frames, IsInjective(freelist'), Dirs' = Dirs,
           NEW h \in Free, Free' = Free \ {h}, NEW x \in Idx,
           \A d \in Dirs, e \in Idx : Live(d, e)' =>
              \/ Live(d, e) /\ Tab(d, e)' = Tab(d, e)
              \/ d = pgdir /\ e = x /\ Tab(d, e)' = h,
           UserPage' => UserPage /\ page' = page
    PROVE  Apart'
  <1>1. \A d \in Dirs' : d \notin Free'
    BY DEF Apart
  <1>2. \A d \in Dirs', e \in Idx : Live(d, e)' =>
           Tab(d, e)' \in Frames /\ Tab(d, e)' \notin Free' /\ Tab(d, e)' \notin Dirs'
    BY DEF Apart
  <1>3. ASSUME NEW d1 \in Dirs', NEW d2 \in Dirs', NEW e1 \in Idx, NEW e2 \in Idx,
               Live(d1, e1)', Live(d2, e2)', Tab(d1, e1)' = Tab(d2, e2)'
        PROVE  d1 = d2 /\ e1 = e2
    <2>1. \A d \in Dirs, e \in Idx : Live(d, e) => Tab(d, e) # h
      BY DEF Apart
    <2>2. CASE Tab(d1, e1)' = h
      BY <1>3, <2>1, <2>2, Zenon
    <2>3. CASE Tab(d1, e1)' # h
      <3>1. /\ d1 \in Dirs /\ d2 \in Dirs /\ Live(d1, e1) /\ Live(d2, e2)
            /\ Tab(d1, e1) = Tab(d2, e2)
        BY <1>3, <2>3
      <3> QED
        BY <3>1 DEF Apart
    <2> QED
      BY <2>2, <2>3, Zenon
  <1>4. UserPage' => /\ page' \in Frames /\ page' \notin Free' /\ page' \notin Dirs'
                     /\ \A d \in Dirs', e \in Idx : Live(d, e)' => Tab(d, e)' # page'
    BY DEF Apart
  <1> QED
    BY <1>1, <1>2, <1>3, <1>4 DEF Apart

\* After an iteration of mappages one more page is mapped.
LEMMA AgreesMore ==
    ASSUME NEW d, NEW S, NEW b \in Pages, b = a, Agrees(d, S), Entered(d, S, Wanted(a))
    PROVE  Agrees(d, S \cup {b})'
  <1> SUFFICES ASSUME NEW va \in Pages PROVE AgreesAt(d, S \cup {b}, va)'
    BY Zenon DEF Agrees
  <1>1. CASE va = b
    BY <1>1, Zenon DEF Entered, AgreesAt, Pte
  <1>2. CASE va # b
    <2>1. AgreesAt(d, S, va)'
      BY <1>2, Zenon DEF Entered, Agrees
    <2>2. va \in S \cup {b} <=> va \in S
      BY <1>2, Zenon
    <2> QED
      BY <2>1, <2>2, Zenon DEF AgreesAt
  <1> QED
    BY <1>1, <1>2, Zenon

\* setupkvm goes on with the next page, the next region, or is done.
Onward ==
    IF a = LastPage THEN RegionDone
    ELSE a' = a + 1 /\ pa' = pa + 1 /\ UNCHANGED <<pc, k, kpgdir>>

\* It is then where the invariant says.
LEMMA MapMore ==
    ASSUME IInv, pc = "map", NEW d \in Frames, d = pgdir, NEW S, S = Built,
           Entered(d, S, Wanted(a)), pgdir' = pgdir, ~mem'[d][0].p,
           Onward
    PROVE  /\ Mapping' /\ a' \in Nat
           /\ \/ pc' = "map" /\ kpgdir' = kpgdir
              \/ pc' = "kinit2" /\ kpgdir = 0 /\ kpgdir' = d
              \/ pc' = "inituvm" /\ kpgdir' = kpgdir /\ kpgdir # 0
  <1>1. PICK q \in 1..3, b \in Nat : q = k /\ b = a /\ b \in RegionPages(q)
    BY Zenon DEF IInv, Mapping, Typed
  <1>2. /\ b \in Pages /\ b \in Nat
        /\ \A r \in 1..3 : b \in RegionPages(r) => r = q
    BY <1>1, RegionPage, Zenon
  <1>3. Agrees(d, S)
    BY DEF IInv, Mapping
  <1>4. Agrees(d, S \cup {b})'
    BY <1>1, <1>2, <1>3, AgreesMore, Zenon
  <1>5. kpgdir' = kpgdir /\ kpgdir # 0 => Agrees(kpgdir, Kernel)'
    BY Zenon DEF Entered
  <1>6. \A va \in Pages : va \in S <=> \E r \in 1..3 : va \in RegionPages(r)
                                         /\ (r < q \/ (r = q /\ va < b))
    BY <1>1, Zenon DEF Built
  <1>7. LastPage = Regions[q].va + Regions[q].n - 1
    BY <1>1, Zenon DEF LastPage
  <1>8. CASE a # LastPage
    <2>1. a' = b + 1 /\ pa' = pa + 1 /\ pc' = "map" /\ k' = q /\ kpgdir' = kpgdir
      BY <1>1, <1>8, Zenon DEF Onward
    <2>2. b + 1 \in RegionPages(q) /\ \A va \in RegionPages(q) : va < b + 1 <=> va < b \/ va = b
      BY <1>1, <1>7, <1>8, RegionWalk
    <2>3. Built' = S \cup {b}
      <3>1. ASSUME NEW va \in Pages, NEW r \in 1..3, va \in RegionPages(r)
            PROVE  (r < q \/ (r = q /\ va < b + 1)) <=> (r < q \/ (r = q /\ va < b)) \/ va = b
        BY <1>2, <2>2, <3>1, Zenon
      <3>2. \A va \in Pages : va \in Built' <=> \E r \in 1..3 : va \in RegionPages(r)
                                         /\ (r < q \/ (r = q /\ va < b + 1))
        BY <2>1, Zenon DEF Built
      <3>3. \A va \in Pages : va \in Built' <=> va \in S \/ va = b
        BY <1>1, <1>6, <3>1, <3>2, Zenon
      <3>4. Built' \subseteq Pages /\ S \subseteq Pages
        BY DEF Built
      <3> QED
        BY <1>2, <3>3, <3>4, Zenon
    <2>4. pa' = Regions[k'].pa + (a' - Regions[k'].va)
      <3>1. pa = Regions[q].pa + (b - Regions[q].va)
        BY <1>1, Zenon DEF IInv, Mapping
      <3>2. Regions[q].pa \in Nat /\ Regions[q].va \in Nat
        BY RegionIs, Zenon
      <3> QED
        BY <1>2, <2>1, <3>1, <3>2
    <2>5. Agrees(pgdir, Built)'
      BY <1>4, <2>3, Zenon DEF Agrees, AgreesAt, Pte
    <2>6. Mapping'
      BY <1>5, <2>1, <2>2, <2>4, <2>5, Zenon DEF Mapping
    <2>7. a' \in Nat
      BY <1>2, <2>1
    <2> QED
      BY <2>1, <2>6, <2>7, Zenon
  <1>9. CASE a = LastPage /\ q < 3
    <2>1. /\ a' = Regions[q + 1].va /\ pa' = Regions[q + 1].pa /\ pc' = "map" /\ k' = q + 1
          /\ kpgdir' = kpgdir
      BY <1>1, <1>9, Zenon DEF Onward, RegionDone, StartMap
    <2>2. PICK s \in 1..3 : s = q + 1
      BY <1>9
    <2>3. Regions[s].va \in RegionPages(s) /\ \A va \in RegionPages(s) : ~(va < Regions[s].va)
      BY RegionWalk, Zenon
    <2>4. \A va \in RegionPages(q) : va < b \/ va = b
      BY <1>1, <1>7, <1>9, RegionWalk
    <2>5. Built' = S \cup {b}
      <3>1. ASSUME NEW va \in Pages, NEW r \in 1..3, va \in RegionPages(r)
            PROVE  (r < s \/ (r = s /\ va < Regions[s].va))
                   <=> (r < q \/ (r = q /\ va < b)) \/ va = b
        <4>1. r < s <=> r < q \/ r = q
          BY <2>2
        <4> QED
          BY <1>2, <2>3, <2>4, <3>1, <4>1, Zenon
      <3>2. \A va \in Pages : va \in Built' <=> \E r \in 1..3 : va \in RegionPages(r)
                                         /\ (r < s \/ (r = s /\ va < Regions[s].va))
        BY <2>1, <2>2, Zenon DEF Built
      <3>3. \A va \in Pages : va \in Built' <=> va \in S \/ va = b
        BY <1>1, <1>6, <3>1, <3>2, Zenon
      <3>4. Built' \subseteq Pages /\ S \subseteq Pages
        BY DEF Built
      <3> QED
        BY <1>2, <3>3, <3>4, Zenon
    <2>6. a' \in Nat /\ pa' = Regions[k'].pa + (a' - Regions[k'].va)
      BY <2>1, <2>2, RegionIs
    <2>7. Agrees(pgdir, Built)'
      BY <1>4, <2>5, Zenon DEF Agrees, AgreesAt, Pte
    <2>8. Mapping'
      BY <1>5, <2>1, <2>2, <2>3, <2>6, <2>7, Zenon DEF Mapping
    <2> QED
      BY <2>1, <2>6, <2>8
  <1>10. CASE a = LastPage /\ ~(q < 3)
    <2>1. /\ a' = a /\ IF kpgdir = 0 THEN kpgdir' = pgdir /\ pc' = "kinit2"
                       ELSE pc' = "inituvm" /\ kpgdir' = kpgdir
      BY <1>1, <1>10, Zenon DEF Onward, RegionDone
    <2>2. \A va \in RegionPages(q) : va < b \/ va = b
      BY <1>1, <1>7, <1>10, RegionWalk
    <2>3. Kernel = S \cup {b}
      <3>1. \A r \in 1..3 : r < q \/ r = q
        BY <1>10
      <3>2. \A va \in Pages : va \in Kernel <=> va \in S \/ va = b
        BY <1>1, <1>6, <2>2, <3>1, Zenon DEF Kernel
      <3>3. Kernel \subseteq Pages /\ S \subseteq Pages
        BY Zenon DEF Kernel, Built
      <3> QED
        BY <1>2, <3>2, <3>3, Zenon
    <2>4. Agrees(d, Kernel)'
      BY <1>4, <2>3, Zenon
    <2>5. CASE kpgdir = 0
      <3>1. Agrees(kpgdir, Kernel)'
        BY <2>1, <2>4, <2>5, Zenon DEF Agrees, AgreesAt, Pte
      <3> QED
        BY <1>1, <1>2, <2>1, <2>5, <3>1, Zenon DEF Mapping
    <2>6. CASE kpgdir # 0
      <3>1. Agrees(pgdir, Kernel)'
        BY <2>4, Zenon DEF Agrees, AgreesAt, Pte
      <3> QED
        BY <1>1, <1>2, <1>5, <2>1, <2>6, <3>1, Zenon DEF Mapping
    <2> QED
      BY <2>5, <2>6, Zenon
  <1> QED
    BY <1>8, <1>9, <1>10, Zenon

\* The page mappages is about to map: above KERNBASE, not mapped yet.
LEMMA MapAt ==
    ASSUME IInv, pc = "map"
    PROVE  /\ a \in Pages /\ KernPage <= a /\ a \notin Built /\ PDX(a) \in Idx /\ PDX(a) # 0
           /\ PTX(a) \in Idx
           /\ Wanted(a) = [p |-> TRUE, addr |-> pa, u |-> FALSE] /\ Wanted(a) \in Entry
  <1>1. PICK q \in 1..3, b \in Nat : q = k /\ b = a /\ b \in RegionPages(q)
    BY Zenon DEF IInv, Mapping, Typed
  <1>2. /\ b \in Pages /\ KernPage <= b /\ \A r \in 1..3 : b \in RegionPages(r) => r = q
        /\ Wanted(b) = [p |-> TRUE, addr |-> Regions[q].pa + (b - Regions[q].va), u |-> FALSE]
        /\ Regions[q].pa + (b - Regions[q].va) \in 0..(N * N)
    BY <1>1, RegionPage, Zenon
  <1>3. b \notin Built
    BY <1>1, <1>2 DEF Built
  <1>4. pa = Regions[q].pa + (b - Regions[q].va)
    BY <1>1, Zenon DEF IInv, Mapping
  <1>5. PDX(b) \in Idx /\ PTX(b) \in Idx /\ PDX(0) # PDX(b)
    BY <1>2, Index, Halves, PageZero, Zenon
  <1>6. Wanted(b) \in Entry
    BY <1>2, Contents, Zenon
  <1> QED
    BY <1>1, <1>2, <1>3, <1>4, <1>5, <1>6, PageZero, Zenon

=============================================================================
