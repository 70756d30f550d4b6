---------------------------- MODULE PagingProofs ----------------------------
(***************************************************************************)
(* Page tables, proved for every size of a table, every memory map and     *)
(* every amount of memory: what setupkvm and inituvm build maps exactly    *)
(* the kernel's regions and the code page, no frame serves two purposes,   *)
(* and freevm finds all of them again.                                     *)
(***************************************************************************)
EXTENDS PagingTables

-----------------------------------------------------------------------------
(* One lemma per action: each preserves the invariant.                     *)

\* Before paging_init the frames of kinit1 are free and there is no directory.
LEMMA InitIInv == Init => IInv
  <1> SUFFICES ASSUME Init PROVE IInv
    OBVIOUS
  <1>1. Filled \in [Idx -> Entry]
    BY Contents, Zenon
  <1>2. mem \in Memory
    BY <1>1, Zenon DEF Init, Memory
  <1>3. freelist \in Seq(Frames) /\ late \in Seq(Frames) /\ IsInjective(freelist \o late)
    BY FrameAssumption, Zenon DEF Init
  <1>4. /\ IsInjective(freelist) /\ IsInjective(late) /\ Range(freelist) \cap Range(late) = {}
    BY <1>3, Join, Zenon
  <1>5. Typed
    <2>1. 0 \in 0..N /\ 0 \in Nat
      BY RegionAssumption
    <2> QED
      BY <1>2, <1>3, <2>1, Zenon DEF Init, Typed, Pcs
  <1>6. Phase /\ Mapping
    BY Zenon DEF Init, Phase, Mapping, Messages
  <1>7. Apart
    <2>1. Dirs = {} /\ ~UserPage
      BY DEF Init, Dirs, UserPage
    <2> QED
      BY <1>4, <2>1 DEF Apart
  <1>8. Complete
    BY <1>4, Zenon DEF Init, Complete, Free
  <1> QED
    BY <1>5, <1>6, <1>7, <1>8 DEF IInv

\* A kernel that stops for want of memory leaves everything as it is.
LEMMA StoppedIInv ==
    ASSUME IInv, panic' \in Messages,
           UNCHANGED <<pc, mem, freelist, late, kpgdir, pgdir, k, a, pa, i, mapfail, page, given>>
    PROVE  IInv'
  <1>1. Typed' /\ Phase'
    BY Zenon DEF IInv, Typed, Phase
  <1>2. /\ Dirs' = Dirs /\ Free' = Free /\ UserPage' = UserPage
        /\ \A d, e : Live(d, e)' = Live(d, e) /\ Tab(d, e)' = Tab(d, e)
        /\ \A f : Ours(f)' = Ours(f)
        /\ freelist' = freelist /\ page' = page
    BY Zenon DEF Dirs, Free, Live, Tab, UserPage, Ours
  <1>a. Apart'
    BY <1>2, ApartKept, FreeFrames, Zenon DEF IInv, Apart
  <1>b. Complete'
    BY <1>2, Zenon DEF IInv, Complete
  <1>3. Mapping'
    BY Zenon DEF IInv, Mapping, Agrees, AgreesAt, Pte, Built, UserEntry
  <1> QED
    BY <1>1, <1>a, <1>b, <1>3, Zenon DEF IInv

\* setupkvm takes a frame off the list and clears it: a directory of nothing.
LEMMA SetupkvmIInv == IInv /\ Setupkvm => IInv'
  <1> SUFFICES ASSUME IInv, Setupkvm PROVE IInv'
    OBVIOUS
  <1>1. CASE freelist = <<>>
    BY <1>1, StoppedIInv, Zenon DEF Setupkvm, Stops, Messages
  <1>2. CASE freelist # <<>>
    <2>1. PICK h, t : h = Head(freelist) /\ t = Tail(freelist)
      BY Zenon
    <2>2. /\ pgdir' = h /\ freelist' = t /\ mem' = [mem EXCEPT ![h] = Cleared]
          /\ pc' = "map" /\ k' = 1 /\ a' = Regions[1].va /\ pa' = Regions[1].pa
          /\ given' = Free
          /\ UNCHANGED <<panic, late, kpgdir, i, mapfail, page>>
          /\ pc \in {"paging_init", "initproc"}
      BY <1>2, <2>1, Zenon DEF Setupkvm, Popped, StartMap, Free
    <2>3. /\ h \in Frames /\ h \in Free /\ t \in Seq(Frames) /\ IsInjective(t)
          /\ Range(t) = Free \ {h}
      BY <1>2, <2>1, Take, Zenon DEF IInv, Typed, Apart, Free
    <2>4. /\ mem' \in Memory /\ mem'[h] = Cleared
          /\ \A g \in Frames : g # h => mem'[g] = mem[g]
      <3>1. mem \in Memory /\ Cleared \in [Idx -> Entry]
        BY Contents, Zenon DEF IInv, Typed
      <3> QED
        BY <2>2, <2>3, <3>1, Zenon DEF Memory
    <2>5. Free' = Free \ {h}
      BY <2>2, <2>3, Zenon DEF Free
    <2>6. h # 0 /\ h # kpgdir /\ h \notin Dirs
      <3>1. 0 \notin Frames
        BY FrameAssumption DEF Frames
      <3> QED
        BY <2>3, <3>1, DirApart DEF Dirs
    <2>7. Dirs' = {kpgdir, h} \ {0}
      BY <2>2 DEF Dirs
    <2>8. ~UserPage'
      BY <2>2, Zenon DEF UserPage
    <2>9. \A e \in Idx : ~mem'[h][e].p
      BY <2>4, Contents, Zenon
    <2>10. \A e \in Idx : ~Live(h, e)'
      BY <2>9, Zenon DEF Live
    <2>11. kpgdir # 0 => kpgdir \in Dirs /\ kpgdir \in Frames /\ mem'[kpgdir] = mem[kpgdir]
      BY <2>4, <2>6, Zenon DEF IInv, Typed, Dirs
    <2>12. \A e \in Idx : kpgdir # 0 /\ Live(kpgdir, e)' =>
              Live(kpgdir, e) /\ Tab(kpgdir, e)' = Tab(kpgdir, e)
      BY <2>2, <2>11, Zenon DEF Live, Tab
    <2>13. Typed'
      <3>1. Regions[1].va \in Nat
        BY RegionIs
      <3> QED
        BY <2>2, <2>3, <2>4, <3>1 DEF IInv, Typed, Pcs
    <2>14. Phase'
      BY <2>2, <2>6, Zenon DEF IInv, Phase
    <2>15. Apart'
      <3>1. IsInjective(freelist')
        BY <2>2, <2>3
      <3>2. \A d \in Dirs' : d \notin Free'
        BY <2>5, <2>7, <2>11, DirApart, Zenon
      <3>3. ASSUME NEW d \in Dirs', NEW e \in Idx, Live(d, e)'
            PROVE  /\ d = kpgdir /\ kpgdir # 0 /\ Live(kpgdir, e)
                   /\ mem'[d][e].addr = Tab(kpgdir, e)
                   /\ Tab(kpgdir, e) \in Frames /\ Tab(kpgdir, e) \notin Free
                   /\ Tab(kpgdir, e) \notin Dirs
        <4>1. d = kpgdir /\ kpgdir # 0
          BY <2>7, <2>10, <3>3, Zenon
        <4>2. Live(kpgdir, e) /\ mem'[d][e].addr = Tab(kpgdir, e)
          BY <2>2, <2>11, <3>3, <4>1 DEF Live, Tab
        <4> QED
          BY <2>11, <4>1, <4>2, LiveApart, Zenon
      <3>4. \A d \in Dirs', e \in Idx : Live(d, e)' =>
               mem'[d][e].addr \in Frames /\ mem'[d][e].addr \notin Free'
               /\ mem'[d][e].addr \notin Dirs'
        BY <2>3, <2>5, <2>7, <2>11, <3>3
      <3>5. ASSUME NEW d1 \in Dirs', NEW d2 \in Dirs', NEW e1 \in Idx, NEW e2 \in Idx,
                   Live(d1, e1)', Live(d2, e2)', mem'[d1][e1].addr = mem'[d2][e2].addr
            PROVE  d1 = d2 /\ e1 = e2
        BY <2>11, <3>3, <3>5, LiveOnce
      <3> QED
        BY <2>8, <3>1, <3>2, <3>4, <3>5, Zenon DEF Apart, Tab
    <2>16. Complete'
      <3>1. Free \subseteq Frames
        BY DEF IInv, Typed, Free, Range
      <3>2. \A f \in Frames : f \in given' <=> Ours(f)'
        BY <2>2, <2>3, <2>5, <2>8, <2>10 DEF Ours
      <3>3. kpgdir = 0 => IsInjective(late) /\ \A f \in Range(late) : f \notin Free
        BY DEF IInv, Complete
      <3> QED
        BY <2>2, <2>5, <3>1, <3>2, <3>3, Zenon DEF Complete
    <2>17. Mapping'
      <3>1. kpgdir' # 0 => Agrees(kpgdir, Kernel)'
        <4>1. NotKernel(h)
          BY <2>3, <2>6, Zenon DEF NotKernel
        <4> QED
          BY <2>2, <2>4, <4>1, KernelKept, Zenon
      <3>2. 1 \in 1..3 /\ Regions[1].va \in RegionPages(1)
            /\ Regions[1].pa = Regions[1].pa + (Regions[1].va - Regions[1].va)
        BY RegionWalk, RegionIs
      <3>3. Built' = {}
        <4>1. \A va \in RegionPages(1) : ~(va < Regions[1].va)
          BY RegionWalk
        <4> QED
          BY <2>2, <4>1 DEF Built
      <3>4. ASSUME NEW va \in Pages PROVE AgreesAt(pgdir, Built, va)'
        <4>1. PDX(va) \in Idx
          BY Index, Zenon
        <4>2. ~mem'[pgdir'][PDX(va)].p
          BY <2>2, <2>9, <4>1, Zenon
        <4> QED
          BY <3>3, <4>2, Zenon DEF AgreesAt
      <3> QED
        <4>1. ~mem'[pgdir'][0].p
          BY <2>2, <2>9, PageZero
        <4> QED
          BY <2>2, <3>1, <3>2, <3>4, <4>1, Zenon DEF Mapping, Agrees
    <2> QED
      BY <2>13, <2>14, <2>15, <2>16, <2>17, Zenon DEF IInv
  <1> QED
    BY <1>1, <1>2


\* kinit2 adds frames that were never on the list.
LEMMA Kinit2IInv == IInv /\ Kinit2 => IInv'
  <1> SUFFICES ASSUME IInv, Kinit2 PROVE IInv'
    OBVIOUS
  <1>1. /\ pc = "kinit2" /\ pc' = "initproc" /\ freelist' = late \o freelist
        /\ UNCHANGED <<panic, mem, late, kpgdir, pgdir, k, a, pa, i, mapfail, page, given>>
    BY DEF Kinit2, At
  <1>2. freelist' \in Seq(Frames) /\ IsInjective(freelist') /\ Free' = Range(late) \cup Free
    <2>1. PICK w : w = late \o freelist
      BY Zenon
    <2>2. freelist \in Seq(Frames) /\ late \in Seq(Frames) /\ IsInjective(freelist)
          /\ IsInjective(late) /\ Range(late) \cap Range(freelist) = {}
      BY <1>1, Zenon DEF IInv, Typed, Apart, Complete, Free
    <2>3. w \in Seq(Frames) /\ Range(w) = Range(late) \cup Range(freelist) /\ IsInjective(w)
      BY <2>1, <2>2, Join, Zenon
    <2> QED
      BY <1>1, <2>1, <2>3, Zenon DEF Free
  <1>3. kpgdir = pgdir /\ pgdir # 0 /\ pgdir \in Frames /\ Dirs = {pgdir}
    BY <1>1, Zenon DEF IInv, Phase, Typed, Dirs
  <1>4. Dirs' = Dirs /\ ~UserPage /\ ~UserPage'
    BY <1>1, Zenon DEF Dirs, UserPage
  <1>5. \A d, e : (Live(d, e)' <=> Live(d, e)) /\ Tab(d, e)' = Tab(d, e)
    BY <1>1 DEF Live, Tab
  <1>6. ASSUME NEW f \in Frames, Ours(f) PROVE f \notin Range(late)
    BY <1>1, <1>6, Zenon DEF IInv, Complete
  <1>7. Typed' /\ Phase'
    BY <1>1, <1>2, Zenon DEF IInv, Typed, Phase, Pcs
  <1>8. Apart'
    <2>1. \A d \in Dirs : d \notin Free'
      BY <1>2, <1>3, <1>6, Zenon DEF IInv, Apart, Ours
    <2>2. ASSUME NEW d \in Dirs, NEW e \in Idx, Live(d, e)
          PROVE  Tab(d, e) \in Frames /\ Tab(d, e) \notin Free' /\ Tab(d, e) \notin Dirs
      <3>1. Tab(d, e) \in Frames /\ Tab(d, e) \notin Free /\ Tab(d, e) \notin Dirs
        BY <2>2, Zenon DEF IInv, Apart
      <3>2. Ours(Tab(d, e))
        BY <1>3, <2>2 DEF Ours
      <3> QED
        BY <1>2, <1>6, <3>1, <3>2, Zenon
    <2>3. \A d1, d2 \in Dirs, e1, e2 \in Idx :
            Live(d1, e1) /\ Live(d2, e2) /\ Tab(d1, e1) = Tab(d2, e2) => d1 = d2 /\ e1 = e2
      BY Zenon DEF IInv, Apart
    <2> QED
      BY <1>2, <1>4, <1>5, <2>1, <2>2, <2>3 DEF Apart
  <1>9. Complete'
    BY <1>1, <1>3, Zenon DEF Complete
  <1>10. Mapping'
    <2>1. kpgdir' # 0 => Agrees(kpgdir, Kernel)'
      BY <1>1, KernelSame
    <2> QED
      BY <1>1, <2>1, Zenon DEF Mapping
  <1> QED
    BY <1>7, <1>8, <1>9, <1>10, Zenon DEF IInv

\* freevm begins with a directory that maps the code page or nothing below
\* KERNBASE.
LEMMA FreevmIInv == IInv /\ Freevm => IInv'
  <1> SUFFICES ASSUME IInv, Freevm PROVE IInv'
    OBVIOUS
  <1>1. /\ pc = "ready" /\ pc' = "dealloc" /\ a' = 0
        /\ UNCHANGED <<panic, mem, freelist, late, kpgdir, pgdir, k, pa, i, mapfail, page, given>>
    BY DEF Freevm, At
  <1>2. /\ Dirs' = Dirs /\ Free' = Free /\ (UserPage' <=> UserPage) /\ page' = page
    BY <1>1 DEF Dirs, Free, UserPage
  <1>3. \A d, e : (Live(d, e)' <=> Live(d, e)) /\ Tab(d, e)' = Tab(d, e)
    BY <1>1 DEF Live, Tab
  <1>4. Typed' /\ Phase'
    BY <1>1, Zenon DEF IInv, Typed, Phase, Pcs
  <1>5. Apart'
    <2>1. IsInjective(freelist') /\ Apart
      BY <1>1 DEF IInv, Apart
    <2> QED
      BY <1>2, <1>3, <2>1, ApartKept, FreeFrames, Zenon
  <1>6. Complete'
    <2>1. \A f : Ours(f)' <=> Ours(f)
      BY <1>1, <1>2, <1>3, Zenon DEF Ours
    <2> QED
      BY <1>1, <1>2, <2>1, Zenon DEF IInv, Complete
  <1>7. Mapping'
    <2>1. kpgdir' # 0 => Agrees(kpgdir, Kernel)'
      BY <1>1, KernelSame
    <2>2. ASSUME NEW va \in Pages, va < KernPage, mem[pgdir][PDX(va)].p
          PROVE  Pte(pgdir, va) = IF va = 0 THEN UserEntry ELSE Zero
      <3>1. CASE va = 0
        BY <1>1, <2>2, <3>1, PageZero DEF IInv, Mapping
      <3>2. CASE va # 0
        <4>1. va \in Nat
          BY DEF Pages
        <4>2. va \notin Kernel
          BY <2>2, <4>1, LowerHalf
        <4>3. AgreesAt(pgdir, Kernel, va)
          BY <1>1, <3>2 DEF IInv, Mapping
        <4> QED
          BY <2>2, <3>2, <4>2, <4>3, Zenon DEF AgreesAt
      <3> QED
        BY <3>1, <3>2
    <2>3. \A va \in Pages : va < KernPage /\ mem'[pgdir'][PDX(va)].p =>
              Pte(pgdir, va)' = IF va = 0 /\ a' = 0 THEN UserEntry' ELSE Zero
      BY <1>1, <2>2, Zenon DEF Pte, UserEntry
    <2> QED
      BY <1>1, <2>1, <2>3, Zenon DEF Mapping
  <1> QED
    BY <1>4, <1>5, <1>6, <1>7 DEF IInv


\* inituvm takes a frame off the list for the code page; without one it stops,
\* because the kernel's directory does not map page 0.
LEMMA InituvmIInv == IInv /\ Inituvm => IInv'
  <1> SUFFICES ASSUME IInv, Inituvm PROVE IInv'
    OBVIOUS
  <1>0. pc = "inituvm" /\ pgdir # kpgdir /\ pgdir # 0 /\ kpgdir # 0
    BY Zenon DEF Inituvm, At, IInv, Phase
  <1>a. PICK sz \in InitSizes :
           IF sz >= PGSIZE THEN Stops("inituvm: more than a page")
           ELSE IF freelist = <<>> /\ Walk(kpgdir, 0) = {} THEN Stops("page fault not handled!")
           ELSE /\ page' = Head(freelist) /\ freelist' = Popped
                /\ mem' = [mem EXCEPT ![Head(freelist)] = Cleared]
                /\ pc' = "usermap" /\ a' = 0 /\ pa' = Head(freelist)
                /\ UNCHANGED <<panic, late, kpgdir, pgdir, k, i, mapfail, given>>
    BY Zenon DEF Inituvm
  <1>b. CASE sz >= PGSIZE
    BY <1>a, <1>b, StoppedIInv, Zenon DEF Stops, Messages
  <1>1. CASE freelist = <<>> /\ ~(sz >= PGSIZE)
    <2>1. AgreesAt(kpgdir, Kernel, 0)
      BY <1>0, PageZero, Zenon DEF IInv, Mapping, Agrees
    <2>2. ~mem[kpgdir][PDX(0)].p \/ Pte(kpgdir, 0) = Zero
      BY <2>1, LowerHalf DEF AgreesAt
    <2>3. Walk(kpgdir, 0) = {}
      BY <2>2, Contents, Zenon DEF Walk, Pte
    <2> QED
      BY <1>a, <1>1, <2>3, StoppedIInv, Zenon DEF Stops, Messages
  <1>2. CASE freelist # <<>> /\ ~(sz >= PGSIZE)
    <2>1. PICK h, t : h = Head(freelist) /\ t = Tail(freelist)
      BY Zenon
    <2>2. /\ page' = h /\ freelist' = t /\ mem' = [mem EXCEPT ![h] = Cleared]
          /\ pc' = "usermap" /\ a' = 0 /\ pa' = h
          /\ UNCHANGED <<panic, late, kpgdir, pgdir, k, i, mapfail, given>>
      BY <1>a, <1>2, <2>1, Zenon DEF Popped
    <2>3. /\ h \in Frames /\ h \in Free /\ t \in Seq(Frames) /\ IsInjective(t)
          /\ Range(t) = Free \ {h}
      BY <1>2, <2>1, Take, Zenon DEF IInv, Typed, Apart, Free
    <2>4. /\ mem' \in Memory /\ \A g \in Frames : g # h => mem'[g] = mem[g]
      <3>1. mem \in Memory /\ Cleared \in [Idx -> Entry]
        BY Contents, Zenon DEF IInv, Typed
      <3> QED
        BY <2>2, <2>3, <3>1 DEF Memory
    <2>5. Free' = Free \ {h}
      BY <2>2, <2>3, Zenon DEF Free
    <2>6. Dirs' = Dirs /\ UserPage' /\ ~UserPage
      BY <1>0, <2>2 DEF Dirs, UserPage
    <2>7. \A d \in Dirs : d \in Frames /\ d # h /\ mem'[d] = mem[d]
      BY <2>3, <2>4, DirApart
    <2>8. \A d \in Dirs, e \in Idx : (Live(d, e)' <=> Live(d, e)) /\ Tab(d, e)' = Tab(d, e)
      BY <1>0, <2>2, <2>7 DEF Live, Tab
    <2>9. pgdir \in Dirs /\ kpgdir \in Dirs
      BY <1>0 DEF Dirs
    <2>10. Typed' /\ Phase'
      BY <1>0, <2>2, <2>3, <2>4, Zenon DEF IInv, Typed, Phase, Pcs
    <2>11. Apart'
      <3>1. IsInjective(freelist') /\ Apart /\ page' \in Free \ Free'
        BY <2>2, <2>3, <2>5, Zenon DEF IInv
      <3> QED
        BY <2>5, <2>6, <2>8, <3>1, ApartKept, FreeFrames, Zenon
    <2>12. Complete'
      <3>1. \A e \in Idx : (Live(pgdir, e)' <=> Live(pgdir, e)) /\ Tab(pgdir, e)' = Tab(pgdir, e)
        BY <1>0, <2>2, <2>7, <2>9, Zenon DEF Live, Tab
      <3>2. \A f \in Frames : Ours(f)' <=> Ours(f)
        BY <2>2, <2>3, <2>5, <2>6, <3>1, Zenon DEF Ours
      <3> QED
        BY <1>0, <2>2, <3>2, Zenon DEF IInv, Complete
    <2>13. Mapping'
      <3>1. kpgdir' # 0 => Agrees(kpgdir, Kernel)'
        <4>1. NotKernel(h)
          BY <2>3, <2>7, <2>9, Zenon DEF NotKernel
        <4> QED
          BY <2>2, <2>4, <4>1, KernelKept, Zenon
      <3>2. PICK d \in Frames : d = pgdir
        BY <2>7, <2>9
      <3>3. ASSUME NEW e \in Idx, mem[d][e].p
            PROVE  mem'[mem[d][e].addr] = mem[mem[d][e].addr]
        <4>1. Live(pgdir, e)
          BY <1>0, <3>2, <3>3 DEF Live
        <4>2. Tab(pgdir, e) \in Frames /\ Tab(pgdir, e) \notin Free
          BY <2>9, <4>1, LiveApart
        <4> QED
          BY <2>3, <2>4, <3>2, <4>2, Zenon DEF Tab
      <3>4. Agrees(d, Kernel)'
        <4>1. Agrees(d, Kernel)
          BY <1>0, <3>2, Zenon DEF IInv, Mapping
        <4>2. mem'[d] = mem[d]
          BY <2>7, <2>9, <3>2
        <4> QED
          BY <3>3, <4>1, <4>2, AgreesKept, Zenon
      <3>5. Agrees(pgdir, Kernel)'
        BY <2>2, <3>2, <3>4, Zenon DEF Agrees, AgreesAt, Pte
      <3>6. ~mem'[pgdir'][0].p
        BY <1>0, <2>2, <2>7, <2>9, Zenon DEF IInv, Mapping
      <3> QED
        BY <2>2, <3>1, <3>5, <3>6, Zenon DEF Mapping
    <2> QED
      BY <2>10, <2>11, <2>12, <2>13, Zenon DEF IInv
  <1> QED
    BY <1>b, <1>1, <1>2, Zenon


-----------------------------------------------------------------------------
(* mappages.                                                               *)

\* Without memory for a table setupkvm gives up.
LEMMA MapFailsIInv ==
    ASSUME IInv, pc = "map", mapfail' = TRUE, pc' = "dealloc", a' = 0,
           UNCHANGED <<panic, mem, freelist, kpgdir, k, pa, late, pgdir, i, page, given>>
    PROVE  IInv'
  <1>1. /\ Dirs' = Dirs /\ Free' = Free /\ page' = page /\ IsInjective(freelist')
    BY DEF Dirs, Free, IInv, Apart
  <1>2. ~UserPage /\ ~UserPage'
    BY Zenon DEF UserPage, IInv, Mapping
  <1>3. \A d, e : (Live(d, e)' <=> Live(d, e)) /\ Tab(d, e)' = Tab(d, e)
    BY DEF Live, Tab
  <1>4. Typed' /\ Phase'
    BY Zenon DEF IInv, Typed, Phase, Pcs
  <1>5. Apart'
    BY <1>1, <1>2, <1>3, ApartKept, FreeFrames, Zenon DEF IInv
  <1>6. Complete'
    <2>1. \A f : Ours(f)' <=> Ours(f)
      BY <1>1, <1>2, <1>3, Zenon DEF Ours
    <2> QED
      BY <1>1, <2>1 DEF IInv, Complete
  <1>7. Mapping'
    <2>1. kpgdir' # 0 => Agrees(kpgdir, Kernel)'
      BY KernelSame, Zenon
    <2>2. ASSUME NEW va \in Pages, va < KernPage, mem[pgdir][PDX(va)].p
          PROVE  va # 0 /\ Pte(pgdir, va) = Zero
      <3>1. va # 0
        BY <2>2, PageZero, Zenon DEF IInv, Mapping
      <3>2. va \in Nat
        BY DEF Pages
      <3>3. va \notin Built
        <4>1. va \notin Kernel
          BY <2>2, <3>2, LowerHalf
        <4> QED
          BY <4>1, Zenon DEF Built, Kernel
      <3>4. AgreesAt(pgdir, Built, va)
        BY Zenon DEF IInv, Mapping, Agrees
      <3> QED
        BY <2>2, <3>1, <3>3, <3>4, Zenon DEF AgreesAt
    <2>3. \A va \in Pages : va < KernPage /\ mem'[pgdir'][PDX(va)].p =>
              Pte(pgdir, va)' = IF va = 0 /\ a' = 0 THEN UserEntry' ELSE Zero
      BY <2>2, Zenon DEF Pte
    <2> QED
      BY <2>1, <2>3, Zenon DEF Mapping
  <1> QED
    BY <1>4, <1>5, <1>6, <1>7 DEF IInv

\* An iteration of mappages that finds the table.
LEMMA MapOldIInv ==
    ASSUME IInv, pc = "map", mem[pgdir][PDX(a)].p, mem' = WithPage(mem, FALSE),
           Onward,
           UNCHANGED <<panic, mapfail, freelist, late, pgdir, i, page, given>>
    PROVE  IInv'
  <1>1. PICK d \in Frames, S \in SUBSET Pages : d = pgdir /\ S = Built
    BY Zenon DEF IInv, Typed, Phase, Built
  <1>2. d # 0 /\ pgdir # kpgdir /\ d \in Dirs
    BY <1>1, Zenon DEF IInv, Phase, Dirs
  <1>3. PICK f, E : f = Tab(d, PDX(a)) /\ E \in Entry /\ E = Wanted(a)
    BY MapAt, Zenon
  <1>4. mem' = Put(mem, f, PTX(a), E) /\ a \in Pages
    BY <1>1, <1>3, MapAt, Zenon DEF WithPage, Put, Tab
  <1>5. /\ Entered(d, S, Wanted(a))
        /\ mem'[d] = mem[d] /\ (kpgdir # 0 => mem'[kpgdir] = mem[kpgdir])
    <2>1. pc # "tables" /\ mem[d][PDX(a)].p
      BY <1>1, Zenon
    <2>2. EnteredOld(d, S, E)
      BY <1>1, <1>2, <1>3, <1>4, <2>1, StoreOld, Zenon
    <2> QED
      BY <1>3, <2>2, Zenon DEF EnteredOld
  <1>6. ~mem'[d][0].p
    BY <1>1, <1>5, Zenon DEF IInv, Mapping
  <1>7. /\ Mapping' /\ a' \in Nat
        /\ \/ pc' = "map" /\ kpgdir' = kpgdir
           \/ pc' = "kinit2" /\ kpgdir = 0 /\ kpgdir' = d
           \/ pc' = "inituvm" /\ kpgdir' = kpgdir /\ kpgdir # 0
    BY <1>1, <1>5, <1>6, MapMore, Zenon
  <1>8. Dirs' = Dirs /\ Free' = Free /\ ~UserPage /\ ~UserPage'
    BY <1>1, <1>2, <1>7, Zenon DEF Dirs, Free, UserPage
  <1>9. \A c \in Dirs : mem'[c] = mem[c]
    BY <1>1, <1>5, Zenon DEF Dirs
  <1>10. \A c \in Dirs, e \in Idx : (Live(c, e)' <=> Live(c, e)) /\ Tab(c, e)' = Tab(c, e)
    BY <1>7, <1>9, Zenon DEF Live, Tab
  <1>11. Typed' /\ Phase'
    BY <1>1, <1>2, <1>5, <1>7, Zenon DEF IInv, Typed, Phase, Pcs, Entered
  <1>12. Apart'
    <2>1. IsInjective(freelist') /\ Apart
      BY DEF IInv, Apart
    <2> QED
      BY <1>8, <1>10, <2>1, ApartKept, FreeFrames, Zenon
  <1>13. Complete'
    <2>1. \A e \in Idx : (Live(pgdir, e)' <=> Live(pgdir, e)) /\ Tab(pgdir, e)' = Tab(pgdir, e)
      BY <1>1, <1>5, <1>7, Zenon DEF Live, Tab
    <2>2. \A g \in Frames : Ours(g)' <=> Ours(g)
      BY <1>8, <2>1 DEF Ours
    <2> QED
      BY <1>2, <1>7, <1>8, <2>2, Zenon DEF IInv, Complete
  <1> QED
    BY <1>7, <1>11, <1>12, <1>13, Zenon DEF IInv


\* A new table is entered and empty.
LEMMA TableAt ==
    ASSUME IInv, NEW d \in Frames, d = pgdir, NEW h \in Free, a \in Pages,
           NEW m, m = WithTable(h)
    PROVE  m[d][PDX(a)].addr = h /\ ~Present(m)
  <1>1. PICK x \in Idx, y \in Idx : x = PDX(a) /\ y = PTX(a)
    BY Index
  <1>2. h \in Frames /\ h # d
    <2>1. d \in Dirs
      BY FrameAssumption DEF Dirs, Frames
    <2> QED
      BY <2>1, FreeFrames, Zenon DEF IInv, Apart
  <1>3. PICK n : n = [p |-> TRUE, addr |-> h, u |-> TRUE]
    BY Zenon
  <1>4. n \in Entry /\ n.addr = h
    BY <1>2, <1>3, FrameFits, Contents, Zenon
  <1>5. PICK m1 : m1 = [mem EXCEPT ![h] = Cleared] /\ m = [m1 EXCEPT ![d][x] = n]
    BY <1>1, <1>3, Zenon DEF WithTable, NewTable
  <1>6. m1 \in Memory /\ m1[h] = Cleared
    BY <1>2, <1>5, Contents DEF IInv, Typed, Memory
  <1>7. m[d][x] = n /\ m[h] = Cleared
    BY <1>2, <1>5, <1>6 DEF Memory
  <1>8. ~m[h][y].p
    BY <1>7, Contents
  <1> QED
    BY <1>1, <1>4, <1>7, <1>8 DEF Present

\* An iteration of mappages that needs a table and gets one.
LEMMA MapNewIInv ==
    ASSUME IInv, pc = "map", ~mem[pgdir][PDX(a)].p, NEW h \in Free,
           mem' = WithPage(WithTable(h), FALSE),
           Free' = Free \ {h}, freelist' \in Seq(Frames), IsInjective(freelist'),
           Onward,
           UNCHANGED <<panic, mapfail, late, pgdir, i, page, given>>
    PROVE  IInv'
  <1>1. PICK d \in Frames, S \in SUBSET Pages : d = pgdir /\ S = Built
    BY Zenon DEF IInv, Typed, Phase, Built
  <1>2. d # 0 /\ pgdir # kpgdir /\ d \in Dirs
    BY <1>1, Zenon DEF IInv, Phase, Dirs
  <1>4. h \in Frames
    BY FreeFrames
  <1>6. PICK m : m = WithTable(h)
    OBVIOUS
  <1>7. a \in Pages /\ Wanted(a) \in Entry /\ PDX(a) \in Idx /\ PDX(a) # 0
    BY MapAt
  <1>8. mem' = Put(m, h, PTX(a), Wanted(a))
    <2>1. m[d][PDX(a)].addr = h
      BY <1>1, <1>4, <1>6, <1>7, TableAt
    <2> QED
      BY <1>1, <1>6, <2>1, MapAt, Zenon DEF WithPage, Put
  <1>9. /\ Entered(d, S, Wanted(a))
        /\ mem'[d][PDX(a)].p /\ mem'[d][PDX(a)].u /\ mem'[d][PDX(a)].addr = h
        /\ \A e \in Idx : e # PDX(a) => mem'[d][e] = mem[d][e]
        /\ kpgdir # 0 => mem'[kpgdir] = mem[kpgdir]
    <2>1. pc # "tables" /\ ~mem[d][PDX(a)].p
      BY <1>1
    <2>2. PICK E \in Entry : E = Wanted(a)
      BY <1>7
    <2>3. /\ d = pgdir /\ pgdir # kpgdir /\ a \in Pages /\ h \in Free
          /\ mem' = Put(WithTable(h), h, PTX(a), E)
      BY <1>1, <1>2, <1>4, <1>6, <1>7, <1>8, <2>2, Zenon
    <2>4. EnteredNew(d, S, E, h)
      BY <2>1, <2>3, StoreNew, Zenon
    <2> QED
      BY <2>2, <2>4, Zenon DEF EnteredNew
  <1>10. ~mem'[d][0].p
    BY <1>1, <1>7, <1>9, PageZero, Zenon DEF IInv, Mapping
  <1>11. /\ Mapping' /\ a' \in Nat
         /\ \/ pc' = "map" /\ kpgdir' = kpgdir
            \/ pc' = "kinit2" /\ kpgdir = 0 /\ kpgdir' = d
            \/ pc' = "inituvm" /\ kpgdir' = kpgdir /\ kpgdir # 0
    BY <1>1, <1>9, <1>10, MapMore, Zenon
  <1>12. Dirs' = Dirs /\ ~UserPage /\ ~UserPage'
    BY <1>1, <1>2, <1>11, Zenon DEF Dirs, UserPage
  <1>13. PICK x \in Idx : x = PDX(a)
    BY <1>7
  <1>14. mem'[d][x].p /\ mem'[d][x].addr = h
    BY <1>9, <1>13, Zenon
  <1>15. \A e \in Idx : (mem'[d][e].p <=> mem[d][e].p \/ e = x)
            /\ mem'[d][e].addr = IF e = x THEN h ELSE mem[d][e].addr
    BY <1>9, <1>13, <1>14, Zenon
  <1>16. \A c \in Dirs : c = pgdir \/ mem'[c] = mem[c]
    BY <1>9, Zenon DEF Dirs
  <1>17. \A c \in Dirs, e \in Idx : Live(c, e)' =>
              \/ Live(c, e) /\ Tab(c, e)' = Tab(c, e)
              \/ c = pgdir /\ e = x /\ Tab(c, e)' = h
    <2> SUFFICES ASSUME NEW c \in Dirs, NEW e \in Idx, Live(c, e)'
                 PROVE  \/ Live(c, e) /\ Tab(c, e)' = Tab(c, e)
                        \/ c = pgdir /\ e = x /\ Tab(c, e)' = h
      OBVIOUS
    <2>1. CASE mem'[c] = mem[c]
      BY <2>1, Zenon DEF Live, Tab
    <2>2. CASE c = pgdir
      <3>1. mem'[c][e].p /\ Tab(c, e)' = mem'[d][e].addr /\ Tab(c, e) = mem[d][e].addr
        BY <1>1, <2>2, Zenon DEF Live, Tab
      <3>2. mem[c][e].p \/ e = x
        BY <1>1, <1>15, <2>2, <3>1, Zenon
      <3> QED
        BY <1>15, <2>2, <3>1, <3>2, Zenon DEF Live
    <2> QED
      BY <1>16, <2>1, <2>2, Zenon
  <1>18. Typed' /\ Phase'
    BY <1>1, <1>2, <1>9, <1>11, Zenon DEF IInv, Typed, Phase, Pcs, Entered
  <1>19. Apart'
    BY <1>12, <1>17, ApartTable, FreeFrames, Zenon DEF IInv
  <1>20. Complete'
    <2>1. \A e \in Idx : (Live(pgdir, e)' <=> Live(pgdir, e) \/ e = x)
              /\ (Live(pgdir, e) => e # x)
              /\ Tab(pgdir, e)' = IF e = x THEN h ELSE Tab(pgdir, e)
      BY <1>1, <1>11, <1>13, <1>15, Zenon DEF Live, Tab
    <2>2. \A g \in Frames : Ours(g)' <=> Ours(g)
      BY <1>4, <1>12, <2>1 DEF Ours
    <2> QED
      BY <1>2, <1>11, <2>2, Zenon DEF IInv, Complete
  <1> QED
    BY <1>11, <1>18, <1>19, <1>20, Zenon DEF IInv

\* An iteration of mappages never finds the page mapped already.
LEMMA MapPageIInv == IInv /\ MapPage => IInv'
  <1> SUFFICES ASSUME IInv, MapPage PROVE IInv'
    OBVIOUS
  <1>1. pc = "map" /\ UNCHANGED <<late, pgdir, i, page, given>>
    BY DEF MapPage, At
  <1>2. PICK d \in Frames : d = pgdir
    BY <1>1, Zenon DEF IInv, Typed, Phase
  <1>3. CASE mem[pgdir][PDX(a)].p
    <2>1. ~Present(mem)
      <3>1. AgreesAt(pgdir, Built, a) /\ a \notin Built
        BY <1>1, MapAt, Zenon DEF IInv, Mapping, Agrees
      <3>2. Pte(pgdir, a) = Zero
        BY <1>3, <3>1, Zenon DEF AgreesAt
      <3> QED
        BY <3>2, Contents DEF Present, Pte
    <2>2. /\ mem' = WithPage(mem, FALSE) /\ freelist' = freelist
          /\ Onward
          /\ UNCHANGED <<panic, mapfail>>
      BY <1>3, <2>1, Zenon DEF MapPage, Onward
    <2> QED
      BY <1>1, <1>3, <2>2, MapOldIInv
  <1>4. CASE ~mem[pgdir][PDX(a)].p /\ freelist = <<>>
    <2>1. /\ mapfail' = TRUE /\ pc' = "dealloc" /\ a' = 0
          /\ UNCHANGED <<panic, mem, freelist, kpgdir, k, pa>>
      BY <1>4, Zenon DEF MapPage
    <2> QED
      BY <1>1, <2>1, MapFailsIInv
  <1>5. CASE ~mem[pgdir][PDX(a)].p /\ freelist # <<>>
    <2>0. PICK h, t : h = Head(freelist) /\ t = Tail(freelist)
      BY Zenon
    <2>1. /\ h \in Free /\ t \in Seq(Frames) /\ IsInjective(t) /\ Range(t) = Free \ {h}
      BY <1>5, <2>0, Take, Zenon DEF IInv, Typed, Apart, Free
    <2>2. ~Present(WithTable(h))
      BY <1>1, <1>2, <2>1, MapAt, TableAt
    <2>3. /\ mem' = WithPage(WithTable(h), FALSE) /\ freelist' = t
          /\ Onward
          /\ UNCHANGED <<panic, mapfail>>
      BY <1>5, <2>0, <2>2, Zenon DEF MapPage, Popped, Onward
    <2>4. Free' = Free \ {h} /\ freelist' \in Seq(Frames) /\ IsInjective(freelist')
      BY <2>1, <2>3, Zenon DEF Free
    <2> QED
      BY <1>1, <1>5, <2>1, <2>3, <2>4, MapNewIInv, Zenon
  <1> QED
    BY <1>3, <1>4, <1>5


\* inituvm maps the code page in a new table, or loses it.
LEMMA MapUserIInv == IInv /\ MapUser => IInv'
  <1> SUFFICES ASSUME IInv, MapUser PROVE IInv'
    OBVIOUS
  <1>1. /\ pc = "usermap" /\ pc' = "ready"
        /\ UNCHANGED <<late, kpgdir, pgdir, k, a, pa, i, mapfail, page>>
    BY DEF MapUser, At
  <1>2. PICK d \in Frames : d = pgdir
    BY <1>1, Zenon DEF IInv, Typed, Phase
  <1>3. d # 0 /\ pgdir # kpgdir /\ kpgdir # 0 /\ d \in Dirs /\ kpgdir \in Dirs
    BY <1>1, <1>2, Zenon DEF IInv, Phase, Dirs
  <1>4. /\ a = 0 /\ pa = page /\ a \in Pages /\ PDX(a) = 0 /\ PTX(a) = 0 /\ 0 \in Idx
        /\ ~mem[pgdir][PDX(a)].p /\ Agrees(pgdir, Kernel)
    <2>1. a = 0 /\ pa = page /\ ~mem[pgdir][0].p /\ Agrees(pgdir, Kernel)
      BY <1>1, Zenon DEF IInv, Mapping
    <2> QED
      BY <2>1, PageZero
  <1>5. UserPage /\ Dirs' = Dirs
    BY <1>1 DEF UserPage, Dirs
  <1>6. page \in Frames /\ page \notin Free /\ page \notin Dirs
        /\ \A c \in Dirs, e \in Idx : Live(c, e) => Tab(c, e) # page
    BY <1>5 DEF IInv, Apart
  <1>7. CASE freelist = <<>>
    <2>1. given' = given \ {page} /\ UNCHANGED <<panic, mem, freelist>>
      BY <1>4, <1>7, Zenon DEF MapUser
    <2>2. Free' = Free /\ ~UserPage'
      BY <1>1, <1>4, <2>1 DEF Free, UserPage
    <2>3. \A c, e : (Live(c, e)' <=> Live(c, e)) /\ Tab(c, e)' = Tab(c, e)
      BY <1>1, <2>1 DEF Live, Tab
    <2>4. Typed' /\ Phase'
      BY <1>1, <2>1, Zenon DEF IInv, Typed, Phase, Pcs
    <2>5. Apart'
      <3>1. IsInjective(freelist') /\ Apart
        BY <2>1 DEF IInv, Apart
      <3> QED
        BY <1>5, <2>2, <2>3, <3>1, ApartKept, FreeFrames, Zenon
    <2>6. Complete'
      <3>1. \A f \in Frames : Ours(f)' <=> Ours(f) /\ f # page
        BY <1>1, <1>2, <1>3, <1>5, <1>6, <2>2, <2>3 DEF Ours
      <3> QED
        BY <1>1, <1>3, <2>1, <2>2, <3>1, Zenon DEF IInv, Complete
    <2>7. Mapping'
      <3>1. kpgdir' # 0 => Agrees(kpgdir, Kernel)'
        BY <1>1, <2>1, KernelSame
      <3>2. \A va \in Pages : AgreesAt(pgdir, Kernel, va)'
        BY <1>1, <1>4, <2>1, Zenon DEF Agrees, AgreesAt, Pte
      <3>3. ~mem'[pgdir'][0].p
        BY <1>1, <1>4, <2>1, Zenon
      <3> QED
        BY <1>1, <3>1, <3>2, <3>3 DEF Mapping
    <2> QED
      BY <2>4, <2>5, <2>6, <2>7 DEF IInv
  <1>8. CASE freelist # <<>>
    <2>0. PICK h, t : h = Head(freelist) /\ t = Tail(freelist)
      BY Zenon
    <2>1. /\ h \in Free /\ t \in Seq(Frames) /\ IsInjective(t) /\ Range(t) = Free \ {h}
      BY <1>8, <2>0, Take, Zenon DEF IInv, Typed, Apart, Free
    <2>2. PICK m : m = WithTable(h)
      OBVIOUS
    <2>3. m[d][PDX(a)].addr = h /\ ~Present(m)
      BY <1>2, <1>4, <2>1, <2>2, TableAt
    <2>4. /\ mem' = WithPage(m, TRUE) /\ freelist' = t /\ UNCHANGED <<panic, given>>
      BY <1>4, <1>8, <2>0, <2>2, <2>3, Zenon DEF MapUser, Popped
    <2>5. UserEntry \in Entry
      BY <1>6, FrameFits, Contents, Zenon DEF UserEntry
    <2>6. PICK E \in Entry : E = UserEntry
      BY <2>5
    <2>7. mem' = Put(WithTable(h), h, PTX(a), E)
      BY <1>2, <1>4, <2>2, <2>3, <2>4, <2>6, Zenon DEF WithPage, Put, UserEntry
    <2>8. /\ Entered(d, Kernel, E)
          /\ mem'[d][PDX(a)].p /\ mem'[d][PDX(a)].u /\ mem'[d][PDX(a)].addr = h
          /\ \A e \in Idx : e # PDX(a) => mem'[d][e] = mem[d][e]
          /\ kpgdir # 0 => mem'[kpgdir] = mem[kpgdir]
      <3>1. pc # "tables" /\ ~mem[d][PDX(a)].p
        BY <1>1, <1>2, <1>4, Zenon
      <3>2. EnteredNew(d, Kernel, E, h)
        BY <1>2, <1>3, <1>4, <2>1, <2>7, <3>1, StoreNew, Zenon
      <3> QED
        BY <3>2, Zenon DEF EnteredNew
    <2>9. Free' = Free \ {h} /\ freelist' \in Seq(Frames) /\ IsInjective(freelist')
      BY <2>1, <2>4, Zenon DEF Free
    <2>10. UserPage'
      BY <1>1, <1>2, <1>4, <2>8, Zenon DEF UserPage
    <2>11. \A e \in Idx : (mem'[d][e].p <=> mem[d][e].p \/ e = 0)
            /\ mem'[d][e].addr = IF e = 0 THEN h ELSE mem[d][e].addr
      BY <1>4, <2>8, Zenon
    <2>12. \A c \in Dirs : c = pgdir \/ mem'[c] = mem[c]
      BY <2>8 DEF Dirs
    <2>13. \A c \in Dirs, e \in Idx : Live(c, e)' =>
              \/ Live(c, e) /\ Tab(c, e)' = Tab(c, e)
              \/ c = pgdir /\ e = 0 /\ Tab(c, e)' = h
      BY <1>1, <1>2, <2>11, <2>12 DEF Live, Tab
    <2>14. Typed' /\ Phase'
      BY <1>1, <2>4, <2>8, <2>9, Zenon DEF IInv, Typed, Phase, Pcs, Entered
    <2>15. Apart'
      <3>1. page' = page /\ Apart /\ 0 \in Idx
        BY <1>1, <1>4 DEF IInv
      <3> QED
        BY <1>5, <2>1, <2>9, <2>13, <3>1, ApartTable, FreeFrames, Zenon
    <2>16. Complete'
      <3>1. \A e \in Idx : (Live(pgdir, e)' <=> Live(pgdir, e) \/ e = 0)
              /\ (Live(pgdir, e) => e # 0)
              /\ Tab(pgdir, e)' = IF e = 0 THEN h ELSE Tab(pgdir, e)
        BY <1>1, <1>2, <1>4, <2>11, Zenon DEF Live, Tab
      <3>2. \A g \in Frames : Ours(g)' <=> Ours(g)
        BY <1>1, <1>4, <1>5, <2>1, <2>9, <2>10, <3>1, Zenon DEF Ours
      <3> QED
        BY <1>1, <1>3, <2>4, <3>2, Zenon DEF IInv, Complete
    <2>17. Mapping'
      <3>1. kpgdir' # 0 => Agrees(kpgdir, Kernel)'
        BY <1>1, <2>8, Zenon DEF Entered
      <3>2. \A va \in Pages \ {0} : AgreesAt(d, Kernel, va)'
        BY <1>2, <1>4, <2>8, Zenon DEF Entered, Agrees
      <3>3. \A va \in Pages \ {0} : AgreesAt(pgdir, Kernel, va)'
        BY <1>1, <1>2, <3>2, Zenon DEF AgreesAt, Pte
      <3>4. mem'[pgdir'][0].u
        BY <1>1, <1>2, <1>4, <2>8, Zenon
      <3>5. Pte(pgdir, 0)' = UserEntry'
        BY <1>1, <1>2, <1>4, <2>6, <2>8, PageZero, Zenon DEF Pte, UserEntry, Entered
      <3> QED
        BY <1>1, <3>1, <3>3, <3>4, <3>5 DEF Mapping
    <2> QED
      BY <2>14, <2>15, <2>16, <2>17, Zenon DEF IInv
  <1> QED
    BY <1>7, <1>8


-----------------------------------------------------------------------------
(* freevm.                                                                 *)

\* The memory m with the frame f filled by kfree.
Refilled(m, f) == [m EXCEPT ![f] = Filled]

\* deallocuvm frees the code page: at address 0, and it is a frame.
LEMMA DeallocPageIInv ==
    ASSUME IInv, pc = "dealloc", a = 0, mem[pgdir][0].p,
           NEW f, f = Tab(pgdir, 0), NEW m, m = Put(mem, f, 0, Zero),
           mem' = Refilled(m, page), freelist' = <<page>> \o freelist, a' = 1,
           UNCHANGED <<pc, i, panic, late, kpgdir, pgdir, k, pa, mapfail, page, given>>
    PROVE  IInv'
  <1>1. PICK d \in Frames : d = pgdir
    BY Zenon DEF IInv, Typed, Phase
  <1>2. d # 0 /\ pgdir # kpgdir /\ d \in Dirs /\ Dirs' = Dirs
    BY <1>1, Zenon DEF IInv, Phase, Dirs
  <1>3. UserPage /\ ~UserPage'
    BY DEF UserPage
  <1>4. page \in Frames /\ page \notin Free /\ page \notin Dirs
        /\ \A c \in Dirs, e \in Idx : Live(c, e) => Tab(c, e) # page
    BY <1>3 DEF IInv, Apart
  <1>5. Live(pgdir, 0) /\ Tab(pgdir, 0) = f /\ 0 \in Idx
    BY PageZero, Zenon DEF Live
  <1>6. f \in Frames /\ f \notin Dirs /\ f # page
    BY <1>1, <1>2, <1>3, <1>5, LiveApart, Zenon
  <1>7. m \in Memory /\ m[f][0] = Zero
        /\ (\A z \in Idx : z # 0 => m[f][z] = mem[f][z])
        /\ \A g \in Frames : g # f => m[g] = mem[g]
    <2>1. mem \in Memory /\ Zero \in Entry
      BY Contents, Zenon DEF IInv, Typed
    <2> QED
      BY <1>5, <1>6, <2>1, Zenon DEF Put, Memory
  <1>8. mem' \in Memory /\ \A g \in Frames : g # page => mem'[g] = m[g]
    <2>1. Filled \in [Idx -> Entry]
      BY Contents, Zenon
    <2> QED
      BY <1>4, <1>7, <2>1, Zenon DEF Refilled, Memory
  <1>9. \A g \in Frames : g # f /\ g # page => mem'[g] = mem[g]
    BY <1>7, <1>8
  <1>10. mem'[f][0] = Zero /\ \A z \in Idx : z # 0 => mem'[f][z] = mem[f][z]
    <2>1. mem'[f] = m[f]
      BY <1>6, <1>8, Zenon
    <2> QED
      BY <1>7, <2>1
  <1>11. freelist' \in Seq(Frames) /\ Free' = Free \cup {page} /\ IsInjective(freelist')
    BY <1>4, Given, Zenon
  <1>12. \A c \in Dirs : mem'[c] = mem[c]
    BY <1>4, <1>6, <1>9, DirApart, Zenon
  <1>13. \A c \in Dirs, e \in Idx : (Live(c, e)' <=> Live(c, e)) /\ Tab(c, e)' = Tab(c, e)
    BY <1>12, Zenon DEF Live, Tab
  <1>14. Typed' /\ Phase'
    BY <1>8, <1>11, Zenon DEF IInv, Typed, Phase
  <1>15. Apart'
    <2>1. Apart
      BY Zenon DEF IInv
    <2>2. \A c \in Dirs', e \in Idx :
             Live(c, e)' => Live(c, e) /\ Tab(c, e)' = Tab(c, e) /\ Tab(c, e) # page
      BY <1>2, <1>4, <1>13, Zenon
    <2> QED
      BY <1>2, <1>3, <1>4, <1>11, <2>1, <2>2, ApartGive, Zenon
  <1>16. Complete'
    <2>1. \A e \in Idx : (Live(pgdir, e)' <=> Live(pgdir, e)) /\ Tab(pgdir, e)' = Tab(pgdir, e)
      BY <1>1, <1>2, <1>12, Zenon DEF Live, Tab
    <2>2. \A g \in Frames : Ours(g)' <=> Ours(g)
      BY <1>3, <1>11, <2>1 DEF Ours
    <2>3. Ours(page)
      BY <1>3 DEF Ours
    <2> QED
      BY <1>4, <1>11, <2>2, <2>3, Zenon DEF IInv, Complete
  <1>17. Mapping'
    <2>1. kpgdir' # 0 => Agrees(kpgdir, Kernel)'
      <3>1. kpgdir # 0 => NotKernel(f) /\ NotKernel(page)
        <4>1. kpgdir # 0 => kpgdir \in Dirs
          BY Zenon DEF Dirs
        <4>2. kpgdir # 0 => NotKernel(f)
          BY <1>1, <1>2, <1>5, <1>6, <4>1, Zenon DEF NotKernel
        <4>3. kpgdir # 0 => NotKernel(page)
          BY <1>3, <1>4, <4>1, Zenon DEF NotKernel
        <4> QED
          BY <4>2, <4>3
      <3> QED
        BY <1>9, <3>1, KernelKept, Zenon
    <2>2. ASSUME NEW va \in Pages, va < KernPage, mem'[d][PDX(va)].p
          PROVE  mem'[mem'[d][PDX(va)].addr][PTX(va)] = Zero
      <3>1. PICK x \in Idx, y \in Idx : x = PDX(va) /\ y = PTX(va)
        BY Index
      <3>2. mem'[d] = mem[d] /\ Live(pgdir, x)
        BY <1>1, <1>2, <1>12, <2>2, <3>1, Zenon DEF Live
      <3>3. Tab(pgdir, x) \in Frames /\ Tab(pgdir, x) # page
            /\ (Tab(pgdir, x) = f => x = 0)
        <4>1. Tab(pgdir, x) \in Frames /\ Tab(pgdir, x) # page
          BY <1>1, <1>2, <1>3, <3>2, LiveApart
        <4> QED
          BY <1>1, <1>2, <1>5, <3>2, <4>1, LiveOnce, Zenon
      <3>4. CASE va = 0
        <4>1. x = 0 /\ y = 0
          BY <3>1, <3>4, PageZero
        <4>2. mem'[d][x].addr = f
          BY <1>1, <3>2, <4>1, Zenon DEF Tab
        <4>3. mem'[f][0] = Zero
          BY <1>10, Zenon
        <4> QED
          BY <3>1, <4>1, <4>2, <4>3, Zenon
      <3>5. CASE va # 0
        <4>1. Pte(pgdir, va) = Zero
          <5>1. mem[pgdir][PDX(va)].p
            BY <1>1, <2>2, <3>2, Zenon
          <5> QED
            BY <2>2, <3>5, <5>1, Zenon DEF IInv, Mapping
        <4>2. ~(x = 0 /\ y = 0)
          BY <3>1, <3>5, PageZero, SameIndex
        <4>3. mem'[Tab(pgdir, x)][y] = mem[Tab(pgdir, x)][y]
          BY <1>9, <1>10, <3>3, <4>2, Zenon
        <4> QED
          BY <1>1, <3>1, <3>2, <4>1, <4>3, Zenon DEF Pte, Tab
      <3> QED
        BY <3>4, <3>5, Zenon
    <2>3. \A va \in Pages : va < KernPage /\ mem'[pgdir'][PDX(va)].p =>
              Pte(pgdir, va)' = IF va = 0 /\ a' = 0 THEN UserEntry' ELSE Zero
      <3>1. pgdir' = d /\ a' # 0
        BY <1>1
      <3> QED
        BY <2>2, <3>1, Zenon DEF Pte
    <2> QED
      BY <2>1, <2>3, Zenon DEF Mapping
  <1> QED
    BY <1>14, <1>15, <1>16, <1>17, Zenon DEF IInv


\* Where deallocuvm writes nothing and leaves address 0 behind.
LEMMA DeallocOnIInv ==
    ASSUME IInv, pc = "dealloc", ~UserPage, a' \in Nat, a' # 0,
           UNCHANGED <<pc, i, panic, mem, freelist, late, kpgdir, pgdir, k, pa, mapfail, page, given>>
    PROVE  IInv'
  <1>1. /\ Dirs' = Dirs /\ Free' = Free /\ ~UserPage' /\ page' = page /\ IsInjective(freelist')
    BY DEF Dirs, Free, UserPage, IInv, Apart
  <1>2. \A d, e : (Live(d, e)' <=> Live(d, e)) /\ Tab(d, e)' = Tab(d, e)
    BY DEF Live, Tab
  <1>3. Typed' /\ Phase'
    BY Zenon DEF IInv, Typed, Phase
  <1>4. Apart'
    BY <1>1, <1>2, ApartKept, FreeFrames DEF IInv
  <1>5. Complete'
    <2>1. \A f : Ours(f)' <=> Ours(f)
      BY <1>1, <1>2 DEF Ours
    <2> QED
      BY <1>1, <2>1 DEF IInv, Complete
  <1>6. Mapping'
    <2>1. kpgdir' # 0 => Agrees(kpgdir, Kernel)'
      BY KernelSame
    <2>2. ASSUME NEW va \in Pages, va < KernPage, mem[pgdir][PDX(va)].p
          PROVE  Pte(pgdir, va) = Zero
      <3>1. ~(va = 0 /\ a = 0)
        BY <2>2, PageZero DEF UserPage
      <3> QED
        BY <2>2, <3>1, Zenon DEF IInv, Mapping
    <2>3. \A va \in Pages : va < KernPage /\ mem'[pgdir'][PDX(va)].p =>
              Pte(pgdir, va)' = IF va = 0 /\ a' = 0 THEN UserEntry' ELSE Zero
      BY <2>2, Zenon DEF Pte
    <2> QED
      BY <2>1, <2>3, Zenon DEF Mapping
  <1> QED
    BY <1>3, <1>4, <1>5, <1>6, Zenon DEF IInv

\* An iteration of deallocuvm never frees what is not a frame of the process.
LEMMA DeallocIInv == IInv /\ Dealloc => IInv'
  <1> SUFFICES ASSUME IInv, Dealloc PROVE IInv'
    OBVIOUS
  <1>1. pc = "dealloc" /\ UNCHANGED <<late, kpgdir, pgdir, k, pa, mapfail, page, given>>
        /\ a \in Nat
    <2>1. a \in Nat
      BY Zenon DEF IInv, Typed
    <2> QED
      BY <2>1, Zenon DEF Dealloc, At
  <1>2. CASE ~(a < KernPage)
    <2>1. pc' = "tables" /\ i' = 0 /\ UNCHANGED <<panic, mem, freelist, a>>
      BY <1>2, Zenon DEF Dealloc
    <2>2. Dirs' = Dirs /\ Free' = Free /\ ~UserPage' /\ page' = page /\ IsInjective(freelist')
      BY <1>1, <2>1, Zenon DEF Dirs, Free, UserPage, IInv, Apart
    <2>3. ~UserPage
      BY <1>1, <1>2, PageZero DEF UserPage
    <2>4. \A d, e : Tab(d, e)' = Tab(d, e) /\ (e \in Idx => (Live(d, e)' <=> Live(d, e)))
      BY <1>1, <2>1 DEF Live, Tab, Idx
    <2>5. Typed' /\ Phase'
      <3>1. 0 \in 0..N
        BY RegionAssumption
      <3> QED
        BY <1>1, <2>1, <3>1, Zenon DEF IInv, Typed, Phase, Pcs
    <2>6. Apart'
      BY <2>2, <2>4, ApartKept, FreeFrames, Zenon DEF IInv
    <2>7. Complete'
      <3>1. \A f : Ours(f)' <=> Ours(f)
        BY <1>1, <2>2, <2>3, <2>4, Zenon DEF Ours
      <3> QED
        BY <1>1, <2>1, <2>2, <3>1, Zenon DEF IInv, Complete
    <2>8. Mapping'
      <3>1. kpgdir' # 0 => Agrees(kpgdir, Kernel)'
        BY <1>1, <2>1, KernelSame
      <3> QED
        BY <2>1, <3>1 DEF Mapping
    <2> QED
      BY <2>5, <2>6, <2>7, <2>8 DEF IInv
  <1>3. CASE a < KernPage
    <2>1. a \in Pages
      BY <1>1, <1>3, LowerHalf
    <2>2. UNCHANGED <<pc, i>>
      BY <1>3, Zenon DEF Dealloc
    <2>3. CASE ~mem[pgdir][PDX(a)].p
      <3>1. a' = SkipTable /\ UNCHANGED <<panic, mem, freelist>>
        BY <1>3, <2>3, Zenon DEF Dealloc
      <3>2. ~UserPage
        BY <1>1, <2>3, PageZero DEF UserPage
      <3>3. a' \in Nat /\ a' # 0
        BY <2>1, <3>1, SkipUp
      <3> QED
        BY <1>1, <2>2, <3>1, <3>2, <3>3, DeallocOnIInv
    <2>4. CASE mem[pgdir][PDX(a)].p /\ a # 0
      <3>1. Pte(pgdir, a) = Zero
        BY <1>1, <1>3, <2>1, <2>4, Zenon DEF IInv, Mapping
      <3>2. ~mem[mem[pgdir][PDX(a)].addr][PTX(a)].p
        BY <3>1, Contents, Zenon DEF Pte
      <3>3. a' = a + 1 /\ UNCHANGED <<panic, mem, freelist>>
        BY <1>3, <2>4, <3>2, Zenon DEF Dealloc
      <3>4. ~UserPage /\ a' \in Nat /\ a' # 0
        BY <1>1, <2>4, <3>3 DEF UserPage
      <3> QED
        BY <1>1, <2>2, <3>3, <3>4, DeallocOnIInv
    <2>5. CASE mem[pgdir][PDX(a)].p /\ a = 0
      <3>1. PDX(a) = 0 /\ PTX(a) = 0 /\ mem[pgdir][0].p
        BY <2>5, PageZero
      <3>2. PICK f, m : f = Tab(pgdir, 0) /\ m = Put(mem, f, 0, Zero)
        BY Zenon
      <3>3. Pte(pgdir, a) = UserEntry
        BY <1>1, <1>3, <2>1, <2>5, Zenon DEF IInv, Mapping
      <3>4. mem[f][0] = UserEntry
        BY <3>1, <3>2, <3>3, Zenon DEF Pte, Tab
      <3>5. mem[f][0].p /\ mem[f][0].addr = page
        BY <3>4 DEF UserEntry
      <3>6. page \in Frames
        <4>1. UserPage
          BY <1>1, <2>5, <3>1 DEF UserPage
        <4> QED
          BY <4>1, Zenon DEF IInv, Apart
      <3>7. a' = a + 1 /\ Kfree(m, page)
        BY <1>3, <2>5, <3>1, <3>2, <3>5, Zenon DEF Dealloc, Put, Tab
      <3>8. mem' = Refilled(m, page) /\ freelist' = <<page>> \o freelist
            /\ UNCHANGED panic
        BY <3>6, <3>7, Zenon DEF Kfree, Refilled
      <3>9. a' = 1
        BY <2>5, <3>7
      <3> QED
        BY <1>1, <2>2, <2>5, <3>1, <3>2, <3>8, <3>9, DeallocPageIInv, Zenon
    <2> QED
      BY <2>3, <2>4, <2>5
  <1> QED
    BY <1>2, <1>3


\* An iteration of freevm frees a table it finds, and the last step the
\* directory.
LEMMA FreeTablesIInv == IInv /\ FreeTables => IInv'
  <1> SUFFICES ASSUME IInv, FreeTables PROVE IInv'
    OBVIOUS
  <1>1. pc = "tables" /\ UNCHANGED <<late, kpgdir, k, a, pa, mapfail, page, given>>
    BY DEF FreeTables, At
  <1>2. PICK d \in Frames : d = pgdir
    BY <1>1, Zenon DEF IInv, Typed, Phase
  <1>3. d # 0 /\ pgdir # kpgdir /\ d \in Dirs /\ (kpgdir # 0 => kpgdir \in Dirs)
    BY <1>1, <1>2, Zenon DEF IInv, Phase, Dirs
  <1>4. ~UserPage /\ N \in Nat /\ i \in 0..N
    <2>1. ~UserPage
      BY <1>1 DEF UserPage
    <2>2. i \in 0..N
      BY Zenon DEF IInv, Typed
    <2> QED
      BY <2>1, <2>2, RegionAssumption
  <1>5. CASE i = N
    <2>1. /\ mem' = [mem EXCEPT ![pgdir] = Filled] /\ freelist' = <<d>> \o freelist
          /\ pgdir' = 0 /\ pc' = "freed" /\ i' = i
          /\ panic' = IF mapfail THEN "mappages" ELSE panic
      BY <1>2, <1>5, Zenon DEF FreeTables, TableLoopEnds
    <2>2. mem' \in Memory /\ \A g \in Frames : g # d => mem'[g] = mem[g]
      <3>1. mem \in Memory /\ Filled \in [Idx -> Entry]
        BY Contents DEF IInv, Typed
      <3> QED
        BY <1>2, <2>1, <3>1 DEF Memory
    <2>3. d \notin Free
      BY <1>3, DirApart
    <2>4. freelist' \in Seq(Frames) /\ Free' = Free \cup {d} /\ IsInjective(freelist')
      BY <2>1, <2>3, Given, Zenon
    <2>5. Dirs' = {kpgdir} \ {0} /\ ~UserPage'
      BY <1>1, <2>1 DEF Dirs, UserPage
    <2>6. \A e \in Idx : ~(e >= i)
      BY <1>4, <1>5 DEF Idx
    <2>7. \A e \in Idx : ~Live(pgdir, e)
      BY <1>1, <2>6, Zenon DEF Live
    <2>8. Typed' /\ Phase'
      BY <1>1, <2>1, <2>2, <2>4, Zenon DEF IInv, Typed, Phase, Pcs, Messages
    <2>9. Apart'
      <3>1. Dirs' \subseteq Dirs /\ d \notin Dirs'
        BY <1>2, <1>3, <2>5 DEF Dirs
      <3>2. ASSUME NEW c \in Dirs', NEW e \in Idx, Live(c, e)'
            PROVE  Live(c, e) /\ Tab(c, e)' = Tab(c, e) /\ Tab(c, e) # d
        <4>1. c = kpgdir /\ kpgdir # 0 /\ c \in Dirs /\ c # d /\ c \in Frames
          BY <1>2, <1>3, <2>5, DirApart, Zenon
        <4>2. mem'[c] = mem[c]
          BY <2>2, <4>1, Zenon
        <4>3. Live(c, e) /\ Tab(c, e)' = Tab(c, e)
          BY <1>2, <3>2, <4>1, <4>2, Zenon DEF Live, Tab
        <4> QED
          BY <1>3, <4>1, <4>3, LiveApart, Zenon
      <3>3. Apart
        BY DEF IInv
      <3> QED
        BY <2>4, <2>5, <3>1, <3>2, <3>3, ApartGive, Zenon
    <2>10. Complete'
      <3>1. \A f \in Frames : f \in given <=> f \in Free \/ f = d
        BY <1>1, <1>2, <1>4, <2>7, Zenon DEF IInv, Complete, Ours
      <3>2. given \subseteq Frames /\ Free \subseteq Frames
        BY <1>1, FreeFrames DEF IInv, Complete
      <3>3. Free' = given
        BY <2>4, <3>1, <3>2
      <3>4. kpgdir = 0 => IsInjective(late) /\ \A f \in Range(late) : f \notin given
        BY DEF IInv, Complete
      <3> QED
        BY <1>1, <2>1, <3>3, <3>4, Zenon DEF Complete
    <2>11. Mapping'
      <3>1. kpgdir' # 0 => Agrees(kpgdir, Kernel)'
        <4>1. NotKernel(d)
          BY <1>2, <1>3 DEF NotKernel
        <4> QED
          BY <1>1, <2>2, <4>1, KernelKept, Zenon
      <3> QED
        BY <2>1, <3>1 DEF Mapping
    <2> QED
      BY <2>8, <2>9, <2>10, <2>11 DEF IInv
  <1>6. CASE i # N
    <2>1. i \in Idx /\ i + 1 \in 0..N /\ \A e \in Idx : e >= i + 1 <=> e >= i /\ e # i
      BY <1>4, <1>6 DEF Idx
    <2>2. /\ i' = i + 1 /\ UNCHANGED <<pc, pgdir>>
          /\ IF mem[pgdir][i].p THEN Kfree(mem, mem[pgdir][i].addr)
             ELSE UNCHANGED <<panic, mem, freelist>>
      BY <1>6, Zenon DEF FreeTables, TableLoopEnds
    <2>3. Dirs' = Dirs /\ ~UserPage'
      BY <1>1, <2>2 DEF Dirs, UserPage
    <2>4. CASE ~mem[pgdir][i].p
      <3>1. UNCHANGED <<panic, mem, freelist>>
        BY <2>2, <2>4, Zenon
      <3>2. Free' = Free /\ IsInjective(freelist')
        BY <3>1 DEF Free, IInv, Apart
      <3>3. \A c, e : Tab(c, e)' = Tab(c, e) /\ (e \in Idx => (Live(c, e)' <=> Live(c, e)))
        BY <1>1, <2>1, <2>2, <2>4, <3>1, Zenon DEF Live, Tab
      <3>4. Typed' /\ Phase'
        BY <1>1, <2>1, <2>2, <3>1, Zenon DEF IInv, Typed, Phase
      <3>5. Apart'
        BY <2>3, <3>2, <3>3, ApartKept, FreeFrames DEF IInv
      <3>6. Complete'
        <4>1. \A f : Ours(f)' <=> Ours(f)
          BY <1>4, <2>2, <2>3, <3>2, <3>3, Zenon DEF Ours
        <4> QED
          BY <1>1, <2>2, <3>2, <4>1, Zenon DEF IInv, Complete
      <3>7. Mapping'
        <4>1. kpgdir' # 0 => Agrees(kpgdir, Kernel)'
          BY <1>1, <3>1, KernelSame
        <4> QED
          BY <1>1, <2>2, <4>1, Zenon DEF Mapping
      <3> QED
        BY <3>4, <3>5, <3>6, <3>7 DEF IInv
    <2>5. CASE mem[pgdir][i].p
      <3>1. PICK x, f : x \in Idx /\ x = i /\ f = mem[d][x].addr
        BY <2>1
      <3>2. Live(pgdir, x) /\ Tab(pgdir, x) = f
        BY <1>2, <2>1, <2>5, <3>1 DEF Live, Tab, Idx
      <3>3. f \in Frames /\ f \notin Free /\ f \notin Dirs
        BY <1>2, <1>3, <3>1, <3>2, LiveApart
      <3>4. mem' = [mem EXCEPT ![f] = Filled] /\ freelist' = <<f>> \o freelist
            /\ UNCHANGED panic
        BY <1>2, <2>2, <2>5, <3>1, <3>3, Zenon DEF Kfree
      <3>5. mem' \in Memory /\ \A g \in Frames : g # f => mem'[g] = mem[g]
        <4>1. mem \in Memory /\ Filled \in [Idx -> Entry]
          BY Contents DEF IInv, Typed
        <4> QED
          BY <3>3, <3>4, <4>1 DEF Memory
      <3>6. freelist' \in Seq(Frames) /\ Free' = Free \cup {f} /\ IsInjective(freelist')
        BY <3>3, <3>4, Given
      <3>7. \A c \in Dirs : mem'[c] = mem[c]
        BY <3>3, <3>5, DirApart
      <3>8. \A c \in Dirs, e \in Idx :
               /\ Live(c, e)' <=> Live(c, e) /\ ~(c = pgdir /\ e = x)
               /\ Tab(c, e)' = Tab(c, e)
        BY <1>1, <2>1, <2>2, <3>1, <3>7 DEF Live, Tab
      <3>9. Typed' /\ Phase'
        BY <1>1, <2>1, <2>2, <3>4, <3>5, <3>6, Zenon DEF IInv, Typed, Phase
      <3>10. Apart'
        <4>1. ASSUME NEW c \in Dirs, NEW e \in Idx, Live(c, e)'
              PROVE  Live(c, e) /\ Tab(c, e)' = Tab(c, e) /\ Tab(c, e) # f
          <5>1. Live(c, e) /\ Tab(c, e)' = Tab(c, e) /\ ~(c = pgdir /\ e = x)
            BY <3>8, <4>1, Zenon
          <5> QED
            BY <1>2, <1>3, <3>1, <3>2, <5>1, LiveOnce
        <4>2. Apart
          BY DEF IInv
        <4> QED
          BY <2>3, <3>3, <3>6, <4>1, <4>2, ApartGive
      <3>11. Complete'
        <4>1. \A e \in Idx : /\ Live(pgdir, e)' <=> Live(pgdir, e) /\ e # x
                             /\ Tab(pgdir, e)' = Tab(pgdir, e)
          BY <1>1, <1>2, <1>3, <2>1, <2>2, <3>1, <3>7, Zenon DEF Live, Tab
        <4>2. \A g \in Frames : Ours(g)' <=> Ours(g)
          BY <1>4, <2>2, <2>3, <3>1, <3>2, <3>6, <4>1, Zenon DEF Ours
        <4>3. Ours(f)
          BY <3>1, <3>2 DEF Ours
        <4> QED
          BY <1>1, <2>2, <3>3, <3>6, <4>2, <4>3, Zenon DEF IInv, Complete
      <3>12. Mapping'
        <4>1. kpgdir' # 0 => Agrees(kpgdir, Kernel)'
          <5>1. kpgdir # 0 => NotKernel(f)
            BY <1>2, <1>3, <3>1, <3>2, <3>3 DEF NotKernel
          <5> QED
            BY <1>1, <3>5, <5>1, KernelKept
        <4> QED
          BY <1>1, <2>2, <4>1, Zenon DEF Mapping
      <3> QED
        BY <3>9, <3>10, <3>11, <3>12 DEF IInv
    <2> QED
      BY <2>4, <2>5
  <1> QED
    BY <1>5, <1>6

\* Every step preserves the invariant.
LEMMA NextIInv == IInv /\ [Next]_vars => IInv'
  <1> SUFFICES ASSUME IInv, [Next]_vars PROVE IInv'
    OBVIOUS
  <1>1. CASE UNCHANGED vars
    <2>1. panic \in Messages
      BY Zenon DEF IInv, Phase
    <2> QED
      BY <1>1, <2>1, StoppedIInv, Zenon DEF vars
  <1>2. CASE Ended
    BY <1>1, <1>2 DEF Ended
  <1> QED
    BY <1>1, <1>2, SetupkvmIInv, MapPageIInv, Kinit2IInv, InituvmIInv, MapUserIInv, FreevmIInv,
       DeallocIInv, FreeTablesIInv DEF Next, Step


-----------------------------------------------------------------------------
(* What the invariant says.                                                *)

\* Below KERNBASE a directory maps at most the code page.
LEMMA UserWalk ==
    ASSUME IInv, pgdir # 0, pc # "tables", NEW v \in 0..(KernPage - 1), NEW w \in Walk(pgdir, v)
    PROVE  UserPage /\ w.pa = page
  <1>1. v \in Nat /\ v < KernPage /\ v \in Pages /\ v \notin Kernel
    BY LowerHalf
  <1>2. mem[pgdir][PDX(v)].p /\ Pte(pgdir, v).p /\ w.pa = Pte(pgdir, v).addr
    <2>1. PICK e, t : e = mem[pgdir][PDX(v)] /\ t = mem[e.addr][PTX(v)]
      BY Zenon
    <2>2. Walk(pgdir, v) = IF e.p /\ t.p THEN {[pa |-> t.addr, u |-> e.u /\ t.u]} ELSE {}
      BY <2>1, Zenon DEF Walk
    <2>3. e.p /\ t.p /\ w = [pa |-> t.addr, u |-> e.u /\ t.u]
      BY <2>2, Zenon
    <2>4. w.pa = t.addr
      BY <2>3, Zenon
    <2> QED
      BY <2>1, <2>3, <2>4, Zenon DEF Pte
  <1>3. ASSUME NEW S, S \subseteq Kernel, AgreesAt(pgdir, S, v) PROVE FALSE
    <2>1. Pte(pgdir, v) = Zero
      BY <1>1, <1>2, <1>3 DEF AgreesAt
    <2> QED
      BY <1>2, <2>1, Contents
  <1>4. v = 0 => PDX(v) = 0
    BY PageZero
  <1>5. Pte(pgdir, v) = UserEntry => w.pa = page
    BY <1>2 DEF UserEntry
  <1>6. CASE pc \in {"kinit2", "initproc"}
    BY <1>1, <1>3, <1>6, Zenon DEF IInv, Phase, Mapping, Agrees
  <1>7. CASE pc = "map"
    <2>1. Built \subseteq Kernel
      BY DEF Built, Kernel
    <2> QED
      BY <1>1, <1>3, <1>7, <2>1, Zenon DEF IInv, Mapping, Agrees
  <1>8. CASE pc \in {"inituvm", "usermap"}
    BY <1>1, <1>3, <1>8, Zenon DEF IInv, Mapping, Agrees
  <1>9. CASE pc = "ready"
    <2>1. v = 0
      BY <1>1, <1>3, <1>9, Zenon DEF IInv, Mapping
    <2>2. mem[pgdir][0].p /\ Pte(pgdir, v) = UserEntry
      BY <1>2, <1>4, <1>9, <2>1, Zenon DEF IInv, Mapping
    <2> QED
      BY <1>5, <1>9, <2>2 DEF UserPage
  <1>10. CASE pc = "dealloc"
    <2>1. Pte(pgdir, v) # Zero
      BY <1>2, Contents
    <2>2. v = 0 /\ a = 0 /\ Pte(pgdir, v) = UserEntry
      BY <1>1, <1>2, <1>10, <2>1, Zenon DEF IInv, Mapping
    <2> QED
      BY <1>2, <1>4, <1>5, <1>10, <2>2 DEF UserPage
  <1> QED
    BY <1>6, <1>7, <1>8, <1>9, <1>10, Zenon DEF IInv, Typed, Phase, Pcs

\* A directory that agrees with the kernel's pages maps what setupkvm is to map.
LEMMA WalkExpected ==
    ASSUME NEW d, NEW v \in Pages, AgreesAt(d, Kernel, v)
    PROVE  Walk(d, v) = Expected(v)
  <1>1. CASE v \in Kernel
    <2>1. PICK r \in 1..3 : v \in RegionPages(r)
      BY <1>1 DEF Kernel
    <2>2. PICK n : n = Regions[r].pa + (v - Regions[r].va)
      OBVIOUS
    <2>3. Wanted(v) = [p |-> TRUE, addr |-> n, u |-> FALSE]
          /\ \A q \in 1..3 : v \in RegionPages(q) => q = r
      BY <2>1, <2>2, RegionPage, Zenon
    <2>4. mem[d][PDX(v)].p /\ mem[mem[d][PDX(v)].addr][PTX(v)] = [p |-> TRUE, addr |-> n, u |-> FALSE]
      BY <1>1, <2>3, Zenon DEF AgreesAt, Pte
    <2>5. Walk(d, v) = {[pa |-> n, u |-> FALSE]}
      <3>1. PICK e, t : e = mem[d][PDX(v)] /\ t = mem[e.addr][PTX(v)]
        OBVIOUS
      <3>2. e.p /\ t.p /\ t.addr = n /\ ~t.u
        <4>1. e.p /\ t = [p |-> TRUE, addr |-> n, u |-> FALSE]
          BY <2>4, <3>1, Zenon
        <4> QED
          BY <4>1, Zenon
      <3>3. Walk(d, v) = {[pa |-> t.addr, u |-> e.u /\ t.u]}
        BY <3>1, <3>2, Zenon DEF Walk
      <3>4. FALSE = (e.u /\ t.u)
        BY <3>2, Zenon
      <3> QED
        BY <3>2, <3>3, <3>4, Zenon
    <2>6. Expected(v) = {[pa |-> n, u |-> FALSE]}
      <3>1. {[pa |-> Regions[r].pa + (v - Regions[r].va), u |-> FALSE] :
                x \in {v} \cap RegionPages(r)} = {[pa |-> n, u |-> FALSE]}
        BY <2>1, <2>2, Zenon
      <3>2. \A q \in 1..3 : q # r => {v} \cap RegionPages(q) = {}
        BY <2>3
      <3> QED
        BY <3>1, <3>2 DEF Expected
    <2> QED
      BY <2>5, <2>6
  <1>2. CASE v \notin Kernel
    <2>1. \A q \in 1..3 : {v} \cap RegionPages(q) = {}
      BY <1>2 DEF Kernel
    <2>2. Expected(v) = {}
      BY <2>1 DEF Expected
    <2>3. ~mem[d][PDX(v)].p \/ Pte(d, v) = Zero
      BY <1>2 DEF AgreesAt
    <2>4. Walk(d, v) = {}
      BY <2>3, Contents, Zenon DEF Walk, Pte
    <2> QED
      BY <2>2, <2>4
  <1> QED
    BY <1>1, <1>2

\* The invariant of page tables holds in every state of building, failing and
\* freeing (setupkvm, mappages, inituvm, deallocuvm, freevm).
THEOREM Invariance == Spec => []IInv
  BY InitIInv, NextIInv, PTL DEF Spec

\* No frame ever serves two purposes: free list, directories, tables and user
\* pages are apart at every step of setupkvm, inituvm and freevm.
THEOREM Accounted == Spec => []FramesAccounted
  <1>1. IInv => FramesAccounted
    <2> SUFFICES ASSUME IInv PROVE FramesAccounted
      OBVIOUS
    <2> DEFINE slots == {x \in Dirs \X Idx :
                    mem[x[1]][x[2]].p /\ (x[1] = pgdir /\ pc = "tables" => x[2] >= i)}
               tab(x) == mem[x[1]][x[2]].addr
               user  == IF pgdir = 0 \/ pc = "tables" THEN {}
                        ELSE UNION {{w.pa : w \in Walk(pgdir, v)} : v \in 0..(KernPage - 1)}
    <2>1. IsInjective(freelist) /\ Dirs \cap Free = {}
      BY DEF IInv, Apart
    <2>2. ASSUME NEW x \in slots
          PROVE  x[1] \in Dirs /\ x[2] \in Idx /\ Live(x[1], x[2]) /\ x = <<x[1], x[2]>>
                 /\ tab(x) = Tab(x[1], x[2])
      BY DEF Live, Tab
    <2>3. ASSUME NEW f \in user PROVE UserPage /\ f = page
      BY UserWalk
    <2> HIDE DEF slots, tab, user
    <2>4. \A x \in slots : tab(x) \in Frames \ (Free \cup Dirs)
      BY <2>2, LiveApart
    <2>5. ASSUME NEW x \in slots, NEW y \in slots, tab(x) = tab(y) PROVE x = y
      <3>1. x[1] = y[1] /\ x[2] = y[2]
        BY <2>2, <2>5, LiveOnce
      <3> QED
        BY <2>2, <3>1, Zenon
    <2>6. ASSUME NEW f \in user PROVE f \notin Free \cup Dirs \cup {tab(x) : x \in slots}
      <3>1. f \notin Free /\ f \notin Dirs
        BY <2>3, Zenon DEF IInv, Apart
      <3>2. \A x \in slots : tab(x) # f
        BY <2>2, <2>3, LiveApart
      <3> QED
        BY <3>1, <3>2
    <2> QED
      BY <2>1, <2>4, <2>5, <2>6, Zenon DEF FramesAccounted, Dirs, Free, slots, tab, user
  <1> QED
    BY <1>1, Invariance, PTL

\* freevm gives back every frame that was free when setupkvm began and that
\* inituvm has not lost, half way or complete.
THEOREM GivesBack == Spec => []GivesBackAll
  <1>1. IInv => GivesBackAll
    BY DEF IInv, Complete, GivesBackAll, Free
  <1> QED
    BY <1>1, Invariance, PTL

\* Every finished directory maps exactly the regions of setupkvm and the code
\* page of inituvm.
THEOREM Maps == Spec => []MapsExactly
  <1>1. IInv => MapsExactly
    <2> SUFFICES ASSUME IInv PROVE MapsExactly
      OBVIOUS
    <2>1. kpgdir # 0 => \A v \in Pages : Walk(kpgdir, v) = Expected(v)
      BY WalkExpected DEF IInv, Mapping, Agrees
    <2>2. pc \in {"inituvm", "usermap"} => \A v \in Pages : Walk(pgdir, v) = Expected(v)
      BY WalkExpected DEF IInv, Mapping, Agrees
    <2>3. pc = "ready" => \A v \in Pages \ {0} : Walk(pgdir, v) = Expected(v)
      BY WalkExpected DEF IInv, Mapping
    <2>4. ASSUME pc = "ready" PROVE Walk(pgdir, 0) \subseteq {[pa |-> page, u |-> TRUE]}
      <3>1. CASE mem[pgdir][0].p
        <4>1. mem[pgdir][0].u /\ mem[mem[pgdir][PDX(0)].addr][PTX(0)] = UserEntry /\ PDX(0) = 0
          BY <2>4, <3>1, PageZero, Zenon DEF IInv, Mapping, Pte
        <4>2. Walk(pgdir, 0) = {[pa |-> page, u |-> TRUE]}
          <5>1. PICK e, t : e = mem[pgdir][PDX(0)] /\ t = mem[e.addr][PTX(0)]
            OBVIOUS
          <5>2. e.p /\ e.u /\ t.p /\ t.addr = page /\ t.u
            <6>1. e.p /\ e.u /\ t = UserEntry
              BY <3>1, <4>1, <5>1, Zenon
            <6> QED
              BY <6>1 DEF UserEntry
          <5>3. Walk(pgdir, 0) = {[pa |-> t.addr, u |-> e.u /\ t.u]}
            BY <5>1, <5>2, Zenon DEF Walk
          <5>4. TRUE = (e.u /\ t.u)
            BY <5>2, Zenon
          <5> QED
            BY <5>2, <5>3, <5>4, Zenon
        <4> QED
          BY <4>2
      <3>2. CASE ~mem[pgdir][0].p
        BY <3>2, PageZero, Zenon DEF Walk
      <3> QED
        BY <3>1, <3>2
    <2> QED
      BY <2>1, <2>2, <2>3, <2>4 DEF MapsExactly
  <1> QED
    BY <1>1, Invariance, PTL

\* Only want of memory stops the kernel in paging.c: mappages never finds a page
\* mapped ("remap") and kfree never gets what is not a frame.
THEOREM PanicsMemory == Spec => []OnlyMemoryPanics
  <1>1. IInv => OnlyMemoryPanics
    BY Zenon DEF IInv, Phase, OnlyMemoryPanics
  <1> QED
    BY <1>1, Invariance, PTL

=============================================================================
