--------------------------- MODULE SpinlockProofs ---------------------------
(***************************************************************************)
(* The safety properties of Spinlock, proved for every finite set of       *)
(* locks and every bound on nesting and on calls.                          *)
(***************************************************************************)
EXTENDS Spinlock, FiniteSetTheorems, TLAPS

-----------------------------------------------------------------------------
(* What the functions of kernel/spinlock.c do to the CPU record when they  *)
(* are called the way the kernel calls them: inside a critical section     *)
(* none of the sanity checks fires.                                        *)

\* Two CPU records with the same fields are the same.
LEMMA CpuEqual ==
    ASSUME NEW c \in CpuState, NEW d \in CpuState,
           c.iflag = d.iflag, c.ncli = d.ncli, c.intena = d.intena, c.panic = d.panic
    PROVE  c = d
  BY DEF CpuState

\* pushcli from its cli on: interrupts off, one level deeper, the flag noted
\* at the outermost level only.
LEMMA CliEffect ==
    ASSUME NEW c \in CpuState, NEW e \in BOOLEAN
    PROVE  /\ Cli(c, e) \in CpuState
           /\ ~Cli(c, e).iflag
           /\ Cli(c, e).ncli = c.ncli + 1
           /\ Cli(c, e).intena = IF c.ncli = 0 THEN e ELSE c.intena
           /\ Cli(c, e).panic = c.panic
  <1> DEFINE on == IF c.ncli = 0 THEN e ELSE c.intena
  <1>1. on \in BOOLEAN /\ c.ncli + 1 \in Nat
    BY DEF CpuState
  <1>2. Cli(c, e) = [c EXCEPT !.iflag = FALSE, !.intena = on, !.ncli = c.ncli + 1]
    BY DEF Cli
  <1> HIDE DEF on
  <1>3. /\ Cli(c, e) \in CpuState /\ ~Cli(c, e).iflag /\ Cli(c, e).intena = on
        /\ Cli(c, e).ncli = c.ncli + 1 /\ Cli(c, e).panic = c.panic
    BY <1>1, <1>2, Zenon DEF CpuState
  <1> QED
    BY <1>3 DEF on

\* popcli with interrupts off and a level to leave does not panic.
LEMMA PopcliEffect ==
    ASSUME NEW c \in CpuState, ~c.iflag, c.ncli > 0
    PROVE  /\ popcli(c) \in CpuState
           /\ c.ncli = 1 => popcli(c).iflag = c.intena
           /\ c.ncli # 1 => popcli(c).iflag = FALSE /\ ~popcli(c).iflag
           /\ popcli(c).ncli = c.ncli - 1
           /\ popcli(c).intena = c.intena
           /\ popcli(c).panic = c.panic
  <1> DEFINE on == c.ncli - 1 = 0 /\ c.intena
  <1>1. /\ c.ncli \in Nat /\ ~(c.ncli - 1 < 0) /\ c.ncli - 1 \in Nat
        /\ c.intena \in BOOLEAN
    BY DEF CpuState
  <1>2. popcli(c) = [c EXCEPT !.ncli = c.ncli - 1, !.iflag = on]
    BY <1>1 DEF popcli
  <1>3. on \in BOOLEAN /\ (c.ncli = 1 => on = c.intena) /\ (c.ncli # 1 => on = FALSE)
    BY <1>1
  <1> HIDE DEF on
  <1>4. /\ popcli(c) \in CpuState /\ popcli(c).iflag = on /\ popcli(c).ncli = c.ncli - 1
        /\ popcli(c).intena = c.intena /\ popcli(c).panic = c.panic
    BY <1>1, <1>2, <1>3, Zenon DEF CpuState
  <1> QED
    BY <1>3, <1>4

\* Inside a critical section holding() leaves the CPU as it was.
LEMMA HoldingEffect ==
    ASSUME NEW c \in CpuState, ~c.iflag, c.ncli > 0
    PROVE  holding(c) = c
  <1> DEFINE d == pushcli(c)
  <1>1. c.iflag \in BOOLEAN /\ c.ncli \in Nat /\ c.ncli # 0
    BY DEF CpuState
  <1>2. /\ d \in CpuState /\ ~d.iflag /\ d.ncli = c.ncli + 1
        /\ d.intena = c.intena /\ d.panic = c.panic
    BY <1>1, CliEffect DEF pushcli
  <1> HIDE DEF d
  <1>3a. d.ncli > 0
    BY <1>1, <1>2
  <1>3. /\ popcli(d) \in CpuState /\ (d.ncli # 1 => popcli(d).iflag = FALSE)
        /\ popcli(d).ncli = d.ncli - 1 /\ popcli(d).intena = d.intena
        /\ popcli(d).panic = d.panic
    BY <1>2, <1>3a, PopcliEffect, Zenon
  <1>4. popcli(d) = c
    <2>1. d.ncli # 1 /\ d.ncli - 1 = c.ncli
      BY <1>1, <1>2
    <2>2. popcli(d).iflag = FALSE /\ c.iflag = FALSE
      BY <1>1, <1>3, <2>1
    <2> QED
      BY <1>2, <1>3, <2>1, <2>2, CpuEqual, Zenon
  <1> QED
    BY <1>4 DEF holding, d

\* acquire on a free lock is pushcli.
LEMMA AcquireEffect ==
    ASSUME NEW c \in CpuState, NEW e \in BOOLEAN, NEW lk \in LockState, ~lk.locked
    PROVE  AcquireCpu(c, lk, e) = Cli(c, e)
  <1>1. c.ncli \in Nat
    BY DEF CpuState
  <1>2. Cli(c, e) \in CpuState /\ ~Cli(c, e).iflag /\ Cli(c, e).ncli > 0
    BY <1>1, CliEffect
  <1> QED
    BY <1>2, HoldingEffect DEF AcquireCpu, holds

\* release of a lock the CPU holds is popcli.
LEMMA ReleaseEffect ==
    ASSUME NEW c \in CpuState, NEW lk \in LockState, lk.locked, lk.cpu,
           ~c.iflag, c.ncli > 0, Alive(c)
    PROVE  ReleaseCpu(c, lk) = popcli(c)
  BY HoldingEffect DEF ReleaseCpu, holds

-----------------------------------------------------------------------------
(***************************************************************************)
(* The inductive invariant.  The interrupted context k = 1 below a handler *)
(* was interrupted with interrupts on, hence outside every critical        *)
(* section; the eflags a context has read are still the current ones when  *)
(* it executes cli, because iret restores them; and intena is meaningful   *)
(* exactly while ncli > 0, when it is the flag of the running context.     *)
(***************************************************************************)
Interrupted ==
    depth = 2 => /\ Outside(ctx[1]) /\ ctx[1].ambient
                 /\ ctx[2].ret /\ ~ctx[2].ambient
                 /\ ctx[1].pc \in {"pushcli", "acquire"} => ctx[1].eflags

FlagsMeaning ==
    /\ cpu.ncli = 0 => cpu.iflag = Top.ambient
    /\ cpu.ncli > 0 => ~cpu.iflag /\ cpu.intena = Top.ambient
    /\ Top.pc \in {"pushcli", "acquire"} /\ cpu.ncli = 0 => Top.eflags = Top.ambient

Asked ==
    \A k \in 1..depth :
        ctx[k].pc = "acquire" => ctx[k].lk \in Locks /\ ctx[k].lk \notin ctx[k].held

IInv ==
    /\ TypeOK /\ NeverStuck /\ LockOwnership /\ InterruptsOff
    /\ Interrupted /\ FlagsMeaning /\ Asked

-----------------------------------------------------------------------------
\* In a state of the invariant at most one handler is stacked on the thread.
LEMMA DepthRange ==
    ASSUME IInv
    PROVE  /\ depth \in {1, 2} /\ depth \in 1..MaxDepth /\ {1, 2} \subseteq 1..MaxDepth
           /\ 1..depth = {1, depth} /\ Top \in Context
  <1>1. depth \in {1, 2} /\ depth \in 1..MaxDepth
    BY DEF IInv, TypeOK, InterruptsOff
  <1>2. {1, 2} \subseteq 1..MaxDepth
    BY DepthAssumption
  <1>3. 1..depth = {1, depth}
    BY <1>1
  <1> QED
    BY <1>1, <1>2, <1>3 DEF IInv, TypeOK, Top

\* A running context holds finitely many locks, and none exactly when their
\* number is zero.
LEMMA HeldFinite ==
    ASSUME NEW S \in SUBSET Locks
    PROVE  /\ IsFiniteSet(S) /\ Cardinality(S) \in Nat
           /\ Cardinality(S) = 0 <=> S = {}
  BY LocksAssumption, FS_Subset, FS_CardinalityType, FS_EmptySet

\* A step of the running context that leaves the stack of contexts alone
\* preserves the invariant when the new context f agrees with the new CPU
\* and the new lock words.
LEMMA TopStep ==
    ASSUME IInv, NEW f \in Context, depth' = depth, ctx' = [ctx EXCEPT ![depth] = f],
           cpu' \in CpuState, cpu'.panic = NoPanic, lock' \in [Locks -> LockState],
           f.pc # "spin", f.ret = Top.ret, depth = 2 => ~f.ambient,
           \A l \in Locks : /\ lock'[l].locked <=> l \in f.held
                            /\ lock'[l].cpu <=> lock'[l].locked,
           cpu'.ncli = Cardinality(f.held) + f.npush,
           cpu'.ncli = 0 => cpu'.iflag = f.ambient,
           cpu'.ncli > 0 => ~cpu'.iflag /\ cpu'.intena = f.ambient,
           f.pc \in {"pushcli", "acquire"} /\ cpu'.ncli = 0 => f.eflags = f.ambient,
           f.pc = "acquire" => f.lk \in Locks /\ f.lk \notin f.held
    PROVE  IInv'
  <1>1. /\ depth \in {1, 2} /\ depth \in 1..MaxDepth /\ {1, 2} \subseteq 1..MaxDepth
        /\ 1..depth = {1, depth}
    BY DepthRange
  <1>2. TypeOK /\ NeverStuck /\ LockOwnership /\ InterruptsOff /\ Interrupted /\ Asked
    BY DEF IInv
  <1>3. ctx' \in [1..MaxDepth -> Context] /\ ctx'[depth] = f
    BY <1>1, <1>2 DEF TypeOK
  <1>4. depth = 2 => ctx'[1] = ctx[1]
    BY <1>1, <1>2 DEF TypeOK
  <1>5. Top' = f
    BY <1>3 DEF Top
  <1>6. TypeOK'
    BY <1>1, <1>3 DEF TypeOK
  <1>7. NeverStuck'
    <2>1. \A k \in {1, depth} : ctx'[k].pc # "spin"
      BY <1>1, <1>2, <1>3, <1>4 DEF NeverStuck
    <2> QED
      BY <1>1, <2>1 DEF NeverStuck
  <1>8. LockOwnership'
    <2>1. \A k \in {1, depth} : k < depth => ctx'[k].held = {}
      BY <1>1, <1>2, <1>4 DEF LockOwnership
    <2>2. \A l \in Locks : /\ lock'[l].locked <=> l \in Top'.held
                           /\ lock'[l].cpu <=> lock'[l].locked
      BY <1>5, Zenon
    <2>3. \A k \in 1..depth' : k < depth' => ctx'[k].held = {}
      BY <1>1, <2>1
    <2> QED
      BY <2>2, <2>3, Zenon DEF LockOwnership
  <1>9. cpu'.ncli \in Nat /\ cpu'.iflag \in BOOLEAN
    BY DEF CpuState
  <1>10. InterruptsOff'
    BY <1>1, <1>5, <1>9 DEF InterruptsOff
  <1>11. Interrupted'
    <2>1. CASE depth = 1
      BY <2>1 DEF Interrupted
    <2>2. CASE depth = 2
      <3>1. ctx'[2] = f /\ ctx'[1] = ctx[1] /\ Top = ctx[2]
        BY <1>3, <1>4, <2>2 DEF Top
      <3> QED
        BY <1>2, <2>2, <3>1, Zenon DEF Interrupted, Outside
    <2> QED
      BY <1>1, <2>1, <2>2
  <1>12. FlagsMeaning'
    BY <1>5 DEF FlagsMeaning
  <1>13. Asked'
    <2>1. \A k \in {1, depth} :
             ctx'[k].pc = "acquire" => ctx'[k].lk \in Locks /\ ctx'[k].lk \notin ctx'[k].held
      BY <1>1, <1>2, <1>3, <1>4 DEF Asked
    <2> QED
      BY <1>1, <2>1 DEF Asked
  <1> QED
    BY <1>6, <1>7, <1>8, <1>10, <1>11, <1>12, <1>13, Zenon DEF IInv

-----------------------------------------------------------------------------
(* One lemma per action: each preserves the invariant.                     *)

\* At boot nothing is held and interrupts are off, so the invariant holds.
LEMMA InitIInv == Init => IInv
  <1> SUFFICES ASSUME Init PROVE IInv
    OBVIOUS
  <1>1. depth = 1 /\ depth \in 1..MaxDepth /\ 1..depth = {1}
    BY DepthAssumption DEF Init
  <1>2. NewContext(FALSE) \in Context
    BY CallsAssumption DEF NewContext, Context
  <1>3. ctx \in [1..MaxDepth -> Context] /\ ctx[1] = NewContext(FALSE) /\ Top = ctx[1]
    BY <1>1, <1>2, Zenon DEF Init, Top
  <1>4. /\ cpu \in CpuState /\ cpu.panic = NoPanic /\ cpu.ncli = 0
        /\ ~cpu.iflag
    BY DEF Init, CpuBoot, CpuState
  <1>5. lock \in [Locks -> LockState]
        /\ \A l \in Locks : lock[l].locked = FALSE /\ lock[l].cpu = FALSE
    BY DEF Init, initlock, LockState
  <1>6. Top.pc = "run" /\ Top.held = {} /\ Top.npush = 0 /\ Top.ambient = cpu.iflag
    BY <1>3 DEF NewContext, Init, CpuBoot
  <1>7. TypeOK
    BY <1>1, <1>3, <1>4, <1>5 DEF TypeOK
  <1>8. NeverStuck /\ Asked
    BY <1>1, <1>3, <1>4, <1>6, Zenon DEF NeverStuck, Asked
  <1>9. LockOwnership
    BY <1>1, <1>3, <1>5, <1>6, Zenon DEF LockOwnership
  <1>10. InterruptsOff
    <2>1. Cardinality(Top.held) = 0
      BY <1>6, FS_EmptySet, Zenon
    <2> QED
      BY <1>1, <1>4, <1>6, <2>1 DEF InterruptsOff
  <1>11. Interrupted /\ FlagsMeaning
    BY <1>1, <1>4, <1>6 DEF Interrupted, FlagsMeaning
  <1> QED
    BY <1>7, <1>8, <1>9, <1>10, <1>11 DEF IInv

\* What the invariant says of the running context, for the lemmas below.
LEMMA TopFacts ==
    ASSUME IInv
    PROVE  /\ Top \in Context /\ Top = ctx[depth] /\ Top.held \in SUBSET Locks
           /\ cpu \in CpuState /\ cpu.panic = NoPanic
           /\ cpu.ncli \in Nat /\ cpu.iflag \in BOOLEAN /\ cpu.intena \in BOOLEAN
           /\ lock \in [Locks -> LockState]
           /\ \A l \in Locks : /\ lock[l].locked <=> l \in Top.held
                               /\ lock[l].cpu <=> lock[l].locked
           /\ cpu.ncli = Cardinality(Top.held) + Top.npush
           /\ Cardinality(Top.held) \in Nat /\ Top.npush \in Nat
           /\ depth = 2 => ~Top.ambient
           /\ cpu.ncli = 0 => cpu.iflag = Top.ambient
           /\ cpu.ncli > 0 => ~cpu.iflag /\ cpu.intena = Top.ambient
           /\ Top.pc \in {"pushcli", "acquire"} /\ cpu.ncli = 0 => Top.eflags = Top.ambient
           /\ Top.pc = "acquire" => Top.lk \in Locks /\ Top.lk \notin Top.held
  <1>1. depth \in {1, 2} /\ Top \in Context /\ depth \in 1..depth
    BY DepthRange
  <1>2. Top = ctx[depth] /\ Top.held \in SUBSET Locks /\ Top.npush \in Nat
    BY <1>1 DEF Top, Context
  <1>3. /\ cpu \in CpuState /\ cpu.panic = NoPanic /\ lock \in [Locks -> LockState]
        /\ cpu.ncli \in Nat /\ cpu.iflag \in BOOLEAN /\ cpu.intena \in BOOLEAN
    BY DEF IInv, TypeOK, NeverStuck, CpuState
  <1>4. \A l \in Locks : /\ lock[l].locked <=> l \in Top.held
                         /\ lock[l].cpu <=> lock[l].locked
    BY Zenon DEF IInv, LockOwnership
  <1>5. cpu.ncli = Cardinality(Top.held) + Top.npush /\ Cardinality(Top.held) \in Nat
    BY <1>2, HeldFinite, Zenon DEF IInv, InterruptsOff
  <1>6. depth = 2 => ~Top.ambient
    BY <1>2 DEF IInv, Interrupted
  <1>7. /\ cpu.ncli = 0 => cpu.iflag = Top.ambient
        /\ cpu.ncli > 0 => ~cpu.iflag /\ cpu.intena = Top.ambient
        /\ Top.pc \in {"pushcli", "acquire"} /\ cpu.ncli = 0 => Top.eflags = Top.ambient
    BY DEF IInv, FlagsMeaning
  <1>8. Top.pc = "acquire" => Top.lk \in Locks /\ Top.lk \notin Top.held
    BY <1>1, <1>2 DEF IInv, Asked
  <1> QED
    BY <1>1, <1>2, <1>3, <1>4, <1>5, <1>6, <1>7, <1>8, Zenon

\* Giving something back changes at most the call count of a context.
LEMMA ShrunkEffect ==
    ASSUME NEW g \in Context
    PROVE  /\ Shrunk(g) \in Context /\ Shrunk(g).pc = g.pc /\ Shrunk(g).held = g.held
           /\ Shrunk(g).npush = g.npush /\ Shrunk(g).ret = g.ret
           /\ Shrunk(g).ambient = g.ambient
  <1> DEFINE n == IF Outside(g) THEN 0 ELSE g.calls
  <1>1. n \in 0..MaxCalls
    BY CallsAssumption DEF Context
  <1>2. Shrunk(g) = [g EXCEPT !.calls = n]
    BY DEF Shrunk
  <1> HIDE DEF n
  <1> QED
    BY <1>1, <1>2 DEF Context

\* Reading eflags at the start of pushcli.
LEMMA PushcliStartIInv == IInv /\ PushcliStart => IInv'
  <1> SUFFICES ASSUME IInv, PushcliStart PROVE IInv'
    OBVIOUS
  <1> DEFINE f == [Top EXCEPT !.pc = "pushcli", !.eflags = cpu.iflag, !.calls = @ + 1]
  <1>1. Top.calls + 1 \in 0..MaxCalls
    BY TopFacts, CallsAssumption DEF PushcliStart, Context
  <1>2. /\ f \in Context /\ f.pc = "pushcli" /\ f.eflags = cpu.iflag /\ f.held = Top.held
        /\ f.npush = Top.npush /\ f.ret = Top.ret /\ f.ambient = Top.ambient
    BY <1>1, TopFacts, Zenon DEF Context
  <1>3. ctx' = [ctx EXCEPT ![depth] = f]
    BY TopFacts, Zenon DEF PushcliStart
  <1>4. cpu' = cpu /\ lock' = lock /\ depth' = depth
    BY DEF PushcliStart
  <1> HIDE DEF f
  <1> QED
    BY <1>2, <1>3, <1>4, TopFacts, TopStep, Zenon

\* The cli of pushcli and what follows.
LEMMA PushcliEndIInv == IInv /\ PushcliEnd => IInv'
  <1> SUFFICES ASSUME IInv, PushcliEnd PROVE IInv'
    OBVIOUS
  <1> DEFINE f == [Top EXCEPT !.pc = "run", !.npush = @ + 1]
  <1>0. Top \in Context /\ Top.npush + 1 \in Nat
    BY TopFacts
  <1>1. /\ f \in Context /\ f.pc = "run" /\ f.held = Top.held
        /\ f.npush = Top.npush + 1 /\ f.ret = Top.ret /\ f.ambient = Top.ambient
    BY <1>0, Zenon DEF Context
  <1>2. /\ ctx' = [ctx EXCEPT ![depth] = f] /\ lock' = lock /\ depth' = depth
        /\ Top.pc = "pushcli" /\ cpu' = Cli(cpu, Top.eflags)
    BY TopFacts, Zenon DEF PushcliEnd, Running
  <1>3. Top.eflags \in BOOLEAN
    BY TopFacts DEF Context
  <1>3a. cpu \in CpuState
    BY TopFacts, Zenon
  <1>4. /\ cpu' \in CpuState /\ ~cpu'.iflag /\ cpu'.ncli = cpu.ncli + 1
        /\ cpu'.intena = IF cpu.ncli = 0 THEN Top.eflags ELSE cpu.intena
        /\ cpu'.panic = cpu.panic
    BY <1>2, <1>3, <1>3a, CliEffect, Zenon
  <1> HIDE DEF f
  <1>5. cpu'.intena = f.ambient /\ cpu'.ncli > 0 /\ cpu'.ncli # 0
    BY <1>1, <1>2, <1>4, TopFacts
  <1>6. cpu'.ncli = Cardinality(f.held) + f.npush
    BY <1>1, <1>4, TopFacts
  <1> QED
    BY <1>1, <1>2, <1>4, <1>5, <1>6, TopFacts, TopStep, Zenon

\* popcli by a context with an outstanding pushcli.
LEMMA PopcliIInv == IInv /\ Popcli => IInv'
  <1> SUFFICES ASSUME IInv, Popcli PROVE IInv'
    OBVIOUS
  <1> DEFINE g == [Top EXCEPT !.npush = @ - 1]
             f == Shrunk(g)
  <1>1. Top.npush - 1 \in Nat /\ Top.pc = "run" /\ cpu.ncli > 0
    BY TopFacts DEF Popcli, Running
  <1>2. /\ g \in Context /\ g.pc = "run" /\ g.held = Top.held
        /\ g.npush = Top.npush - 1 /\ g.ret = Top.ret /\ g.ambient = Top.ambient
    BY <1>1, TopFacts, Zenon DEF Context
  <1>3. /\ ctx' = [ctx EXCEPT ![depth] = f] /\ lock' = lock /\ depth' = depth
        /\ cpu' = popcli(cpu)
    BY DEF Popcli
  <1> HIDE DEF g
  <1>4. /\ f \in Context /\ f.pc = "run" /\ f.held = Top.held
        /\ f.npush = Top.npush - 1 /\ f.ret = Top.ret /\ f.ambient = Top.ambient
    BY <1>2, ShrunkEffect, Zenon
  <1> HIDE DEF f
  <1>5. /\ cpu' \in CpuState /\ (cpu.ncli = 1 => cpu'.iflag = cpu.intena)
        /\ (cpu.ncli # 1 => ~cpu'.iflag)
        /\ cpu'.ncli = cpu.ncli - 1 /\ cpu'.intena = cpu.intena /\ cpu'.panic = cpu.panic
    BY <1>1, <1>3, TopFacts, PopcliEffect, Zenon
  <1>6. cpu.intena = f.ambient /\ cpu.intena \in BOOLEAN /\ cpu.ncli \in Nat
    BY <1>1, <1>4, TopFacts, Zenon
  <1>7. cpu'.ncli = 0 => cpu'.iflag = f.ambient
    BY <1>5, <1>6
  <1>8. cpu'.ncli > 0 => ~cpu'.iflag /\ cpu'.intena = f.ambient
    BY <1>5, <1>6
  <1>9. cpu'.ncli = Cardinality(f.held) + f.npush
    BY <1>4, <1>5, TopFacts
  <1> QED
    BY <1>1, <1>3, <1>4, <1>5, <1>7, <1>8, <1>9, TopFacts, TopStep, Zenon

\* Reading eflags at the start of acquire.
LEMMA AcquireStartIInv ==
    ASSUME NEW l \in Locks
    PROVE  IInv /\ AcquireStart(l) => IInv'
  <1> SUFFICES ASSUME IInv, AcquireStart(l) PROVE IInv'
    OBVIOUS
  <1> DEFINE f == [Top EXCEPT !.pc = "acquire", !.lk = l, !.eflags = cpu.iflag,
                              !.calls = @ + 1]
  <1>1. Top.calls + 1 \in 0..MaxCalls
    BY TopFacts, CallsAssumption DEF AcquireStart, Context
  <1>2. /\ f \in Context /\ f.pc = "acquire" /\ f.lk = l /\ f.eflags = cpu.iflag
        /\ f.held = Top.held /\ f.npush = Top.npush /\ f.ret = Top.ret
        /\ f.ambient = Top.ambient
    BY <1>1, TopFacts, Zenon DEF Context
  <1>3. /\ ctx' = [ctx EXCEPT ![depth] = f] /\ cpu' = cpu /\ lock' = lock
        /\ depth' = depth /\ l \notin Top.held
    BY TopFacts, Zenon DEF AcquireStart
  <1> HIDE DEF f
  <1>4. /\ f.pc # "spin" /\ f.pc = "acquire" => f.lk \in Locks /\ f.lk \notin f.held
        /\ cpu'.ncli = Cardinality(f.held) + f.npush
        /\ depth = 2 => ~f.ambient
    BY <1>2, <1>3, TopFacts, Zenon
  <1>5. /\ cpu' \in CpuState /\ cpu'.panic = NoPanic /\ lock' \in [Locks -> LockState]
        /\ \A k \in Locks : /\ lock'[k].locked <=> k \in f.held
                            /\ lock'[k].cpu <=> lock'[k].locked
    BY <1>2, <1>3, TopFacts, Zenon
  <1>6. /\ cpu'.ncli = 0 => cpu'.iflag = f.ambient /\ f.eflags = f.ambient
        /\ cpu'.ncli > 0 => ~cpu'.iflag /\ cpu'.intena = f.ambient
    BY <1>2, <1>3, TopFacts, Zenon
  <1> QED
    BY <1>2, <1>3, <1>4, <1>5, <1>6, TopStep, Zenon

\* The rest of acquire finds the lock free, because the running context would
\* have to hold it otherwise.
LEMMA AcquireEndIInv == IInv /\ AcquireEnd => IInv'
  <1> SUFFICES ASSUME IInv, AcquireEnd PROVE IInv'
    OBVIOUS
  <1> DEFINE l == Top.lk
             f == [Top EXCEPT !.pc = "run", !.held = @ \cup {l}]
  <1>1. Top.pc = "acquire" /\ l \in Locks /\ l \notin Top.held
    BY TopFacts, Zenon DEF AcquireEnd, Running
  <1>2. lock[l] \in LockState /\ ~lock[l].locked
    BY <1>1, TopFacts, Zenon
  <1>3. Top.eflags \in BOOLEAN
    BY TopFacts DEF Context
  <1>4. cpu' = Cli(cpu, Top.eflags)
    BY <1>2, <1>3, TopFacts, AcquireEffect DEF AcquireEnd
  <1>4a. cpu \in CpuState
    BY TopFacts, Zenon
  <1>5. /\ cpu' \in CpuState /\ ~cpu'.iflag /\ cpu'.ncli = cpu.ncli + 1
        /\ cpu'.intena = IF cpu.ncli = 0 THEN Top.eflags ELSE cpu.intena
        /\ cpu'.panic = cpu.panic
    BY <1>3, <1>4, <1>4a, CliEffect, Zenon
  <1>6. Alive(cpu')
    BY <1>5, TopFacts, Zenon DEF Alive
  <1>7. /\ lock' = [lock EXCEPT ![l] = Taken] /\ depth' = depth
        /\ ctx' = [ctx EXCEPT ![depth] = f]
    BY <1>2, <1>6, TopFacts, Zenon DEF AcquireEnd
  <1>8. /\ f \in Context /\ f.pc = "run" /\ f.held = Top.held \cup {l}
        /\ f.npush = Top.npush /\ f.ret = Top.ret /\ f.ambient = Top.ambient
    BY <1>1, TopFacts, Zenon DEF Context
  <1> HIDE DEF l, f
  <1>9. lock' \in [Locks -> LockState]
        /\ \A m \in Locks : /\ lock'[m].locked <=> m \in f.held
                            /\ lock'[m].cpu <=> lock'[m].locked
    BY <1>1, <1>7, <1>8, TopFacts, Zenon DEF Taken, LockState
  <1>10. Cardinality(f.held) = Cardinality(Top.held) + 1
    BY <1>1, <1>8, TopFacts, HeldFinite, FS_AddElement
  <1>11. cpu'.intena = f.ambient /\ cpu'.ncli > 0 /\ cpu'.ncli # 0
    BY <1>1, <1>5, <1>8, TopFacts
  <1>12. cpu'.ncli = Cardinality(f.held) + f.npush
    BY <1>5, <1>8, <1>10, TopFacts
  <1> QED
    BY <1>5, <1>7, <1>8, <1>9, <1>11, <1>12, TopFacts, TopStep, Zenon

\* release of a held lock.
LEMMA ReleaseIInv ==
    ASSUME NEW l \in Locks
    PROVE  IInv /\ Release(l) => IInv'
  <1> SUFFICES ASSUME IInv, Release(l) PROVE IInv'
    OBVIOUS
  <1> DEFINE g == [Top EXCEPT !.held = @ \ {l}]
             f == Shrunk(g)
  <1>1. l \in Top.held /\ Top.pc = "run"
    BY DEF Release, Running
  <1>2. Cardinality(Top.held \ {l}) = Cardinality(Top.held) - 1
    BY <1>1, TopFacts, HeldFinite, FS_RemoveElement
  <1>3. cpu.ncli > 0 /\ ~cpu.iflag
    <2>1. Cardinality(Top.held) # 0
      BY <1>1, TopFacts, HeldFinite, Zenon
    <2> QED
      BY <2>1, TopFacts
  <1>4. /\ g \in Context /\ g.pc = "run" /\ g.held = Top.held \ {l}
        /\ g.npush = Top.npush /\ g.ret = Top.ret /\ g.ambient = Top.ambient
    BY <1>1, TopFacts, Zenon DEF Context
  <1>5. lock[l] \in LockState /\ lock[l].locked /\ lock[l].cpu
    BY <1>1, TopFacts, Zenon
  <1>6. cpu' = popcli(cpu)
    BY <1>3, <1>5, TopFacts, ReleaseEffect, Zenon DEF Release, Alive
  <1>7. /\ cpu' \in CpuState /\ (cpu.ncli = 1 => cpu'.iflag = cpu.intena)
        /\ (cpu.ncli # 1 => ~cpu'.iflag)
        /\ cpu'.ncli = cpu.ncli - 1 /\ cpu'.intena = cpu.intena /\ cpu'.panic = cpu.panic
    BY <1>3, <1>6, TopFacts, PopcliEffect, Zenon
  <1>8. /\ ctx' = [ctx EXCEPT ![depth] = f] /\ depth' = depth
        /\ lock' = [lock EXCEPT ![l] = Dropped]
    BY <1>7, TopFacts, Zenon DEF Release, Alive
  <1> HIDE DEF g
  <1>9. /\ f \in Context /\ f.pc = "run" /\ f.held = Top.held \ {l}
        /\ f.npush = Top.npush /\ f.ret = Top.ret /\ f.ambient = Top.ambient
    BY <1>4, ShrunkEffect
  <1> HIDE DEF f
  <1>10. lock' \in [Locks -> LockState]
         /\ \A m \in Locks : /\ lock'[m].locked <=> m \in f.held
                             /\ lock'[m].cpu <=> lock'[m].locked
    BY <1>1, <1>8, <1>9, TopFacts DEF Dropped, LockState
  <1>11. cpu.intena = f.ambient /\ cpu.intena \in BOOLEAN /\ cpu.ncli \in Nat
    BY <1>3, <1>9, TopFacts
  <1>12. cpu'.ncli = 0 => cpu'.iflag = f.ambient
    BY <1>7, <1>11
  <1>13. cpu'.ncli > 0 => ~cpu'.iflag /\ cpu'.intena = f.ambient
    BY <1>7, <1>11
  <1>14. cpu'.ncli = Cardinality(f.held) + f.npush
    BY <1>2, <1>7, <1>9, TopFacts
  <1> QED
    <2>1. /\ f \in Context /\ cpu' \in CpuState /\ cpu'.panic = NoPanic
          /\ f.pc = "run" /\ f.ret = Top.ret /\ (depth = 2 => ~f.ambient)
      BY <1>7, <1>9, TopFacts, Zenon
    <2>2. f.pc # "spin" /\ f.pc \notin {"pushcli", "acquire"} /\ f.pc # "acquire"
      BY <2>1
    <2> QED
      BY <1>8, <1>10, <1>12, <1>13, <1>14, <2>1, <2>2, TopStep, Zenon

\* The scheduler's sti, outside every critical section.
LEMMA StiIInv == IInv /\ Sti => IInv'
  <1> SUFFICES ASSUME IInv, Sti PROVE IInv'
    OBVIOUS
  <1> DEFINE f == [Top EXCEPT !.ambient = TRUE]
  <1>1. depth = 1 /\ Top.held = {} /\ Top.npush = 0 /\ Top.pc = "run"
    BY DEF Sti, Outside, Running
  <1>2. /\ f \in Context /\ f.pc = "run" /\ f.held = Top.held /\ f.npush = Top.npush
        /\ f.ret = Top.ret
    BY <1>1, TopFacts, Zenon DEF Context
  <1>3. /\ ctx' = [ctx EXCEPT ![depth] = f] /\ lock' = lock /\ depth' = depth
        /\ cpu' = [cpu EXCEPT !.iflag = TRUE]
    BY <1>1, TopFacts, Zenon DEF Sti
  <1>4. /\ cpu' \in CpuState /\ cpu'.ncli = cpu.ncli /\ cpu'.panic = cpu.panic
        /\ cpu'.iflag = f.ambient
    BY <1>3, TopFacts, Zenon DEF CpuState, Context
  <1> HIDE DEF f
  <1>5. cpu'.ncli = 0 /\ cpu'.ncli = Cardinality(f.held) + f.npush /\ ~(cpu'.ncli > 0)
    BY <1>1, <1>2, <1>4, TopFacts, FS_EmptySet
  <1>6. lock' = lock /\ depth' = depth /\ depth # 2 /\ ctx' = [ctx EXCEPT ![depth] = f]
    BY <1>1, <1>3
  <1> QED
    BY <1>2, <1>4, <1>5, <1>6, TopFacts, TopStep, Zenon

\* An interrupt is taken only outside critical sections of the thread, and
\* its handler starts with nothing held.
LEMMA InterruptIInv == IInv /\ Interrupt => IInv'
  <1> SUFFICES ASSUME IInv, Interrupt PROVE IInv'
    OBVIOUS
  <1> DEFINE f == NewContext(cpu.iflag)
  <1>1. cpu.iflag /\ cpu.ncli = 0 /\ depth = 1 /\ depth' = 2
    BY DEF Interrupt, IInv, InterruptsOff
  <1>2. {1, 2} \subseteq 1..MaxDepth /\ 1..depth' = {1, 2} /\ depth' \in 1..MaxDepth
    BY <1>1, DepthRange
  <1>3. ctx' = [ctx EXCEPT ![2] = f] /\ lock' = lock
    BY <1>1 DEF Interrupt
  <1>4. /\ f \in Context /\ f.pc = "run" /\ f.held = {} /\ f.npush = 0
        /\ f.ret = cpu.iflag /\ ~f.ambient
    BY CallsAssumption, TopFacts DEF NewContext, Context
  <1>5. cpu' = [cpu EXCEPT !.iflag = FALSE]
    BY DEF Interrupt
  <1> HIDE DEF f
  <1>6. /\ cpu' \in CpuState /\ ~cpu'.iflag /\ cpu'.ncli = cpu.ncli
        /\ cpu'.panic = cpu.panic
    BY <1>5, TopFacts, Zenon DEF CpuState
  <1>7. ctx \in [1..MaxDepth -> Context] /\ Top = ctx[1]
    BY <1>1, Zenon DEF IInv, TypeOK, Top
  <1>8. /\ ctx' \in [1..MaxDepth -> Context] /\ ctx'[1] = Top /\ ctx'[2] = f
        /\ Top' = f
    BY <1>1, <1>2, <1>3, <1>4, <1>7 DEF Top
  <1>9. Top.held = {} /\ Top.npush = 0
    <2>1. Cardinality(Top.held) = 0 /\ Top.npush = 0
      BY <1>1, TopFacts
    <2> QED
      BY <2>1, TopFacts, HeldFinite, Zenon
  <1>10. Top.ambient /\ (Top.pc \in {"pushcli", "acquire"} => Top.eflags)
    <2>1. Top.ambient = cpu.iflag
      BY <1>1, TopFacts, Zenon
    <2>2. Top.pc \in {"pushcli", "acquire"} => Top.eflags = Top.ambient
      BY <1>1, TopFacts, Zenon
    <2> QED
      BY <1>1, <2>1, <2>2, Zenon
  <1>11. TypeOK'
    BY <1>2, <1>3, <1>6, <1>8, TopFacts, Zenon DEF TypeOK
  <1>12. NeverStuck'
    <2>1. Top.pc # "spin"
      BY <1>1, <1>7 DEF IInv, NeverStuck
    <2> QED
      BY <1>2, <1>4, <1>6, <1>8, <2>1, TopFacts DEF NeverStuck
  <1>13. LockOwnership'
    <2>1. \A l \in Locks : /\ lock'[l].locked <=> l \in Top'.held
                           /\ lock'[l].cpu <=> lock'[l].locked
      BY <1>3, <1>4, <1>8, <1>9, TopFacts, Zenon
    <2>2. \A k \in 1..depth' : k < depth' => ctx'[k].held = {}
      BY <1>1, <1>2, <1>8, <1>9
    <2> QED
      BY <2>1, <2>2, Zenon DEF LockOwnership
  <1>14. InterruptsOff'
    <2>1. Cardinality(Top'.held) = 0
      BY <1>4, <1>8, FS_EmptySet, Zenon
    <2> QED
      BY <1>1, <1>4, <1>6, <1>8, <2>1 DEF InterruptsOff
  <1>15. Interrupted'
    BY <1>1, <1>4, <1>8, <1>9, <1>10, Zenon DEF Interrupted, Outside
  <1>16. FlagsMeaning'
    <2>1. Top'.pc = "run" /\ ~Top'.ambient /\ cpu'.ncli = 0
      BY <1>1, <1>4, <1>6, <1>8, Zenon
    <2>2. Top'.ambient \in BOOLEAN /\ cpu'.iflag \in BOOLEAN
      BY <1>4, <1>6, <1>8 DEF Context, CpuState
    <2>3. cpu'.iflag = Top'.ambient
      BY <1>6, <2>1, <2>2, Zenon
    <2> QED
      BY <2>1, <2>3 DEF FlagsMeaning
  <1>17. Asked'
    <2>1. Top.pc = "acquire" => Top.lk \in Locks /\ Top.lk \notin Top.held
      BY TopFacts
    <2> QED
      BY <1>2, <1>4, <1>8, <2>1 DEF Asked
  <1> QED
    BY <1>11, <1>12, <1>13, <1>14, <1>15, <1>16, <1>17, Zenon DEF IInv

\* iret gives the thread back the flag it was interrupted with.
LEMMA IretIInv == IInv /\ Iret => IInv'
  <1> SUFFICES ASSUME IInv, Iret PROVE IInv'
    OBVIOUS
  <1>1. depth = 2 /\ depth' = 1 /\ Top.held = {} /\ Top.npush = 0
    BY DepthRange DEF Iret, Outside
  <1>2. 1 \in 1..MaxDepth /\ 1..depth' = {1} /\ 1 \in 1..depth
    BY <1>1, DepthRange
  <1>3. ctx' = ctx /\ lock' = lock /\ cpu' = [cpu EXCEPT !.iflag = Top.ret]
    BY DEF Iret
  <1>4. /\ Outside(ctx[1]) /\ ctx[1].ambient /\ Top.ret
        /\ (ctx[1].pc \in {"pushcli", "acquire"} => ctx[1].eflags)
    BY <1>1 DEF IInv, Interrupted, Top
  <1>5. /\ cpu' \in CpuState /\ cpu'.iflag = Top.ret /\ cpu'.ncli = cpu.ncli
        /\ cpu'.panic = cpu.panic
    BY <1>3, TopFacts DEF CpuState, Context
  <1>6. ctx \in [1..MaxDepth -> Context] /\ Top' = ctx[1] /\ ctx[1] \in Context
    BY <1>1, <1>2, <1>3 DEF IInv, TypeOK, Top
  <1>7. cpu.ncli = 0
    <2>1. Cardinality(Top.held) = 0
      BY <1>1, FS_EmptySet, Zenon
    <2> QED
      BY <1>1, <2>1, TopFacts
  <1>8. TypeOK'
    BY <1>1, <1>2, <1>3, <1>5, <1>6, TopFacts, Zenon DEF TypeOK
  <1>9. NeverStuck'
    BY <1>2, <1>3, <1>5, TopFacts, Zenon DEF NeverStuck, IInv
  <1>10. LockOwnership'
    <2>1. \A l \in Locks : /\ lock'[l].locked <=> l \in Top'.held
                           /\ lock'[l].cpu <=> lock'[l].locked
      BY <1>1, <1>3, <1>4, <1>6, TopFacts, Zenon DEF Outside
    <2>2. \A k \in 1..depth' : k < depth' => ctx'[k].held = {}
      BY <1>1, <1>2
    <2> QED
      BY <2>1, <2>2, Zenon DEF LockOwnership
  <1>11. InterruptsOff'
    <2>1. Cardinality(Top'.held) = 0 /\ Top'.npush = 0
      BY <1>4, <1>6, FS_EmptySet, Zenon DEF Outside
    <2> QED
      BY <1>1, <1>5, <1>7, <2>1 DEF InterruptsOff
  <1>12. Interrupted'
    BY <1>1 DEF Interrupted
  <1>13. FlagsMeaning'
    <2>1. Top'.ambient = TRUE /\ cpu'.iflag = TRUE /\ cpu'.ncli = 0
      BY <1>4, <1>5, <1>6, <1>7, TopFacts, Zenon DEF Context
    <2>2. Top'.pc \in {"pushcli", "acquire"} => Top'.eflags = TRUE
      BY <1>4, <1>6, Zenon DEF Context
    <2>3. /\ cpu'.iflag = Top'.ambient /\ cpu'.ncli = 0
          /\ (Top'.pc \in {"pushcli", "acquire"} => Top'.eflags = Top'.ambient)
      BY <2>1, <2>2, Zenon
    <2>4. ~(cpu'.ncli > 0)
      BY <2>3
    <2> QED
      BY <2>3, <2>4, Zenon DEF FlagsMeaning
  <1>14. Asked'
    BY <1>2, <1>3 DEF Asked, IInv
  <1> QED
    BY <1>8, <1>9, <1>10, <1>11, <1>12, <1>13, <1>14 DEF IInv

-----------------------------------------------------------------------------
(* The theorems.                                                           *)

\* Every step of the contexts and of the hardware preserves the invariant.
LEMMA NextIInv == IInv /\ [Next]_vars => IInv'
  <1> SUFFICES ASSUME IInv, [Next]_vars PROVE IInv'
    OBVIOUS
  <1>1. CASE Sti
    BY <1>1, StiIInv, Zenon
  <1>2. CASE Interrupt
    BY <1>2, InterruptIInv
  <1>3. CASE Iret
    BY <1>3, IretIInv
  <1>4. CASE PushcliStart
    BY <1>4, PushcliStartIInv
  <1>5. CASE PushcliEnd
    BY <1>5, PushcliEndIInv, Zenon
  <1>6. CASE Popcli
    BY <1>6, PopcliIInv, Zenon
  <1>7. CASE AcquireEnd
    BY <1>7, AcquireEndIInv
  <1>8. CASE \E l \in Locks : AcquireStart(l) \/ Release(l)
    BY <1>8, AcquireStartIInv, ReleaseIInv
  <1>9. CASE UNCHANGED vars
    BY <1>9 DEF vars, IInv, TypeOK, NeverStuck, LockOwnership, InterruptsOff,
                Interrupted, FlagsMeaning, Asked, Top, Outside
  <1> QED
    BY <1>1, <1>2, <1>3, <1>4, <1>5, <1>6, <1>7, <1>8, <1>9, Zenon DEF Next

\* The strengthened invariant holds in every reachable state.
THEOREM Invariance == Spec => []IInv
  BY InitIInv, NextIInv, PTL DEF Spec

\* The lock words, the CPU record and the stack of contexts have their types:
\* in particular ncli never becomes negative.
THEOREM TypeCorrect == Spec => []TypeOK
  <1>1. IInv => TypeOK
    BY DEF IInv
  <1> QED
    BY <1>1, Invariance, PTL

\* No check of spinlock.c panics and acquire() never spins, for every set of
\* locks and every nesting of critical sections.
THEOREM NoPanicNoSpin == Spec => []NeverStuck
  <1>1. IInv => NeverStuck
    BY DEF IInv
  <1> QED
    BY <1>1, Invariance, PTL

\* A set lock word always belongs to the context that runs.
THEOREM OwnerRuns == Spec => []LockOwnership
  <1>1. IInv => LockOwnership
    BY DEF IInv
  <1> QED
    BY <1>1, Invariance, PTL

\* Interrupts are off inside every critical section, ncli counts the open
\* ones and handlers do not nest.
THEOREM CriticalSectionsAtomic == Spec => []InterruptsOff
  <1>1. IInv => InterruptsOff
    BY DEF IInv
  <1> QED
    BY <1>1, Invariance, PTL

\* Matched pushcli/popcli and acquire/release leave EFLAGS.IF as the context
\* had it, although intena is shared by all contexts.
THEOREM InterruptFlagRestored == Spec => []FlagRestored
  <1>1. IInv => FlagRestored
    BY DEF IInv, FlagsMeaning, FlagRestored
  <1> QED
    BY <1>1, Invariance, PTL

-----------------------------------------------------------------------------
(***************************************************************************)
(* Refinement: the lock code implements the mutexes of IrqMutex.  The      *)
(* abstract guard of Take looks at every context, so the mapping needs one *)
(* more invariant: contexts that are not running own nothing.              *)
(***************************************************************************)
OnlyTopOwns == \A k \in 1..MaxDepth : k # depth => ctx[k].held = {}

Owned == [k \in 1..MaxDepth |-> ctx[k].held]

\* A step that changes no held set and does not switch contexts is invisible.
LEMMA SameHeld ==
    ASSUME OnlyTopOwns, depth' = depth,
           \A k \in 1..MaxDepth : ctx'[k].held = ctx[k].held
    PROVE  OnlyTopOwns' /\ UNCHANGED Mutex!vars
  BY DEF OnlyTopOwns, Mutex!vars

\* The held sets after a step that replaces the running context.
LEMMA TopHeld ==
    ASSUME IInv, NEW f \in Context, ctx' = [ctx EXCEPT ![depth] = f]
    PROVE  /\ \A k \in 1..MaxDepth : k # depth => ctx'[k].held = ctx[k].held
           /\ ctx'[depth].held = f.held
           /\ Owned' = [Owned EXCEPT ![depth] = f.held]
  <1>1. ctx \in [1..MaxDepth -> Context] /\ depth \in 1..MaxDepth
    BY DEF IInv, TypeOK
  <1>2. \A k \in 1..MaxDepth : ctx'[k] = IF k = depth THEN f ELSE ctx[k]
    BY <1>1
  <1> QED
    BY <1>1, <1>2, Zenon DEF Owned

\* What acquire and release do to the stack of contexts.
LEMMA AcquireEndHeld ==
    ASSUME IInv, AcquireEnd
    PROVE  \E f \in Context : /\ ctx' = [ctx EXCEPT ![depth] = f] /\ depth' = depth
                              /\ Top.lk \in Locks /\ Top.lk \notin Top.held
                              /\ f.held = Top.held \cup {Top.lk}
  <1> DEFINE l == Top.lk
             f == [Top EXCEPT !.pc = "run", !.held = @ \cup {l}]
  <1>1. Top.pc = "acquire" /\ l \in Locks /\ l \notin Top.held
    BY TopFacts DEF AcquireEnd, Running
  <1>2. lock[l] \in LockState /\ ~lock[l].locked /\ Top.eflags \in BOOLEAN
    BY <1>1, TopFacts DEF Context
  <1>3. cpu' = Cli(cpu, Top.eflags)
    BY <1>2, TopFacts, AcquireEffect DEF AcquireEnd
  <1>3a. cpu \in CpuState /\ cpu.panic = NoPanic
    BY TopFacts, Zenon
  <1>4. Alive(cpu')
    BY <1>2, <1>3, <1>3a, CliEffect, Zenon DEF Alive
  <1>5. depth' = depth /\ ctx' = [ctx EXCEPT ![depth] = f]
    BY <1>2, <1>4, TopFacts, Zenon DEF AcquireEnd
  <1>6. f \in Context /\ f.held = Top.held \cup {l}
    BY <1>1, TopFacts, Zenon DEF Context
  <1> QED
    BY <1>1, <1>5, <1>6, Zenon

\* release takes one lock out of the held set of the running context.
LEMMA ReleaseHeld ==
    ASSUME IInv, NEW l \in Locks, Release(l)
    PROVE  \E f \in Context : /\ ctx' = [ctx EXCEPT ![depth] = f] /\ depth' = depth
                              /\ l \in Top.held /\ f.held = Top.held \ {l}
  <1> DEFINE g == [Top EXCEPT !.held = @ \ {l}]
  <1>1. g \in Context /\ g.held = Top.held \ {l}
    BY TopFacts DEF Context
  <1>2. ctx' = [ctx EXCEPT ![depth] = Shrunk(g)] /\ depth' = depth /\ l \in Top.held
    BY DEF Release
  <1> HIDE DEF g
  <1> QED
    BY <1>1, <1>2, ShrunkEffect, Zenon

\* popcli leaves every held set as it is.
LEMMA PopcliHeld ==
    ASSUME IInv, Popcli
    PROVE  \E f \in Context : /\ ctx' = [ctx EXCEPT ![depth] = f] /\ depth' = depth
                              /\ f.held = Top.held
  <1> DEFINE g == [Top EXCEPT !.npush = @ - 1]
  <1>1. Top.npush - 1 \in Nat
    BY TopFacts DEF Popcli
  <1>2. g \in Context /\ g.held = Top.held
    BY <1>1, TopFacts DEF Context
  <1>3. ctx' = [ctx EXCEPT ![depth] = Shrunk(g)] /\ depth' = depth
    BY DEF Popcli
  <1> HIDE DEF g
  <1>4. Shrunk(g) \in Context /\ Shrunk(g).held = g.held
    BY <1>2, ShrunkEffect, Zenon
  <1> QED
    BY <1>2, <1>3, <1>4, Zenon

\* Every step maps to a step of IrqMutex or leaves its variables alone.
LEMMA MutexStep == IInv /\ OnlyTopOwns /\ [Next]_vars
                   => OnlyTopOwns' /\ [Mutex!Next]_(Mutex!vars)
  <1> SUFFICES ASSUME IInv, OnlyTopOwns, [Next]_vars
               PROVE  OnlyTopOwns' /\ [Mutex!Next]_(Mutex!vars)
    OBVIOUS
  <1>0. /\ ctx \in [1..MaxDepth -> Context] /\ depth \in 1..MaxDepth
        /\ Top = ctx[depth] /\ {1, 2} \subseteq 1..MaxDepth /\ depth \in {1, 2}
    BY DepthRange DEF IInv, TypeOK, Top
  <1>1. CASE Sti
    <2>1. depth' = depth /\ \A k \in 1..MaxDepth : ctx'[k].held = ctx[k].held
      BY <1>0, <1>1 DEF Sti, Context
    <2> QED
      BY <2>1, SameHeld
  <1>2. CASE PushcliStart
    <2>1. depth' = depth /\ \A k \in 1..MaxDepth : ctx'[k].held = ctx[k].held
      BY <1>0, <1>2 DEF PushcliStart, Context
    <2> QED
      BY <2>1, SameHeld
  <1>3. CASE PushcliEnd
    <2>1. depth' = depth /\ \A k \in 1..MaxDepth : ctx'[k].held = ctx[k].held
      BY <1>0, <1>3 DEF PushcliEnd, Context
    <2> QED
      BY <2>1, SameHeld
  <1>4. CASE Popcli
    <2>1. PICK f \in Context : /\ ctx' = [ctx EXCEPT ![depth] = f] /\ depth' = depth
                               /\ f.held = Top.held
      BY <1>4, PopcliHeld
    <2>2. \A k \in 1..MaxDepth : ctx'[k].held = ctx[k].held
      BY <1>0, <2>1, TopHeld
    <2> QED
      BY <2>1, <2>2, SameHeld, Zenon
  <1>5. ASSUME NEW l \in Locks, AcquireStart(l)
        PROVE  OnlyTopOwns' /\ [Mutex!Next]_(Mutex!vars)
    <2>1. depth' = depth /\ \A k \in 1..MaxDepth : ctx'[k].held = ctx[k].held
      BY <1>0, <1>5 DEF AcquireStart, Context
    <2> QED
      BY <2>1, SameHeld, Zenon
  <1>6. CASE AcquireEnd
    <2>1. PICK f \in Context : /\ ctx' = [ctx EXCEPT ![depth] = f] /\ depth' = depth
                               /\ Top.lk \in Locks /\ Top.lk \notin Top.held
                               /\ f.held = Top.held \cup {Top.lk}
      BY <1>6, AcquireEndHeld
    <2>2. /\ \A k \in 1..MaxDepth : k # depth => ctx'[k].held = ctx[k].held
          /\ Owned' = [Owned EXCEPT ![depth] = f.held]
      BY <2>1, TopHeld, Zenon
    <2>3. OnlyTopOwns'
      BY <2>1, <2>2, Zenon DEF OnlyTopOwns
    <2>4. \A k \in 1..MaxDepth : Top.lk \notin Owned[k]
      BY <1>0, <2>1, Zenon DEF OnlyTopOwns, Owned
    <2>5. Owned' = [Owned EXCEPT ![depth] = @ \cup {Top.lk}]
      BY <1>0, <2>1, <2>2, Zenon DEF Owned
    <2>6. PICK l \in Locks : l = Top.lk
      BY <2>1
    <2>7. Mutex!Take(l)
      BY <2>1, <2>4, <2>5, <2>6, Zenon DEF Mutex!Take, Owned
    <2> QED
      BY <2>3, <2>7, Zenon DEF Mutex!Next
  <1>7. ASSUME NEW l \in Locks, Release(l)
        PROVE  OnlyTopOwns' /\ [Mutex!Next]_(Mutex!vars)
    <2>1. PICK f \in Context : /\ ctx' = [ctx EXCEPT ![depth] = f] /\ depth' = depth
                               /\ l \in Top.held /\ f.held = Top.held \ {l}
      BY <1>7, ReleaseHeld
    <2>2. /\ \A k \in 1..MaxDepth : k # depth => ctx'[k].held = ctx[k].held
          /\ Owned' = [Owned EXCEPT ![depth] = f.held]
      BY <2>1, TopHeld, Zenon
    <2>3. OnlyTopOwns'
      BY <2>1, <2>2 DEF OnlyTopOwns
    <2>4. l \in Owned[depth] /\ Owned' = [Owned EXCEPT ![depth] = @ \ {l}]
      BY <1>0, <2>1, <2>2 DEF Owned
    <2>5. Mutex!Give(l)
      BY <2>1, <2>4 DEF Mutex!Give, Owned
    <2> QED
      BY <1>7, <2>3, <2>5 DEF Mutex!Next
  <1>8. CASE Interrupt
    <2>1. cpu.iflag /\ cpu.ncli = 0 /\ depth = 1 /\ depth' = 2
      BY <1>8 DEF Interrupt, IInv, InterruptsOff
    <2>2. ctx' = [ctx EXCEPT ![2] = NewContext(cpu.iflag)] /\ NewContext(cpu.iflag).held = {}
      BY <1>8, <2>1 DEF Interrupt, NewContext
    <2>3. Cardinality(Top.held) = 0
      BY <2>1, TopFacts
    <2>4. Top.held = {}
      BY <2>3, TopFacts, HeldFinite
    <2>5. \A k \in 1..MaxDepth : ctx[k].held = {} /\ ctx'[k].held = {}
      BY <1>0, <2>1, <2>2, <2>4, Zenon DEF OnlyTopOwns
    <2>6. OnlyTopOwns'
      BY <2>5 DEF OnlyTopOwns
    <2>7. Owned' = Owned
      BY <2>5, Zenon DEF Owned
    <2>8. Mutex!Enter
      BY <2>1, <2>5, <2>7 DEF Mutex!Enter, Owned
    <2> QED
      BY <2>6, <2>8 DEF Mutex!Next
  <1>9. CASE Iret
    <2>1. depth = 2 /\ depth' = 1 /\ Top.held = {} /\ ctx' = ctx
      BY <1>0, <1>9 DEF Iret, Outside
    <2>2. \A k \in 1..MaxDepth : ctx[k].held = {} /\ ctx'[k].held = {}
      BY <1>0, <2>1 DEF OnlyTopOwns
    <2>3. OnlyTopOwns'
      BY <2>2 DEF OnlyTopOwns
    <2>4. Mutex!Leave
      BY <2>1, <2>2 DEF Mutex!Leave
    <2> QED
      BY <2>3, <2>4 DEF Mutex!Next
  <1>10. CASE UNCHANGED vars
    <2>1. depth' = depth /\ \A k \in 1..MaxDepth : ctx'[k].held = ctx[k].held
      BY <1>10 DEF vars
    <2> QED
      BY <2>1, SameHeld
  <1> QED
    BY <1>1, <1>2, <1>3, <1>4, <1>5, <1>6, <1>7, <1>8, <1>9, <1>10, Zenon DEF Next

\* The initial states of the lock code are initial states of IrqMutex.
LEMMA MutexInit == Init => Mutex!Init /\ OnlyTopOwns
  <1> SUFFICES ASSUME Init PROVE Mutex!Init /\ OnlyTopOwns
    OBVIOUS
  <1>1. depth = 1 /\ \A k \in 1..MaxDepth : ctx[k].held = {}
    BY DEF Init, NewContext
  <1> QED
    BY <1>1 DEF Mutex!Init, OnlyTopOwns

\* acquire and release behave as atomic operations on mutexes that no
\* interrupt handler ever finds taken.
THEOREM SpinlockRefinesMutex == Spec => ImplementsMutex
  BY Invariance, MutexInit, MutexStep, PTL DEF Spec, ImplementsMutex, Mutex!Spec
=============================================================================
