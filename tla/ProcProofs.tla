----------------------------- MODULE ProcProofs -----------------------------
(***************************************************************************)
(* The safety properties of Proc and that it implements Lifecycle, proved  *)
(* for every size of the process table and every number of processes.      *)
(***************************************************************************)
EXTENDS Proc, TLAPS

-----------------------------------------------------------------------------
(* What the functions of kernel/spinlock.c do to the CPU record when they  *)
(* are called the way the kernel calls them: inside a critical section     *)
(* none of the sanity checks fires.                                        *)

\* Two CPU records with the same fields are the same.
LEMMA CpuEqual ==
    ASSUME NEW c \in CpuState, NEW d \in CpuState,
           c.iflag = d.iflag, c.ncli = d.ncli, c.intena = d.intena, c.panic = d.panic
    PROVE  c = d
  BY DEF CpuState

\* pushcli from its cli on: interrupts off, one level deeper, the flag noted
\* at the outermost level only.
LEMMA CliEffect ==
    ASSUME NEW c \in CpuState, NEW e \in BOOLEAN
    PROVE  /\ Cli(c, e) \in CpuState
           /\ ~Cli(c, e).iflag
           /\ Cli(c, e).ncli = c.ncli + 1
           /\ Cli(c, e).intena = IF c.ncli = 0 THEN e ELSE c.intena
           /\ Cli(c, e).panic = c.panic
  <1> DEFINE on == IF c.ncli = 0 THEN e ELSE c.intena
  <1>1. on \in BOOLEAN /\ c.ncli + 1 \in Nat
    BY DEF CpuState
  <1>2. Cli(c, e) = [c EXCEPT !.iflag = FALSE, !.intena = on, !.ncli = c.ncli + 1]
    BY DEF Cli
  <1> HIDE DEF on
  <1>3. /\ Cli(c, e) \in CpuState /\ ~Cli(c, e).iflag /\ Cli(c, e).intena = on
        /\ Cli(c, e).ncli = c.ncli + 1 /\ Cli(c, e).panic = c.panic
    BY <1>1, <1>2, Zenon DEF CpuState
  <1> QED
    BY <1>3 DEF on

\* popcli with interrupts off and a level to leave does not panic.
LEMMA PopcliEffect ==
    ASSUME NEW c \in CpuState, ~c.iflag, c.ncli > 0
    PROVE  /\ popcli(c) \in CpuState
           /\ c.ncli = 1 => popcli(c).iflag = c.intena
           /\ c.ncli # 1 => popcli(c).iflag = FALSE /\ ~popcli(c).iflag
           /\ popcli(c).ncli = c.ncli - 1
           /\ popcli(c).intena = c.intena
           /\ popcli(c).panic = c.panic
  <1> DEFINE on == c.ncli - 1 = 0 /\ c.intena
  <1>1. /\ c.ncli \in Nat /\ ~(c.ncli - 1 < 0) /\ c.ncli - 1 \in Nat
        /\ c.intena \in BOOLEAN
    BY DEF CpuState
  <1>2. popcli(c) = [c EXCEPT !.ncli = c.ncli - 1, !.iflag = on]
    BY <1>1 DEF popcli
  <1>3. on \in BOOLEAN /\ (c.ncli = 1 => on = c.intena) /\ (c.ncli # 1 => on = FALSE)
    BY <1>1
  <1> HIDE DEF on
  <1>4. /\ popcli(c) \in CpuState /\ popcli(c).iflag = on /\ popcli(c).ncli = c.ncli - 1
        /\ popcli(c).intena = c.intena /\ popcli(c).panic = c.panic
    BY <1>1, <1>2, <1>3, Zenon DEF CpuState
  <1> QED
    BY <1>3, <1>4

\* Inside a critical section holding() leaves the CPU as it was.
LEMMA HoldingEffect ==
    ASSUME NEW c \in CpuState, ~c.iflag, c.ncli > 0
    PROVE  holding(c) = c
  <1> DEFINE d == pushcli(c)
  <1>1. c.iflag \in BOOLEAN /\ c.ncli \in Nat /\ c.ncli # 0
    BY DEF CpuState
  <1>2. /\ d \in CpuState /\ ~d.iflag /\ d.ncli = c.ncli + 1
        /\ d.intena = c.intena /\ d.panic = c.panic
    BY <1>1, CliEffect DEF pushcli
  <1> HIDE DEF d
  <1>3a. d.ncli > 0
    BY <1>1, <1>2
  <1>3. /\ popcli(d) \in CpuState /\ (d.ncli # 1 => popcli(d).iflag = FALSE)
        /\ popcli(d).ncli = d.ncli - 1 /\ popcli(d).intena = d.intena
        /\ popcli(d).panic = d.panic
    BY <1>2, <1>3a, PopcliEffect, Zenon
  <1>4. popcli(d) = c
    <2>1. d.ncli # 1 /\ d.ncli - 1 = c.ncli
      BY <1>1, <1>2
    <2>2. popcli(d).iflag = FALSE /\ c.iflag = FALSE
      BY <1>1, <1>3, <2>1
    <2> QED
      BY <1>2, <1>3, <2>1, <2>2, CpuEqual, Zenon
  <1> QED
    BY <1>4 DEF holding, d

\* acquire on a free lock is pushcli.
LEMMA AcquireEffect ==
    ASSUME NEW c \in CpuState, NEW e \in BOOLEAN, NEW lk \in LockState, ~lk.locked
    PROVE  AcquireCpu(c, lk, e) = Cli(c, e)
  <1>1. c.ncli \in Nat
    BY DEF CpuState
  <1>2. Cli(c, e) \in CpuState /\ ~Cli(c, e).iflag /\ Cli(c, e).ncli > 0
    BY <1>1, CliEffect
  <1> QED
    BY <1>2, HoldingEffect DEF AcquireCpu, holds

\* release of a lock the CPU holds is popcli.
LEMMA ReleaseEffect ==
    ASSUME NEW c \in CpuState, NEW lk \in LockState, lk.locked, lk.cpu,
           ~c.iflag, c.ncli > 0, Alive(c)
    PROVE  ReleaseCpu(c, lk) = popcli(c)
  BY HoldingEffect DEF ReleaseCpu, holds

\* A critical section entered and left at the outermost level with interrupts
\* off leaves them off.
LEMMA SectionEffect ==
    ASSUME NEW c \in CpuState, NEW lk \in LockState, ~lk.locked,
           ~c.iflag, c.ncli = 0, Alive(c)
    PROVE  /\ Section(c, lk) \in CpuState /\ Alive(Section(c, lk))
           /\ Section(c, lk).iflag = FALSE /\ Section(c, lk).ncli = 0
           /\ Section(c, lk).intena = FALSE
  <1> DEFINE d == Cli(c, c.iflag)
  <1>1. c.iflag = FALSE /\ c.iflag \in BOOLEAN
    BY DEF CpuState
  <1>2. /\ d \in CpuState /\ ~d.iflag /\ d.ncli = 1 /\ d.intena = FALSE
        /\ d.panic = c.panic
    BY <1>1, CliEffect
  <1>3. AcquireCpu(c, lk, c.iflag) = d
    BY <1>1, AcquireEffect
  <1> HIDE DEF d
  <1>4. Taken \in LockState /\ Taken.locked /\ Taken.cpu /\ Alive(d) /\ d.ncli > 0
    BY <1>2 DEF Taken, LockState, Alive
  <1>5. Section(c, lk) = popcli(d)
    <2>1. ReleaseCpu(d, Taken) = popcli(d)
      BY <1>2, <1>4, ReleaseEffect
    <2> QED
      BY <1>3, <1>4, <2>1 DEF Section
  <1>6. /\ popcli(d) \in CpuState /\ popcli(d).iflag = d.intena
        /\ popcli(d).ncli = d.ncli - 1 /\ popcli(d).intena = d.intena
        /\ popcli(d).panic = d.panic
    BY <1>2, <1>4, PopcliEffect, Zenon
  <1> QED
    BY <1>2, <1>5, <1>6 DEF Alive

\* A pushcli and popcli pair outside every critical section, as in myproc(),
\* leaves the interrupt flag as it was.
LEMMA OuterPair ==
    ASSUME NEW c \in CpuState, c.ncli = 0
    PROVE  /\ popcli(pushcli(c)) \in CpuState /\ popcli(pushcli(c)).ncli = 0
           /\ popcli(pushcli(c)).iflag = c.iflag
           /\ popcli(pushcli(c)).panic = c.panic
  <1> DEFINE d == pushcli(c)
  <1>1. c.iflag \in BOOLEAN
    BY DEF CpuState
  <1>2. /\ d \in CpuState /\ ~d.iflag /\ d.ncli = 1 /\ d.intena = c.iflag
        /\ d.panic = c.panic
    BY <1>1, CliEffect DEF pushcli
  <1> HIDE DEF d
  <1>2a. d.ncli > 0
    BY <1>2
  <1>3. /\ popcli(d) \in CpuState /\ popcli(d).iflag = d.intena
        /\ popcli(d).ncli = d.ncli - 1 /\ popcli(d).panic = d.panic
    BY <1>2, <1>2a, PopcliEffect, Zenon
  <1>4. popcli(d).ncli = 0
    BY <1>2, <1>3
  <1> QED
    BY <1>2, <1>3, <1>4, Zenon DEF d

-----------------------------------------------------------------------------
(***************************************************************************)
(* The inductive invariant.  Where the processor is determines which lock  *)
(* is held, the depth of pushcli and the interrupt flag (CpuInv, LockInv); *)
(* it determines whether the scheduler or a process runs, and then all     *)
(* that switchuvm set up names this process (SwitchInv); a process that    *)
(* has not run yet is the way process_alloc and initproc_init left it      *)
(* (TableInv); pids are never given twice (PidInv); and the frame on top   *)
(* of the stack is that of the call in progress, of which it is known      *)
(* where it is bound for (CallInv).                                        *)
(***************************************************************************)
PtablePcs == {"scan", "back", "enter_process", "zombie"}

HeldPcs == PtablePcs \cup {"printing"}

BootPcs == {"main", "boot"}

SchedPcs == {"main", "boot", "sti", "acquire", "scan", "back"}

\* In a system call, with its frame in myproc()->tf.
CallPcs == {"hello", "exit", "print", "printing", "ok", "fail", "exiting", "zombie"}

ProcPcs == {"enter_process", "trapret", "user", "syscall"} \cup CallPcs

ExpectedPanics == {"assertion failed", "kalloc", "mappages", "page fault not handled!",
                   "protection fault not handled!", "isr_handler"}

CpuInv ==
    /\ cpu \in CpuState /\ cpu.panic \in ExpectedPanics \cup {NoPanic}
    /\ Alive(cpu) =>
          /\ pc \in HeldPcs => cpu.ncli = 1 /\ ~cpu.iflag /\ cpu.intena
          /\ pc \notin HeldPcs => cpu.ncli = 0
          /\ pc \in BootPcs => ~cpu.iflag
          /\ pc \notin HeldPcs \cup BootPcs \cup {"sti"} => cpu.iflag

LockInv ==
    /\ lock \in [{"ptable", "cons"} -> LockState]
    /\ lock["ptable"] = IF pc \in PtablePcs THEN Taken ELSE initlock
    /\ lock["cons"] = IF pc = "printing" THEN Taken ELSE initlock

SwitchInv ==
    /\ pc \in SchedPcs \cup ProcPcs /\ p \in 0..(NPROC + 1) /\ cur \in 0..NPROC
    /\ cur = 0 <=> pc \in SchedPcs
    /\ cur # 0 => /\ cproc = cur /\ cr3 = cur /\ esp0 = cur /\ p = cur
                  /\ scheduler = "back" /\ proc[cur].state = "RUNNING"
    /\ \A s \in Slots : proc[s].state = "RUNNING" => s = cur
    /\ cur = 0 /\ pc # "back" => cproc = 0 /\ cr3 = 0
    /\ pc = "scan" => p > 0
    /\ pc = "back" => p \in Slots

TableInv ==
    /\ proc \in [Slots -> Process] /\ top \in [Slots -> Frame] /\ initproc \in 0..NPROC
    /\ \A s \in Slots :
          /\ proc[s].state \in {"RUNNABLE", "RUNNING", "ZOMBIE"} =>
                proc[s].kstack /\ proc[s].pgdir
          /\ proc[s].state = "RUNNABLE" =>
                proc[s].context = "enter_process" /\ top[s] = FirstFrame

PidInv ==
    /\ inits \in 0..MaxInit /\ nextpid \in 1..(inits + 1)
    /\ \A s \in Slots : proc[s].state # "UNUSED" => proc[s].pid \in 1..(nextpid - 1)
    /\ \A s, t \in Slots :
          proc[s].state # "UNUSED" /\ proc[t].state # "UNUSED" /\ proc[s].pid = proc[t].pid
          => s = t

\* Where the call goes on, after the message if it prints one.
Heading == IF pc \in {"print", "printing"} THEN after ELSE pc

Succeeds(call) == call.num = "hello" /\ call.arg # Bad

CallInv ==
    /\ asked \in [Slots -> Call]
    /\ pc = "enter_process" => top[cur] = FirstFrame
    /\ cur # 0 => top[cur].iflag
    /\ pc \in CallPcs \cup {"syscall"} =>
          top[cur].kind = "syscall" /\ top[cur].call = asked[cur]
    /\ pc \in CallPcs => proc[cur].tf = cur
    /\ pc \in {"print", "printing"} => after \in {"ok", "fail", "exiting"}
    /\ Heading = "hello" => asked[cur].num = "hello"
    /\ Heading = "exit" => asked[cur].num = "exit"
    /\ Heading = "ok" => Succeeds(asked[cur])
    /\ Heading = "fail" => ~Succeeds(asked[cur])
    /\ Heading \in {"exiting", "zombie"} => asked[cur].num = "exit" /\ asked[cur].arg # Bad
    /\ pc = "trapret" /\ top[cur].kind = "syscall" =>
          top[cur].eax = IF Succeeds(asked[cur]) THEN "ok" ELSE "fail"

IInv == CpuInv /\ LockInv /\ SwitchInv /\ TableInv /\ PidInv /\ CallInv

-----------------------------------------------------------------------------
(* Facts that several actions share.                                       *)

\* A slot is an index, and not the boot stack.
LEMMA SlotIndex ==
    ASSUME NEW s \in Slots
    PROVE  s \in 0..NPROC /\ s # 0
  BY ProcAssumption DEF Slots

\* The processor outside and inside a critical section, after boot.
LEMMA CpuOutside ==
    ASSUME cpu' \in CpuState, Alive(cpu'), cpu'.ncli = 0, cpu'.iflag,
           pc' \notin HeldPcs \cup BootPcs
    PROVE  CpuInv'
  BY Zenon DEF CpuInv, Alive

LEMMA CpuInside ==
    ASSUME cpu' \in CpuState, Alive(cpu'), cpu'.ncli = 1, ~cpu'.iflag, cpu'.intena,
           pc' \in HeldPcs
    PROVE  CpuInv'
  <1>1. pc' \notin BootPcs
    BY DEF HeldPcs, PtablePcs, BootPcs
  <1> QED
    BY <1>1, Zenon DEF CpuInv, Alive

\* acquire() outside every critical section takes the lock and turns
\* interrupts off.
LEMMA AcquireStep ==
    ASSUME cpu \in CpuState, Alive(cpu), cpu.ncli = 0, cpu.iflag,
           lock \in [{"ptable", "cons"} -> LockState],
           NEW l \in {"ptable", "cons"}, lock[l] = initlock, NEW label, Acquire(l, label)
    PROVE  /\ cpu' \in CpuState /\ Alive(cpu') /\ cpu'.ncli = 1 /\ ~cpu'.iflag /\ cpu'.intena
           /\ lock' = [lock EXCEPT ![l] = Taken] /\ pc' = label
  <1>1. ~lock[l].locked /\ lock[l] \in LockState /\ cpu.iflag \in BOOLEAN /\ cpu.iflag = TRUE
    BY DEF initlock, CpuState
  <1>2. cpu' = Cli(cpu, cpu.iflag)
    BY <1>1, AcquireEffect, Zenon DEF Acquire
  <1>3. /\ cpu' \in CpuState /\ ~cpu'.iflag /\ cpu'.ncli = cpu.ncli + 1
        /\ cpu'.intena = IF cpu.ncli = 0 THEN cpu.iflag ELSE cpu.intena
        /\ cpu'.panic = cpu.panic
    BY <1>1, <1>2, CliEffect, Zenon
  <1>4. Alive(cpu') /\ cpu'.ncli = 1 /\ cpu'.intena
    BY <1>1, <1>3 DEF Alive
  <1> QED
    BY <1>1, <1>3, <1>4, Zenon DEF Acquire

\* release() of the only lock that is held turns interrupts on again.
LEMMA ReleaseStep ==
    ASSUME cpu \in CpuState, Alive(cpu), cpu.ncli = 1, ~cpu.iflag, cpu.intena,
           lock \in [{"ptable", "cons"} -> LockState],
           NEW l \in {"ptable", "cons"}, lock[l] = Taken, NEW label, Release(l, label)
    PROVE  /\ cpu' \in CpuState /\ Alive(cpu') /\ cpu'.ncli = 0 /\ cpu'.iflag
           /\ lock' = [lock EXCEPT ![l] = initlock] /\ pc' = label
  <1>1. lock[l].locked /\ lock[l].cpu /\ lock[l] \in LockState /\ cpu.ncli > 0
    BY DEF Taken, LockState
  <1>2. cpu' = popcli(cpu)
    BY <1>1, ReleaseEffect, Zenon DEF Release
  <1>3. /\ cpu' \in CpuState /\ cpu'.iflag = cpu.intena /\ cpu'.ncli = cpu.ncli - 1
        /\ cpu'.panic = cpu.panic
    BY <1>1, <1>2, PopcliEffect, Zenon
  <1>4. Alive(cpu') /\ cpu'.ncli = 0 /\ cpu'.iflag
    BY <1>3 DEF Alive
  <1> QED
    BY <1>3, <1>4 DEF Release, Dropped, initlock

\* The table is as good as before if only the call in progress moved on.
LEMMA SameTable ==
    ASSUME TableInv, PidInv, UNCHANGED <<proc, nextpid, initproc, top, inits>>
    PROVE  TableInv' /\ PidInv'
  BY DEF TableInv, PidInv

\* A step that neither moves nor writes a process keeps its call.
LEMMA SameCall ==
    ASSUME CallInv, UNCHANGED <<pc, cur, proc, top, after, asked>>
    PROVE  CallInv'
  BY DEF CallInv, Heading, Succeeds

\* A process goes on without a switch.
LEMMA SameSwitch ==
    ASSUME SwitchInv, pc \in ProcPcs, pc' \in ProcPcs,
           UNCHANGED <<cproc, scheduler, esp0, cr3, cur, p>>,
           \A s \in Slots : proc'[s].state = proc[s].state
    PROVE  SwitchInv'
  <1>1. cur # 0 /\ cur \in Slots
    BY DEF SwitchInv, Slots, SchedPcs, ProcPcs, CallPcs
  <1>2. pc' \notin SchedPcs /\ pc' # "scan" /\ pc' # "back"
    BY Zenon DEF SchedPcs, ProcPcs, CallPcs
  <1> QED
    BY <1>1, <1>2, Zenon DEF SwitchInv

\* Nothing is asked of a call while the scheduler runs.
LEMMA NoCallInProgress ==
    ASSUME pc' \in SchedPcs, cur' = 0, asked' \in [Slots -> Call]
    PROVE  CallInv'
  <1>1. /\ pc' \notin CallPcs \cup {"syscall", "trapret", "enter_process"}
        /\ pc' \notin {"print", "printing"}
        /\ pc' \notin {"hello", "exit", "ok", "fail", "exiting", "zombie"}
    BY Zenon DEF SchedPcs, CallPcs
  <1>2. Heading' = pc'
    BY <1>1 DEF Heading
  <1> QED
    BY <1>1, <1>2 DEF CallInv

\* The process in progress, and what is known of it.
LEMMA InProcess ==
    ASSUME IInv, pc \in ProcPcs
    PROVE  /\ cur \in Slots /\ cur # 0 /\ cproc = cur /\ esp0 = cur /\ p = cur
           /\ proc \in [Slots -> Process] /\ proc[cur] \in Process
           /\ proc[cur].state = "RUNNING"
           /\ top \in [Slots -> Frame] /\ top[cur] \in Frame /\ top[cur].iflag
           /\ asked \in [Slots -> Call] /\ asked[cur] \in Call
  <1>1. cur \in Slots /\ cur # 0
    BY DEF IInv, SwitchInv, Slots, SchedPcs, ProcPcs, CallPcs
  <1> QED
    BY <1>1, Zenon DEF IInv, SwitchInv, TableInv, CallInv

\* A process that is in no critical section can be interrupted, and both locks
\* are free.
LEMMA NotHolding ==
    ASSUME IInv, Alive(cpu), pc \in ProcPcs, pc \notin HeldPcs
    PROVE  /\ cpu \in CpuState /\ cpu.ncli = 0 /\ cpu.iflag
           /\ lock \in [{"ptable", "cons"} -> LockState]
           /\ lock["ptable"] = initlock /\ lock["cons"] = initlock
  <1>1. pc \notin HeldPcs \cup BootPcs \cup {"sti"} /\ pc \notin PtablePcs /\ pc # "printing"
    BY Zenon DEF ProcPcs, CallPcs, HeldPcs, PtablePcs, BootPcs
  <1> QED
    BY <1>1 DEF IInv, CpuInv, LockInv

\* The locks stay free.
LEMMA LocksFree ==
    ASSUME LockInv, pc \notin HeldPcs, pc' \notin HeldPcs, lock' = lock
    PROVE  LockInv'
  BY DEF LockInv, HeldPcs

\* The pushcli/popcli pair of myproc() outside every critical section.
LEMMA MyprocStep ==
    ASSUME NEW c \in CpuState, Alive(c), c.ncli = 0, c.iflag
    PROVE  myproc(c) \in CpuState /\ Alive(myproc(c)) /\ myproc(c).ncli = 0 /\ myproc(c).iflag
  BY OuterPair DEF myproc, Alive

-----------------------------------------------------------------------------
(* One lemma per action: each preserves the invariant.                     *)

\* At boot the table is empty, no lock is held and no process runs.
LEMMA InitIInv == Init => IInv
  <1> SUFFICES ASSUME Init PROVE IInv
    OBVIOUS
  <1>1. CpuInv
    BY DEF Init, CpuInv, CpuBoot, CpuState, Alive, HeldPcs, PtablePcs, BootPcs, NoPanic
  <1>2. LockInv
    BY DEF Init, LockInv, initlock, LockState, PtablePcs
  <1>3. SwitchInv
    BY ProcAssumption DEF Init, SwitchInv, SchedPcs, Slots
  <1>4. NoCall \in Call /\ NewFrame("none", NoCall, FALSE) \in Frame
    BY DEF NoCall, Call, NewFrame, Frame
  <1>5. TableInv
    <2>1. top \in [Slots -> Frame] /\ initproc \in 0..NPROC
      <3>1. top \in [Slots -> Frame]
        BY <1>4, Zenon DEF Init
      <3>2. initproc = 0
        BY Zenon DEF Init
      <3>3. 0 \in 0..NPROC
        BY ProcAssumption
      <3> QED
        BY <3>1, <3>2, <3>3, Zenon
    <2>2. proc \in [Slots -> Process] /\ \A s \in Slots : proc[s].state = "UNUSED"
      BY ProcAssumption DEF Init, Process, States, Labels
    <2> QED
      BY <2>1, <2>2 DEF TableInv
  <1>6. PidInv
    BY ProcAssumption DEF Init, PidInv
  <1>7. CallInv
    BY <1>4 DEF Init, CallInv, Heading, CallPcs
  <1> QED
    BY <1>1, <1>2, <1>3, <1>5, <1>6, <1>7 DEF IInv

\* process_init() and the call of scheduler() change nothing but the place.
LEMMA MainIInv == IInv /\ (ProcessInit \/ StartScheduler) => IInv'
  <1> SUFFICES ASSUME IInv, ProcessInit \/ StartScheduler PROVE IInv'
    OBVIOUS
  <1>1. /\ Alive(cpu) /\ pc \in BootPcs /\ pc' \in {"boot", "sti"}
        /\ UNCHANGED <<proc, nextpid, initproc, scheduler, esp0, cr3, cur, p, after, top,
                       inits, asked>>
    BY DEF ProcessInit, StartScheduler, At, BootPcs
  <1>2. /\ cpu \in CpuState /\ cpu.ncli = 0 /\ ~cpu.iflag /\ cur = 0 /\ cproc = 0
        /\ pc \notin HeldPcs
    BY <1>1 DEF IInv, CpuInv, SwitchInv, BootPcs, HeldPcs, PtablePcs, SchedPcs
  <1>3. cpu' = cpu /\ cproc' = 0
    BY <1>2 DEF ProcessInit, StartScheduler, mycpu
  <1>4. CpuInv'
    BY <1>1, <1>2, <1>3, Zenon DEF IInv, CpuInv, HeldPcs, PtablePcs, BootPcs
  <1>5. LockInv'
    BY <1>1, Zenon DEF IInv, LockInv, ProcessInit, StartScheduler, BootPcs, PtablePcs, LockState,
                initlock
  <1>6. SwitchInv'
    BY <1>1, <1>2, <1>3 DEF IInv, SwitchInv, SchedPcs, ProcPcs, BootPcs
  <1>7. TableInv' /\ PidInv'
    BY <1>1, SameTable DEF IInv
  <1>8. CallInv'
    BY <1>1, <1>2, NoCallInProgress, Zenon DEF IInv, CallInv, SchedPcs
  <1> QED
    BY <1>4, <1>5, <1>6, <1>7, <1>8 DEF IInv

\* The processor in main(): interrupts have never been on, ptable.lock is
\* free, and no process runs.
LEMMA AtBoot ==
    ASSUME IInv, At("boot")
    PROVE  /\ cpu \in CpuState /\ Alive(cpu) /\ cpu.ncli = 0 /\ ~cpu.iflag
           /\ lock["ptable"] = initlock /\ initlock \in LockState /\ ~initlock.locked
           /\ cur = 0 /\ cproc = 0 /\ cr3 = 0
           /\ \A s \in Slots : proc[s].state # "RUNNING"
  <1>1. pc = "boot" /\ pc \notin HeldPcs /\ pc \in BootPcs /\ pc \in SchedPcs
    BY DEF At, HeldPcs, PtablePcs, BootPcs, SchedPcs
  <1>2. initlock \in LockState /\ ~initlock.locked /\ 0 \notin Slots
    BY ProcAssumption DEF initlock, LockState, Slots
  <1> QED
    BY <1>1, <1>2 DEF IInv, CpuInv, LockInv, SwitchInv, At, PtablePcs

\* The pid counter does not wrap, since fewer processes are made than there
\* are pids.
LEMMA PidNextIs ==
    ASSUME PidInv, inits < MaxInit
    PROVE  PidNext = nextpid + 1 /\ nextpid \in 1..PidMax
  <1>1. /\ inits \in Nat /\ nextpid \in Nat /\ nextpid + 1 <= PidMax /\ PidMax \in Nat
        /\ nextpid >= 1
    BY ProcAssumption DEF PidInv
  <1>2. \A a, b \in Nat : a < b => a % b = a
    OBVIOUS
  <1> QED
    BY <1>1, <1>2 DEF PidNext

\* A new entry of the table keeps the scheduler's part of the invariant and
\* gets a pid of its own.
LEMMA NewEntry ==
    ASSUME IInv, At("boot"), inits < MaxInit, inits' = inits + 1,
           NEW s \in Slots, proc[s].state = "UNUSED",
           NEW e \in Process, e.state # "UNUSED" => e.pid = nextpid, e.state # "RUNNING",
           proc' = [proc EXCEPT ![s] = e], nextpid' = PidNext,
           UNCHANGED <<cproc, scheduler, esp0, cr3, cur, pc, p, asked>>
    PROVE  SwitchInv' /\ PidInv' /\ CallInv' /\ proc' \in [Slots -> Process]
  <1>1. /\ pc = "boot" /\ pc \in SchedPcs /\ pc # "back" /\ pc # "scan" /\ cur = 0
        /\ proc \in [Slots -> Process]
    BY AtBoot DEF At, SchedPcs, IInv, TableInv
  <1>2. /\ proc' \in [Slots -> Process] /\ proc'[s] = e
        /\ \A t \in Slots : t # s => proc'[t] = proc[t]
    BY <1>1
  <1>3. SwitchInv'
    <2>1. \A t \in Slots : proc'[t].state # "RUNNING"
      BY <1>2, AtBoot
    <2> QED
      BY <1>1, <2>1 DEF IInv, SwitchInv
  <1>4. PidInv'
    <2>1. nextpid' = nextpid + 1 /\ nextpid \in 1..PidMax
      BY PidNextIs DEF IInv
    <2>2. /\ inits \in 0..MaxInit /\ nextpid \in 1..(inits + 1)
          /\ \A t \in Slots : proc[t].state # "UNUSED" => proc[t].pid \in 1..(nextpid - 1)
          /\ \A t, u \in Slots :
                proc[t].state # "UNUSED" /\ proc[u].state # "UNUSED"
                /\ proc[t].pid = proc[u].pid => t = u
      BY DEF IInv, PidInv
    <2>3. inits' \in 0..MaxInit /\ nextpid' \in 1..(inits' + 1)
      BY <2>1, <2>2, ProcAssumption
    <2>4. \A t \in Slots : proc'[t].state # "UNUSED" => proc'[t].pid \in 1..(nextpid' - 1)
      BY <1>2, <2>1, <2>2
    <2>5. \A t \in Slots : t # s /\ proc[t].state # "UNUSED" => proc[t].pid # nextpid
      BY <2>1, <2>2
    <2>6. \A t, u \in Slots :
              proc'[t].state # "UNUSED" /\ proc'[u].state # "UNUSED"
              /\ proc'[t].pid = proc'[u].pid => t = u
      BY <1>2, <2>2, <2>5
    <2> QED
      BY <2>3, <2>4, <2>6 DEF PidInv
  <1>5. CallInv'
    BY <1>1, NoCallInProgress DEF IInv, CallInv
  <1> QED
    BY <1>2, <1>3, <1>4, <1>5

\* An entry half made is not one that must have a stack and a directory.
LEMMA HalfMade ==
    ASSUME TableInv, NEW s \in Slots, NEW e, e.state = "INITIAL",
           proc' = [proc EXCEPT ![s] = e], proc' \in [Slots -> Process],
           initproc' \in 0..NPROC, top' = top
    PROVE  TableInv'
  <1>1. proc \in [Slots -> Process]
    BY Zenon DEF TableInv
  <1>2. proc'[s] = e /\ \A t \in Slots : t # s => proc'[t] = proc[t]
    BY <1>1
  <1>3. ASSUME NEW t \in Slots
        PROVE  /\ proc'[t].state \in {"RUNNABLE", "RUNNING", "ZOMBIE"} =>
                     proc'[t].kstack /\ proc'[t].pgdir
               /\ proc'[t].state = "RUNNABLE" =>
                     proc'[t].context = "enter_process" /\ top'[t] = FirstFrame
    <2>1. CASE t = s
      BY <1>2, <2>1, Zenon
    <2>2. CASE t # s
      BY <1>2, <2>2, Zenon DEF TableInv
    <2> QED
      BY <2>1, <2>2, Zenon
  <1> QED
    BY <1>3, Zenon DEF TableInv

\* The fields of an entry that process_alloc() fills.
LEMMA EntryFields ==
    ASSUME TableInv, PidInv, inits < MaxInit, NEW s \in Slots
    PROVE  /\ Claimed(s) \in Process /\ Claimed(s).pid = nextpid
           /\ Claimed(s).state = "INITIAL"
           /\ Stacked(s) \in Process /\ Stacked(s).pid = nextpid
           /\ Stacked(s).state = "INITIAL" /\ Stacked(s).kstack
           /\ Stacked(s).context = "enter_process"
  <1>1. proc[s] \in Process /\ nextpid \in 0..PidMax /\ s \in 0..NPROC
    BY PidNextIs, ProcAssumption DEF TableInv, Slots
  <1>2. /\ Claimed(s) \in Process /\ Claimed(s).pid = nextpid
        /\ Claimed(s).state = "INITIAL"
    BY <1>1, Zenon DEF Claimed, Process, States
  <1>3. /\ Stacked(s) \in Process /\ Stacked(s).pid = Claimed(s).pid
        /\ Stacked(s).state = Claimed(s).state /\ Stacked(s).kstack
        /\ Stacked(s).context = "enter_process"
    BY <1>1, <1>2, Zenon DEF Stacked, Process, Labels
  <1> QED
    BY <1>2, <1>3, Zenon

\* A panic of the kernel while it holds no lock keeps the invariant of the
\* processor.
LEMMA PanicCpu ==
    ASSUME NEW c \in CpuState, NEW msg \in ExpectedPanics, cpu' = Panic(c, msg)
    PROVE  CpuInv'
  <1>1. msg \in PanicMsgs /\ msg # NoPanic
    BY Zenon DEF ExpectedPanics, PanicMsgs, NoPanic
  <1>2. cpu' \in CpuState /\ cpu'.panic = msg
    BY <1>1, Zenon DEF Panic, CpuState
  <1> QED
    BY <1>1, <1>2, Zenon DEF CpuInv, Alive

\* process_alloc() fails: the table is as it was but for a used-up pid.
LEMMA ProcessAllocFailsIInv == IInv /\ ProcessAllocFails => IInv'
  <1> SUFFICES ASSUME IInv, ProcessAllocFails PROVE IInv'
    OBVIOUS
  <1>1. /\ At("boot") /\ inits < MaxInit /\ inits' = inits + 1
        /\ UNCHANGED <<lock, initproc, cproc, scheduler, esp0, cr3, cur, pc, p, after, top,
                       asked>>
    BY Zenon DEF ProcessAllocFails
  <1>2. CpuInv'
    <2>1. /\ Section(cpu, lock["ptable"]) \in CpuState
          /\ Alive(Section(cpu, lock["ptable"]))
      BY <1>1, AtBoot, SectionEffect, Zenon
    <2>2. cpu' = Panic(Section(cpu, lock["ptable"]), "assertion failed")
      BY <2>1, Zenon DEF ProcessAllocFails
    <2>3. "assertion failed" \in ExpectedPanics
      BY DEF ExpectedPanics
    <2> QED
      BY <2>1, <2>2, <2>3, PanicCpu, Zenon
  <1>3. LockInv'
    BY <1>1, Zenon DEF IInv, LockInv
  <1>4. CASE UnusedSlots = {} /\ UNCHANGED <<proc, nextpid>>
    <2>1. SwitchInv' /\ TableInv' /\ CallInv'
      BY <1>1, <1>4 DEF IInv, SwitchInv, TableInv, CallInv, Heading
    <2>2. PidInv'
      BY <1>1, <1>4, ProcAssumption DEF IInv, PidInv
    <2> QED
      BY <1>2, <1>3, <2>1, <2>2, Zenon DEF IInv
  <1>5. CASE /\ nextpid' = PidNext
             /\ \E s \in Slots :
                   /\ FirstUnused(s)
                   /\ proc' = [proc EXCEPT ![s] = [Claimed(s) EXCEPT !.state = "UNUSED"]]
    <2>0. PICK u \in Slots :
             /\ FirstUnused(u)
             /\ proc' = [proc EXCEPT ![u] = [Claimed(u) EXCEPT !.state = "UNUSED"]]
      BY <1>5, Zenon
    <2> DEFINE e == [Claimed(u) EXCEPT !.state = "UNUSED"]
    <2>1. u \in Slots /\ proc[u].state = "UNUSED"
      BY <2>0 DEF FirstUnused, UnusedSlots
    <2>2. Claimed(u) \in Process
      BY <1>1, <2>1, EntryFields, Zenon DEF IInv
    <2>3. e \in Process /\ e.state = "UNUSED"
      BY <2>2, Zenon DEF Process, States
    <2>4. proc' = [proc EXCEPT ![u] = e]
      BY <2>0
    <2> HIDE DEF e
    <2>5. SwitchInv' /\ PidInv' /\ CallInv' /\ proc' \in [Slots -> Process]
      BY <1>1, <1>5, <2>1, <2>3, <2>4, NewEntry, Zenon
    <2>6. TableInv'
      BY <1>1, <2>1, <2>3, <2>4, <2>5, Zenon DEF IInv, TableInv
    <2> QED
      BY <1>2, <1>3, <2>5, <2>6, Zenon DEF IInv
  <1> QED
    BY <1>4, <1>5, Zenon DEF ProcessAllocFails

\* setupkvm() or inituvm() stops the kernel with an entry half made.
LEMMA AddressSpaceFailsIInv == IInv /\ AddressSpaceFails => IInv'
  <1> SUFFICES ASSUME IInv, AddressSpaceFails PROVE IInv'
    BY Zenon
  <1>1. /\ At("boot") /\ inits < MaxInit /\ inits' = inits + 1 /\ nextpid' = PidNext
        /\ UNCHANGED <<lock, cproc, scheduler, esp0, cr3, cur, pc, p, after, top, asked>>
    BY Zenon DEF AddressSpaceFails
  <1>2. PICK u \in Slots, msg \in {"kalloc", "mappages", "page fault not handled!"} :
          /\ FirstUnused(u) /\ initproc' = u
          /\ cpu' = Panic(Section(cpu, lock["ptable"]), msg)
          /\ proc' = [proc EXCEPT ![u] =
                        [Stacked(u) EXCEPT !.pgdir = msg = "page fault not handled!"]]
    BY Zenon DEF AddressSpaceFails
  <1>3. CpuInv'
    <2>1. Section(cpu, lock["ptable"]) \in CpuState
      BY <1>1, AtBoot, SectionEffect, Zenon
    <2>2. msg \in ExpectedPanics
      BY Zenon DEF ExpectedPanics
    <2> QED
      BY <1>2, <2>1, <2>2, PanicCpu, Zenon
  <1>4. LockInv'
    BY <1>1, Zenon DEF IInv, LockInv
  <1> DEFINE b == msg = "page fault not handled!"
  <1> DEFINE e == [Stacked(u) EXCEPT !.pgdir = b]
  <1>5. u \in Slots /\ proc[u].state = "UNUSED" /\ b \in BOOLEAN
    BY <1>2, Zenon DEF FirstUnused, UnusedSlots
  <1>6. /\ Stacked(u) \in Process /\ Stacked(u).state = "INITIAL"
        /\ Stacked(u).pid = nextpid
    BY <1>1, <1>5, EntryFields, Zenon DEF IInv
  <1>7. proc' = [proc EXCEPT ![u] = e]
    BY <1>2, Zenon
  <1> HIDE DEF b
  <1>8. e \in Process /\ e.state = "INITIAL" /\ e.pid = nextpid
    BY <1>5, <1>6, Zenon DEF Process
  <1> HIDE DEF e
  <1>9. SwitchInv' /\ PidInv' /\ CallInv' /\ proc' \in [Slots -> Process]
    BY <1>1, <1>5, <1>7, <1>8, NewEntry, Zenon
  <1>10. TableInv'
    <2>1. u \in 0..NPROC
      BY <1>5, SlotIndex, Zenon
    <2> QED
      BY <1>1, <1>2, <1>7, <1>8, <1>9, <2>1, HalfMade, Zenon DEF IInv
  <1> QED
    BY <1>3, <1>4, <1>9, <1>10, Zenon DEF IInv

\* initproc_init() makes a process that is ready to run.
LEMMA InitprocInitIInv == IInv /\ InitprocInit => IInv'
  <1> SUFFICES ASSUME IInv, InitprocInit PROVE IInv'
    OBVIOUS
  <1>0. PICK u \in Slots :
          /\ FirstUnused(u) /\ initproc' = u
          /\ proc' = [proc EXCEPT ![u] =
                         [Stacked(u) EXCEPT !.pgdir = TRUE, !.state = "RUNNABLE"]]
          /\ top' = [top EXCEPT ![u] = FirstFrame]
    BY Zenon DEF InitprocInit
  <1> DEFINE e == [Stacked(u) EXCEPT !.pgdir = TRUE, !.state = "RUNNABLE"]
  <1>1. /\ At("boot") /\ inits < MaxInit /\ inits' = inits + 1
        /\ nextpid' = PidNext /\ initproc' = u
        /\ proc' = [proc EXCEPT ![u] = e] /\ top' = [top EXCEPT ![u] = FirstFrame]
        /\ UNCHANGED <<lock, cproc, scheduler, esp0, cr3, cur, pc, p, after, asked>>
    BY <1>0, Zenon DEF InitprocInit
  <1>2. CpuInv'
    <2> DEFINE c == Section(cpu, lock["ptable"])
    <2>1. c \in CpuState /\ Alive(c) /\ c.iflag = FALSE /\ c.ncli = 0
      BY <1>1, AtBoot, SectionEffect, Zenon
    <2>2. cpu' = Section(c, lock["ptable"])
      BY Zenon DEF InitprocInit
    <2> HIDE DEF c
    <2>3. cpu' \in CpuState /\ Alive(cpu') /\ cpu'.iflag = FALSE /\ cpu'.ncli = 0
      BY <1>1, <2>1, <2>2, AtBoot, SectionEffect, Zenon
    <2>4. pc' = "boot" /\ pc' \notin HeldPcs /\ pc' \in BootPcs
      BY <1>1 DEF At, HeldPcs, PtablePcs, BootPcs
    <2> QED
      BY <2>3, <2>4, Zenon DEF CpuInv, Alive
  <1>3. LockInv'
    BY <1>1, Zenon DEF IInv, LockInv
  <1>4. u \in Slots /\ proc[u].state = "UNUSED"
    BY <1>0 DEF FirstUnused, UnusedSlots
  <1>5. /\ Stacked(u) \in Process /\ Stacked(u).kstack
        /\ Stacked(u).pid = nextpid
        /\ Stacked(u).context = "enter_process"
    BY <1>1, <1>4, EntryFields DEF IInv
  <1>6. /\ e \in Process /\ e.state = "RUNNABLE" /\ e.pid = nextpid /\ e.kstack /\ e.pgdir
        /\ e.context = "enter_process"
    BY <1>5, Zenon DEF Process, States
  <1> HIDE DEF e
  <1>7. SwitchInv' /\ PidInv' /\ CallInv' /\ proc' \in [Slots -> Process]
    BY <1>1, <1>4, <1>6, NewEntry, Zenon
  <1>8. TableInv'
    <2>1. u \in 0..NPROC
      BY <1>4, SlotIndex
    <2>2. FirstFrame \in Frame
      BY DEF FirstFrame, NewFrame, NoCall, Frame, Call
    <2>3. top' \in [Slots -> Frame] /\ top'[u] = FirstFrame
      BY <1>1, <1>4, <2>2, Zenon DEF IInv, TableInv
    <2>4. \A s \in Slots : s # u => proc'[s] = proc[s] /\ top'[s] = top[s]
      BY <1>1 DEF IInv, TableInv
    <2>5. proc'[u] = e
      BY <1>1, <1>4 DEF IInv, TableInv
    <2>6. ASSUME NEW s \in Slots
          PROVE  /\ proc'[s].state \in {"RUNNABLE", "RUNNING", "ZOMBIE"} =>
                       proc'[s].kstack /\ proc'[s].pgdir
                 /\ proc'[s].state = "RUNNABLE" =>
                       proc'[s].context = "enter_process" /\ top'[s] = FirstFrame
      BY <1>6, <2>3, <2>4, <2>5 DEF IInv, TableInv
    <2>7. initproc' \in 0..NPROC
      BY <1>1, <2>1
    <2> QED
      BY <1>7, <2>3, <2>6, <2>7, Zenon DEF TableInv, FirstFrame
  <1> QED
    BY <1>2, <1>3, <1>7, <1>8 DEF IInv

\* sti() at the head of the scheduler's loop.
LEMMA StiIInv == IInv /\ Sti => IInv'
  <1> SUFFICES ASSUME IInv, Sti PROVE IInv'
    OBVIOUS
  <1>1. /\ Alive(cpu) /\ pc = "sti" /\ pc' = "acquire" /\ cpu' = [cpu EXCEPT !.iflag = TRUE]
        /\ UNCHANGED <<lock, proc, nextpid, initproc, cproc, scheduler, esp0, cr3, cur, p,
                       after, top, inits, asked>>
    BY DEF Sti, At
  <1>2. pc \notin HeldPcs /\ pc' \notin HeldPcs \cup BootPcs /\ {pc, pc'} \subseteq SchedPcs
        /\ pc \notin PtablePcs /\ pc' \notin PtablePcs
    BY <1>1, Zenon DEF HeldPcs, PtablePcs, BootPcs, SchedPcs
  <1>3. CpuInv'
    <2>1. cpu \in CpuState /\ cpu.ncli = 0
      BY <1>1, <1>2 DEF IInv, CpuInv
    <2>2. cpu' \in CpuState /\ Alive(cpu') /\ cpu'.ncli = 0 /\ cpu'.iflag
      BY <1>1, <2>1, Zenon DEF CpuState, Alive
    <2> QED
      BY <1>2, <2>2, CpuOutside
  <1>4. LockInv'
    BY <1>1, <1>2, Zenon DEF IInv, LockInv
  <1>5. SwitchInv'
    BY <1>1, <1>2, Zenon DEF IInv, SwitchInv
  <1>6. TableInv' /\ PidInv'
    BY <1>1, SameTable, Zenon DEF IInv
  <1>7. CallInv'
    BY <1>1, <1>2, NoCallInProgress, Zenon DEF IInv, CallInv, SwitchInv
  <1> QED
    BY <1>3, <1>4, <1>5, <1>6, <1>7 DEF IInv

\* The scheduler takes ptable.lock, which nobody holds.
LEMMA SchedAcquireIInv == IInv /\ SchedAcquire => IInv'
  <1> SUFFICES ASSUME IInv, SchedAcquire PROVE IInv'
    OBVIOUS
  <1>1. /\ Alive(cpu) /\ pc = "acquire" /\ Acquire("ptable", "scan") /\ p' = 1
        /\ UNCHANGED <<proc, nextpid, initproc, cproc, scheduler, esp0, cr3, cur, after, top,
                       inits, asked>>
    BY DEF SchedAcquire, At
  <1>2. pc \notin HeldPcs \cup BootPcs \cup {"sti"} /\ pc \in SchedPcs /\ pc \notin PtablePcs
    BY <1>1 DEF HeldPcs, PtablePcs, BootPcs, SchedPcs
  <1>3. /\ cpu \in CpuState /\ cpu.ncli = 0 /\ cpu.iflag
        /\ lock \in [{"ptable", "cons"} -> LockState]
        /\ lock["ptable"] = initlock /\ lock["cons"] = initlock
    BY <1>1, <1>2, Zenon DEF IInv, CpuInv, LockInv
  <1>4. /\ cpu' \in CpuState /\ Alive(cpu') /\ cpu'.ncli = 1 /\ ~cpu'.iflag /\ cpu'.intena
        /\ lock' = [lock EXCEPT !["ptable"] = Taken] /\ pc' = "scan"
    BY <1>1, <1>3, AcquireStep, Zenon
  <1>5. pc' \in HeldPcs /\ pc' \in PtablePcs /\ pc' \in SchedPcs
    BY <1>4 DEF HeldPcs, PtablePcs, SchedPcs
  <1>6. CpuInv'
    BY <1>4, <1>5, CpuInside
  <1>7. LockInv'
    BY <1>3, <1>4, <1>5, Zenon DEF LockInv, LockState, Taken
  <1>8. SwitchInv'
    BY <1>1, <1>2, <1>4, <1>5, ProcAssumption DEF IInv, SwitchInv
  <1>9. TableInv' /\ PidInv'
    BY <1>1, SameTable, Zenon DEF IInv
  <1>10. CallInv'
    BY <1>1, <1>2, <1>5, NoCallInProgress, Zenon DEF IInv, CallInv, SwitchInv
  <1> QED
    BY <1>6, <1>7, <1>8, <1>9, <1>10, Zenon DEF IInv

\* The scheduler passes over a slot, or goes on after a process came back.
LEMMA ScanIInv == IInv /\ (Skip \/ Back) => IInv'
  <1> SUFFICES ASSUME IInv, Skip \/ Back PROVE IInv'
    OBVIOUS
  <1>1. /\ Alive(cpu) /\ pc \in {"scan", "back"} /\ pc' = "scan" /\ p' = p + 1
        /\ pc = "scan" => p <= NPROC /\ cproc' = cproc /\ cr3' = cr3
        /\ pc = "back" => cproc' = 0 /\ cr3' = 0
        /\ UNCHANGED <<cpu, lock, proc, nextpid, initproc, scheduler, esp0, cur, after, top,
                       inits, asked>>
    BY DEF Skip, Back, At, LastSlot
  <1>2. /\ {pc, pc'} \subseteq HeldPcs \cap PtablePcs \cap SchedPcs
        /\ pc \notin BootPcs /\ pc' \notin BootPcs
    BY <1>1 DEF HeldPcs, PtablePcs, SchedPcs, BootPcs
  <1>3. CpuInv'
    BY <1>1, <1>2, Zenon DEF IInv, CpuInv
  <1>4. LockInv'
    BY <1>1, <1>2 DEF IInv, LockInv
  <1>5. SwitchInv'
    <2>1. p \in Slots
      BY <1>1, ProcAssumption DEF IInv, SwitchInv, Slots
    <2>2. p' \in 0..(NPROC + 1) /\ p' > 0
      BY <1>1, <2>1, ProcAssumption DEF Slots
    <2>3. cur = 0 /\ cproc' = 0 /\ cr3' = 0
      BY <1>1, <1>2, Zenon DEF IInv, SwitchInv
    <2> QED
      BY <1>1, <1>2, <2>2, <2>3, Zenon DEF IInv, SwitchInv
  <1>6. TableInv' /\ PidInv'
    BY <1>1, SameTable DEF IInv
  <1>7. CallInv'
    BY <1>1, <1>2, NoCallInProgress, Zenon DEF IInv, CallInv, SwitchInv
  <1> QED
    BY <1>3, <1>4, <1>5, <1>6, <1>7 DEF IInv

\* The scheduler lets go of ptable.lock after the last slot.
LEMMA SchedReleaseIInv == IInv /\ SchedRelease => IInv'
  <1> SUFFICES ASSUME IInv, SchedRelease PROVE IInv'
    OBVIOUS
  <1>1. /\ Alive(cpu) /\ pc = "scan" /\ Release("ptable", "sti")
        /\ UNCHANGED <<proc, nextpid, initproc, cproc, scheduler, esp0, cr3, cur, p, after,
                       top, inits, asked>>
    BY DEF SchedRelease, At
  <1>2. pc \in HeldPcs /\ pc \in PtablePcs /\ pc \in SchedPcs
    BY <1>1 DEF HeldPcs, PtablePcs, SchedPcs
  <1>3. /\ cpu \in CpuState /\ cpu.ncli = 1 /\ ~cpu.iflag /\ cpu.intena
        /\ lock \in [{"ptable", "cons"} -> LockState]
        /\ lock["ptable"] = Taken /\ lock["cons"] = initlock
    BY <1>1, <1>2, Zenon DEF IInv, CpuInv, LockInv
  <1>4. /\ cpu' \in CpuState /\ Alive(cpu') /\ cpu'.ncli = 0 /\ cpu'.iflag
        /\ lock' = [lock EXCEPT !["ptable"] = initlock] /\ pc' = "sti"
    BY <1>1, <1>3, ReleaseStep
  <1>5. pc' \notin HeldPcs \cup BootPcs /\ pc' \notin PtablePcs /\ pc' \in SchedPcs
    BY <1>4 DEF HeldPcs, PtablePcs, BootPcs, SchedPcs
  <1>6. CpuInv'
    BY <1>4, <1>5, CpuOutside
  <1>7. LockInv'
    BY <1>3, <1>4, <1>5 DEF LockInv, LockState, initlock
  <1>8. SwitchInv'
    BY <1>1, <1>2, <1>4, <1>5, Zenon DEF IInv, SwitchInv
  <1>9. TableInv' /\ PidInv'
    BY <1>1, SameTable DEF IInv
  <1>10. CallInv'
    BY <1>1, <1>2, <1>5, NoCallInProgress, Zenon DEF IInv, CallInv, SwitchInv
  <1> QED
    BY <1>6, <1>7, <1>8, <1>9, <1>10, Zenon DEF IInv

\* The scheduler switches to a process that has not run yet; ptable.lock
\* passes to it.
LEMMA DispatchIInv == IInv /\ Dispatch => IInv'
  <1> SUFFICES ASSUME IInv, Dispatch PROVE IInv'
    OBVIOUS
  <1>1. /\ Alive(cpu) /\ pc = "scan" /\ p <= NPROC /\ proc[p].state = "RUNNABLE"
        /\ cpu' = SwitchuvmCpu(p) /\ cproc' = p /\ esp0' = p /\ cr3' = p
        /\ proc' = [proc EXCEPT ![p].state = "RUNNING"]
        /\ scheduler' = "back" /\ cur' = p /\ pc' = proc[p].context
        /\ UNCHANGED <<lock, nextpid, initproc, p, after, top, inits, asked>>
    BY DEF Dispatch, At, LastSlot, Pick, Tss
  <1>2. pc \in HeldPcs /\ pc \in PtablePcs /\ pc \in SchedPcs /\ cur = 0 /\ 0 \notin Slots
    BY <1>1, ProcAssumption DEF HeldPcs, PtablePcs, SchedPcs, IInv, SwitchInv, Slots
  <1>3. p \in Slots /\ p \in 0..NPROC /\ p # 0
    BY <1>1, ProcAssumption DEF IInv, SwitchInv, Slots
  <1>4. /\ proc \in [Slots -> Process] /\ proc[p].kstack /\ proc[p].pgdir
        /\ top[p] = FirstFrame /\ pc' = "enter_process"
    BY <1>1, <1>3 DEF IInv, TableInv
  <1>5. /\ pc' \in HeldPcs /\ pc' \in PtablePcs /\ pc' \in ProcPcs /\ pc' \notin SchedPcs
        /\ pc' \notin CallPcs
    BY <1>4 DEF HeldPcs, PtablePcs, ProcPcs, SchedPcs, CallPcs
  <1>6. CpuInv'
    <2>1. cpu \in CpuState /\ cpu.ncli = 1 /\ cpu.ncli > 0 /\ ~cpu.iflag /\ cpu.intena
      BY <1>1, <1>2 DEF IInv, CpuInv
    <2>2. cpu' = cpu
      BY <1>1, <1>4, <2>1, HoldingEffect DEF SwitchuvmCpu, holding
    <2> QED
      BY <1>1, <1>5, <2>1, <2>2, CpuInside
  <1>7. LockInv'
    BY <1>1, <1>2, <1>4, <1>5, Zenon DEF IInv, LockInv
  <1>8. /\ proc' \in [Slots -> Process] /\ proc'[p] = [proc[p] EXCEPT !.state = "RUNNING"]
        /\ \A s \in Slots : s # p => proc'[s] = proc[s]
    <2>1. [proc[p] EXCEPT !.state = "RUNNING"] \in Process
      BY <1>3, <1>4 DEF Process, States
    <2> QED
      BY <1>1, <1>3, <1>4, <2>1, Zenon
  <1>9. /\ proc'[p].state = "RUNNING" /\ proc'[p].kstack = proc[p].kstack
        /\ proc'[p].pgdir = proc[p].pgdir /\ proc'[p].pid = proc[p].pid
    <2>1. proc[p] \in Process
      BY <1>3, <1>4, Zenon
    <2>2. proc'[p].state = "RUNNING" /\ proc'[p].pid = proc[p].pid
      BY <1>8, <2>1, Zenon DEF Process
    <2>3. proc'[p].kstack = proc[p].kstack /\ proc'[p].pgdir = proc[p].pgdir
      BY <1>8, <2>1, Zenon DEF Process
    <2> QED
      BY <2>2, <2>3, Zenon
  <1>10. SwitchInv'
    <2>1. \A s \in Slots : proc'[s].state = "RUNNING" => s = p
      BY <1>2, <1>8, Zenon DEF IInv, SwitchInv
    <2>2. p \in 0..(NPROC + 1)
      BY DEF IInv, SwitchInv
    <2> QED
      BY <1>1, <1>3, <1>4, <1>5, <1>9, <2>1, <2>2, Zenon DEF SwitchInv
  <1>11. TableInv'
    <2>1. ASSUME NEW s \in Slots
          PROVE  /\ proc'[s].state \in {"RUNNABLE", "RUNNING", "ZOMBIE"} =>
                       proc'[s].kstack /\ proc'[s].pgdir
                 /\ proc'[s].state = "RUNNABLE" =>
                       proc'[s].context = "enter_process" /\ top'[s] = FirstFrame
      <3>1. CASE s = p
        BY <1>4, <1>9, <3>1, Zenon
      <3>2. CASE s # p
        BY <1>1, <1>8, <3>2 DEF IInv, TableInv
      <3> QED
        BY <3>1, <3>2, Zenon
    <2>2. top' \in [Slots -> Frame] /\ initproc' \in 0..NPROC
      BY <1>1, Zenon DEF IInv, TableInv
    <2> QED
      BY <1>8, <2>1, <2>2, Zenon DEF TableInv, FirstFrame
  <1>12. PidInv'
    <2>1. \A s \in Slots : /\ proc'[s].pid = proc[s].pid
                           /\ proc'[s].state # "UNUSED" <=> proc[s].state # "UNUSED"
      BY <1>1, <1>3, <1>8, <1>9
    <2> QED
      BY <1>1, <2>1 DEF IInv, PidInv
  <1>13. CallInv'
    <2>1. /\ Heading' = "enter_process" /\ top'[cur'] = FirstFrame /\ FirstFrame.iflag
      BY <1>1, <1>4 DEF Heading, FirstFrame, NewFrame
    <2>2. asked' \in [Slots -> Call]
      BY <1>1 DEF IInv, CallInv
    <2> QED
      BY <1>4, <1>5, <2>1, <2>2, Zenon DEF CallInv, FirstFrame
  <1> QED
    BY <1>6, <1>7, <1>10, <1>11, <1>12, <1>13 DEF IInv

\* enter_process() lets go of the lock the scheduler took.
LEMMA EnterProcessIInv == IInv /\ EnterProcess => IInv'
  <1> SUFFICES ASSUME IInv, EnterProcess PROVE IInv'
    BY Zenon
  <1>1. /\ Alive(cpu) /\ pc = "enter_process" /\ Release("ptable", "trapret")
        /\ UNCHANGED <<proc, nextpid, initproc, cproc, scheduler, esp0, cr3, cur, p, after,
                       top, inits, asked>>
    BY DEF EnterProcess, At
  <1>2. pc \in HeldPcs /\ pc \in PtablePcs /\ pc \in ProcPcs
    BY <1>1, Zenon DEF HeldPcs, PtablePcs, ProcPcs
  <1>3. /\ cpu \in CpuState /\ cpu.ncli = 1 /\ ~cpu.iflag /\ cpu.intena
        /\ lock \in [{"ptable", "cons"} -> LockState]
        /\ lock["ptable"] = Taken /\ lock["cons"] = initlock
    BY <1>1, <1>2, Zenon DEF IInv, CpuInv, LockInv
  <1>4. /\ cpu' \in CpuState /\ Alive(cpu') /\ cpu'.ncli = 0 /\ cpu'.iflag
        /\ lock' = [lock EXCEPT !["ptable"] = initlock] /\ pc' = "trapret"
    BY <1>1, <1>3, ReleaseStep
  <1>5. /\ pc' \notin HeldPcs \cup BootPcs /\ pc' \notin PtablePcs /\ pc' \in ProcPcs
        /\ pc' \notin CallPcs
    BY <1>4, Zenon DEF HeldPcs, PtablePcs, BootPcs, ProcPcs, CallPcs
  <1>6. CpuInv'
    BY <1>4, <1>5, CpuOutside, Zenon
  <1>7. LockInv'
    BY <1>3, <1>4, <1>5, Zenon DEF LockInv, LockState, initlock
  <1>8. SwitchInv'
    BY <1>1, <1>2, <1>5, SameSwitch, Zenon DEF IInv
  <1>9. TableInv' /\ PidInv'
    BY <1>1, SameTable DEF IInv
  <1>10. CallInv'
    <2>1. Heading' = "trapret" /\ top'[cur'] = top[cur] /\ top[cur] = FirstFrame
      BY <1>1, <1>4, Zenon DEF Heading, IInv, CallInv
    <2>2. FirstFrame.kind # "syscall"
      BY DEF FirstFrame, NewFrame
    <2> QED
      BY <1>1, <1>4, <1>5, <2>1, <2>2, Zenon DEF IInv, CallInv
  <1> QED
    BY <1>6, <1>7, <1>8, <1>9, <1>10, Zenon DEF IInv

\* iret loads the EFLAGS of the frame, which have IF set.
LEMMA TrapretIInv == IInv /\ Trapret => IInv'
  <1> SUFFICES ASSUME IInv, Trapret PROVE IInv'
    OBVIOUS
  <1>1. /\ Alive(cpu) /\ pc = "trapret" /\ pc' = "user"
        /\ cpu' = [cpu EXCEPT !.iflag = top[cur].iflag]
        /\ UNCHANGED <<lock, proc, nextpid, initproc, cproc, scheduler, esp0, cr3, cur, p,
                       after, top, inits, asked>>
    BY DEF Trapret, At
  <1>2. /\ pc \in ProcPcs /\ pc \notin HeldPcs /\ pc \notin PtablePcs
        /\ pc' \in ProcPcs /\ pc' \notin HeldPcs \cup BootPcs /\ pc' \notin PtablePcs
        /\ pc' \notin CallPcs
    BY <1>1 DEF ProcPcs, HeldPcs, PtablePcs, BootPcs, CallPcs
  <1>3. CpuInv'
    <2>1. cpu \in CpuState /\ cpu.ncli = 0 /\ top[cur] \in Frame /\ top[cur].iflag
      BY <1>1, <1>2, InProcess, Zenon DEF IInv, CpuInv
    <2>2. top[cur].iflag = TRUE
      BY <2>1 DEF Frame
    <2>3. cpu' \in CpuState /\ Alive(cpu') /\ cpu'.ncli = 0 /\ cpu'.iflag
      BY <1>1, <2>1, <2>2, Zenon DEF CpuState, Alive
    <2> QED
      BY <1>2, <2>3, CpuOutside, Zenon
  <1>4. LockInv'
    BY <1>1, <1>2, Zenon DEF IInv, LockInv
  <1>5. SwitchInv'
    BY <1>1, <1>2, SameSwitch, Zenon DEF IInv
  <1>6. TableInv' /\ PidInv'
    BY <1>1, SameTable DEF IInv
  <1>7. CallInv'
    <2>1. Heading' = "user"
      BY <1>1 DEF Heading
    <2> QED
      BY <1>1, <1>2, <2>1, Zenon DEF IInv, CallInv
  <1> QED
    BY <1>3, <1>4, <1>5, <1>6, <1>7 DEF IInv

\* INT 64 builds a frame at the top of the process's own stack.
LEMMA SyscallIInv == ASSUME NEW call \in Call PROVE IInv /\ Syscall(call) => IInv'
  <1> SUFFICES ASSUME IInv, Syscall(call) PROVE IInv'
    OBVIOUS
  <1>1. /\ Alive(cpu) /\ pc = "user" /\ pc' = "syscall"
        /\ asked' = [asked EXCEPT ![cur] = call]
        /\ top' = [top EXCEPT ![esp0] = NewFrame("syscall", call, cpu.iflag)]
        /\ cur' = esp0
        /\ UNCHANGED <<cpu, lock, proc, nextpid, initproc, cproc, scheduler, esp0, cr3, p,
                       after, inits>>
    BY DEF Syscall, At
  <1>2. /\ pc \in ProcPcs /\ pc \notin HeldPcs
        /\ pc' \in ProcPcs /\ pc' \notin HeldPcs \cup BootPcs /\ pc' \notin HeldPcs
        /\ pc' \notin CallPcs
    BY <1>1 DEF ProcPcs, HeldPcs, PtablePcs, BootPcs, CallPcs
  <1>3. cpu \in CpuState /\ cpu.ncli = 0 /\ cpu.iflag
    BY <1>1, <1>2, NotHolding
  <1>4. CpuInv'
    BY <1>1, <1>2, <1>3, CpuOutside
  <1>5. LockInv'
    BY <1>1, <1>2, LocksFree DEF IInv
  <1> DEFINE f == NewFrame("syscall", call, cpu.iflag)
  <1>6. f \in Frame /\ f.kind = "syscall" /\ f.call = call /\ f.iflag
    BY <1>3 DEF NewFrame, Frame, CpuState
  <1>7. /\ cur \in Slots /\ cur # 0 /\ esp0 = cur /\ proc[cur].state = "RUNNING"
        /\ top \in [Slots -> Frame] /\ asked \in [Slots -> Call]
    BY <1>2, InProcess
  <1> HIDE DEF f
  <1>8. /\ top' \in [Slots -> Frame] /\ top'[cur] = f /\ cur' = cur
        /\ \A s \in Slots : s # cur => top'[s] = top[s]
        /\ asked' \in [Slots -> Call] /\ asked'[cur] = call
    BY <1>1, <1>6, <1>7 DEF f
  <1>9. SwitchInv'
    BY <1>1, <1>2, <1>8, SameSwitch, Zenon DEF IInv
  <1>10. TableInv'
    <2>1. \A s \in Slots : proc[s].state = "RUNNABLE" => top'[s] = top[s]
      BY <1>7, <1>8
    <2> QED
      BY <1>1, <1>8, <2>1 DEF IInv, TableInv
  <1>11. PidInv'
    BY <1>1 DEF IInv, PidInv
  <1>12. CallInv'
    <2>1. Heading' = "syscall"
      BY <1>1 DEF Heading
    <2> QED
      BY <1>1, <1>2, <1>6, <1>8, <2>1, Zenon DEF CallInv
  <1> QED
    BY <1>4, <1>5, <1>9, <1>10, <1>11, <1>12 DEF IInv

\* A fault of the process stops the kernel.
LEMMA UserFaultIInv == IInv /\ UserFault => IInv'
  <1> SUFFICES ASSUME IInv, UserFault PROVE IInv'
    OBVIOUS
  <1>1. /\ pc' = pc
        /\ UNCHANGED <<lock, proc, nextpid, initproc, cproc, scheduler, esp0, cr3, cur, p,
                       after, top, inits, asked>>
    BY Zenon DEF UserFault
  <1>2. PICK msg \in {"page fault not handled!", "protection fault not handled!",
                      "isr_handler"} : cpu' = Panic(cpu, msg)
    BY Zenon DEF UserFault
  <1>3. CpuInv'
    <2>1. msg \in ExpectedPanics /\ cpu \in CpuState
      BY Zenon DEF ExpectedPanics, IInv, CpuInv
    <2> QED
      BY <1>2, <2>1, PanicCpu, Zenon
  <1>4. LockInv' /\ SwitchInv'
    BY <1>1, Zenon DEF IInv, LockInv, SwitchInv
  <1>5. TableInv' /\ PidInv'
    BY <1>1, SameTable, Zenon DEF IInv
  <1>6. CallInv'
    BY <1>1, SameCall, Zenon DEF IInv
  <1> QED
    BY <1>3, <1>4, <1>5, <1>6, Zenon DEF IInv

\* syscall_handler() notes the frame and branches on the number in it.
LEMMA SyscallHandlerIInv == IInv /\ SyscallHandler => IInv'
  <1> SUFFICES ASSUME IInv, SyscallHandler PROVE IInv'
    OBVIOUS
  <1> DEFINE num == top[cur].call.num
  <1>1. /\ Alive(cpu) /\ pc = "syscall"
        /\ pc' = (IF num = "unknown" THEN "print" ELSE num)
        /\ after' = (IF num = "unknown" THEN "fail" ELSE after)
        /\ cpu' = myproc(cpu) /\ proc' = [proc EXCEPT ![cproc].tf = cur]
        /\ UNCHANGED <<lock, nextpid, initproc, cproc, scheduler, esp0, cr3, cur, p, top,
                       inits, asked>>
    BY DEF SyscallHandler, At
  <1>2. pc \in ProcPcs /\ pc \notin HeldPcs
    BY <1>1 DEF ProcPcs, HeldPcs, PtablePcs
  <1>3. /\ cur \in Slots /\ cur # 0 /\ cproc = cur /\ proc \in [Slots -> Process]
        /\ proc[cur] \in Process /\ proc[cur].state = "RUNNING" /\ asked[cur] \in Call
    BY <1>2, InProcess
  <1>4. /\ top[cur].kind = "syscall" /\ top[cur].call = asked[cur] /\ num = asked[cur].num
        /\ num \in {"hello", "exit", "unknown"}
    BY <1>1, <1>3, Zenon DEF IInv, CallInv, Call
  <1> HIDE DEF num
  <1>5. /\ pc' \in {"hello", "exit", "print"} /\ pc' \in ProcPcs
        /\ pc' \notin HeldPcs \cup BootPcs /\ pc' \notin HeldPcs
    BY <1>1, <1>4 DEF ProcPcs, CallPcs, HeldPcs, PtablePcs, BootPcs
  <1>6. CpuInv'
    BY <1>1, <1>2, <1>5, NotHolding, MyprocStep, CpuOutside
  <1>7. LockInv'
    BY <1>1, <1>2, <1>5, LocksFree DEF IInv
  <1>8. /\ proc' \in [Slots -> Process] /\ proc'[cur] = [proc[cur] EXCEPT !.tf = cur]
        /\ \A s \in Slots : s # cur => proc'[s] = proc[s]
    <2>1. [proc[cur] EXCEPT !.tf = cur] \in Process
      BY <1>3, SlotIndex DEF Process
    <2> QED
      BY <1>1, <1>3, <2>1
  <1>9. /\ proc'[cur].tf = cur /\ proc'[cur].state = proc[cur].state
        /\ proc'[cur].kstack = proc[cur].kstack /\ proc'[cur].pgdir = proc[cur].pgdir
        /\ proc'[cur].pid = proc[cur].pid
    BY <1>3, <1>8 DEF Process
  <1>10. \A s \in Slots : proc'[s].state = proc[s].state /\ proc'[s].pid = proc[s].pid
    BY <1>8, <1>9, Zenon
  <1>11. SwitchInv'
    BY <1>1, <1>2, <1>5, <1>10, SameSwitch, Zenon DEF IInv
  <1>12. TableInv'
    <2>1. ASSUME NEW s \in Slots
          PROVE  /\ proc'[s].state \in {"RUNNABLE", "RUNNING", "ZOMBIE"} =>
                       proc'[s].kstack /\ proc'[s].pgdir
                 /\ proc'[s].state = "RUNNABLE" =>
                       proc'[s].context = "enter_process" /\ top'[s] = FirstFrame
      BY <1>1, <1>3, <1>8, <1>9 DEF IInv, TableInv
    <2>2. top' \in [Slots -> Frame] /\ initproc' \in 0..NPROC
      BY <1>1 DEF IInv, TableInv
    <2> QED
      BY <1>8, <2>1, <2>2, Zenon DEF TableInv, FirstFrame
  <1>13. PidInv'
    BY <1>1, <1>10 DEF IInv, PidInv
  <1>14. CallInv'
    <2>1. /\ pc' = "hello" => Heading' = "hello" /\ asked[cur].num = "hello"
          /\ pc' = "exit" => Heading' = "exit" /\ asked[cur].num = "exit"
          /\ pc' = "print" => /\ Heading' = "fail" /\ after' = "fail"
                              /\ ~Succeeds(asked[cur])
      BY <1>1, <1>4, Zenon DEF Heading, Succeeds
    <2> QED
      BY <1>1, <1>3, <1>4, <1>5, <1>9, <2>1 DEF IInv, CallInv
  <1> QED
    BY <1>6, <1>7, <1>11, <1>12, <1>13, <1>14, Zenon DEF IInv

\* A system call goes on: the frame and the call in it stay, and what is known
\* of its outcome has to be shown.
LEMMA CallGoesOn ==
    ASSUME IInv, pc \in CallPcs, pc' \in CallPcs \ {"hello", "exit"},
           UNCHANGED <<proc, cur, top, asked>>,
           pc' \in {"print", "printing"} => after' \in {"ok", "fail", "exiting"},
           Heading' = "ok" => Succeeds(asked[cur]),
           Heading' = "fail" => ~Succeeds(asked[cur]),
           Heading' \in {"exiting", "zombie"} => asked[cur].num = "exit" /\ asked[cur].arg # Bad
    PROVE  CallInv'
  <1>1. Heading' # "hello" /\ Heading' # "exit"
    BY DEF Heading
  <1>2. pc' # "enter_process" /\ pc' # "trapret"
    BY DEF CallPcs
  <1> QED
    BY <1>1, <1>2, Zenon DEF IInv, CallInv

\* While a call executes, Current is the call the process made.
LEMMA CurrentIs ==
    ASSUME IInv, pc \in CallPcs
    PROVE  Current = asked[cur] /\ asked[cur] \in Call
  <1>1. pc \in ProcPcs
    BY DEF ProcPcs
  <1>2. cproc = cur /\ asked[cur] \in Call
    BY <1>1, InProcess
  <1>3. proc[cur].tf = cur /\ top[cur].call = asked[cur]
    BY DEF IInv, CallInv
  <1> QED
    BY <1>2, <1>3 DEF Current

\* sys_hello() and sys_exit() read their arguments and branch.
LEMMA SysCallsIInv == IInv /\ (SysHello \/ SysExit) => IInv'
  <1> SUFFICES ASSUME IInv, SysHello \/ SysExit PROVE IInv'
    OBVIOUS
  <1>1. /\ Alive(cpu) /\ pc \in {"hello", "exit"}
        /\ UNCHANGED <<lock, proc, nextpid, initproc, cproc, scheduler, esp0, cr3, cur, p, top,
                       inits, asked>>
    BY DEF SysHello, SysExit, At
  <1>2. pc \in CallPcs /\ pc \in ProcPcs /\ pc \notin HeldPcs
    BY <1>1 DEF CallPcs, ProcPcs, HeldPcs, PtablePcs
  <1>3. Current = asked[cur] /\ Heading = pc
    BY <1>1, <1>2, CurrentIs, Zenon DEF Heading
  <1>4. \/ /\ pc = "hello" /\ asked[cur].arg # Bad /\ pc' = "print" /\ after' = "ok"
        \/ /\ pc' = "fail" /\ asked[cur].arg = Bad
        \/ /\ pc = "exit" /\ asked[cur].arg # Bad
           /\ \/ pc' = "print" /\ after' = "exiting"
              \/ pc' = "exiting"
    BY <1>3 DEF SysHello, SysExit, At
  <1>5. pc' \in CallPcs \ {"hello", "exit"} /\ pc' \notin HeldPcs \cup BootPcs
        /\ pc' \notin HeldPcs /\ pc' \in ProcPcs
    BY <1>4 DEF CallPcs, ProcPcs, HeldPcs, PtablePcs, BootPcs
  <1>6. CpuInv'
    <2>1. cpu \in CpuState /\ cpu.ncli = 0 /\ cpu.iflag
      BY <1>1, <1>2, NotHolding, Zenon
    <2>2. /\ myproc(cpu) \in CpuState /\ Alive(myproc(cpu)) /\ myproc(cpu).ncli = 0
          /\ myproc(cpu).iflag
      BY <1>1, <2>1, MyprocStep, Zenon
    <2>3. /\ myproc(myproc(cpu)) \in CpuState /\ Alive(myproc(myproc(cpu)))
          /\ myproc(myproc(cpu)).ncli = 0 /\ myproc(myproc(cpu)).iflag
      BY <2>2, MyprocStep, Zenon
    <2>4. cpu' = myproc(cpu) \/ cpu' = myproc(myproc(cpu))
      BY DEF SysHello, SysExit
    <2> QED
      BY <1>5, <2>2, <2>3, <2>4, CpuOutside, Zenon
  <1>7. LockInv'
    BY <1>1, <1>2, <1>5, LocksFree, Zenon DEF IInv
  <1>8. SwitchInv'
    BY <1>1, <1>2, <1>5, SameSwitch, Zenon DEF IInv
  <1>9. TableInv' /\ PidInv'
    BY <1>1, SameTable, Zenon DEF IInv
  <1>10. CallInv'
    <2>1. asked[cur].num = pc
      BY <1>1, <1>3, Zenon DEF IInv, CallInv
    <2>2. /\ pc' \in {"print", "printing"} => after' \in {"ok", "fail", "exiting"}
          /\ Heading' = "ok" => Succeeds(asked[cur])
          /\ Heading' = "fail" => ~Succeeds(asked[cur])
          /\ Heading' \in {"exiting", "zombie"} =>
                asked[cur].num = "exit" /\ asked[cur].arg # Bad
      BY <1>4, <2>1 DEF Heading, Succeeds
    <2> QED
      BY <1>1, <1>2, <1>5, <2>2, CallGoesOn, Zenon
  <1> QED
    BY <1>6, <1>7, <1>8, <1>9, <1>10, Zenon DEF IInv

\* A call takes the console's lock to print, or exit() takes ptable.lock.
LEMMA CallAcquireIInv == IInv /\ (CprintfAcquire \/ ExitAcquire) => IInv'
  <1> SUFFICES ASSUME IInv, CprintfAcquire \/ ExitAcquire PROVE IInv'
    OBVIOUS
  <1>1. /\ Alive(cpu)
        /\ \/ pc = "print" /\ Acquire("cons", "printing")
           \/ pc = "exiting" /\ Acquire("ptable", "zombie")
        /\ UNCHANGED <<proc, nextpid, initproc, cproc, scheduler, esp0, cr3, cur, p, after, top,
                       inits, asked>>
    BY DEF CprintfAcquire, ExitAcquire, At
  <1>2. pc \in CallPcs /\ pc \in ProcPcs /\ pc \notin HeldPcs
    BY <1>1 DEF CallPcs, ProcPcs, HeldPcs, PtablePcs
  <1>3. /\ cpu \in CpuState /\ cpu.ncli = 0 /\ cpu.iflag
        /\ lock \in [{"ptable", "cons"} -> LockState]
        /\ lock["ptable"] = initlock /\ lock["cons"] = initlock
    BY <1>1, <1>2, NotHolding
  <1>4. /\ cpu' \in CpuState /\ Alive(cpu') /\ cpu'.ncli = 1 /\ ~cpu'.iflag /\ cpu'.intena
        /\ \/ /\ pc = "print" /\ pc' = "printing"
              /\ lock' = [lock EXCEPT !["cons"] = Taken]
           \/ /\ pc = "exiting" /\ pc' = "zombie"
              /\ lock' = [lock EXCEPT !["ptable"] = Taken]
    <2>1. CASE pc = "print" /\ Acquire("cons", "printing")
      BY <1>1, <1>3, <2>1, AcquireStep, Zenon
    <2>2. CASE pc = "exiting" /\ Acquire("ptable", "zombie")
      BY <1>1, <1>3, <2>2, AcquireStep, Zenon
    <2> QED
      BY <1>1, <2>1, <2>2, Zenon
  <1>5. /\ pc' \in HeldPcs /\ pc' \in CallPcs \ {"hello", "exit"} /\ pc' \in ProcPcs
        /\ pc' \in PtablePcs <=> pc' = "zombie"
    BY <1>4 DEF HeldPcs, PtablePcs, CallPcs, ProcPcs
  <1>6. CpuInv'
    BY <1>4, <1>5, CpuInside, Zenon
  <1>7. LockInv'
    <2>1. Taken \in LockState
      BY DEF Taken, LockState
    <2> QED
      BY <1>3, <1>4, <1>5, <2>1 DEF LockInv
  <1>8. SwitchInv'
    BY <1>1, <1>2, <1>5, SameSwitch, Zenon DEF IInv
  <1>9. TableInv' /\ PidInv'
    BY <1>1, SameTable DEF IInv
  <1>10. CallInv'
    <2>1. /\ pc = "print" => Heading' = Heading /\ after' \in {"ok", "fail", "exiting"}
          /\ pc = "exiting" => Heading = "exiting" /\ Heading' = "zombie"
      BY <1>1, <1>4, Zenon DEF Heading, IInv, CallInv
    <2>2. /\ Heading' = "ok" => Succeeds(asked[cur])
          /\ Heading' = "fail" => ~Succeeds(asked[cur])
          /\ Heading' \in {"exiting", "zombie"} =>
                asked[cur].num = "exit" /\ asked[cur].arg # Bad
      BY <1>4, <2>1, Zenon DEF IInv, CallInv
    <2>3. pc' \in {"print", "printing"} => after' \in {"ok", "fail", "exiting"}
      BY <1>4, <2>1
    <2> QED
      BY <1>1, <1>2, <1>5, <2>2, <2>3, CallGoesOn, Zenon
  <1> QED
    BY <1>6, <1>7, <1>8, <1>9, <1>10, Zenon DEF IInv

\* The message is out and the call goes on where it was bound for.
LEMMA CprintfReleaseIInv == IInv /\ CprintfRelease => IInv'
  <1> SUFFICES ASSUME IInv, CprintfRelease PROVE IInv'
    OBVIOUS
  <1>1. /\ Alive(cpu) /\ pc = "printing" /\ Release("cons", after)
        /\ UNCHANGED <<proc, nextpid, initproc, cproc, scheduler, esp0, cr3, cur, p, after, top,
                       inits, asked>>
    BY DEF CprintfRelease, At
  <1>2. pc \in CallPcs /\ pc \in ProcPcs /\ pc \in HeldPcs /\ pc \notin PtablePcs
    BY <1>1 DEF CallPcs, ProcPcs, HeldPcs, PtablePcs
  <1>3. /\ cpu \in CpuState /\ cpu.ncli = 1 /\ ~cpu.iflag /\ cpu.intena
        /\ lock \in [{"ptable", "cons"} -> LockState]
        /\ lock["ptable"] = initlock /\ lock["cons"] = Taken
    BY <1>1, <1>2, Zenon DEF IInv, CpuInv, LockInv
  <1>4. /\ cpu' \in CpuState /\ Alive(cpu') /\ cpu'.ncli = 0 /\ cpu'.iflag
        /\ lock' = [lock EXCEPT !["cons"] = initlock] /\ pc' = after
    BY <1>1, <1>3, ReleaseStep, Zenon
  <1>5. /\ pc' \in {"ok", "fail", "exiting"} /\ pc' \notin HeldPcs \cup BootPcs
        /\ pc' \notin PtablePcs /\ pc' # "printing"
        /\ pc' \in CallPcs \ {"hello", "exit"} /\ pc' \in ProcPcs
    BY <1>1, <1>4, Zenon DEF IInv, CallInv, HeldPcs, PtablePcs, BootPcs, CallPcs, ProcPcs
  <1>6. CpuInv'
    BY <1>4, <1>5, CpuOutside, Zenon
  <1>7. LockInv'
    <2>1. initlock \in LockState
      BY Zenon DEF initlock, LockState
    <2> QED
      BY <1>3, <1>4, <1>5, <2>1, Zenon DEF LockInv
  <1>8. SwitchInv'
    BY <1>1, <1>2, <1>5, SameSwitch, Zenon DEF IInv
  <1>9. TableInv' /\ PidInv'
    BY <1>1, SameTable, Zenon DEF IInv
  <1>10. CallInv'
    <2>1. Heading = after /\ Heading' = after
      BY <1>1, <1>4, <1>5, Zenon DEF Heading
    <2>2. /\ Heading' = "ok" => Succeeds(asked[cur])
          /\ Heading' = "fail" => ~Succeeds(asked[cur])
          /\ Heading' \in {"exiting", "zombie"} =>
                asked[cur].num = "exit" /\ asked[cur].arg # Bad
      BY <2>1, Zenon DEF IInv, CallInv
    <2>3. pc' \notin {"print", "printing"}
      BY <1>5
    <2> QED
      BY <1>1, <1>2, <1>5, <2>2, <2>3, CallGoesOn, Zenon
  <1> QED
    BY <1>6, <1>7, <1>8, <1>9, <1>10, Zenon DEF IInv

\* A frame at the top of the running process's stack changes no other process.
LEMMA NewTop ==
    ASSUME IInv, pc \in ProcPcs, NEW f \in Frame, top' = [top EXCEPT ![cur] = f],
           UNCHANGED <<proc, initproc>>
    PROVE  TableInv' /\ top'[cur] = f
  <1>1. /\ cur \in Slots /\ proc[cur].state = "RUNNING" /\ top \in [Slots -> Frame]
    BY InProcess
  <1>2. /\ top' \in [Slots -> Frame] /\ top'[cur] = f
        /\ \A s \in Slots : s # cur => top'[s] = top[s]
    BY <1>1
  <1>3. \A s \in Slots : proc[s].state = "RUNNABLE" => top'[s] = top[s]
    BY <1>1, <1>2
  <1> QED
    BY <1>2, <1>3 DEF IInv, TableInv

\* The result of the call goes into its frame.
LEMMA SyscallReturnIInv == IInv /\ SyscallReturn => IInv'
  <1> SUFFICES ASSUME IInv, SyscallReturn PROVE IInv'
    OBVIOUS
  <1>1. /\ Alive(cpu) /\ pc \in {"ok", "fail"} /\ pc' = "trapret"
        /\ top' = [top EXCEPT ![cur].eax = pc]
        /\ UNCHANGED <<cpu, lock, proc, nextpid, initproc, cproc, scheduler, esp0, cr3, cur, p,
                       after, inits, asked>>
    BY DEF SyscallReturn
  <1>2. /\ pc \in ProcPcs /\ pc \in CallPcs /\ pc \notin HeldPcs
        /\ pc' \in ProcPcs /\ pc' \notin HeldPcs \cup BootPcs /\ pc' \notin HeldPcs
        /\ pc' \notin CallPcs
    BY <1>1 DEF ProcPcs, HeldPcs, PtablePcs, BootPcs, CallPcs
  <1>3. CpuInv'
    BY <1>1, <1>2, NotHolding, CpuOutside, Zenon
  <1>4. LockInv'
    BY <1>1, <1>2, LocksFree DEF IInv
  <1>5. SwitchInv'
    BY <1>1, <1>2, SameSwitch, Zenon DEF IInv
  <1> DEFINE f == [top[cur] EXCEPT !.eax = pc]
  <1>6. /\ f \in Frame /\ f.eax = pc /\ f.iflag /\ f.kind = top[cur].kind
    BY <1>1, <1>2, InProcess DEF Frame
  <1>7. top' = [top EXCEPT ![cur] = f]
    BY <1>1
  <1> HIDE DEF f
  <1>8. TableInv' /\ top'[cur] = f
    BY <1>1, <1>2, <1>6, <1>7, NewTop, Zenon
  <1>9. PidInv'
    BY <1>1, Zenon DEF IInv, PidInv
  <1>10. CallInv'
    <2>1. Heading = pc /\ Heading' = "trapret"
      BY <1>1 DEF Heading
    <2>2. pc = IF Succeeds(asked[cur]) THEN "ok" ELSE "fail"
      BY <1>1, <2>1, Zenon DEF IInv, CallInv
    <2> QED
      BY <1>1, <1>2, <1>6, <1>8, <2>1, <2>2 DEF IInv, CallInv
  <1> QED
    BY <1>3, <1>4, <1>5, <1>8, <1>9, <1>10, Zenon DEF IInv

\* None of the checks of enter_scheduler() fires for an exiting process.
LEMMA SchedCpuIs ==
    ASSUME cpu \in CpuState, Alive(cpu), cpu.ncli = 1, ~cpu.iflag, lock["ptable"] = Taken
    PROVE  SchedCpu("ZOMBIE") = cpu
  <1>1. holding(cpu) = cpu /\ myproc(cpu) = cpu
    BY HoldingEffect DEF myproc, holding
  <1>2. holds(lock["ptable"]) /\ mycpu(cpu) = cpu
    BY DEF holds, Taken, mycpu
  <1> QED
    BY <1>1, <1>2, Zenon DEF SchedCpu

\* exit() switches back to the scheduler with ptable.lock held.
LEMMA ExitIInv == IInv /\ Exit => IInv'
  <1> SUFFICES ASSUME IInv, Exit PROVE IInv'
    OBVIOUS
  <1>1. /\ Alive(cpu) /\ pc = "zombie" /\ cpu' = SchedCpu("ZOMBIE")
        /\ proc' = [proc EXCEPT ![cproc].xstate = Current.arg, ![cproc].state = "ZOMBIE",
                                ![cproc].context = "zombie exit"]
        /\ cur' = 0 /\ pc' = scheduler
        /\ UNCHANGED <<lock, nextpid, initproc, cproc, scheduler, esp0, cr3, p, after, top,
                       inits, asked>>
    BY Zenon DEF Exit, At
  <1>2. pc \in CallPcs /\ pc \in ProcPcs /\ pc \in HeldPcs /\ pc \in PtablePcs
    BY <1>1, Zenon DEF CallPcs, ProcPcs, HeldPcs, PtablePcs
  <1>3. /\ cur \in Slots /\ cur # 0 /\ cproc = cur /\ p = cur /\ proc \in [Slots -> Process]
        /\ proc[cur] \in Process /\ proc[cur].state = "RUNNING" /\ scheduler = "back"
        /\ asked \in [Slots -> Call] /\ asked[cur] \in Call
    BY <1>2, InProcess, Zenon DEF IInv, SwitchInv
  <1>4. pc' = "back" /\ pc' \in HeldPcs /\ pc' \in PtablePcs /\ pc' \in SchedPcs
    BY <1>1, <1>3, Zenon DEF HeldPcs, PtablePcs, SchedPcs
  <1>5. CpuInv'
    <2>1. /\ cpu \in CpuState /\ cpu.ncli = 1 /\ ~cpu.iflag /\ cpu.intena
          /\ lock["ptable"] = Taken
      BY <1>1, <1>2, Zenon DEF IInv, CpuInv, LockInv
    <2>2. cpu' = cpu
      BY <1>1, <2>1, SchedCpuIs, Zenon
    <2> QED
      BY <1>1, <1>4, <2>1, <2>2, CpuInside, Zenon
  <1>6. LockInv'
    BY <1>1, <1>2, <1>4, Zenon DEF IInv, LockInv
  <1> DEFINE e == [proc[cur] EXCEPT !.xstate = asked[cur].arg, !.state = "ZOMBIE",
                                    !.context = "zombie exit"]
  <1>7. proc' = [proc EXCEPT ![cur] = e]
    BY <1>1, <1>2, <1>3, CurrentIs, Zenon
  <1>8. /\ e \in Process /\ e.state = "ZOMBIE" /\ e.kstack = proc[cur].kstack
        /\ e.pgdir = proc[cur].pgdir /\ e.pid = proc[cur].pid
    BY <1>3, Zenon DEF Process, States, Labels, Call
  <1> HIDE DEF e
  <1>9. /\ proc' \in [Slots -> Process] /\ proc'[cur] = e
        /\ \A s \in Slots : s # cur => proc'[s] = proc[s]
    BY <1>3, <1>7, <1>8, Zenon
  <1>10. SwitchInv'
    <2>1. \A s \in Slots : proc'[s].state # "RUNNING"
      BY <1>8, <1>9 DEF IInv, SwitchInv
    <2>2. p \in 0..(NPROC + 1) /\ p \in Slots /\ 0 \in 0..NPROC
      BY <1>3, ProcAssumption DEF Slots
    <2> QED
      BY <1>1, <1>4, <2>1, <2>2, Zenon DEF SwitchInv
  <1>11. TableInv'
    <2>1. ASSUME NEW s \in Slots
          PROVE  /\ proc'[s].state \in {"RUNNABLE", "RUNNING", "ZOMBIE"} =>
                       proc'[s].kstack /\ proc'[s].pgdir
                 /\ proc'[s].state = "RUNNABLE" =>
                       proc'[s].context = "enter_process" /\ top'[s] = FirstFrame
      BY <1>1, <1>3, <1>8, <1>9, Zenon DEF IInv, TableInv
    <2>2. top' \in [Slots -> Frame] /\ initproc' \in 0..NPROC
      BY <1>1, Zenon DEF IInv, TableInv
    <2> QED
      BY <1>9, <2>1, <2>2, Zenon DEF TableInv, FirstFrame
  <1>12. PidInv'
    <2>1. \A s \in Slots : /\ proc'[s].pid = proc[s].pid
                           /\ proc'[s].state # "UNUSED" <=> proc[s].state # "UNUSED"
      BY <1>3, <1>8, <1>9, Zenon
    <2> QED
      BY <1>1, <2>1, Zenon DEF IInv, PidInv
  <1>13. CallInv'
    BY <1>1, <1>3, <1>4, NoCallInProgress, Zenon
  <1> QED
    BY <1>5, <1>6, <1>10, <1>11, <1>12, <1>13, Zenon DEF IInv

\* An interrupt handler, whether it prints or not, leaves the processor as it
\* found it, and writes at most a frame on the running process's stack.
LEMMA InterruptIInv == ASSUME NEW prints \in BOOLEAN PROVE IInv /\ Interrupt(prints) => IInv'
  <1> SUFFICES ASSUME IInv, Interrupt(prints) PROVE IInv'
    OBVIOUS
  <1> DEFINE c == [cpu EXCEPT !.iflag = FALSE]
  <1> DEFINE d == IF prints THEN Section(c, lock["cons"]) ELSE c
  <1>1. /\ Alive(cpu) /\ cpu.iflag /\ pc' = pc
        /\ cpu' = (IF Alive(d) THEN [d EXCEPT !.iflag = TRUE] ELSE d)
        /\ top' = (IF pc = "user" THEN [top EXCEPT ![esp0] = NewFrame("irq", NoCall, TRUE)]
                   ELSE top)
        /\ UNCHANGED <<lock, proc, nextpid, initproc, cproc, scheduler, esp0, cr3, cur, p,
                       after, inits, asked>>
    BY Zenon DEF Interrupt
  <1>2. pc \notin HeldPcs /\ pc \notin BootPcs /\ cpu \in CpuState /\ cpu.ncli = 0
    BY <1>1, Zenon DEF IInv, CpuInv
  <1>3. CpuInv'
    <2>1. lock["cons"] = initlock /\ initlock \in LockState /\ ~initlock.locked
      BY <1>2 DEF IInv, LockInv, HeldPcs, initlock, LockState
    <2>2. c \in CpuState /\ ~c.iflag /\ c.ncli = 0 /\ Alive(c)
      BY <1>1, <1>2, Zenon DEF CpuState, Alive
    <2> HIDE DEF c
    <2>3. d \in CpuState /\ Alive(d) /\ d.ncli = 0
      BY <2>1, <2>2, SectionEffect, Zenon
    <2> HIDE DEF d
    <2>4. cpu' \in CpuState /\ Alive(cpu') /\ cpu'.ncli = 0 /\ cpu'.iflag
      BY <1>1, <2>3, Zenon DEF CpuState, Alive
    <2> QED
      BY <1>1, <1>2, <2>4, CpuOutside, Zenon
  <1> HIDE DEF d, c
  <1>4. LockInv' /\ SwitchInv' /\ PidInv'
    BY <1>1 DEF IInv, LockInv, SwitchInv, PidInv
  <1>5. Heading' = Heading
    BY <1>1 DEF Heading
  <1>6. CASE pc = "user"
    <2> DEFINE f == NewFrame("irq", NoCall, TRUE)
    <2>1. f \in Frame /\ f.iflag
      BY Zenon DEF NewFrame, NoCall, Frame, Call
    <2>2. pc \in ProcPcs /\ pc \notin CallPcs /\ Heading = "user"
      BY <1>6 DEF ProcPcs, CallPcs, Heading
    <2>3. top' = [top EXCEPT ![cur] = f]
      BY <1>1, <1>6, <2>2, InProcess
    <2> HIDE DEF f
    <2>4. TableInv' /\ top'[cur] = f
      BY <1>1, <2>1, <2>2, <2>3, NewTop, Zenon
    <2>5. CallInv'
      BY <1>1, <1>5, <1>6, <2>1, <2>2, <2>4, Zenon DEF IInv, CallInv
    <2> QED
      BY <1>3, <1>4, <2>4, <2>5 DEF IInv
  <1>7. CASE pc # "user"
    <2>1. top' = top
      BY <1>1, <1>7
    <2>2. TableInv'
      BY <1>1, <2>1, Zenon DEF IInv, TableInv
    <2>3. CallInv'
      BY <1>1, <2>1, SameCall, Zenon DEF IInv
    <2> QED
      BY <1>3, <1>4, <2>2, <2>3 DEF IInv
  <1> QED
    BY <1>6, <1>7, Zenon

\* A step that changes nothing.
LEMMA StutterIInv == IInv /\ UNCHANGED vars => IInv'
  <1> SUFFICES ASSUME IInv, UNCHANGED vars PROVE IInv'
    BY Zenon
  <1>1. CpuInv' /\ LockInv' /\ SwitchInv'
    BY DEF vars, IInv, CpuInv, LockInv, SwitchInv
  <1>2. TableInv' /\ PidInv'
    BY SameTable, Zenon DEF vars, IInv
  <1>3. CallInv'
    BY SameCall, Zenon DEF vars, IInv
  <1> QED
    BY <1>1, <1>2, <1>3, Zenon DEF IInv

\* Every step preserves the invariant.
LEMMA NextIInv == IInv /\ [Next]_vars => IInv'
  <1> SUFFICES ASSUME IInv, [Next]_vars PROVE IInv'
    OBVIOUS
  <1>1. CASE KernelStep
    BY <1>1, MainIInv, StiIInv, SchedAcquireIInv, ScanIInv, DispatchIInv, SchedReleaseIInv,
       EnterProcessIInv, TrapretIInv, SyscallHandlerIInv, SysCallsIInv, CallAcquireIInv,
       CprintfReleaseIInv, SyscallReturnIInv, ExitIInv, Zenon DEF KernelStep
  <1>2. CASE ProcessAllocFails \/ AddressSpaceFails \/ InitprocInit
    BY <1>2, ProcessAllocFailsIInv, AddressSpaceFailsIInv, InitprocInitIInv, Zenon
  <1>3. CASE UserFault \/ \E call \in Call : Syscall(call)
    BY <1>3, UserFaultIInv, SyscallIInv, Zenon
  <1>4. CASE \E prints \in BOOLEAN : Interrupt(prints)
    BY <1>4, InterruptIInv
  <1>5. CASE Halted \/ UNCHANGED vars
    BY <1>5, StutterIInv, Zenon DEF Halted
  <1> QED
    BY <1>1, <1>2, <1>3, <1>4, <1>5, Zenon DEF Next

-----------------------------------------------------------------------------
(* The theorems.                                                           *)

\* The invariant above holds in every reachable state.
THEOREM Invariance == Spec => []IInv
  BY InitIInv, NextIInv, PTL DEF Spec

\* What the invariant says of types.
TypedByIInv ==
    /\ cpu \in CpuState /\ lock \in [{"ptable", "cons"} -> LockState]
    /\ proc \in [Slots -> Process] /\ initproc \in 0..NPROC /\ cur \in 0..NPROC
    /\ p \in 0..(NPROC + 1) /\ top \in [Slots -> Frame]
    /\ inits \in 0..MaxInit /\ asked \in [Slots -> Call]

\* What TypeOK says beyond the invariant: of the registers that keep an old
\* value while the scheduler runs.
LEMMA NextTypeOK == IInv /\ IInv' /\ TypeOK /\ [Next]_vars => TypeOK'
  <1> SUFFICES ASSUME IInv, IInv', TypeOK, [Next]_vars PROVE TypeOK'
    BY Zenon
  <1>1. PidMax \in Nat /\ MaxInit \in Nat /\ MaxInit < PidMax
    BY ProcAssumption, Zenon
  <1>a. inits' \in 0..MaxInit /\ nextpid' \in 1..(inits' + 1)
    BY Zenon DEF IInv, PidInv
  <1>b. \A i \in 0..MaxInit : 1..(i + 1) \subseteq 0..PidMax
    BY <1>1
  <1>2. nextpid' \in 0..PidMax
    BY <1>a, <1>b, Zenon
  <1>3. pc' \in Labels
    BY Zenon DEF IInv, SwitchInv, SchedPcs, ProcPcs, CallPcs, Labels
  <1>4. /\ cproc' \in 0..NPROC /\ esp0' \in 0..NPROC /\ cr3' \in 0..NPROC
        /\ scheduler' \in Labels /\ after' \in Labels
    <2>1. CASE Dispatch
      <3>1. cproc' = p /\ esp0' = p /\ cr3' = p /\ cur' = p /\ scheduler' = "back"
            /\ after' = after
        BY <2>1 DEF Dispatch, Tss
      <3>2. p \in 0..NPROC
        BY <3>1, Zenon DEF IInv, SwitchInv
      <3> QED
        BY <3>1, <3>2, Zenon DEF TypeOK, Labels
    <2>2. CASE StartScheduler \/ Back
      <3>1. /\ cproc' = 0 /\ UNCHANGED <<esp0, scheduler, after>>
            /\ cr3' = cr3 \/ cr3' = 0
        BY <2>2, Zenon DEF StartScheduler, Back
      <3>2. 0 \in 0..NPROC
        BY ProcAssumption
      <3> QED
        BY <3>1, <3>2, Zenon DEF TypeOK
    <2>3. CASE SyscallHandler \/ SysHello \/ SysExit
      BY <2>3, Zenon DEF SyscallHandler, SysHello, SysExit, TypeOK, Labels
    <2>4. CASE UNCHANGED <<cproc, esp0, cr3, scheduler, after>>
      BY <2>4 DEF TypeOK
    <2> QED
      BY <2>1, <2>2, <2>3, <2>4, Zenon
      DEF Next, KernelStep, vars, ProcessInit, Sti, SchedAcquire, Skip, SchedRelease,
          EnterProcess, Trapret, CprintfAcquire, CprintfRelease, SyscallReturn, ExitAcquire,
          Exit, ProcessAllocFails, AddressSpaceFails, InitprocInit, UserFault, Syscall,
          Interrupt, Halted
  <1>5. TypedByIInv'
    BY Zenon DEF TypedByIInv, IInv, CpuInv, LockInv, SwitchInv, TableInv, PidInv, CallInv
  <1> QED
    BY <1>2, <1>3, <1>4, <1>5, Zenon DEF TypeOK, TypedByIInv

\* The state keeps its shape: registers, frames, calls and the table.
THEOREM TypeCorrect == Spec => []TypeOK
  <1>1. Init => TypeOK
    <2>1. Init => IInv
      BY InitIInv
    <2>2. Init => /\ cproc \in 0..NPROC /\ esp0 \in 0..NPROC /\ cr3 \in 0..NPROC
                  /\ scheduler \in Labels /\ after \in Labels /\ pc \in Labels
      BY ProcAssumption DEF Init, Labels
    <2>3. IInv => nextpid \in 0..PidMax
      BY ProcAssumption DEF IInv, PidInv
    <2>4. IInv => TypedByIInv
      BY Zenon DEF TypedByIInv, IInv, CpuInv, LockInv, SwitchInv, TableInv, PidInv, CallInv
    <2> QED
      BY <2>1, <2>2, <2>3, <2>4, Zenon DEF TypeOK, TypedByIInv
  <1> QED
    BY <1>1, Invariance, NextTypeOK, PTL DEF Spec

\* No check of the lock, scheduler or switch code fires, nobody spins on a
\* lock and no exited process resumes, however many processes there are and
\* whenever interrupts come.
THEOREM PanicsExpected == Spec => []OnlyExpectedPanics
  <1>1. IInv => OnlyExpectedPanics
    BY Zenon DEF IInv, CpuInv, SwitchInv, OnlyExpectedPanics, ExpectedPanics, SchedPcs, ProcPcs,
           CallPcs
  <1> QED
    BY <1>1, Invariance, PTL

\* c->proc, cr3, esp0 and the table name the process whose stack is in use.
THEOREM OneCurrent == Spec => []OneCurrentProcess
  <1>1. IInv => OneCurrentProcess
    <2> SUFFICES ASSUME IInv PROVE OneCurrentProcess
      OBVIOUS
    <2>1. \A s \in Slots : s # 0
      BY SlotIndex
    <2> QED
      BY <2>1, Zenon DEF IInv, SwitchInv, OneCurrentProcess
  <1> QED
    BY <1>1, Invariance, PTL

\* The locks are held exactly where the code says, ptable.lock being handed
\* from scheduler to process and back, and interrupts are off only there.
THEOREM Handover == Spec => []LockHandover
  <1>1. ASSUME IInv, Alive(cpu)
        PROVE  /\ holds(lock["ptable"]) <=> pc \in {"scan", "back", "enter_process", "zombie"}
               /\ holds(lock["cons"]) <=> pc = "printing"
               /\ cpu.ncli = (IF lock["ptable"].locked THEN 1 ELSE 0)
                                + (IF lock["cons"].locked THEN 1 ELSE 0)
               /\ pc \notin {"main", "boot", "sti"} => (cpu.iflag <=> cpu.ncli = 0)
    <2>1. /\ lock["ptable"].locked <=> pc \in PtablePcs
          /\ lock["cons"].locked <=> pc = "printing"
          /\ holds(lock["ptable"]) <=> pc \in PtablePcs
          /\ holds(lock["cons"]) <=> pc = "printing"
      BY <1>1 DEF IInv, LockInv, holds, Taken, initlock
    <2>2. pc \in PtablePcs => pc # "printing"
      BY DEF PtablePcs
    <2>3. cpu.ncli = IF pc \in HeldPcs THEN 1 ELSE 0
      BY <1>1 DEF IInv, CpuInv
    <2>4. cpu.ncli = (IF lock["ptable"].locked THEN 1 ELSE 0)
                        + (IF lock["cons"].locked THEN 1 ELSE 0)
      BY <2>1, <2>2, <2>3 DEF HeldPcs
    <2>5. pc \notin {"main", "boot", "sti"} => (cpu.iflag <=> cpu.ncli = 0)
      BY <1>1 DEF IInv, CpuInv, BootPcs
    <2> QED
      BY <2>1, <2>4, <2>5, Zenon DEF PtablePcs
  <1>2. IInv => LockHandover
    BY <1>1 DEF LockHandover
  <1> QED
    BY <1>2, Invariance, PTL

\* The frame a system call works on is that of the call the process made, and
\* the result it finds is that of this call.
THEOREM TfCurrent == Spec => []TfIsCurrent
  <1>1. IInv => TfIsCurrent
    BY DEF IInv, CallInv, TfIsCurrent, CallPcs, Succeeds
  <1> QED
    BY <1>1, Invariance, PTL

-----------------------------------------------------------------------------
(***************************************************************************)
(* Proc implements Lifecycle: what the table shows of a pid is a state     *)
(* that a step of Lifecycle leads to.                                      *)
(***************************************************************************)

\* At boot no pid names a process.
LEMMA InitLifecycle == Init => L!Init
  <1> SUFFICES ASSUME Init PROVE L!Init
    OBVIOUS
  <1>1. \A q \in 1..PidMax : Entries(q) = {}
    BY DEF Init, Entries
  <1>2. \A q \in 1..PidMax : LifeOf(q) = "unborn"
    BY <1>1, Zenon DEF LifeOf
  <1>3. \A q \in 1..PidMax : /\ OfEntry(q, [s \in Slots |-> proc[s].xstate], Bad) = Bad
                             /\ OfEntry(q, asked, NoCall) = NoCall
    BY <1>1, Zenon DEF OfEntry
  <1>4. Bad \in Status \cup {Bad} /\ NoCall \in Call
    BY DEF NoCall, Call
  <1> QED
    BY <1>2, <1>3, <1>4, Zenon DEF L!Init

\* A pid names at most one process.
LEMMA OneEntry ==
    ASSUME PidInv, TableInv, NEW q, NEW s \in Entries(q)
    PROVE  Entries(q) = {s}
  BY DEF PidInv, TableInv, Entries

\* What a process's entry says of its pid, before and after a step.
EntriesTell ==
    \A q : \A s \in Entries(q) :
        /\ proc[s].state = "RUNNABLE" => LifeOf(q) = "ready"
        /\ proc[s].state = "RUNNING" => LifeOf(q) = "running"
        /\ proc[s].state = "ZOMBIE" => LifeOf(q) = "over"
        /\ Entries(q) = {s}

LEMMA EntryTells == PidInv /\ TableInv => EntriesTell
  <1> SUFFICES ASSUME PidInv, TableInv, NEW q, NEW s \in Entries(q)
               PROVE  /\ proc[s].state = "RUNNABLE" => LifeOf(q) = "ready"
                      /\ proc[s].state = "RUNNING" => LifeOf(q) = "running"
                      /\ proc[s].state = "ZOMBIE" => LifeOf(q) = "over"
                      /\ Entries(q) = {s}
    BY DEF EntriesTell
  <1>1. Entries(q) = {s}
    BY OneEntry
  <1>2. {proc[t].state : t \in Entries(q)} = {proc[s].state}
    BY <1>1
  <1>3. /\ proc[s].state = "RUNNABLE" => LifeOf(q) = "ready"
        /\ proc[s].state = "RUNNING" => LifeOf(q) = "running"
        /\ proc[s].state = "ZOMBIE" => LifeOf(q) = "over"
    BY <1>2, Zenon DEF LifeOf
  <1> QED
    BY <1>1, <1>3, Zenon

LEMMA EntryTellsNext == PidInv' /\ TableInv' => EntriesTell'
  BY EntryTells, PTL

\* The status and the call of a pid are those in its one entry, before and
\* after a step.
LEMMA EntryValue ==
    ASSUME NEW q, NEW s \in Slots
    PROVE  /\ Entries(q) = {s} =>
                 /\ OfEntry(q, [t \in Slots |-> proc[t].xstate], Bad) = proc[s].xstate
                 /\ OfEntry(q, asked, NoCall) = asked[s]
           /\ Entries(q)' = {s} =>
                 /\ OfEntry(q, [t \in Slots |-> proc[t].xstate], Bad)' = proc'[s].xstate
                 /\ OfEntry(q, asked, NoCall)' = asked'[s]
  <1>1. /\ {s} # {} /\ s = CHOOSE t \in {s} : TRUE
        /\ [t \in Slots |-> proc[t].xstate][s] = proc[s].xstate
        /\ [t \in Slots |-> proc'[t].xstate][s] = proc'[s].xstate
    OBVIOUS
  <1>2. ASSUME Entries(q) = {s}
        PROVE  /\ OfEntry(q, [t \in Slots |-> proc[t].xstate], Bad) = proc[s].xstate
               /\ OfEntry(q, asked, NoCall) = asked[s]
    BY <1>1, <1>2, Zenon DEF OfEntry
  <1>3. ASSUME Entries(q)' = {s}
        PROVE  /\ OfEntry(q, [t \in Slots |-> proc[t].xstate], Bad)' = proc'[s].xstate
               /\ OfEntry(q, asked, NoCall)' = asked'[s]
    BY <1>1, <1>3, Zenon DEF OfEntry
  <1> QED
    BY <1>2, <1>3

\* A pid whose entry keeps its state, status and call lives as before.
LEMMA LifeStays ==
    ASSUME NEW q, Entries(q)' = Entries(q),
           \A s \in Entries(q) : /\ proc'[s].state = proc[s].state
                                 /\ proc'[s].xstate = proc[s].xstate /\ asked'[s] = asked[s]
    PROVE  /\ LifeOf(q)' = LifeOf(q)
           /\ OfEntry(q, [s \in Slots |-> proc[s].xstate], Bad)'
                 = OfEntry(q, [s \in Slots |-> proc[s].xstate], Bad)
           /\ OfEntry(q, asked, NoCall)' = OfEntry(q, asked, NoCall)
  <1>1. {proc'[s].state : s \in Entries(q)'} = {proc[s].state : s \in Entries(q)}
    OBVIOUS
  <1>2. LifeOf(q)' = LifeOf(q)
    BY <1>1, Zenon DEF LifeOf
  <1>3. CASE Entries(q) = {}
    BY <1>2, <1>3 DEF OfEntry
  <1>4. CASE Entries(q) # {}
    <2> DEFINE e == CHOOSE s \in Entries(q) : TRUE
    <2>1. e \in Entries(q) /\ e \in Slots
      BY <1>4, Zenon DEF Entries
    <2>2. /\ OfEntry(q, [s \in Slots |-> proc[s].xstate], Bad) = proc[e].xstate
          /\ OfEntry(q, asked, NoCall) = asked[e]
      BY <1>4, <2>1, Zenon DEF OfEntry
    <2>3. /\ OfEntry(q, [s \in Slots |-> proc[s].xstate], Bad)' = proc'[e].xstate
          /\ OfEntry(q, asked, NoCall)' = asked'[e]
      BY <1>4, <2>1 DEF OfEntry
    <2> QED
      BY <1>2, <2>1, <2>2, <2>3, Zenon
  <1> QED
    BY <1>3, <1>4, Zenon

\* When every pid lives as before, the step is a stutter of Lifecycle.
LEMMA LifeStutters ==
    ASSUME asked' = asked,
           \A q \in 1..PidMax :
              /\ Entries(q)' = Entries(q)
              /\ \A s \in Entries(q) : /\ proc'[s].state = proc[s].state
                                       /\ proc'[s].xstate = proc[s].xstate
    PROVE  UNCHANGED L!vars
  <1>1. ASSUME NEW q \in 1..PidMax
        PROVE  /\ LifeOf(q)' = LifeOf(q)
               /\ OfEntry(q, [s \in Slots |-> proc[s].xstate], Bad)'
                     = OfEntry(q, [s \in Slots |-> proc[s].xstate], Bad)
               /\ OfEntry(q, asked, NoCall)' = OfEntry(q, asked, NoCall)
    BY LifeStays, Zenon
  <1> QED
    BY <1>1, Zenon DEF L!vars

\* A change of one slot concerns the pid in it only.
LEMMA OthersStay ==
    ASSUME NEW s \in Slots, NEW q, s \in Entries(q) \/ proc[s].state \in {"UNUSED", "INITIAL"},
           s \in Entries(q)', \A t \in Slots : t # s => proc'[t] = proc[t] /\ asked'[t] = asked[t],
           NEW r, r # q
    PROVE  /\ LifeOf(r)' = LifeOf(r)
           /\ OfEntry(r, [t \in Slots |-> proc[t].xstate], Bad)'
                 = OfEntry(r, [t \in Slots |-> proc[t].xstate], Bad)
           /\ OfEntry(r, asked, NoCall)' = OfEntry(r, asked, NoCall)
  <1>1. s \notin Entries(r) /\ s \notin Entries(r)'
    BY Zenon DEF Entries
  <1>2. Entries(r)' = Entries(r) /\ \A t \in Entries(r) : t \in Slots /\ t # s
    BY <1>1 DEF Entries
  <1> QED
    BY <1>2, LifeStays, Zenon

\* process_alloc() claims an unused slot: it leaves its status alone.
LEMMA EntryClaimed ==
    ASSUME IInv, inits < MaxInit, NEW s \in Slots, FirstUnused(s)
    PROVE  /\ proc \in [Slots -> Process]
           /\ proc[s].state = "UNUSED" /\ proc[s] \in Process
           /\ Claimed(s) \in Process /\ Claimed(s).xstate = proc[s].xstate
           /\ Stacked(s) \in Process /\ Stacked(s).xstate = proc[s].xstate
           /\ Stacked(s).state = "INITIAL"
  <1>1. proc \in [Slots -> Process]
    BY Zenon DEF IInv, TableInv
  <1>2. Claimed(s) \in Process /\ Stacked(s) \in Process /\ Stacked(s).state = "INITIAL"
    BY <1>1, EntryFields, Zenon DEF IInv
  <1> QED
    BY <1>1, <1>2 DEF FirstUnused, UnusedSlots, Claimed, Stacked, Process

\* Where initproc_init() fails, it changes one entry, which was unused and does
\* not become a process, and not its status.
LEMMA EntryFailed ==
    ASSUME IInv, ProcessAllocFails \/ AddressSpaceFails, ~ UNCHANGED <<proc, asked>>
    PROVE  \E s \in Slots :
              /\ proc[s].state = "UNUSED" /\ proc'[s].xstate = proc[s].xstate
              /\ proc'[s].state \in {"UNUSED", "INITIAL"}
              /\ \A t \in Slots : t # s => proc'[t] = proc[t]
  <1>1. asked' = asked /\ inits < MaxInit
    BY Zenon DEF ProcessAllocFails, AddressSpaceFails
  <1>2. CASE ProcessAllocFails
    <2>1. PICK s \in Slots :
            /\ FirstUnused(s)
            /\ proc' = [proc EXCEPT ![s] = [Claimed(s) EXCEPT !.state = "UNUSED"]]
      BY <1>1, <1>2, Zenon DEF ProcessAllocFails
    <2> QED
      BY <1>1, <2>1, EntryClaimed DEF Process
  <1>3. CASE AddressSpaceFails
    <2>1. PICK s \in Slots :
            FirstUnused(s) /\ \E b : proc' = [proc EXCEPT ![s] = [Stacked(s) EXCEPT !.pgdir = b]]
      BY <1>3, Zenon DEF AddressSpaceFails
    <2> QED
      BY <1>1, <2>1, EntryClaimed DEF Process
  <1> QED
    BY <1>2, <1>3, Zenon

\* Where it succeeds, it changes one entry, which was unused, and not its
\* status.
LEMMA EntryMade ==
    ASSUME IInv, InitprocInit
    PROVE  \E s \in Slots :
              /\ proc[s].state = "UNUSED" /\ proc'[s].xstate = proc[s].xstate
              /\ \A t \in Slots : t # s => proc'[t] = proc[t]
  <1>1. PICK s \in Slots :
          /\ FirstUnused(s)
          /\ proc' = [proc EXCEPT ![s] = [Stacked(s) EXCEPT !.pgdir = TRUE,
                                                           !.state = "RUNNABLE"]]
    BY Zenon DEF InitprocInit
  <1>2. inits < MaxInit
    BY DEF InitprocInit
  <1> QED
    BY <1>1, <1>2, EntryClaimed DEF Process

\* Slots are not used twice, so an entry shows no call and no status but those
\* of its own process.
Fresh ==
    \A s \in Slots :
        /\ proc[s].state # "ZOMBIE" => proc[s].xstate = Bad
        /\ proc[s].state \notin {"RUNNING", "ZOMBIE"} => asked[s] = NoCall

\* Every step keeps entries fresh.
LEMMA NextFresh == IInv /\ Fresh /\ [Next]_vars => Fresh'
  <1> SUFFICES ASSUME IInv, Fresh, [Next]_vars PROVE Fresh'
    OBVIOUS
  <1>1. proc \in [Slots -> Process] /\ asked \in [Slots -> Call]
    BY Zenon DEF IInv, TableInv, CallInv
  <1>2. CASE UNCHANGED <<proc, asked>>
    BY <1>2, Zenon DEF Fresh
  <1>3. CASE ProcessAllocFails \/ AddressSpaceFails \/ InitprocInit
    <2>1. At("boot") /\ inits < MaxInit /\ asked' = asked
      BY <1>3, Zenon DEF ProcessAllocFails, AddressSpaceFails, InitprocInit
    <2>2. CASE UNCHANGED <<proc, asked>>
      BY <2>2, Zenon DEF Fresh
    <2>3. CASE ~ UNCHANGED <<proc, asked>>
      <3>1. PICK s \in Slots : /\ proc[s].state = "UNUSED"
                               /\ \A t \in Slots : t # s => proc'[t] = proc[t]
                               /\ proc'[s].xstate = proc[s].xstate
        BY <1>3, <2>3, EntryMade, EntryFailed, Zenon
      <3>2. proc[s].xstate = Bad /\ asked[s] = NoCall
        BY <3>1, Zenon DEF Fresh
      <3> QED
        BY <2>1, <3>1, <3>2 DEF Fresh
    <2> QED
      BY <2>2, <2>3
  <1>4. CASE Dispatch
    <2>1. /\ asked' = asked /\ proc' = [proc EXCEPT ![p].state = "RUNNING"]
          /\ proc[p].state = "RUNNABLE" /\ p <= NPROC /\ pc = "scan"
      BY <1>4, Zenon DEF Dispatch, Pick, LastSlot, At
    <2>2. p \in Slots
      BY <2>1, ProcAssumption DEF IInv, SwitchInv, Slots
    <2>3. /\ \A t \in Slots : t # p => proc'[t] = proc[t]
          /\ proc'[p].state = "RUNNING" /\ proc'[p].xstate = proc[p].xstate
      BY <1>1, <2>1, <2>2 DEF Process
    <2> QED
      BY <2>1, <2>2, <2>3 DEF Fresh
  <1>5. ASSUME NEW call \in Call, Syscall(call) PROVE Fresh'
    <2>1. pc \in ProcPcs /\ asked' = [asked EXCEPT ![cur] = call] /\ proc' = proc
      BY <1>5 DEF Syscall, At, ProcPcs
    <2>2. cur \in Slots /\ proc[cur].state = "RUNNING"
      BY <2>1, InProcess, Zenon
    <2>3. \A t \in Slots : t # cur => asked'[t] = asked[t]
      BY <1>1, <2>1, Zenon
    <2> QED
      BY <2>1, <2>2, <2>3, Zenon DEF Fresh
  <1>6. CASE SyscallHandler
    <2>1. pc \in ProcPcs /\ asked' = asked /\ proc' = [proc EXCEPT ![cproc].tf = cur]
      BY <1>6, Zenon DEF SyscallHandler, At, ProcPcs
    <2>2. cproc \in Slots
      BY <2>1, InProcess
    <2>3. \A t \in Slots : proc'[t].state = proc[t].state /\ proc'[t].xstate = proc[t].xstate
      BY <1>1, <2>1, <2>2 DEF Process
    <2> QED
      BY <2>1, <2>3, Zenon DEF Fresh
  <1>7. CASE Exit
    <2>1. /\ pc \in ProcPcs /\ asked' = asked
          /\ proc' = [proc EXCEPT ![cproc].xstate = Current.arg, ![cproc].state = "ZOMBIE",
                                  ![cproc].context = "zombie exit"]
      BY <1>7, Zenon DEF Exit, At, ProcPcs, CallPcs
    <2>2. cproc \in Slots
      BY <2>1, InProcess, Zenon
    <2>3. /\ \A t \in Slots : t # cproc => proc'[t] = proc[t]
          /\ proc'[cproc].state = "ZOMBIE"
      BY <1>1, <2>1, <2>2, Zenon DEF Process
    <2> QED
      BY <2>1, <2>2, <2>3, Zenon DEF Fresh
  <1> QED
    BY <1>2, <1>3, <1>4, <1>5, <1>6, <1>7, Zenon
    DEF Next, KernelStep, vars, ProcessInit, StartScheduler, Sti, SchedAcquire, Skip, Back,
        SchedRelease, EnterProcess, Trapret, SysHello, SysExit, CprintfAcquire,
        CprintfRelease, SyscallReturn, ExitAcquire, UserFault, Interrupt, Halted

\* initproc_init() makes one process, with a pid nobody had.
LEMMA CreateStep == IInv /\ IInv' /\ Fresh /\ InitprocInit => L!Next
  <1> SUFFICES ASSUME IInv, IInv', Fresh, InitprocInit PROVE L!Next
    OBVIOUS
  <1>1. At("boot") /\ inits < MaxInit /\ asked' = asked
    BY DEF InitprocInit
  <1>2. PICK s \in Slots :
          /\ proc[s].state = "UNUSED"
          /\ proc' = [proc EXCEPT ![s] = [Stacked(s) EXCEPT !.pgdir = TRUE,
                                                           !.state = "RUNNABLE"]]
    BY Zenon DEF InitprocInit, FirstUnused, UnusedSlots
  <1>3. PICK q \in 1..PidMax : q = nextpid
    BY <1>1, PidNextIs, Zenon DEF IInv
  <1>4. Stacked(s).pid = q /\ Stacked(s).kstack /\ Stacked(s) \in Process
    BY <1>1, <1>3, EntryFields, Zenon DEF IInv
  <1>5. proc \in [Slots -> Process] /\ asked \in [Slots -> Call]
    BY Zenon DEF IInv, TableInv, CallInv
  <1>7. /\ proc'[s].state = "RUNNABLE" /\ proc'[s].pid = q /\ proc'[s].kstack
        /\ proc'[s].pgdir /\ proc'[s].xstate = proc[s].xstate
        /\ \A t \in Slots : t # s => proc'[t] = proc[t]
    BY <1>2, <1>4, <1>5, Zenon DEF Process, Stacked, Claimed
  <1>8. proc[s].xstate = Bad /\ asked[s] = NoCall
    BY <1>2 DEF Fresh
  <1>9. Entries(q) = {} /\ s \in Entries(q)'
    <2>1. \A t \in Slots : proc[t].state # "UNUSED" => proc[t].pid # q
      BY <1>3 DEF IInv, PidInv
    <2> QED
      BY <1>7, <2>1 DEF Entries
  <1>10. /\ LifeOf(q) = "unborn"
         /\ OfEntry(q, [t \in Slots |-> proc[t].xstate], Bad) = Bad
         /\ OfEntry(q, asked, NoCall) = NoCall
    BY <1>9, Zenon DEF LifeOf, OfEntry
  <1>11. /\ LifeOf(q)' = "ready"
         /\ OfEntry(q, [t \in Slots |-> proc[t].xstate], Bad)' = Bad
         /\ OfEntry(q, asked, NoCall)' = NoCall
    <2>1. EntriesTell'
      BY EntryTellsNext DEF IInv
    <2>2. LifeOf(q)' = "ready" /\ Entries(q)' = {s}
      BY <1>7, <1>9, <2>1, Zenon DEF EntriesTell
    <2> QED
      BY <1>1, <1>7, <1>8, <2>2 DEF OfEntry
  <1>12. ASSUME NEW r \in 1..PidMax, r # q
         PROVE  /\ LifeOf(r)' = LifeOf(r)
                /\ OfEntry(r, [t \in Slots |-> proc[t].xstate], Bad)'
                      = OfEntry(r, [t \in Slots |-> proc[t].xstate], Bad)
                /\ OfEntry(r, asked, NoCall)' = OfEntry(r, asked, NoCall)
    BY <1>1, <1>2, <1>7, <1>9, <1>12, OthersStay
  <1>13. L!Create(q)
    BY <1>10, <1>11, <1>12, Zenon DEF L!Create
  <1> QED
    BY <1>13, Zenon DEF L!Next

\* The scheduler starts one process while no other runs.
LEMMA RunStep == IInv /\ IInv' /\ Dispatch => L!Next
  <1> SUFFICES ASSUME IInv, IInv', Dispatch PROVE L!Next
    OBVIOUS
  <1>1. /\ asked' = asked /\ proc' = [proc EXCEPT ![p].state = "RUNNING"]
        /\ proc[p].state = "RUNNABLE" /\ p <= NPROC /\ pc = "scan"
    BY DEF Dispatch, Pick, LastSlot, At
  <1>2. PICK s \in Slots : s = p
    BY <1>1, ProcAssumption DEF IInv, SwitchInv, Slots
  <1>3. /\ proc \in [Slots -> Process] /\ proc[s].state = "RUNNABLE" /\ proc[s].kstack
        /\ proc[s].pgdir
    BY <1>1, <1>2 DEF IInv, TableInv
  <1>4. PICK q \in 1..PidMax : q = proc[s].pid
    <2>1. proc[s].pid \in 1..(nextpid - 1) /\ proc[s].pid \in 0..PidMax
      BY <1>3 DEF IInv, PidInv, Process
    <2> QED
      BY <2>1, ProcAssumption
  <1>5. /\ proc'[s].state = "RUNNING" /\ proc'[s].pid = q /\ proc'[s].kstack
        /\ proc'[s].pgdir /\ proc'[s].xstate = proc[s].xstate
        /\ \A t \in Slots : t # s => proc'[t] = proc[t]
    BY <1>1, <1>2, <1>3, <1>4 DEF Process
  <1>6. s \in Entries(q) /\ s \in Entries(q)'
    BY <1>3, <1>4, <1>5, Zenon DEF Entries
  <1>7. /\ LifeOf(q) = "ready" /\ LifeOf(q)' = "running"
        /\ OfEntry(q, [t \in Slots |-> proc[t].xstate], Bad) = proc[s].xstate
        /\ OfEntry(q, [t \in Slots |-> proc[t].xstate], Bad)' = proc'[s].xstate
        /\ OfEntry(q, asked, NoCall) = asked[s]
        /\ OfEntry(q, asked, NoCall)' = asked'[s]
    <2>1. EntriesTell /\ EntriesTell'
      BY EntryTells, EntryTellsNext DEF IInv
    <2>2. LifeOf(q) = "ready" /\ Entries(q) = {s}
      BY <1>3, <1>6, <2>1, Zenon DEF EntriesTell
    <2>3. LifeOf(q)' = "running" /\ Entries(q)' = {s}
      BY <1>5, <1>6, <2>1 DEF EntriesTell
    <2> QED
      BY <2>2, <2>3, EntryValue, Zenon
  <1>8. ASSUME NEW r \in 1..PidMax, r # q
        PROVE  /\ LifeOf(r)' = LifeOf(r)
               /\ OfEntry(r, [t \in Slots |-> proc[t].xstate], Bad)'
                     = OfEntry(r, [t \in Slots |-> proc[t].xstate], Bad)
               /\ OfEntry(r, asked, NoCall)' = OfEntry(r, asked, NoCall)
    BY <1>1, <1>5, <1>6, <1>8, OthersStay
  <1>9. \A r \in 1..PidMax : LifeOf(r) # "running"
    <2>1. pc \in SchedPcs /\ \A t \in Slots : t # 0
      BY <1>1, SlotIndex, Zenon DEF SchedPcs
    <2>2. \A t \in Slots : proc[t].state # "RUNNING"
      BY <2>1 DEF IInv, SwitchInv
    <2>3. \A r : "RUNNING" \notin {proc[t].state : t \in Entries(r)}
      BY <2>2 DEF Entries
    <2> QED
      BY <2>3, Zenon DEF LifeOf
  <1>10. /\ LifeOf(q) = "ready" /\ LifeOf(q)' = "running"
         /\ OfEntry(q, [t \in Slots |-> proc[t].xstate], Bad)'
               = OfEntry(q, [t \in Slots |-> proc[t].xstate], Bad)
         /\ OfEntry(q, asked, NoCall)' = OfEntry(q, asked, NoCall)
    BY <1>1, <1>5, <1>7
  <1>11. L!Run(q)
    BY <1>8, <1>9, <1>10, Zenon DEF L!Run
  <1> QED
    BY <1>11 DEF L!Next

\* The process that runs makes a call.
LEMMA AskStep == ASSUME NEW call \in Call PROVE IInv /\ IInv' /\ Syscall(call) => L!Next
  <1> SUFFICES ASSUME IInv, IInv', Syscall(call) PROVE L!Next
    BY Zenon
  <1>1. pc \in ProcPcs /\ asked' = [asked EXCEPT ![cur] = call] /\ proc' = proc
    BY Zenon DEF Syscall, At, ProcPcs
  <1>2. PICK s \in Slots : s = cur
    BY <1>1, InProcess, Zenon
  <1>3. /\ proc \in [Slots -> Process] /\ proc[s].state = "RUNNING" /\ proc[s].kstack
        /\ proc[s].pgdir /\ asked \in [Slots -> Call]
    BY <1>1, <1>2, InProcess DEF IInv, TableInv
  <1>4. PICK q \in 1..PidMax : q = proc[s].pid
    <2>1. proc[s].pid \in 1..(nextpid - 1) /\ proc[s].pid \in 0..PidMax
      BY <1>3, Zenon DEF IInv, PidInv, Process
    <2> QED
      BY <2>1, ProcAssumption
  <1>5. asked'[s] = call /\ \A t \in Slots : t # s => asked'[t] = asked[t]
    BY <1>1, <1>2, <1>3, Zenon
  <1>6. s \in Entries(q) /\ s \in Entries(q)'
    BY <1>1, <1>3, <1>4, Zenon DEF Entries
  <1>7. /\ LifeOf(q) = "running" /\ LifeOf(q)' = "running"
        /\ OfEntry(q, [t \in Slots |-> proc[t].xstate], Bad) = proc[s].xstate
        /\ OfEntry(q, [t \in Slots |-> proc[t].xstate], Bad)' = proc'[s].xstate
        /\ OfEntry(q, asked, NoCall) = asked[s]
        /\ OfEntry(q, asked, NoCall)' = asked'[s]
    <2>1. EntriesTell /\ EntriesTell'
      BY EntryTells, EntryTellsNext, Zenon DEF IInv
    <2>2. LifeOf(q) = "running" /\ Entries(q) = {s}
      BY <1>3, <1>6, <2>1, Zenon DEF EntriesTell
    <2>3. LifeOf(q)' = "running" /\ Entries(q)' = {s}
      BY <1>1, <1>3, <1>6, <2>1, Zenon DEF EntriesTell
    <2> QED
      BY <2>2, <2>3, EntryValue, Zenon
  <1>8. ASSUME NEW r \in 1..PidMax, r # q
        PROVE  /\ LifeOf(r)' = LifeOf(r)
               /\ OfEntry(r, [t \in Slots |-> proc[t].xstate], Bad)'
                     = OfEntry(r, [t \in Slots |-> proc[t].xstate], Bad)
               /\ OfEntry(r, asked, NoCall)' = OfEntry(r, asked, NoCall)
    BY <1>1, <1>5, <1>6, <1>8, OthersStay, Zenon
  <1>9. L!Ask(q, call)
    BY <1>1, <1>5, <1>7, <1>8, Zenon DEF L!Ask
  <1> QED
    BY <1>9, Zenon DEF L!Next

\* exit() ends the process that runs, with the status of the call it made.
LEMMA EndStep == IInv /\ IInv' /\ Exit => L!Next
  <1> SUFFICES ASSUME IInv, IInv', Exit PROVE L!Next
    BY Zenon
  <1>1. pc = "zombie" /\ pc \in CallPcs /\ pc \in ProcPcs /\ asked' = asked
    BY Zenon DEF Exit, At, ProcPcs, CallPcs
  <1>2. PICK s \in Slots : s = cur /\ s = cproc
    BY <1>1, InProcess, Zenon
  <1>3. /\ proc \in [Slots -> Process] /\ proc[s].state = "RUNNING" /\ proc[s].kstack
        /\ proc[s].pgdir /\ asked[s] \in Call
    BY <1>1, <1>2, InProcess, Zenon DEF IInv, TableInv
  <1>4. PICK q \in 1..PidMax : q = proc[s].pid
    <2>1. proc[s].pid \in 1..(nextpid - 1) /\ proc[s].pid \in 0..PidMax
      BY <1>3, Zenon DEF IInv, PidInv, Process
    <2> QED
      BY <2>1, ProcAssumption
  <1>5. PICK st \in Status \cup {Bad} : asked[s] = [num |-> "exit", arg |-> st]
    <2>1. Heading = "zombie"
      BY <1>1 DEF Heading
    <2>2. asked[s].num = "exit"
      BY <1>2, <2>1, Zenon DEF IInv, CallInv
    <2>3. PICK c \in Call : c = asked[s]
      BY <1>3, Zenon
    <2>4. c.num = "exit" /\ c = [num |-> c.num, arg |-> c.arg] /\ c.arg \in Status \cup {Bad}
      BY <2>2, <2>3, Zenon DEF Call
    <2> QED
      BY <2>3, <2>4, Zenon
  <1>6. Current.arg = st
    <2>1. Current = asked[s]
      BY <1>1, <1>2, CurrentIs
    <2> QED
      BY <1>5, <2>1
  <1>7. /\ proc'[s].state = "ZOMBIE" /\ proc'[s].pid = q /\ proc'[s].kstack
        /\ proc'[s].pgdir /\ proc'[s].xstate = st
        /\ \A t \in Slots : t # s => proc'[t] = proc[t]
    <2>1. proc' = [proc EXCEPT ![s].xstate = st, ![s].state = "ZOMBIE",
                               ![s].context = "zombie exit"]
      BY <1>2, <1>6, Zenon DEF Exit
    <2> QED
      BY <1>3, <1>4, <2>1, Zenon DEF Process
  <1>8. s \in Entries(q) /\ s \in Entries(q)'
    BY <1>3, <1>4, <1>7 DEF Entries
  <1>9. /\ LifeOf(q) = "running" /\ LifeOf(q)' = "over"
        /\ OfEntry(q, [t \in Slots |-> proc[t].xstate], Bad) = proc[s].xstate
        /\ OfEntry(q, [t \in Slots |-> proc[t].xstate], Bad)' = proc'[s].xstate
        /\ OfEntry(q, asked, NoCall) = asked[s]
        /\ OfEntry(q, asked, NoCall)' = asked'[s]
    <2>1. EntriesTell /\ EntriesTell'
      BY EntryTells, EntryTellsNext DEF IInv
    <2>2. LifeOf(q) = "running" /\ Entries(q) = {s}
      BY <1>3, <1>8, <2>1, Zenon DEF EntriesTell
    <2>3. LifeOf(q)' = "over" /\ Entries(q)' = {s}
      BY <1>7, <1>8, <2>1, Zenon DEF EntriesTell
    <2> QED
      BY <2>2, <2>3, EntryValue, Zenon
  <1>10. ASSUME NEW r \in 1..PidMax, r # q
        PROVE  /\ LifeOf(r)' = LifeOf(r)
               /\ OfEntry(r, [t \in Slots |-> proc[t].xstate], Bad)'
                     = OfEntry(r, [t \in Slots |-> proc[t].xstate], Bad)
               /\ OfEntry(r, asked, NoCall)' = OfEntry(r, asked, NoCall)
    BY <1>1, <1>7, <1>8, <1>10, OthersStay
  <1>11. /\ LifeOf(q) = "running" /\ LifeOf(q)' = "over"
         /\ OfEntry(q, [t \in Slots |-> proc[t].xstate], Bad)' = st
         /\ OfEntry(q, asked, NoCall) = [num |-> "exit", arg |-> st]
         /\ OfEntry(q, asked, NoCall)' = OfEntry(q, asked, NoCall)
    BY <1>1, <1>5, <1>7, <1>9, Zenon
  <1>12. L!End(q, st)
    BY <1>10, <1>11, Zenon DEF L!End
  <1> QED
    BY <1>12 DEF L!Next

\* No other step changes the life of a process.
LEMMA StutterStep ==
    ASSUME IInv, IInv',
           \/ UNCHANGED <<proc, asked>> \/ ProcessAllocFails \/ AddressSpaceFails
           \/ SyscallHandler
    PROVE  UNCHANGED L!vars
  <1>1. proc \in [Slots -> Process]
    BY Zenon DEF IInv, TableInv
  <1>2. CASE UNCHANGED <<proc, asked>>
    <2>1. \A q : Entries(q)' = Entries(q)
      BY <1>2 DEF Entries
    <2> QED
      BY <1>2, <2>1, LifeStutters
  <1>3. CASE /\ ~ UNCHANGED <<proc, asked>>
             /\ ProcessAllocFails \/ AddressSpaceFails
    <2>1. asked' = asked
      BY <1>3, Zenon DEF ProcessAllocFails, AddressSpaceFails
    <2>2. PICK s \in Slots : /\ proc[s].state = "UNUSED"
                             /\ \A t \in Slots : t # s => proc'[t] = proc[t]
                             /\ proc'[s].state \in {"UNUSED", "INITIAL"}
      BY <1>3, EntryFailed, Zenon
    <2>5. \A q : Entries(q)' = Entries(q) /\ \A t \in Entries(q) : proc'[t] = proc[t]
      BY <2>1, <2>2 DEF Entries
    <2> QED
      BY <2>1, <2>5, LifeStutters
  <1>4. CASE SyscallHandler
    <2>1. pc \in ProcPcs /\ asked' = asked /\ proc' = [proc EXCEPT ![cproc].tf = cur]
      BY <1>4, Zenon DEF SyscallHandler, At, ProcPcs
    <2>2. cproc \in Slots
      BY <2>1, InProcess, Zenon
    <2>3. \A t \in Slots :
             /\ proc'[t].state = proc[t].state /\ proc'[t].xstate = proc[t].xstate
             /\ proc'[t].pid = proc[t].pid /\ proc'[t].kstack = proc[t].kstack
             /\ proc'[t].pgdir = proc[t].pgdir
      BY <1>1, <2>1, <2>2 DEF Process
    <2>4. \A q : Entries(q)' = Entries(q) /\ \A t \in Entries(q) : t \in Slots
      BY <2>3 DEF Entries
    <2> QED
      BY <2>1, <2>3, <2>4, LifeStutters, Zenon
  <1> QED
    BY <1>2, <1>3, <1>4, Zenon

\* The table, the scheduler and exit() implement Lifecycle: a pid names one
\* process, which runs at most once and alone, and ends with the status of its
\* call of exit.
THEOREM LifecycleImplemented == Spec => ImplementsLifecycle
  <1>1. Init => L!Init
    BY InitLifecycle, Zenon
  <1>2. Init => Fresh
    BY DEF Init, Fresh
  <1>3. Spec => []Fresh
    BY <1>2, NextFresh, Invariance, PTL DEF Spec
  <1>4. IInv /\ IInv' /\ Fresh /\ [Next]_vars => [L!Next]_(L!vars)
    <2> SUFFICES ASSUME IInv, IInv', Fresh, [Next]_vars PROVE L!Next \/ UNCHANGED L!vars
      OBVIOUS
    <2>1. CASE InitprocInit
      BY <2>1, CreateStep, Zenon
    <2>2. CASE Dispatch
      BY <2>2, RunStep, Zenon
    <2>3. CASE \E call \in Call : Syscall(call)
      BY <2>3, AskStep
    <2>4. CASE Exit
      BY <2>4, EndStep, Zenon
    <2>5. CASE \/ UNCHANGED <<proc, asked>> \/ ProcessAllocFails \/ AddressSpaceFails
               \/ SyscallHandler
      BY <2>5, StutterStep, Zenon
    <2> QED
      BY <2>1, <2>2, <2>3, <2>4, <2>5, Zenon
      DEF Next, KernelStep, vars, ProcessInit, StartScheduler, Sti, SchedAcquire, Skip, Back,
          SchedRelease, EnterProcess, Trapret, SysHello, SysExit, CprintfAcquire,
          CprintfRelease, SyscallReturn, ExitAcquire, UserFault, Interrupt, Halted
  <1> QED
    BY <1>1, <1>3, <1>4, Invariance, PTL DEF Spec, ImplementsLifecycle, L!Spec
=============================================================================
