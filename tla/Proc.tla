-------------------------------- MODULE Proc --------------------------------
(***************************************************************************)
(* Processes: kernel/proc.c with the parts of syscall.c, idt.c, isr.asm,   *)
(* swtch.asm and screen.c a process goes through.  main() creates          *)
(* processes, the scheduler switches to them holding ptable.lock, they     *)
(* enter user mode, make system calls and exit; interrupts arrive whenever *)
(* EFLAGS.IF is set.                                                       *)
(*                                                                         *)
(* One processor executes, so there is one program counter; the stacks     *)
(* that do not execute are suspended in swtch, which saves where they      *)
(* resume in c->scheduler or p->context.  Stack 0 is the boot stack, on    *)
(* which main() and scheduler() run; stack s is the kernel stack of the    *)
(* process in slot s.  A step is the code between two points where an      *)
(* interrupt can be taken or a lock changes hands.  The interrupts inside  *)
(* acquire itself are the subject of module Spinlock.  A step that ends in *)
(* panic() is the last one; what it wrote besides cpu is not looked at.    *)
(***************************************************************************)
EXTENDS Cpu

CONSTANTS NPROC,      \* slots of the process table
          MaxInit,    \* bound on calls of initproc_init (kernel.c makes one)
          PidMax,     \* 2^16 - 1, the largest uint16_t
          Status,     \* exit statuses and other integer arguments
          Bad         \* an argument outside the process's memory

ASSUME ProcAssumption ==
    /\ NPROC \in Nat \ {0} /\ MaxInit \in Nat \ {0}
    /\ PidMax \in Nat /\ MaxInit < PidMax /\ Bad \notin Status

Slots == 1..NPROC

VARIABLES cpu,        \* the CpuState of the processor
          lock,       \* lock.ptable and lock.cons
          proc,       \* ptable.proc
          nextpid, initproc,
          cproc,      \* c->proc, 0 for null
          scheduler,  \* c->scheduler: where stack 0 resumes
          esp0,       \* the stack mycpu()->ts.esp0 points to, 0 before the first
          cr3,        \* whose page directory is loaded, 0 for kpgdir
          cur,        \* the stack in use
          pc,         \* where the processor is
          p,          \* the loop variable of scheduler()
          after,      \* where the cprintf in progress returns to
          top,        \* top[s]: the trap frame at the top of stack s
          inits,      \* calls of initproc_init so far
          asked       \* history: the last call the process in slot s made

vars == <<cpu, lock, proc, nextpid, initproc, cproc, scheduler, esp0, cr3, cur, pc, p,
          after, top, inits, asked>>

States == {"UNUSED", "INITIAL", "RUNNABLE", "RUNNING", "ZOMBIE"}

Labels == {"main", "boot", "sti", "acquire", "scan", "back", "enter_process", "trapret",
           "user", "syscall", "hello", "exit", "print", "printing", "ok", "fail",
           "exiting", "zombie", "zombie exit", "spin", "none"}

Process == [state : States, pid : 0..PidMax, kstack : BOOLEAN, pgdir : BOOLEAN,
            tf : 0..NPROC, context : Labels, xstate : Status \cup {Bad}]

Call == [num : {"hello", "exit", "unknown"}, arg : Status \cup {Bad}]

\* A trap frame: where from, the call in it, EFLAGS.IF and the result in eax.
Frame == [kind : {"none", "initial", "syscall", "irq"}, call : Call,
          iflag : BOOLEAN, eax : {"none", "ok", "fail"}]

NoCall == [num |-> "unknown", arg |-> Bad]

NewFrame(kind, call, iflag) ==
    [kind |-> kind, call |-> call, iflag |-> iflag, eax |-> "none"]

Init ==
    /\ cpu = CpuBoot /\ lock = [l \in {"ptable", "cons"} |-> initlock]
    /\ proc = [s \in Slots |-> [state |-> "UNUSED", pid |-> 0, kstack |-> FALSE,
                                pgdir |-> FALSE, tf |-> 0, context |-> "none",
                                xstate |-> Bad]]
    /\ nextpid = 1 /\ initproc = 0
    /\ cproc = 0 /\ scheduler = "none" /\ esp0 = 0 /\ cr3 = 0
    /\ cur = 0 /\ pc = "main" /\ p = 0 /\ after = "none"
    /\ top = [s \in Slots |-> NewFrame("none", NoCall, FALSE)]
    /\ inits = 0 /\ asked = [s \in Slots |-> NoCall]

At(label) == Alive(cpu) /\ pc = label

\* acquire(l), then go on at label; release(l), then go on at label.
Acquire(l, label) ==
    LET free == ~lock[l].locked /\ Alive(cpu')
    IN  /\ cpu' = AcquireCpu(cpu, lock[l], cpu.iflag)
        /\ lock' = [lock EXCEPT ![l] = IF free THEN Taken ELSE @]
        /\ pc' = IF free THEN label ELSE "spin"

Release(l, label) ==
    /\ cpu' = ReleaseCpu(cpu, lock[l])
    /\ lock' = [lock EXCEPT ![l] = IF Alive(cpu') THEN Dropped ELSE @]
    /\ pc' = label

\* What the pushcli/popcli pair of myproc() does to the CPU; its value is cproc.
myproc(c) == popcli(pushcli(c))

-----------------------------------------------------------------------------
(* main(): process_init and initproc_init, with interrupts off.            *)

ProcessInit ==
    /\ At("main") /\ pc' = "boot"
    /\ lock' = [lock EXCEPT !["ptable"] = initlock]
    /\ UNCHANGED <<cpu, proc, nextpid, initproc, cproc, scheduler, esp0, cr3, cur, p,
                   after, top, inits, asked>>

UnusedSlots == {s \in Slots : proc[s].state = "UNUSED"}

\* The slot at which the loop of process_alloc stops.
FirstUnused(s) == s \in UnusedSlots /\ \A t \in UnusedSlots : s <= t

\* nextpid++, a uint16_t.
PidNext == (nextpid + 1) % (PidMax + 1)

\* process_alloc() up to its second release: state, pid and nextpid.
Claimed(s) == [proc[s] EXCEPT !.state = "INITIAL", !.pid = nextpid]

\* The rest of process_alloc(): kernel stack, trap frame, first context.
Stacked(s) == [Claimed(s) EXCEPT !.kstack = TRUE, !.tf = s, !.context = "enter_process"]

\* process_alloc() returns NULL, because the table is full or there is no
\* memory for a stack, and the assert in initproc_init stops the kernel.
ProcessAllocFails ==
    /\ At("boot") /\ inits < MaxInit
    /\ LET c == Section(cpu, lock["ptable"])
       IN  cpu' = IF Alive(c) THEN Panic(c, "assertion failed") ELSE c
    /\ \/ UnusedSlots = {} /\ UNCHANGED <<proc, nextpid>>
       \/ /\ nextpid' = PidNext
          /\ \E s \in Slots :
                /\ FirstUnused(s)
                /\ proc' = [proc EXCEPT ![s] = [Claimed(s) EXCEPT !.state = "UNUSED"]]
    /\ inits' = inits + 1
    /\ UNCHANGED <<lock, initproc, cproc, scheduler, esp0, cr3, cur, pc, p, after, top,
                   asked>>

\* setupkvm() panics when memory runs out; inituvm() does not check kalloc()
\* and faults on the null page.  (It ignores the result of mappages() too: then
\* the process is created and its first instruction is a UserFault.)
AddressSpaceFails ==
    /\ At("boot") /\ inits < MaxInit
    /\ \E s \in Slots, msg \in {"kalloc", "mappages", "page fault not handled!"} :
          /\ FirstUnused(s) /\ initproc' = s
          /\ cpu' = Panic(Section(cpu, lock["ptable"]), msg)
          /\ proc' = [proc EXCEPT ![s] =
                        [Stacked(s) EXCEPT !.pgdir = msg = "page fault not handled!"]]
    /\ nextpid' = PidNext /\ inits' = inits + 1
    /\ UNCHANGED <<lock, cproc, scheduler, esp0, cr3, cur, pc, p, after, top, asked>>

\* Faulty variant of FirstFrame: user mode starts with interrupts off.
FirstFrameNoIF == NewFrame("initial", NoCall, FALSE)

\* The trap frame initproc_init builds: user segments, eip 0, FL_IF.
FirstFrame == NewFrame("initial", NoCall, TRUE)

\* initproc_init(), when memory suffices.
InitprocInit ==
    /\ At("boot") /\ inits < MaxInit
    /\ cpu' = Section(Section(cpu, lock["ptable"]), lock["ptable"])
    /\ \E s \in Slots :
          /\ FirstUnused(s) /\ initproc' = s
          /\ proc' = [proc EXCEPT ![s] =
                         [Stacked(s) EXCEPT !.pgdir = TRUE, !.state = "RUNNABLE"]]
          /\ top' = [top EXCEPT ![s] = FirstFrame]
    /\ nextpid' = PidNext /\ inits' = inits + 1
    /\ UNCHANGED <<lock, cproc, scheduler, esp0, cr3, cur, pc, p, after, asked>>

\* main() calls scheduler(), which starts with c = mycpu(); c->proc = 0.
StartScheduler ==
    /\ At("boot") /\ inits > 0
    /\ cpu' = mycpu(cpu) /\ cproc' = 0 /\ pc' = "sti"
    /\ UNCHANGED <<lock, proc, nextpid, initproc, scheduler, esp0, cr3, cur, p, after, top,
                   inits, asked>>

-----------------------------------------------------------------------------
(* scheduler()                                                             *)

Sti ==
    /\ At("sti") /\ pc' = "acquire"
    /\ cpu' = [cpu EXCEPT !.iflag = TRUE]
    /\ UNCHANGED <<lock, proc, nextpid, initproc, cproc, scheduler, esp0, cr3, cur, p,
                   after, top, inits, asked>>

SchedAcquire ==
    /\ At("acquire") /\ Acquire("ptable", "scan") /\ p' = 1
    /\ UNCHANGED <<proc, nextpid, initproc, cproc, scheduler, esp0, cr3, cur, after, top,
                   inits, asked>>

\* Faulty variants: the loop stops before the last slot; a process that is not
\* RUNNABLE is picked.
LastSlotEarly == NPROC - 1

PickUsed(s) == proc[s].state # "UNUSED"

\* The bound of the loop, and the processes it does not skip.
LastSlot == NPROC

Pick(s) == proc[s].state = "RUNNABLE"

Skip ==
    /\ At("scan") /\ p <= LastSlot /\ ~Pick(p)
    /\ p' = p + 1
    /\ UNCHANGED <<cpu, lock, proc, nextpid, initproc, cproc, scheduler, esp0, cr3, cur, pc,
                   after, top, inits, asked>>

\* Faulty variant of Tss: the stack of the first process is kept.
TssStale(s) == IF esp0 = 0 THEN s ELSE esp0

\* switchuvm(p) makes the stack of p the one traps from user mode use.
Tss(s) == s

\* The checks of switchuvm(p) and its pushcli/popcli.
SwitchuvmCpu(s) ==
    IF ~proc[s].kstack THEN Panic(cpu, "switchuvm: no kstack")
    ELSE IF ~proc[s].pgdir THEN Panic(cpu, "switchuvm: no pgdir")
    ELSE popcli(pushcli(cpu))

\* The scheduler found p: switchuvm, RUNNING, and swtch to p->context.
Dispatch ==
    /\ At("scan") /\ p <= LastSlot /\ Pick(p)
    /\ cpu' = SwitchuvmCpu(p)
    /\ cproc' = p /\ esp0' = Tss(p) /\ cr3' = p
    /\ proc' = [proc EXCEPT ![p].state = "RUNNING"]
    /\ scheduler' = "back" /\ cur' = p /\ pc' = proc[p].context
    /\ UNCHANGED <<lock, nextpid, initproc, p, after, top, inits, asked>>

\* Faulty variant of Back: the page directory of the process stays loaded.
BackKeepsPgdir ==
    /\ At("back") /\ pc' = "scan"
    /\ cproc' = 0 /\ p' = p + 1
    /\ UNCHANGED <<cpu, lock, proc, nextpid, initproc, scheduler, esp0, cr3, cur, after,
                   top, inits, asked>>

\* A process switched back: switchkvm, c->proc = 0, next slot.
Back ==
    /\ At("back") /\ pc' = "scan"
    /\ cr3' = 0 /\ cproc' = 0 /\ p' = p + 1
    /\ UNCHANGED <<cpu, lock, proc, nextpid, initproc, scheduler, esp0, cur, after, top,
                   inits, asked>>

SchedRelease ==
    /\ At("scan") /\ p > LastSlot /\ Release("ptable", "sti")
    /\ UNCHANGED <<proc, nextpid, initproc, cproc, scheduler, esp0, cr3, cur, p, after, top,
                   inits, asked>>

-----------------------------------------------------------------------------
(* A process: enter_process, user mode, system calls.                      *)

\* Faulty variant of EnterProcess: ptable.lock is not released.
EnterKeepsLock ==
    /\ At("enter_process") /\ pc' = "trapret"
    /\ UNCHANGED <<cpu, lock, proc, nextpid, initproc, cproc, scheduler, esp0, cr3, cur, p,
                   after, top, inits, asked>>

EnterProcess ==
    /\ At("enter_process") /\ Release("ptable", "trapret")
    /\ UNCHANGED <<proc, nextpid, initproc, cproc, scheduler, esp0, cr3, cur, p, after, top,
                   inits, asked>>

\* trapret: pop the frame at the top of the stack; iret loads its EFLAGS.
Trapret ==
    /\ At("trapret") /\ pc' = "user"
    /\ cpu' = [cpu EXCEPT !.iflag = top[cur].iflag]
    /\ UNCHANGED <<lock, proc, nextpid, initproc, cproc, scheduler, esp0, cr3, cur, p,
                   after, top, inits, asked>>

\* The process executes INT 64: a trap gate, so IF stays as it is.
Syscall(call) ==
    /\ At("user") /\ pc' = "syscall"
    /\ asked' = [asked EXCEPT ![cur] = call]
    /\ top' = [top EXCEPT ![esp0] = NewFrame("syscall", call, cpu.iflag)]
    /\ cur' = esp0
    /\ UNCHANGED <<cpu, lock, proc, nextpid, initproc, cproc, scheduler, esp0, cr3, p,
                   after, inits>>

\* The process faults: page_fault_handler, protection_fault_handler, or
\* isr_handler without a handler.
UserFault ==
    /\ At("user")
    /\ \E msg \in {"page fault not handled!", "protection fault not handled!", "isr_handler"} :
          cpu' = Panic(cpu, msg)
    /\ UNCHANGED <<lock, proc, nextpid, initproc, cproc, scheduler, esp0, cr3, cur, pc, p,
                   after, top, inits, asked>>

\* syscall_handler(): myproc()->tf = state, then the table of system calls.
SyscallHandler ==
    /\ At("syscall")
    /\ LET num == top[cur].call.num
       IN  /\ pc' = IF num = "unknown" THEN "print" ELSE num
           /\ after' = IF num = "unknown" THEN "fail" ELSE after
    /\ cpu' = myproc(cpu)
    /\ proc' = [proc EXCEPT ![cproc].tf = cur]
    /\ UNCHANGED <<lock, nextpid, initproc, cproc, scheduler, esp0, cr3, cur, p, top, inits,
                   asked>>

\* The call whose arguments sysarg_get_* read: the one in myproc()->tf.
Current == top[proc[cproc].tf].call

\* sys_hello(): the three sysarg_get_* succeed or one fails.
SysHello ==
    /\ At("hello")
    /\ cpu' = myproc(cpu)
    /\ IF Current.arg # Bad THEN pc' = "print" /\ after' = "ok"
       ELSE pc' = "fail" /\ UNCHANGED after
    /\ UNCHANGED <<lock, proc, nextpid, initproc, cproc, scheduler, esp0, cr3, cur, p, top,
                   inits, asked>>

\* sys_exit(), and exit() up to acquire.
SysExit ==
    /\ At("exit")
    /\ cpu' = IF Current.arg = Bad THEN myproc(cpu) ELSE myproc(myproc(cpu))
    /\ IF Current.arg = Bad THEN pc' = "fail" /\ UNCHANGED after
       ELSE IF cproc = initproc THEN pc' = "print" /\ after' = "exiting"
       ELSE pc' = "exiting" /\ UNCHANGED after
    /\ UNCHANGED <<lock, proc, nextpid, initproc, cproc, scheduler, esp0, cr3, cur, p, top,
                   inits, asked>>

\* cprintf(): the console lock is held from its first to its last character.
CprintfAcquire ==
    /\ At("print") /\ Acquire("cons", "printing")
    /\ UNCHANGED <<proc, nextpid, initproc, cproc, scheduler, esp0, cr3, cur, p, after, top,
                   inits, asked>>

CprintfRelease ==
    /\ At("printing") /\ Release("cons", after)
    /\ UNCHANGED <<proc, nextpid, initproc, cproc, scheduler, esp0, cr3, cur, p, after, top,
                   inits, asked>>

\* syscall_handler() stores the result in the frame and isr_handler returns.
SyscallReturn ==
    /\ Alive(cpu) /\ pc \in {"ok", "fail"} /\ pc' = "trapret"
    /\ top' = [top EXCEPT ![cur].eax = pc]
    /\ UNCHANGED <<cpu, lock, proc, nextpid, initproc, cproc, scheduler, esp0, cr3, cur, p,
                   after, inits, asked>>

ExitAcquire ==
    /\ At("exiting") /\ Acquire("ptable", "zombie")
    /\ UNCHANGED <<proc, nextpid, initproc, cproc, scheduler, esp0, cr3, cur, p, after, top,
                   inits, asked>>

\* The checks of enter_scheduler(), for a process in state st.
SchedCpu(st) ==
    LET c == holding(cpu)
    IN  IF ~Alive(c) THEN c
        ELSE IF ~holds(lock["ptable"]) THEN Panic(c, "sched ptable.lock")
        ELSE IF ~Alive(mycpu(c)) THEN mycpu(c)
        ELSE IF c.ncli # 1 THEN Panic(c, "sched locks")
        ELSE IF st = "RUNNING" THEN Panic(myproc(c), "sched running")
        ELSE IF myproc(c).iflag THEN Panic(myproc(c), "sched interruptible")
        ELSE myproc(c)

\* The rest of exit(): status, ZOMBIE, and enter_scheduler() switches to the
\* scheduler.  The process would resume before panic("zombie exit").
Exit ==
    /\ At("zombie")
    /\ cpu' = SchedCpu("ZOMBIE")
    /\ proc' = [proc EXCEPT ![cproc].xstate = Current.arg, ![cproc].state = "ZOMBIE",
                            ![cproc].context = "zombie exit"]
    /\ cur' = 0 /\ pc' = scheduler
    /\ UNCHANGED <<lock, nextpid, initproc, cproc, scheduler, esp0, cr3, p, after, top,
                   inits, asked>>

-----------------------------------------------------------------------------
(* Interrupts.  A handler runs with IF clear until iret, so it is one step;*)
(* only the keyboard handler takes a lock, to print.  An interrupt from    *)
(* user mode overwrites the frame at the top of the stack, one from the    *)
(* kernel is pushed below it.                                              *)

Interrupt(prints) ==
    /\ Alive(cpu) /\ cpu.iflag
    /\ LET c == [cpu EXCEPT !.iflag = FALSE]
           d == IF prints THEN Section(c, lock["cons"]) ELSE c
       IN  cpu' = IF Alive(d) THEN [d EXCEPT !.iflag = TRUE] ELSE d
    /\ top' = IF pc = "user" THEN [top EXCEPT ![esp0] = NewFrame("irq", NoCall, TRUE)]
              ELSE top
    /\ UNCHANGED <<lock, proc, nextpid, initproc, cproc, scheduler, esp0, cr3, cur, pc, p,
                   after, inits, asked>>

\* panic() loops for ever with interrupts off.
Halted == ~Alive(cpu) /\ UNCHANGED vars

KernelStep ==
    \/ ProcessInit \/ StartScheduler
    \/ Sti \/ SchedAcquire \/ Skip \/ Dispatch \/ Back \/ SchedRelease
    \/ EnterProcess \/ Trapret \/ SyscallHandler \/ SysHello \/ SysExit
    \/ CprintfAcquire \/ CprintfRelease \/ SyscallReturn \/ ExitAcquire \/ Exit

Next ==
    \/ KernelStep \/ ProcessAllocFails \/ AddressSpaceFails \/ InitprocInit
    \/ UserFault \/ \E call \in Call : Syscall(call)
    \/ \E prints \in BOOLEAN : Interrupt(prints)
    \/ Halted

Spec == Init /\ [][Next]_vars

\* The processor keeps executing, and programs end: init makes a call of
\* exit with an argument on its stack after finitely many other calls.
ExitCall == \E st \in Status : Syscall([num |-> "exit", arg |-> st])

FairSpec == Spec /\ WF_vars(KernelStep) /\ SF_vars(ExitCall)

-----------------------------------------------------------------------------
\* The shape of the state.
TypeOK ==
    /\ cpu \in CpuState /\ lock \in [{"ptable", "cons"} -> LockState]
    /\ proc \in [Slots -> Process]
    /\ nextpid \in 0..PidMax /\ initproc \in 0..NPROC
    /\ cproc \in 0..NPROC /\ esp0 \in 0..NPROC /\ cr3 \in 0..NPROC /\ cur \in 0..NPROC
    /\ {scheduler, pc, after} \subseteq Labels
    /\ p \in 0..(NPROC + 1) /\ top \in [Slots -> Frame]
    /\ inits \in 0..MaxInit /\ asked \in [Slots -> Call]

\* The kernel stops only for want of memory or slots at boot, or for a fault
\* of a process: no check of the lock, scheduler or switch code ever fires,
\* nobody waits for a lock, and no exited process comes back.
OnlyExpectedPanics ==
    /\ cpu.panic \in {NoPanic, "assertion failed", "kalloc", "mappages",
                      "page fault not handled!", "protection fault not handled!",
                      "isr_handler"}
    /\ pc \notin {"spin", "zombie exit", "none"}

\* While a kernel stack of a process is in use or the process is in user mode,
\* c->proc, cr3, esp0 and the process table all name it; while the scheduler
\* runs none does.
OneCurrentProcess ==
    /\ cur # 0 => cproc = cur /\ cr3 = cur /\ esp0 = cur /\ proc[cur].state = "RUNNING"
    /\ cur = 0 /\ Alive(cpu) => \A s \in Slots : proc[s].state # "RUNNING"
    /\ cur = 0 /\ pc # "back" => cproc = 0 /\ cr3 = 0

\* ptable.lock is held exactly while control passes between scheduler and
\* process, cons.lock exactly while cprintf prints; user mode holds nothing
\* and can be interrupted; and after boot interrupts are off only inside
\* these sections, whichever thread last wrote c->intena.
LockHandover ==
    Alive(cpu) =>
        /\ holds(lock["ptable"]) <=> pc \in {"scan", "back", "enter_process", "zombie"}
        /\ holds(lock["cons"]) <=> pc = "printing"
        /\ cpu.ncli = (IF lock["ptable"].locked THEN 1 ELSE 0)
                         + (IF lock["cons"].locked THEN 1 ELSE 0)
        /\ pc \notin {"main", "boot", "sti"} => (cpu.iflag <=> cpu.ncli = 0)

\* While a system call executes, myproc()->tf is the frame of this call on the
\* process's own stack, whatever interrupts came before or during it, and the
\* result it returns is that of the call the process made.
TfIsCurrent ==
    /\ pc \in {"hello", "exit", "print", "printing", "ok", "fail", "exiting", "zombie"} =>
          /\ proc[cur].tf = cur /\ top[cur].kind = "syscall"
          /\ top[cur].call = asked[cur]
    /\ pc = "trapret" /\ top[cur].kind = "syscall" =>
          top[cur].eax = IF asked[cur].num = "hello" /\ asked[cur].arg # Bad THEN "ok"
                         ELSE "fail"

\* The life of the process with pid q, as the table tells it: an entry counts
\* once it is RUNNABLE, and two entries of one pid that differ are no life.
Entries(q) == {s \in Slots : /\ proc[s].pid = q
                             /\ proc[s].state \in {"RUNNABLE", "RUNNING", "ZOMBIE"}
                             /\ proc[s].kstack /\ proc[s].pgdir}

LifeOf(q) ==
    LET states == {proc[s].state : s \in Entries(q)}
    IN  CASE states = {}           -> "unborn"
          [] states = {"RUNNABLE"} -> "ready"
          [] states = {"RUNNING"}  -> "running"
          [] states = {"ZOMBIE"}   -> "over"
          [] OTHER                 -> "torn"

OfEntry(q, f, none) == IF Entries(q) = {} THEN none ELSE f[CHOOSE s \in Entries(q) : TRUE]

L == INSTANCE Lifecycle WITH
        Pids <- 1..PidMax, Statuses <- Status \cup {Bad}, Calls <- Call,
        ExitCall <- LAMBDA st : [num |-> "exit", arg |-> st],
        life <- [q \in 1..PidMax |-> LifeOf(q)],
        status <- [q \in 1..PidMax |-> OfEntry(q, [s \in Slots |-> proc[s].xstate], Bad)],
        asked <- [q \in 1..PidMax |-> OfEntry(q, asked, NoCall)]

\* The table, the scheduler and exit() implement the life of processes: a pid
\* names one process, with a stack and an address space before it can run; it
\* runs at most once and alone; and exit() "does not return", so that nothing
\* of an exited process changes any more, its status being the one it passed.
ImplementsLifecycle == L!Spec

\* A process the table holds RUNNABLE gets the processor, if the processes
\* before it end and the kernel does not stop.
EveryProcessRuns ==
    \A s \in Slots : proc[s].state = "RUNNABLE" ~> proc[s].state = "RUNNING" \/ ~Alive(cpu)

\* A system call gets back to user mode or, if it is exit, to the scheduler.
SyscallCompletes == pc = "syscall" ~> pc = "user" \/ cur = 0
=============================================================================
