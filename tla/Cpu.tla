-------------------------------- MODULE Cpu --------------------------------
(***************************************************************************)
(* The per-CPU interrupt state of kernel/cpu.h and the functions of        *)
(* kernel/spinlock.c and kernel/cpu.c that change it, as operators from a  *)
(* CPU record to a CPU record.                                             *)
(*                                                                         *)
(* Only one processor runs (mycpu() is always &cpus[0]), so code that      *)
(* executes with EFLAGS.IF clear is not interleaved with anything.  The    *)
(* operators below are exactly the stretches of code between two points    *)
(* where an interrupt can be taken: pushcli is split after readeflags(),   *)
(* and `Cli' is what follows.  The state machines that use them put a step *)
(* boundary wherever IF may be set.                                        *)
(*                                                                         *)
(*   c.iflag   EFLAGS.IF                                                   *)
(*   c.ncli    mycpu()->ncli                                               *)
(*   c.intena  mycpu()->intena                                             *)
(*   c.panic   the message of the panic() that stopped the kernel          *)
(***************************************************************************)
EXTENDS Integers

NoPanic == "none"

PanicMsgs ==
    {"mycpu", "popcli - interruptible", "popcli", "acquire", "release",
     "kfree", "kalloc", "remap", "mappages", "initproc: out of memory?",
     "switchuvm: no kstack", "switchuvm: no pgdir",
     "sched ptable.lock", "sched locks", "sched running", "sched interruptible",
     "zombie exit", "page fault not handled!", "protection fault not handled!",
     "assertion failed", "isr_handler"}

CpuState == [iflag : BOOLEAN, ncli : Nat, intena : BOOLEAN,
             panic : PanicMsgs \cup {NoPanic}]

\* The processor as the boot loader hands it over: interrupts off, .bss zero.
CpuBoot == [iflag |-> FALSE, ncli |-> 0, intena |-> FALSE, panic |-> NoPanic]

Alive(c) == c.panic = NoPanic

\* panic(): cli, print without the console lock, loop for ever.
Panic(c, msg) == [c EXCEPT !.iflag = FALSE, !.panic = msg]

\* Faulty variants of Cli, for mutation: interrupts left on, the flag of the
\* outermost level overwritten.
CliLeavesFlag(c, eflags) ==
    [c EXCEPT !.intena = IF c.ncli = 0 THEN eflags ELSE @, !.ncli = @ + 1]

CliForgetsDepth(c, eflags) ==
    [c EXCEPT !.iflag = FALSE, !.intena = eflags, !.ncli = @ + 1]

\* pushcli() after `eflags = readeflags()': cli, then note at the outermost
\* level whether interrupts were on.  mycpu() cannot panic, IF is clear.
Cli(c, eflags) ==
    [c EXCEPT !.iflag = FALSE,
              !.intena = IF c.ncli = 0 THEN eflags ELSE @,
              !.ncli = @ + 1]

\* pushcli() when no interrupt falls between its first two instructions.
pushcli(c) == Cli(c, c.iflag)

\* Faulty variants of popcli: sti whatever the saved flag, and never sti.
PopcliAlwaysEnables(c) ==
    [c EXCEPT !.ncli = @ - 1, !.iflag = c.ncli - 1 = 0]

PopcliNeverEnables(c) == [c EXCEPT !.ncli = @ - 1]

\* popcli(): two sanity checks, then sti when the outermost level is left and
\* interrupts were on when it was entered.
popcli(c) ==
    IF c.iflag THEN Panic(c, "popcli - interruptible")
    ELSE IF c.ncli - 1 < 0 THEN Panic([c EXCEPT !.ncli = @ - 1], "popcli")
    ELSE [c EXCEPT !.ncli = @ - 1, !.iflag = c.ncli - 1 = 0 /\ c.intena]

\* mycpu(): panics when called with interrupts on.
mycpu(c) == IF c.iflag THEN Panic(c, "mycpu") ELSE c

-----------------------------------------------------------------------------
(***************************************************************************)
(* A spinlock is a record: lk.locked, and lk.cpu which is TRUE when        *)
(* lk->cpu = &cpus[0] and FALSE when it is null.  lk->name and lk->pcs are *)
(* only printed.                                                           *)
(***************************************************************************)
LockState == [locked : BOOLEAN, cpu : BOOLEAN]

\* initlock()
initlock == [locked |-> FALSE, cpu |-> FALSE]

\* The value holding() returns, and what its pushcli/popcli pair does to the
\* CPU.
holds(lk) == lk.locked /\ lk.cpu

holding(c) == popcli(pushcli(c))

\* The lock after the xchg and the assignment of lk->cpu in acquire(), and
\* after the two stores of release().
Taken == [locked |-> TRUE, cpu |-> TRUE]

\* Faulty variant of Dropped: the lock word is not cleared.
DroppedKeepsWord == [locked |-> TRUE, cpu |-> FALSE]

Dropped == [locked |-> FALSE, cpu |-> FALSE]

\* acquire() from the cli of its pushcli on, for a lock with value lk; the
\* eflags were read before.  When the xchg finds the lock taken by someone
\* else the loop of line 32 spins with interrupts off: Spins.
AcquireCpu(c, lk, eflags) ==
    LET d == holding(Cli(c, eflags))
    IN  IF holds(lk) THEN Panic(d, "acquire") ELSE d

Spins(lk) == lk.locked /\ ~holds(lk)

\* release(): holding() check, clear the fields, popcli().
ReleaseCpu(c, lk) ==
    LET d == holding(c)
    IN  IF ~Alive(d) THEN d
        ELSE IF ~holds(lk) THEN Panic(d, "release") ELSE popcli(d)

\* acquire(lk) ... release(lk) with nothing in between that an interrupt can
\* see, for a caller that runs with interrupts off.
Section(c, lk) ==
    LET d == AcquireCpu(c, lk, c.iflag)
    IN  IF Alive(d) THEN ReleaseCpu(d, Taken) ELSE d
=============================================================================
