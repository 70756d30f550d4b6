------------------------------ MODULE Spinlock ------------------------------
(***************************************************************************)
(* kernel/spinlock.c at work: contexts that call pushcli, popcli, acquire  *)
(* and release while interrupts arrive.  ctx[1] is the kernel thread that  *)
(* main() starts and scheduler() continues; ctx[k+1] is an interrupt       *)
(* handler that interrupted ctx[k].  Only the topmost context runs.        *)
(*                                                                         *)
(* A context is a correct client of the API: it acquires no lock it holds, *)
(* releases what it holds, pairs its popcli calls with pushcli calls, and  *)
(* a handler returns with nothing held.  Whether that is enough (no panic, *)
(* no spinning, no interrupt inside a critical section) is what is checked.*)
(***************************************************************************)
EXTENDS Cpu, FiniteSets

CONSTANTS Locks,      \* the spinlocks: ptable.lock, cons.lock, kmem.lock, ...
          NoLock,
          MaxDepth,   \* bound on stacked contexts (the code never reaches it)
          MaxCalls    \* bound on pushcli/acquire calls per critical section

ASSUME LocksAssumption == IsFiniteSet(Locks) /\ NoLock \notin Locks
ASSUME DepthAssumption == MaxDepth \in Nat /\ MaxDepth >= 2
ASSUME CallsAssumption == MaxCalls \in Nat

VARIABLES cpu,        \* the CpuState
          lock,       \* lock[l]: the LockState of l
          depth,      \* the number of stacked contexts
          ctx         \* ctx[k], k \in 1..depth: the contexts

vars == <<cpu, lock, depth, ctx>>

(***************************************************************************)
(* pc      "run"      outside spinlock.c                                   *)
(*         "pushcli"  in pushcli, eflags read and cli not yet executed     *)
(*         "acquire"  the same, in the pushcli that acquire(lk) calls      *)
(*         "spin"     in the xchg loop of acquire(lk)                      *)
(* npush   explicit pushcli calls not yet undone                           *)
(* calls   pushcli/acquire calls since the context last held nothing       *)
(* ret     EFLAGS.IF in the trap frame of this handler, restored by iret   *)
(* ambient history: IF as the context set it outside pushcli/popcli        *)
(***************************************************************************)
Context == [pc : {"run", "pushcli", "acquire", "spin"}, lk : Locks \cup {NoLock},
            eflags : BOOLEAN, held : SUBSET Locks, npush : Nat,
            calls : 0..MaxCalls, ret : BOOLEAN, ambient : BOOLEAN]

NewContext(ret) ==
    [pc |-> "run", lk |-> NoLock, eflags |-> FALSE, held |-> {}, npush |-> 0,
     calls |-> 0, ret |-> ret, ambient |-> FALSE]

Top == ctx[depth]

Outside(f) == f.held = {} /\ f.npush = 0

\* The context after it gave something back: a critical section ends when
\* nothing is left.
Shrunk(f) == [f EXCEPT !.calls = IF Outside(f) THEN 0 ELSE @]

Running(pc) == Alive(cpu) /\ Top.pc = pc

Init ==
    /\ cpu = CpuBoot
    /\ lock = [l \in Locks |-> initlock]
    /\ depth = 1
    /\ ctx = [k \in 1..MaxDepth |-> NewContext(FALSE)]

\* scheduler() executes sti at the head of its loop, holding nothing.
Sti ==
    /\ Running("run") /\ depth = 1 /\ Outside(Top)
    /\ cpu' = [cpu EXCEPT !.iflag = TRUE]
    /\ ctx' = [ctx EXCEPT ![1].ambient = TRUE]
    /\ UNCHANGED <<lock, depth>>

\* An IRQ: the interrupt gate saves EFLAGS and clears IF (idt.c, isr.asm).
Interrupt ==
    /\ Alive(cpu) /\ cpu.iflag /\ depth < MaxDepth
    /\ cpu' = [cpu EXCEPT !.iflag = FALSE]
    /\ depth' = depth + 1
    /\ ctx' = [ctx EXCEPT ![depth + 1] = NewContext(cpu.iflag)]
    /\ UNCHANGED lock

\* trapret: iret restores the EFLAGS of the interrupted context.
Iret ==
    /\ Running("run") /\ depth > 1 /\ Outside(Top)
    /\ cpu' = [cpu EXCEPT !.iflag = Top.ret]
    /\ depth' = depth - 1
    /\ UNCHANGED <<lock, ctx>>

\* pushcli(), up to readeflags().
PushcliStart ==
    /\ Running("run") /\ Top.calls < MaxCalls
    /\ ctx' = [ctx EXCEPT ![depth].pc = "pushcli", ![depth].eflags = cpu.iflag,
                          ![depth].calls = @ + 1]
    /\ UNCHANGED <<cpu, lock, depth>>

\* The rest of pushcli().
PushcliEnd ==
    /\ Running("pushcli")
    /\ cpu' = Cli(cpu, Top.eflags)
    /\ ctx' = [ctx EXCEPT ![depth].pc = "run", ![depth].npush = @ + 1]
    /\ UNCHANGED <<lock, depth>>

\* popcli()
Popcli ==
    /\ Running("run") /\ Top.npush > 0
    /\ cpu' = popcli(cpu)
    /\ ctx' = [ctx EXCEPT ![depth] = Shrunk([Top EXCEPT !.npush = @ - 1])]
    /\ UNCHANGED <<lock, depth>>

\* acquire(l), up to the readeflags() of its pushcli.
AcquireStart(l) ==
    /\ Running("run") /\ l \notin Top.held /\ Top.calls < MaxCalls
    /\ ctx' = [ctx EXCEPT ![depth].pc = "acquire", ![depth].lk = l,
                          ![depth].eflags = cpu.iflag, ![depth].calls = @ + 1]
    /\ UNCHANGED <<cpu, lock, depth>>

\* The rest of acquire(): the lock when it is free; otherwise the context
\* stays in acquire for ever, in panic("acquire") or in the xchg loop.
AcquireEnd ==
    /\ Running("acquire")
    /\ LET l == Top.lk  free == ~lock[l].locked /\ Alive(cpu')
       IN  /\ cpu' = AcquireCpu(cpu, lock[l], Top.eflags)
           /\ lock' = [lock EXCEPT ![l] = IF free THEN Taken ELSE @]
           /\ ctx' = [ctx EXCEPT ![depth].pc = IF free THEN "run" ELSE "spin",
                                 ![depth].held = IF free THEN @ \cup {l} ELSE @]
    /\ UNCHANGED depth

\* release(l) by the context that holds l.
Release(l) ==
    /\ Running("run") /\ l \in Top.held
    /\ cpu' = ReleaseCpu(cpu, lock[l])
    /\ lock' = [lock EXCEPT ![l] = IF Alive(cpu') THEN Dropped ELSE @]
    /\ ctx' = [ctx EXCEPT ![depth] = Shrunk([Top EXCEPT !.held = @ \ {l}])]
    /\ UNCHANGED depth

Next ==
    \/ Sti \/ Interrupt \/ Iret
    \/ PushcliStart \/ PushcliEnd \/ Popcli
    \/ AcquireEnd
    \/ \E l \in Locks : AcquireStart(l) \/ Release(l)

Spec == Init /\ [][Next]_vars

(***************************************************************************)
(* Fairness.  The code between two API calls is finite and ends in the     *)
(* next call, so a context that is inside pushcli or acquire, or inside a  *)
(* critical section (MaxCalls makes those finite), goes on (weak           *)
(* fairness).  A handler is finite, so it cannot for ever prefer another   *)
(* call to its iret; and interrupts arrive at a finite rate, so the thread *)
(* is not for ever interrupted between reading eflags and cli (strong      *)
(* fairness).  Nothing is assumed about Sti or about interrupts.           *)
(***************************************************************************)
FinishCall == PushcliEnd \/ AcquireEnd

GiveBack == Popcli \/ \E l \in Locks : Release(l)

Fairness ==
    /\ WF_vars(FinishCall \/ GiveBack)
    /\ SF_vars(depth = 1 /\ FinishCall)
    /\ SF_vars(Iret)

FairSpec == Spec /\ Fairness

-----------------------------------------------------------------------------
TypeOK ==
    /\ cpu \in CpuState
    /\ lock \in [Locks -> LockState]
    /\ depth \in 1..MaxDepth
    /\ ctx \in [1..MaxDepth -> Context]

\* The sanity checks of spinlock.c never fire and the xchg loop of acquire
\* never spins: with one processor a lock is always free when it is asked for.
NeverStuck ==
    /\ cpu.panic = NoPanic
    /\ \A k \in 1..depth : ctx[k].pc # "spin"

\* A lock word is set exactly while one context is between acquire and
\* release, that context is the one that runs, and lk->cpu says so.
LockOwnership ==
    /\ \A l \in Locks : /\ lock[l].locked <=> l \in Top.held
                        /\ lock[l].cpu <=> lock[l].locked
    /\ \A k \in 1..depth : k < depth => ctx[k].held = {}

\* "to avoid deadlock": interrupts are off while a lock is held or a pushcli
\* is outstanding, and ncli counts the outstanding ones.  A handler's own
\* popcli never turns interrupts on, so handlers do not nest.
InterruptsOff ==
    /\ cpu.ncli = Cardinality(Top.held) + Top.npush
    /\ cpu.iflag => cpu.ncli = 0 /\ depth = 1
    /\ depth <= 2

\* "if interrupts are off, then pushcli, popcli leaves them off" and if they
\* are on they are on again: outside pushcli/popcli a context runs with the
\* flag it set itself, whatever interrupts came between.
FlagRestored ==
    Alive(cpu) /\ cpu.ncli = 0 => cpu.iflag = Top.ambient

\* Once the scheduler has enabled interrupts no nesting of critical sections
\* and handlers keeps them disabled for ever.
InterruptsComeBack == ctx[1].ambient ~> cpu.iflag

\* The locks implement the atomic mutexes of IrqMutex.
Mutex == INSTANCE IrqMutex WITH top <- depth, owned <- [k \in 1..MaxDepth |-> ctx[k].held]

ImplementsMutex == Mutex!Spec
=============================================================================
