----------------------------- MODULE IrqProofs ------------------------------
(***************************************************************************)
(* The safety properties of Irq, proved for every set of devices, every    *)
(* mask the BIOS may leave and any number of interrupts and keys.          *)
(***************************************************************************)
EXTENDS Irq, FiniteSetTheorems, SequenceTheorems, TLAPS

-----------------------------------------------------------------------------
(***************************************************************************)
(* The inductive invariant.  Interrupts are off and nothing is in progress *)
(* until scheduler(), by when the drivers have registered (BootInv); what  *)
(* the PICs can pass on is limited by what devices raise and by the BIOS's *)
(* mask (PicInv); and a handler of a line runs with interrupts off, on top *)
(* of a system call at most, with its line and only its line in service    *)
(* until the EOI (StackInv).                                               *)
(***************************************************************************)
Pcs == {"idt_init", "pic_init", "timer_init", "kbd_init", "paging_init", "uartinit",
        "process_init", "ide_init", "scheduler", "run"}

BootInv ==
    /\ pc \in Pcs
    /\ pc # "run" => stack = <<>> /\ ~cpu.iflag /\ isr = {} /\ Alive(cpu)
    /\ pc # "idt_init" => idt = 0..(IDT_IRQ_SIZE_MAX - 1) \cup {SYSCALL}
    /\ pc \notin {"idt_init", "pic_init"} => base = IDT_IRQ_BASE
    /\ pc \notin {"idt_init", "pic_init", "timer_init"} => IDT_IRQ_BASE \in isr_table
    /\ pc \notin {"idt_init", "pic_init", "timer_init", "kbd_init"} =>
          IDT_IRQ_BASE + 1 \in isr_table
    /\ pc \in {"process_init", "ide_init", "scheduler", "run"} => IDT_IRQ_BASE + 4 \in isr_table
    /\ pc \in {"ide_init", "scheduler", "run"} => SYSCALL \in isr_table
    /\ pc \in {"scheduler", "run"} => IDT_IRQ_BASE + 14 \in isr_table

PicInv == irr \subseteq Devices \cup {1} /\ BiosMask \ {0, 1} \subseteq imr

\* The lines that can reach the processor.
LineVectors == {IDT_IRQ_BASE + l : l \in (Devices \ BiosMask) \cup {0, 1, 4}}

Unserved == {IDT_IRQ_BASE + l : l \in Devices \ (BiosMask \cup {0, 1, 4, 14})}

\* What is in service while line l, sent by a PIC or the local APIC, is handled.
Service(l, by) == IF by = "apic" THEN {} ELSE IF l >= 8 THEN {2, l} ELSE {l}

InService ==
    IF stack = <<>> THEN {}
    ELSE IF stack[1].vector = SYSCALL \/ stack[1].at = "iret" THEN {}
    ELSE Service(stack[1].vector - IDT_IRQ_BASE, stack[1].by)

StackInv ==
    /\ cpu \in CpuState /\ stack \in Seq(Handler) /\ Len(stack) <= 2
    /\ ~Alive(cpu) => stack # <<>> /\ stack[1].vector \in Unserved
    /\ Alive(cpu) =>
          /\ isr = InService
          /\ Len(stack) >= 1 => \/ stack[1].vector = SYSCALL
                                \/ stack[1].vector \in LineVectors /\ ~cpu.iflag
          /\ Len(stack) = 2 => stack[1].vector # SYSCALL /\ stack[2].vector = SYSCALL

IInv == BootInv /\ PicInv /\ StackInv

-----------------------------------------------------------------------------
(* The stack of handlers.                                                  *)

\* Nothing in progress, nothing in service.
Idle == cpu \in CpuState /\ Alive(cpu) /\ stack = <<>> /\ isr = {}

LEMMA IdleStack == Idle => StackInv
  <1> SUFFICES ASSUME Idle PROVE StackInv
    OBVIOUS
  <1>1. stack \in Seq(Handler) /\ Len(stack) = 0
    BY DEF Idle
  <1>2. InService = {}
    BY DEF Idle, InService
  <1> QED
    BY <1>1, <1>2 DEF Idle, StackInv

LEMMA IdleStackNext == Idle' => StackInv'
  BY IdleStack, PTL

\* A stack of at most two handlers.
LEMMA ShortStack ==
    ASSUME NEW S, NEW s \in Seq(S), s # <<>>, Len(s) <= 2
    PROVE  Len(s) \in 1..2 /\ Len(s) >= 1 /\ s[1] \in S
  <1>1. Len(s) \in Nat /\ Len(s) # 0
    OBVIOUS
  <1>2. \A n \in Nat : n # 0 /\ n <= 2 => n \in 1..2 /\ n >= 1
    OBVIOUS
  <1>3. Len(s) \in 1..2 /\ Len(s) >= 1
    BY <1>1, <1>2, Zenon
  <1>4. s[1] \in S
    BY <1>3
  <1> QED
    BY <1>3, <1>4

\* The second of two is the first of the rest.
LEMMA SecondIs ==
    ASSUME NEW S, NEW s \in Seq(S), Len(s) = 2
    PROVE  Tail(s)[1] = s[2]
  <1>1. s # <<>>
    OBVIOUS
  <1>2. \A i \in 1..Len(Tail(s)) : Tail(s)[i] = s[i+1]
    BY <1>1, HeadTailProperties, Zenon
  <1>3. Len(Tail(s)) = 1
    BY <1>1
  <1> QED
    BY <1>2, <1>3

\* What is left of it when its top returns.
LEMMA PopHandler ==
    ASSUME NEW S, NEW s \in Seq(S), NEW t, s # <<>>, Len(s) <= 2, t = Tail(s)
    PROVE  /\ t \in Seq(S) /\ Len(t) # 2 /\ Len(t) <= 2
           /\ t = <<>> \/ (Len(s) = 2 /\ t[1] = s[2])
  <1>1. Len(s) \in 1..2
    BY ShortStack
  <1>2. t \in Seq(S) /\ Len(t) = Len(s) - 1
    OBVIOUS
  <1>3. Len(s) = 1 => t = <<>>
    BY <1>2
  <1>4. Len(s) = 2 => t[1] = s[2]
    BY SecondIs, Zenon
  <1>5. (Len(s) = 1 \/ Len(s) = 2) /\ Len(t) # 2 /\ Len(t) <= 2
    BY <1>1, <1>2
  <1> QED
    BY <1>2, <1>3, <1>4, <1>5, Zenon

\* The lines that are ever in service.
LEMMA LineNumbers == (Devices \ BiosMask) \cup {0, 1, 4} \subseteq (0..15) \ {2}
  BY IrqAssumption

\* A line's vector tells the line.
LEMMA VectorLine ==
    ASSUME NEW l \in 0..15, IDT_IRQ_BASE + l \notin {IDT_IRQ_BASE, IDT_IRQ_BASE + 1,
                                  IDT_IRQ_BASE + 4, IDT_IRQ_BASE + 14}
    PROVE  l \notin {0, 1, 4, 14}
  BY DEF IDT_IRQ_BASE

\* A step that touches neither the stack nor what is in service.
LEMMA SameStack ==
    ASSUME StackInv, UNCHANGED <<cpu, stack, isr>>
    PROVE  StackInv'
  BY Zenon DEF StackInv, InService

\* What Enter pushes.
LEMMA PushHandler ==
    ASSUME stack \in Seq(Handler), NEW h \in Handler, stack' = <<h>> \o stack
    PROVE  /\ stack' \in Seq(Handler) /\ Len(stack') = Len(stack) + 1 /\ stack' # <<>>
           /\ stack'[1] = h /\ (Len(stack) >= 1 => stack'[2] = stack[1])
  OBVIOUS

\* At boot interrupts are off and nothing is in service.
LEMMA InitIInv == Init => IInv
  <1> SUFFICES ASSUME Init PROVE IInv
    BY Zenon
  <1>1. BootInv
    BY Zenon DEF Init, BootInv, Pcs, CpuBoot, Alive, NoPanic
  <1>2. PicInv
    BY DEF Init, PicInv
  <1>3. StackInv
    <2>1. cpu \in CpuState /\ Alive(cpu) /\ stack = <<>> /\ isr = {}
      BY Zenon DEF Init, CpuBoot, CpuState, Alive, NoPanic
    <2> QED
      BY <2>1, IdleStack, Zenon DEF Idle
  <1> QED
    BY <1>1, <1>2, <1>3, Zenon DEF IInv

\* The steps of boot.
LEMMA BootIInv == IInv /\ BootStep => IInv'
  <1> SUFFICES ASSUME IInv, BootStep PROVE IInv'
    BY Zenon
  <1>1. /\ Alive(cpu) /\ pc \in Pcs /\ pc # "run"
        /\ stack = <<>> /\ isr = {} /\ ~cpu.iflag /\ cpu \in CpuState
    BY Zenon DEF IInv, BootInv, StackInv, BootStep, IdtInit, PicInit, TimerInit, KbdInit,
           PagingInit, UartInit, ProcessInit, IdeInit, Scheduler, Boot
  <1>2. isr' = {} /\ stack' = <<>> /\ irr' \subseteq irr
    BY <1>1, Zenon DEF BootStep, IdtInit, PicInit, TimerInit, KbdInit,
           PagingInit, UartInit, ProcessInit, IdeInit, Scheduler, Boot, pic
  <1>3. CASE Scheduler
    <2>1. /\ pc = "scheduler" /\ pc' = "run" /\ cpu' = [cpu EXCEPT !.iflag = TRUE]
          /\ UNCHANGED <<idt, isr_table, base, irr, imr>>
      BY <1>3, Zenon DEF Scheduler, Boot, pic
    <2>2. cpu' \in CpuState /\ Alive(cpu')
      BY <1>1, <2>1, Zenon DEF CpuState, Alive
    <2>3. BootInv' /\ PicInv'
      BY <2>1, Zenon DEF IInv, BootInv, PicInv, Pcs
    <2> QED
      BY <1>2, <2>2, <2>3, IdleStackNext, Zenon DEF IInv, Idle
  <1>4. CASE ~Scheduler
    <2>1. cpu' = cpu
      BY <1>4, Zenon DEF BootStep, IdtInit, PicInit, TimerInit, KbdInit, PagingInit, UartInit,
                  ProcessInit, IdeInit
    <2>2. BootInv'
      <3>1. CASE IdtInit
        BY <1>1, <1>2, <2>1, <3>1, Zenon DEF IInv, BootInv, IdtInit, Boot, isr_register, Pcs, pic
      <3>2. CASE PicInit
        BY <1>1, <1>2, <2>1, <3>2, Zenon DEF IInv, BootInv, PicInit, Boot, Pcs
      <3>3. CASE TimerInit
        BY <1>1, <1>2, <2>1, <3>3 DEF IInv, BootInv, TimerInit, Boot, isr_register, Pcs,
                                      IDT_IRQ_BASE
      <3>4. CASE KbdInit
        BY <1>1, <1>2, <2>1, <3>4 DEF IInv, BootInv, KbdInit, Boot, isr_register, Pcs
      <3>5. CASE PagingInit
        BY <1>1, <1>2, <2>1, <3>5 DEF IInv, BootInv, PagingInit, Boot, isr_register, Pcs, pic
      <3>6. CASE UartInit
        BY <1>1, <1>2, <2>1, <3>6, Zenon DEF IInv, BootInv, UartInit, Boot, isr_register, Pcs, pic
      <3>7. CASE ProcessInit
        BY <1>1, <1>2, <2>1, <3>7, Zenon DEF IInv, BootInv, ProcessInit, Boot, isr_register, Pcs, pic
      <3>8. CASE IdeInit
        BY <1>1, <1>2, <2>1, <3>8, Zenon DEF IInv, BootInv, IdeInit, Boot, isr_register, Pcs, pic
      <3> QED
        BY <1>4, <3>1, <3>2, <3>3, <3>4, <3>5, <3>6, <3>7, <3>8 DEF BootStep
    <2>3. PicInv'
      BY <1>2, <1>4, Zenon DEF IInv, PicInv, BootStep, IdtInit, PicInit, TimerInit, KbdInit,
                  PagingInit, UartInit, ProcessInit, IdeInit, pic, Disabled,
                  pic_enable_irq_line
    <2> QED
      BY <1>1, <1>2, <2>1, <2>2, <2>3, IdleStackNext DEF IInv, Idle
  <1> QED
    BY <1>3, <1>4

-----------------------------------------------------------------------------
(* Devices, the keyboard and threads.                                      *)

\* Devices raise lines and the keyboard sends bytes, which the processor does
\* not see yet.
LEMMA DeviceIInv ==
    ASSUME IInv,
           \/ Transfer \/ (\E d \in Devices : Raise(d))
           \/ \E k \in Keys : Press(k) \/ LetGo(k)
    PROVE  IInv'
  <1>1. UNCHANGED <<cpu, pc, idt, isr_table, base, isr, imr, stack>>
    BY Zenon DEF Transfer, Raise, Press, LetGo, pic
  <1>2. irr' \subseteq irr \cup Devices \cup {1}
    <2>1. \/ irr' = irr \/ irr' = irr \cup {1}
          \/ \E d \in Devices : irr' = irr \cup {d}
      BY Zenon DEF Transfer, Raise, Press, LetGo, pic
    <2> QED
      BY <2>1
  <1>3. BootInv' /\ PicInv'
    BY <1>1, <1>2 DEF IInv, BootInv, PicInv
  <1> QED
    BY <1>1, <1>3, SameStack DEF IInv

\* Critical sections of a thread.
LEMMA SectionIInv == IInv /\ (SectionStart \/ SectionEnd) => IInv'
  <1> SUFFICES ASSUME IInv, SectionStart \/ SectionEnd PROVE IInv'
    OBVIOUS
  <1>1. /\ Alive(cpu) /\ pc = "run" /\ (stack = <<>> \/ stack[1].vector = SYSCALL)
        /\ UNCHANGED <<pc, idt, isr_table, base, irr, isr, imr, stack>>
    BY Zenon DEF SectionStart, SectionEnd, Thread, InSyscall, pic
  <1>2. PICK b \in BOOLEAN : cpu' = [cpu EXCEPT !.iflag = b]
    BY Zenon DEF SectionStart, SectionEnd
  <1>3. cpu' \in CpuState /\ Alive(cpu')
    BY <1>1, <1>2, Zenon DEF IInv, StackInv, CpuState, Alive
  <1>4. BootInv' /\ PicInv'
    BY <1>1, Zenon DEF IInv, BootInv, PicInv
  <1>5. InService' = InService
    BY <1>1, Zenon DEF InService
  <1>6. StackInv'
    <2>1. Len(stack) >= 1 => stack # <<>>
      BY DEF IInv, StackInv
    <2> QED
      BY <1>1, <1>3, <1>5, <2>1, Zenon DEF IInv, StackInv
  <1> QED
    BY <1>4, <1>6 DEF IInv

\* INT 64 starts a system call on an empty stack.
LEMMA Int64IInv == IInv /\ Int64 => IInv'
  <1> SUFFICES ASSUME IInv, Int64 PROVE IInv'
    OBVIOUS
  <1> DEFINE h == [vector |-> SYSCALL, by |-> "int", at |-> "isr_handler",
                 iflag |-> cpu.iflag]
  <1>1. /\ Alive(cpu) /\ pc = "run" /\ stack = <<>> /\ stack' = <<h>> \o stack
        /\ cpu' = (IF SYSCALL \notin idt THEN Panic(cpu, "isr_handler")
                   ELSE [cpu EXCEPT !.iflag = IF GateClearsIF(SYSCALL) THEN FALSE ELSE @])
        /\ UNCHANGED <<pc, idt, isr_table, base, irr, isr, imr>>
    BY DEF Int64, Thread, Enter, pic
  <1>2. cpu \in CpuState /\ stack \in Seq(Handler) /\ isr = {} /\ SYSCALL \in idt
    BY <1>1 DEF IInv, StackInv, BootInv, InService
  <1>3. cpu' \in CpuState /\ Alive(cpu')
    BY <1>1, <1>2 DEF CpuState, Alive, GateClearsIF, SYSCALL, IDT_IRQ_SIZE_MAX
  <1>4. h \in Handler /\ h.vector = SYSCALL
    BY <1>2 DEF Handler, CpuState, SYSCALL
  <1> HIDE DEF h
  <1>5. stack' \in Seq(Handler) /\ Len(stack') = 1 /\ stack' # <<>> /\ stack'[1] = h
    BY <1>1, <1>2, <1>4, PushHandler
  <1>6. InService' = {}
    BY <1>4, <1>5, Zenon DEF InService
  <1>7. StackInv'
    BY <1>1, <1>2, <1>3, <1>4, <1>5, <1>6 DEF StackInv
  <1>8. BootInv' /\ PicInv'
    BY <1>1, Zenon DEF IInv, BootInv, PicInv
  <1> QED
    BY <1>7, <1>8, Zenon DEF IInv

\* The processor takes the vector of a line: its gate exists, and turns
\* interrupts off.
LEMMA EnterLine ==
    ASSUME IInv, Alive(cpu), cpu.iflag, NEW l \in (Devices \ BiosMask) \cup {0, 1, 4},
           NEW by \in {"pic", "apic"}, Enter(IDT_IRQ_BASE + l, by), isr' = Service(l, by)
    PROVE  StackInv'
  <1> DEFINE v == IDT_IRQ_BASE + l
  <1> DEFINE h == [vector |-> v, by |-> by, at |-> "isr_handler", iflag |-> cpu.iflag]
  <1>1. l \in 0..15 /\ v \in 32..47 /\ v - IDT_IRQ_BASE = l /\ v # SYSCALL
    BY IrqAssumption DEF IDT_IRQ_BASE, SYSCALL
  <1>2. v \in LineVectors
    BY DEF LineVectors
  <1>3. /\ pc = "run" /\ v \in idt /\ cpu \in CpuState /\ stack \in Seq(Handler)
        /\ Len(stack) \in Nat
    BY <1>1 DEF IInv, BootInv, StackInv, IDT_IRQ_SIZE_MAX
  <1>4. Len(stack) <= 1 /\ (Len(stack) = 1 => stack[1].vector = SYSCALL)
    <2>1. /\ Len(stack) <= 2 /\ (Len(stack) >= 1 => stack[1].vector = SYSCALL)
          /\ (Len(stack) = 2 => stack[1].vector # SYSCALL)
      BY Zenon DEF IInv, StackInv
    <2>2. \A n \in Nat : /\ n = 2 => n >= 1
                         /\ n <= 2 /\ n # 2 => n <= 1
                         /\ n = 1 => n >= 1
      OBVIOUS
    <2> QED
      BY <1>3, <2>1, <2>2, Zenon
  <1>5. h \in Handler /\ h.vector = v /\ h.by = by /\ h.at = "isr_handler"
    BY <1>1, <1>3 DEF Handler, CpuState, SYSCALL
  <1>6. stack' = <<h>> \o stack /\ cpu' = [cpu EXCEPT !.iflag = FALSE]
    <2>1. GateClearsIF(v)
      BY <1>1 DEF GateClearsIF, IDT_IRQ_SIZE_MAX
    <2> QED
      BY <1>3, <2>1, Zenon DEF Enter
  <1>7. cpu' \in CpuState /\ Alive(cpu') /\ ~cpu'.iflag
    BY <1>3, <1>6, Zenon DEF CpuState, Alive
  <1> HIDE DEF h, v
  <1>8. /\ stack' \in Seq(Handler) /\ Len(stack') = Len(stack) + 1 /\ stack' # <<>>
        /\ stack'[1] = h /\ (Len(stack) >= 1 => stack'[2] = stack[1])
    BY <1>3, <1>5, <1>6, PushHandler
  <1>9. InService' = Service(l, by)
    BY <1>1, <1>5, <1>8 DEF InService
  <1> QED
    <2>1. Len(stack') <= 2 /\ (Len(stack') = 2 => stack'[2].vector = SYSCALL)
      <3>1. \A n \in Nat : n <= 1 => n + 1 <= 2 /\ (n + 1 = 2 => n = 1 /\ n >= 1)
        OBVIOUS
      <3> QED
        BY <1>3, <1>4, <1>8, <3>1, Zenon
    <2>2. stack'[1].vector \in LineVectors /\ stack'[1].vector # SYSCALL
      BY <1>1, <1>2, <1>5, <1>8
    <2> QED
      BY <1>7, <1>8, <1>9, <2>1, <2>2, Zenon DEF StackInv

-----------------------------------------------------------------------------
(* The controllers and the handlers.                                       *)

\* The least of a set of lines is in it.
LEMMA FirstIs ==
    ASSUME NEW S \in SUBSET (0..15), S # {}
    PROVE  First(S) \in S
  <1>1. \E l \in S : \A k \in S : l <= k
    <2> SUFFICES ASSUME \A l \in S : \E k \in S : k < l PROVE FALSE
      OBVIOUS
    <2>1. \A l \in S : l > 3
      OBVIOUS
    <2>2. \A l \in S : l > 7
      BY <2>1
    <2>3. \A l \in S : l > 11
      BY <2>2
    <2>4. \A l \in S : l > 15
      BY <2>3
    <2>5. PICK l : l \in S
      BY Zenon
    <2>6. l \in 0..15
      BY <2>5, Zenon
    <2> QED
      BY <2>4, <2>5, <2>6
  <1> QED
    BY <1>1, Zenon DEF First

LEMMA FirstOfOne == ASSUME NEW l \in 0..15 PROVE {l} # {} /\ First({l}) = l
  BY FirstIs

\* The PICs pass on a line that a device raised and the BIOS left unmasked, or
\* that its driver unmasked.
LEMMA PicIInv == IInv /\ PicInterrupt => IInv'
  <1> SUFFICES ASSUME IInv, PicInterrupt PROVE IInv'
    OBVIOUS
  <1>1. /\ Alive(cpu) /\ cpu.iflag /\ MasterRequests # {}
        /\ UNCHANGED <<pc, idt, isr_table, base, imr>>
    BY DEF PicInterrupt
  <1>2. PICK m, l : /\ m = First(MasterRequests)
                    /\ l = IF m = 2 THEN First(SlaveRequests) ELSE m
                    /\ irr' = irr \ {l} /\ isr' = isr \cup {m, l}
                    /\ Enter(base + l, "pic")
    BY DEF PicInterrupt
  <1>3. /\ irr \subseteq Devices \cup {1} /\ BiosMask \ {0, 1} \subseteq imr
        /\ Devices \subseteq 0..15 \ {1, 2} /\ irr \subseteq 0..15 /\ 2 \notin irr
    BY IrqAssumption DEF IInv, PicInv
  <1>4. SlaveRequests \subseteq (irr \cap 8..15) \ imr
    BY Zenon DEF SlaveRequests, Passed
  <1>5. /\ MasterRequests \subseteq ((irr \cap 0..7) \cup {2}) \ imr
        /\ 2 \in MasterRequests => SlaveRequests # {}
    BY <1>3, Zenon DEF MasterRequests, Passed
  <1>6. m \in MasterRequests
    BY <1>1, <1>2, <1>5, FirstIs
  <1>7. /\ l \in irr \ imr /\ l \in 0..15 /\ l # 2
        /\ \/ m = 2 /\ l \in 8..15
           \/ m = l /\ l \in 0..7
    <2>1. CASE m = 2
      <3>1. First(SlaveRequests) \in SlaveRequests
        BY <1>3, <1>4, <1>5, <1>6, <2>1, FirstIs
      <3> QED
        BY <1>2, <1>3, <1>4, <2>1, <3>1
    <2>2. CASE m # 2
      BY <1>2, <1>3, <1>5, <1>6, <2>2
    <2> QED
      BY <2>1, <2>2
  <1>8. l \in (Devices \ BiosMask) \cup {0, 1, 4}
    BY <1>3, <1>7
  <1>9. pc = "run" /\ base = IDT_IRQ_BASE
    BY <1>1 DEF IInv, BootInv
  <1>10. isr = {}
    <2>1. /\ isr = InService /\ stack \in Seq(Handler)
          /\ (Len(stack) >= 1 => stack[1].vector = SYSCALL)
      BY <1>1, Zenon DEF IInv, StackInv
    <2>2. stack = <<>> \/ Len(stack) >= 1
      BY <2>1
    <2> QED
      BY <2>1, <2>2, Zenon DEF InService
  <1>11. isr' = Service(l, "pic")
    BY <1>2, <1>7, <1>10 DEF Service
  <1>12. StackInv'
    BY <1>1, <1>2, <1>8, <1>9, <1>11, EnterLine
  <1>13. BootInv' /\ PicInv'
    <2>1. irr' \subseteq irr
      BY <1>2, Zenon
    <2> QED
      BY <1>1, <1>9, <2>1 DEF IInv, BootInv, PicInv
  <1> QED
    BY <1>12, <1>13, Zenon DEF IInv

\* The local APIC delivers COM1's line, past the PICs.
LEMMA ApicIInv == IInv /\ ApicInterrupt => IInv'
  <1> SUFFICES ASSUME IInv, ApicInterrupt PROVE IInv'
    OBVIOUS
  <1>1. /\ Alive(cpu) /\ cpu.iflag /\ Enter(IDT_IRQ_BASE + 4, "apic")
        /\ UNCHANGED <<pc, idt, isr_table, base, irr, isr, imr>>
    BY DEF ApicInterrupt, pic
  <1>2. pc = "run"
    BY <1>1, Zenon DEF IInv, BootInv
  <1>3. isr = {}
    <2>1. /\ isr = InService /\ stack \in Seq(Handler)
          /\ (Len(stack) >= 1 => stack[1].vector = SYSCALL)
      BY <1>1, Zenon DEF IInv, StackInv
    <2>2. stack = <<>> \/ Len(stack) >= 1
      BY <2>1
    <2> QED
      BY <2>1, <2>2, Zenon DEF InService
  <1>4. isr' = Service(4, "apic")
    BY <1>1, <1>3, Zenon DEF Service
  <1>5. StackInv'
    BY <1>1, <1>4, EnterLine, Zenon
  <1>6. BootInv' /\ PicInv'
    BY <1>1, <1>2, Zenon DEF IInv, BootInv, PicInv
  <1> QED
    BY <1>5, <1>6, Zenon DEF IInv

\* What Goto leaves of the stack.
LEMMA GotoStack ==
    ASSUME stack \in Seq(Handler), stack # <<>>, NEW label \in {"isr_handler", "eoi", "iret"},
           Goto(label)
    PROVE  /\ stack' \in Seq(Handler) /\ Len(stack') = Len(stack) /\ stack' # <<>>
           /\ stack'[1].vector = stack[1].vector /\ stack'[1].by = stack[1].by
           /\ stack'[1].at = label
           /\ Len(stack) = 2 => stack'[2] = stack[2]
  <1> DEFINE h == [stack[1] EXCEPT !.at = label]
  <1>1. stack[1] \in Handler /\ Len(stack) \in Nat /\ Len(stack) >= 1
    OBVIOUS
  <1>2. /\ h \in Handler /\ h.vector = stack[1].vector /\ h.by = stack[1].by
        /\ h.at = label
    BY <1>1 DEF Handler
  <1>3. stack' = [stack EXCEPT ![1] = h]
    BY DEF Goto
  <1> HIDE DEF h
  <1>4. /\ stack' \in Seq(Handler) /\ Len(stack') = Len(stack) /\ stack'[1] = h
        /\ \A i \in 1..Len(stack) : i # 1 => stack'[i] = stack[i]
    BY <1>1, <1>2, <1>3
  <1> QED
    BY <1>1, <1>2, <1>4

\* A step of a handler in progress: the kernel is up and the top of the stack
\* is a system call or a line with interrupts off.
LEMMA InHandler ==
    ASSUME IInv, Alive(cpu), stack # <<>>
    PROVE  /\ pc = "run" /\ cpu \in CpuState /\ stack \in Seq(Handler) /\ Len(stack) <= 2
           /\ isr = InService
           /\ stack[1].vector = SYSCALL \/ (stack[1].vector \in LineVectors /\ ~cpu.iflag)
           /\ Len(stack) = 2 => stack[1].vector # SYSCALL /\ stack[2].vector = SYSCALL
           /\ {IDT_IRQ_BASE, IDT_IRQ_BASE + 1, IDT_IRQ_BASE + 4, IDT_IRQ_BASE + 14, SYSCALL}
                 \subseteq isr_table
  <1>1. pc = "run" /\ cpu \in CpuState /\ stack \in Seq(Handler) /\ Len(stack) <= 2
    BY Zenon DEF IInv, BootInv, StackInv
  <1>2. Len(stack) \in 1..2 /\ Len(stack) >= 1
    BY <1>1, ShortStack, Zenon
  <1>3. /\ isr = InService
        /\ stack[1].vector = SYSCALL \/ (stack[1].vector \in LineVectors /\ ~cpu.iflag)
        /\ Len(stack) = 2 => stack[1].vector # SYSCALL /\ stack[2].vector = SYSCALL
    BY <1>2, Zenon DEF IInv, StackInv
  <1>4. {IDT_IRQ_BASE, IDT_IRQ_BASE + 1, IDT_IRQ_BASE + 4, IDT_IRQ_BASE + 14, SYSCALL}
           \subseteq isr_table
    BY <1>1 DEF IInv, BootInv
  <1> QED
    BY <1>1, <1>2, <1>3, <1>4, Zenon

\* isr_handler panics for a line without a driver only.
LEMMA MissingIInv == IInv /\ MissingHandler => IInv'
  <1> SUFFICES ASSUME IInv, MissingHandler PROVE IInv'
    OBVIOUS
  <1>1. /\ Alive(cpu) /\ stack # <<>> /\ stack[1].vector \notin isr_table
        /\ UNCHANGED <<pc, idt, isr_table, base, irr, isr, imr, stack>>
    BY DEF MissingHandler, At, pic
  <1>2. PICK msg \in {"isr_handler", "page fault not handled!"} : cpu' = Panic(cpu, msg)
    BY Zenon DEF MissingHandler
  <1>3. pc = "run" /\ cpu \in CpuState /\ stack \in Seq(Handler) /\ Len(stack) <= 2
    BY <1>1, InHandler
  <1>4. cpu' \in CpuState /\ ~Alive(cpu')
    BY <1>2, <1>3 DEF Panic, CpuState, PanicMsgs, Alive, NoPanic
  <1>5. stack[1].vector \in Unserved
    <2>1. /\ stack[1].vector \in LineVectors
          /\ stack[1].vector \notin {IDT_IRQ_BASE, IDT_IRQ_BASE + 1, IDT_IRQ_BASE + 4,
                                     IDT_IRQ_BASE + 14}
      BY <1>1, InHandler, Zenon
    <2>2. PICK l \in (Devices \ BiosMask) \cup {0, 1, 4} : stack[1].vector = IDT_IRQ_BASE + l
      BY <2>1, Zenon DEF LineVectors
    <2>3. IDT_IRQ_BASE + l \notin {IDT_IRQ_BASE, IDT_IRQ_BASE + 1, IDT_IRQ_BASE + 4,
                                   IDT_IRQ_BASE + 14}
      BY <2>1, <2>2
    <2>a. l \in 0..15
      BY LineNumbers, Zenon
    <2>4. l \notin {0, 1, 4, 14}
      BY <2>3, <2>a, VectorLine, Zenon
    <2> QED
      BY <2>2, <2>4, Zenon DEF Unserved
  <1>6. StackInv'
    <2>1. Len(stack) <= 2
      BY <1>1, InHandler, Zenon
    <2> QED
      BY <1>1, <1>3, <1>4, <1>5, <2>1, Zenon DEF StackInv, Unserved
  <1>7. BootInv' /\ PicInv'
    BY <1>1, <1>3, Zenon DEF IInv, BootInv, PicInv
  <1> QED
    BY <1>6, <1>7, Zenon DEF IInv

\* The handlers of the drivers leave what is in service alone.
LEMMA DriverIInv == IInv /\ (TimerHandler \/ KbdHandler \/ OtherHandler) => IInv'
  <1> SUFFICES ASSUME IInv, TimerHandler \/ KbdHandler \/ OtherHandler PROVE IInv'
    BY Zenon
  <1>1. /\ Alive(cpu) /\ stack # <<>> /\ stack[1].at = "isr_handler" /\ Goto("eoi")
        /\ UNCHANGED <<cpu, pc, idt, isr_table, base, isr, imr>>
    BY Zenon DEF TimerHandler, KbdHandler, OtherHandler, At, pic
  <1>2. irr' \subseteq irr \cup {1}
    BY Zenon DEF TimerHandler, KbdHandler, OtherHandler, kbd_interrupt_handler, pic
  <1>3. pc = "run" /\ cpu \in CpuState /\ stack \in Seq(Handler) /\ Len(stack) <= 2
        /\ isr = InService
    BY <1>1, InHandler
  <1>4. /\ stack' \in Seq(Handler) /\ Len(stack') = Len(stack) /\ stack' # <<>>
        /\ stack'[1].vector = stack[1].vector /\ stack'[1].by = stack[1].by
        /\ stack'[1].at = "eoi"
        /\ Len(stack) = 2 => stack'[2] = stack[2]
    BY <1>1, <1>3, GotoStack, Zenon
  <1>5. InService' = InService
    BY <1>1, <1>4, Zenon DEF InService
  <1>6. StackInv'
    BY <1>1, <1>3, <1>4, <1>5, InHandler, Zenon DEF IInv, StackInv, LineVectors
  <1>7. BootInv' /\ PicInv'
    BY <1>1, <1>2, <1>3, Zenon DEF IInv, BootInv, PicInv
  <1> QED
    BY <1>6, <1>7, Zenon DEF IInv

\* The EOI ends exactly the line in progress.
LEMMA EoiEffect ==
    ASSUME NEW l \in 0..15, l # 2, NEW by, isr = Service(l, by), pic_send_eoi(l)
    PROVE  isr' = {}
  <1>1. CASE by = "apic"
    <2>1. isr = {}
      BY <1>1, Zenon DEF Service
    <2> QED
      BY <2>1, Zenon DEF pic_send_eoi, Eoi
  <1>2. CASE by # "apic" /\ l < 8
    <2>1. isr = {l} /\ isr \cap 0..7 = {l}
      BY <1>2 DEF Service
    <2>2. Eoi(isr \cap 0..7) = {l}
      BY <2>1, FirstOfOne DEF Eoi
    <2> QED
      BY <2>1, <2>2, Zenon DEF pic_send_eoi
  <1>3. CASE by # "apic" /\ l >= 8
    <2>1. isr = {2, l} /\ isr \cap 0..7 = {2} /\ isr \cap 8..15 = {l}
      <3>1. isr = {2, l}
        BY <1>3, Zenon DEF Service
      <3>2. l \in 8..15
        BY <1>3
      <3>3. 2 \in 0..7 /\ 2 \notin 8..15 /\ l \notin 0..7
        BY <3>2
      <3> QED
        BY <3>1, <3>2, <3>3, Zenon
    <2>2. Eoi(isr \cap 0..7) = {2} /\ Eoi(isr \cap 8..15) = {l}
      BY <2>1, FirstOfOne DEF Eoi
    <2> QED
      BY <1>3, <2>1, <2>2, Zenon DEF pic_send_eoi
  <1> QED
    BY <1>1, <1>2, <1>3

LEMMA SendEoiIInv == IInv /\ SendEoi => IInv'
  <1> SUFFICES ASSUME IInv, SendEoi PROVE IInv'
    OBVIOUS
  <1>1. /\ Alive(cpu) /\ stack # <<>> /\ stack[1].at = "eoi" /\ Goto("iret")
        /\ UNCHANGED <<cpu, pc, idt, isr_table, base, irr, imr>>
    BY DEF SendEoi, At
  <1>2. pc = "run" /\ cpu \in CpuState /\ stack \in Seq(Handler) /\ Len(stack) <= 2
        /\ isr = InService
    BY <1>1, InHandler, Zenon
  <1>3. /\ stack' \in Seq(Handler) /\ Len(stack') = Len(stack) /\ stack' # <<>>
        /\ stack'[1].vector = stack[1].vector /\ stack'[1].at = "iret"
        /\ Len(stack) = 2 => stack'[2] = stack[2]
    BY <1>1, <1>2, GotoStack, Zenon
  <1>4. isr' = {}
    <2>1. CASE stack[1].vector = SYSCALL
      <3>1. isr' = isr
        BY <2>1 DEF SendEoi, SYSCALL, IDT_IRQ_SIZE_MAX
      <3> QED
        BY <1>2, <2>1, <3>1 DEF InService
    <2>2. CASE stack[1].vector # SYSCALL
      <3>1. PICK l \in (Devices \ BiosMask) \cup {0, 1, 4} :
               stack[1].vector = IDT_IRQ_BASE + l
        BY <1>1, <2>2, InHandler, Zenon DEF LineVectors
      <3>2. /\ l \in 0..15 /\ l # 2 /\ stack[1].vector < IDT_IRQ_SIZE_MAX
            /\ stack[1].vector - IDT_IRQ_BASE = l /\ l % 256 = l
        BY <3>1, IrqAssumption DEF IDT_IRQ_BASE, IDT_IRQ_SIZE_MAX
      <3>3. isr = Service(l, stack[1].by)
        BY <1>1, <1>2, <2>2, <3>2 DEF InService
      <3>4. pic_send_eoi(l)
        BY <3>2 DEF SendEoi
      <3> QED
        BY <3>2, <3>3, <3>4, EoiEffect
    <2> QED
      BY <2>1, <2>2, Zenon
  <1>5. InService' = {}
    BY <1>3, Zenon DEF InService
  <1>6. StackInv'
    BY <1>1, <1>2, <1>3, <1>4, <1>5, InHandler, Zenon DEF IInv, StackInv, LineVectors
  <1>7. BootInv' /\ PicInv'
    BY <1>1, <1>2, Zenon DEF IInv, BootInv, PicInv
  <1> QED
    BY <1>6, <1>7, Zenon DEF IInv

\* iret goes back to the system call or thread that was interrupted.
LEMMA IretIInv == IInv /\ Iret => IInv'
  <1> SUFFICES ASSUME IInv, Iret PROVE IInv'
    OBVIOUS
  <1>1. /\ Alive(cpu) /\ stack # <<>> /\ stack[1].at = "iret"
        /\ stack' = Tail(stack) /\ cpu' = [cpu EXCEPT !.iflag = stack[1].iflag]
        /\ UNCHANGED <<pc, idt, isr_table, base, irr, isr, imr>>
    BY DEF Iret, At, pic
  <1>2. /\ pc = "run" /\ cpu \in CpuState /\ stack \in Seq(Handler) /\ Len(stack) <= 2
        /\ isr = InService /\ (Len(stack) = 2 => stack[2].vector = SYSCALL)
    BY <1>1, InHandler, Zenon
  <1>3. isr' = {}
    BY <1>1, <1>2 DEF InService
  <1>b. stack[1] \in Handler
    BY <1>1, <1>2, ShortStack, Zenon
  <1>a. /\ stack' \in Seq(Handler)
        /\ Len(stack') # 2 /\ Len(stack') <= 2
        /\ stack' = <<>> \/ (Len(stack) = 2 /\ stack'[1] = stack[2])
    BY <1>1, <1>2, PopHandler, Zenon
  <1>4. stack[1].iflag \in BOOLEAN
    BY <1>b, Zenon DEF Handler
  <1>5. cpu' \in CpuState /\ Alive(cpu')
    BY <1>1, <1>2, <1>4, Zenon DEF CpuState, Alive
  <1>6. stack' = <<>> \/ stack'[1].vector = SYSCALL
    BY <1>2, <1>a, Zenon
  <1>7. ~(Len(stack') >= 1) \/ stack'[1].vector = SYSCALL
    BY <1>6
  <1>8. InService' = {}
    BY <1>6 DEF InService
  <1>9. StackInv'
    BY <1>3, <1>5, <1>7, <1>8, <1>a, Zenon DEF StackInv
  <1>10. BootInv' /\ PicInv'
    BY <1>1, <1>2, Zenon DEF IInv, BootInv, PicInv
  <1> QED
    BY <1>9, <1>10 DEF IInv

\* Nothing happens, or nothing the invariant speaks of.
LEMMA StutterIInv == IInv /\ UNCHANGED vars => IInv'
  <1> SUFFICES ASSUME IInv, UNCHANGED vars PROVE IInv'
    OBVIOUS
  <1>1. UNCHANGED <<cpu, pc, idt, isr_table, base, irr, isr, imr, stack>>
    BY Zenon DEF vars, pic
  <1>2. StackInv'
    BY <1>1, SameStack, Zenon DEF IInv
  <1>3. BootInv' /\ PicInv'
    BY <1>1 DEF IInv, BootInv, PicInv
  <1> QED
    BY <1>2, <1>3 DEF IInv

\* Every step preserves the invariant.
LEMMA NextIInv == IInv /\ [Next]_vars => IInv'
  <1> SUFFICES ASSUME IInv, [Next]_vars PROVE IInv'
    OBVIOUS
  <1>1. CASE BootStep
    BY <1>1, BootIInv
  <1>2. CASE HandlerStep
    BY <1>2, MissingIInv, DriverIInv, SendEoiIInv, IretIInv DEF HandlerStep
  <1>3. CASE SectionStart \/ SectionEnd
    BY <1>3, SectionIInv
  <1>4. CASE Int64
    BY <1>4, Int64IInv
  <1>5. CASE PicInterrupt
    BY <1>5, PicIInv, Zenon
  <1>6. CASE ApicInterrupt
    BY <1>6, ApicIInv
  <1>7. CASE Transfer \/ (\E d \in Devices : Raise(d)) \/ (\E k \in Keys : Press(k) \/ LetGo(k))
    BY <1>7, DeviceIInv
  <1>8. CASE Halted \/ UNCHANGED vars
    BY <1>8, StutterIInv, Zenon DEF Halted
  <1> QED
    BY <1>1, <1>2, <1>3, <1>4, <1>5, <1>6, <1>7, <1>8 DEF Next

-----------------------------------------------------------------------------
(* The theorems.                                                           *)

\* The invariant holds throughout, whatever lines the BIOS left unmasked,
\* whatever devices there are and however often they ask.
THEOREM Invariance == Spec => []IInv
  BY InitIInv, NextIInv, PTL DEF Spec

\* What is in service is exactly the handler in progress until its EOI, and
\* the handlers of lines do not nest.
THEOREM Acknowledged == Spec => []AckedExactly
  <1>1. IInv => AckedExactly
    <2> SUFFICES ASSUME IInv, Alive(cpu)
                 PROVE  /\ Cardinality(InProgress) <= 1 /\ Len(stack) <= 2
                        /\ isr = InService
      BY Zenon DEF AckedExactly, InService, Service
    <2>1. stack \in Seq(Handler) /\ Len(stack) <= 2 /\ isr = InService
      BY DEF IInv, StackInv
    <2>2. Len(stack) = 2 => stack[2].vector = SYSCALL
      BY Zenon DEF IInv, StackInv
    <2>3. InProgress \subseteq {1}
      <3> SUFFICES ASSUME NEW i \in 1..Len(stack), stack[i].vector # SYSCALL
                   PROVE  i = 1
        BY Zenon DEF InProgress
      <3>1. Len(stack) \in Nat
        BY <2>1, Zenon, LenProperties
      <3>2. \A n \in Nat : n <= 2 => \A j \in 1..n : j = 1 \/ (j = 2 /\ n = 2)
        OBVIOUS
      <3>3. i = 1 \/ (i = 2 /\ Len(stack) = 2)
        BY <2>1, <3>1, <3>2, Zenon
      <3> QED
        BY <2>2, <3>3, Zenon
    <2>4. Cardinality(InProgress) <= 1
      <3>1. IsFiniteSet({1}) /\ Cardinality({1}) = 1
        BY FS_Singleton, Zenon
      <3>2. Cardinality(InProgress) <= Cardinality({1})
        BY <2>3, <3>1, FS_Subset, Zenon
      <3> QED
        BY <3>1, <3>2
    <2> QED
      BY <2>1, <2>4
  <1> QED
    BY <1>1, Invariance, PTL

\* isr_handler panics only for a line that no driver serves and that the BIOS
\* left unmasked.
THEOREM PanicsBios == Spec => []OnlyBiosLinesPanic
  <1>1. IInv => OnlyBiosLinesPanic
    BY Zenon DEF IInv, StackInv, OnlyBiosLinesPanic, Unserved
  <1> QED
    BY <1>1, Invariance, PTL

=============================================================================
