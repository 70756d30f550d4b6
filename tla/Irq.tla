-------------------------------- MODULE Irq ---------------------------------
(***************************************************************************)
(* Interrupts: the dispatch of kernel/idt.c and isr.asm, the interrupt     *)
(* controllers as pic.c and ioapic.c program them, and the handlers of     *)
(* timer.c, kbd.c, uart.c and ide.c, from boot on.                         *)
(*                                                                         *)
(* The hardware is modelled from how this code uses it.  The two 8259 PICs *)
(* latch a request per line (irr), accept the one with the smallest number *)
(* unless one at least as urgent is in service (isr), and end the most     *)
(* urgent one in service on an EOI.  The keyboard controller holds one     *)
(* byte for the processor, raises line 1 when it gets one, and repeats the *)
(* last byte when it is read empty.  COM1's line reaches the PIC and the   *)
(* IOAPIC; the local APIC delivers what the IOAPIC routes to it until its  *)
(* own EOI, which this kernel never sends.  A request is not withdrawn, so *)
(* the PICs send no spurious vectors.                                      *)
(* Locks are not modelled here: the console lock the keyboard handler      *)
(* takes is in modules Proc and Console.                                   *)
(***************************************************************************)
EXTENDS Cpu, Sequences, FiniteSets

CONSTANTS BiosMask,   \* lines the BIOS left masked, B8 and 8E in pic_init
          Devices,    \* lines that raise requests, besides the keyboard's
          Uart,       \* whether there is a serial port
          Keys,       \* keys that are pressed
          Repeat,     \* whether the keyboard repeats a key that is held
          MaxRaise,   \* bound on the requests of the devices
          MaxEvents,  \* bound on these and on presses and repeats together
          MaxWire     \* bound on the bytes that wait when another key is moved

ASSUME IrqAssumption ==
    /\ BiosMask \subseteq 0..15 /\ Devices \subseteq 0..15 \ {1, 2}
    /\ Uart \in BOOLEAN /\ Repeat \in BOOLEAN
    /\ MaxRaise \in Nat /\ MaxEvents \in Nat /\ MaxWire \in Nat
    /\ Keys \subseteq {"LSHIFT", "RSHIFT", "LCTRL", "RCTRL", "LALT", "a", "b", "KPSLASH"}

IDT_IRQ_BASE == 32
IDT_IRQ_SIZE_MAX == 48
SYSCALL == 64

VARIABLES cpu, pc,
          idt,        \* the vectors idt_init gave a gate
          isr_table,  \* the vectors with a handler
          base,       \* the vector of line 0
          irr, isr, imr,
          apic,       \* COM1 line: requested, enabled in the IOAPIC, in service
          stack,      \* the handlers in progress, innermost first
          ticks,
          mods,       \* the flags shift, ctrl and alt of kbd.c that are set
          obf, data,  \* the keyboard controller: a byte is waiting, the last byte
          shown,      \* history: keys kbd.c printed, with the table it used
          wire,       \* bytes the keyboard has still to send
          held,       \* keys held down
          typed,      \* history: keys pressed, with whether a shift key was down
          raised      \* requests of devices and presses of keys so far

pic == <<base, irr, isr, imr>>
keyboard == <<mods, obf, data, shown, wire, held, typed>>
vars == <<cpu, pc, idt, isr_table, pic, apic, stack, ticks, keyboard, raised>>

NoByte == [key |-> "none", make |-> FALSE]

\* A handler in progress: its vector, who sent it, how far isr_handler is, and
\* the EFLAGS.IF that iret restores.
Handler == [vector : 0..SYSCALL, by : {"pic", "apic", "int"},
            at : {"isr_handler", "eoi", "iret"}, iflag : BOOLEAN]

\* The boot loader enters the kernel with interrupts off, the PIC as the BIOS
\* left it.
Init ==
    /\ cpu = CpuBoot /\ pc = "idt_init" /\ idt = {} /\ isr_table = {}
    /\ base = 8 /\ irr \in SUBSET (Devices \cap {0}) /\ isr = {} /\ imr = BiosMask
    /\ apic = [irr |-> FALSE, enabled |-> FALSE, isr |-> FALSE]
    /\ stack = <<>> /\ ticks = 0
    /\ mods = {} /\ obf = FALSE /\ data = NoByte /\ shown = <<>> /\ wire = <<>>
    /\ held = {} /\ typed = <<>>
    /\ raised = [devices |-> 0, keys |-> 0]

Boot(from, to) == Alive(cpu) /\ pc = from /\ pc' = to

\* Where during boot, which runs with interrupts off, devices act: before
\* pic_init resets the PIC, and at the end for all the rest of it.
BootPoints == {"pic_init", "scheduler", "run"}

\* isr_register(): a vector that has a handler keeps it.
isr_register(v) == isr_table' = isr_table \cup {v}

\* Faulty variant of pic_enable: the line is masked.
pic_disable_instead(l) == imr' = imr \cup {l}

\* pic_enable_irq_line(), and the mask pic_disable_irq_line() leaves.
pic_enable_irq_line(l) == imr' = imr \ {l}

Disabled(mask, l) == mask \cup {l}

\* gdt_init() registers the handler of protection faults; idt_init() makes gates
\* for the exceptions, the PIC's vectors and system calls.
IdtInit ==
    /\ Boot("idt_init", "pic_init") /\ isr_register(13)
    /\ idt' = 0..(IDT_IRQ_SIZE_MAX - 1) \cup {SYSCALL}
    /\ UNCHANGED <<cpu, pic, apic, stack, ticks, keyboard, raised>>

\* Faulty variant of PicInit: ICW2 is forgotten, lines keep the BIOS's vectors.
PicInitKeepsBase ==
    /\ Boot("pic_init", "timer_init")
    /\ irr' = {} /\ isr' = {} /\ imr' = Disabled(imr, 0)
    /\ UNCHANGED <<cpu, idt, isr_table, base, apic, stack, ticks, keyboard, raised>>

\* pic_init(): ICW1 forgets what was latched, ICW2 sets the vectors, the masks
\* are those of the BIOS again, and the timer's line is masked.
PicInit ==
    /\ Boot("pic_init", "timer_init")
    /\ base' = IDT_IRQ_BASE /\ irr' = {} /\ isr' = {} /\ imr' = Disabled(imr, 0)
    /\ UNCHANGED <<cpu, idt, isr_table, apic, stack, ticks, keyboard, raised>>

TimerInit ==
    /\ Boot("timer_init", "kbd_init")
    /\ isr_register(IDT_IRQ_BASE + 0) /\ pic_enable_irq_line(0)
    /\ UNCHANGED <<cpu, idt, base, irr, isr, apic, stack, ticks, keyboard, raised>>

KbdInit ==
    /\ Boot("kbd_init", "paging_init")
    /\ mods' = {} /\ isr_register(IDT_IRQ_BASE + 1) /\ pic_enable_irq_line(1)
    /\ UNCHANGED <<cpu, idt, base, irr, isr, apic, stack, ticks, obf, data, shown, wire,
                   held, typed, raised>>

PagingInit ==
    /\ Boot("paging_init", "uartinit") /\ isr_register(14)
    /\ UNCHANGED <<cpu, idt, pic, apic, stack, ticks, keyboard, raised>>

\* ioapicinit() masks every entry; uartinit() enables COM1's if there is a port.
UartInit ==
    /\ Boot("uartinit", "process_init") /\ isr_register(IDT_IRQ_BASE + 4)
    /\ apic' = [apic EXCEPT !.irr = FALSE, !.enabled = Uart]
    /\ UNCHANGED <<cpu, idt, pic, stack, ticks, keyboard, raised>>

ProcessInit ==
    /\ Boot("process_init", "ide_init") /\ isr_register(SYSCALL)
    /\ UNCHANGED <<cpu, idt, pic, apic, stack, ticks, keyboard, raised>>

\* ide_init() does not unmask its line; it leaves it as the BIOS had it.
IdeInit ==
    /\ Boot("ide_init", "scheduler") /\ isr_register(IDT_IRQ_BASE + 14)
    /\ UNCHANGED <<cpu, idt, pic, apic, stack, ticks, keyboard, raised>>

\* scheduler() is the first to enable interrupts.
Scheduler ==
    /\ Boot("scheduler", "run") /\ cpu' = [cpu EXCEPT !.iflag = TRUE]
    /\ UNCHANGED <<idt, isr_table, pic, apic, stack, ticks, keyboard, raised>>

-----------------------------------------------------------------------------
(* The kernel and processes between interrupts: critical sections turn     *)
(* interrupts off and on again, INT 64 enters a system call.               *)

InSyscall == stack # <<>> /\ stack[1].vector = SYSCALL

Thread == Alive(cpu) /\ pc = "run" /\ (stack = <<>> \/ InSyscall)

SectionStart ==
    /\ Thread /\ cpu.iflag /\ cpu' = [cpu EXCEPT !.iflag = FALSE]
    /\ UNCHANGED <<pc, idt, isr_table, pic, apic, stack, ticks, keyboard, raised>>

SectionEnd ==
    /\ Thread /\ ~cpu.iflag /\ cpu' = [cpu EXCEPT !.iflag = TRUE]
    /\ UNCHANGED <<pc, idt, isr_table, pic, apic, stack, ticks, keyboard, raised>>

\* IDT_DESCRIPTOR_*: all gates are interrupt gates, except that of INT 64.
GateClearsIF(v) == v < IDT_IRQ_SIZE_MAX

\* The processor takes vector v: isr_stub_v, isr_wrapper, isr_handler.  Without
\* a gate it would reset.
Enter(v, by) ==
    /\ stack' = <<[vector |-> v, by |-> by, at |-> "isr_handler", iflag |-> cpu.iflag]>>
                \o stack
    /\ cpu' = IF v \notin idt THEN Panic(cpu, "isr_handler")
              ELSE [cpu EXCEPT !.iflag = IF GateClearsIF(v) THEN FALSE ELSE @]

Int64 ==
    /\ Thread /\ stack = <<>> /\ cpu.iflag /\ Enter(SYSCALL, "int")
    /\ UNCHANGED <<pc, idt, isr_table, pic, apic, ticks, keyboard, raised>>

-----------------------------------------------------------------------------
(* The interrupt controllers.                                              *)

First(S) == CHOOSE l \in S : \A k \in S : l <= k

\* The requests a PIC passes on: not masked, nothing as urgent in service.
Passed(S) == {l \in S \ imr : \A k \in isr : (k < 8 <=> l < 8) => l < k}

SlaveRequests == Passed(irr \cap 8..15)

MasterRequests == Passed((irr \cap 0..7) \cup (IF SlaveRequests = {} THEN {} ELSE {2}))

\* The processor accepts what the PICs ask for.
PicInterrupt ==
    /\ Alive(cpu) /\ cpu.iflag /\ MasterRequests # {}
    /\ LET m == First(MasterRequests)
           l == IF m = 2 THEN First(SlaveRequests) ELSE m
       IN  /\ irr' = irr \ {l} /\ isr' = isr \cup {m, l}
           /\ Enter(base + l, "pic")
    /\ UNCHANGED <<pc, idt, isr_table, base, imr, apic, ticks, keyboard, raised>>

\* It accepts COM1's request from the local APIC.
ApicInterrupt ==
    /\ Alive(cpu) /\ cpu.iflag /\ apic.irr /\ apic.enabled /\ ~apic.isr
    /\ apic' = [apic EXCEPT !.irr = FALSE, !.isr = TRUE]
    /\ Enter(IDT_IRQ_BASE + 4, "apic")
    /\ UNCHANGED <<pc, idt, isr_table, pic, ticks, keyboard, raised>>

\* A device raises its line, on the PIC and on the IOAPIC, which ever has only
\* COM1's entry enabled.
Raise(d) ==
    /\ Alive(cpu) /\ pc \in BootPoints
    /\ raised.devices < MaxRaise /\ raised.devices + raised.keys < MaxEvents
    /\ raised' = [raised EXCEPT !.devices = @ + 1]
    /\ irr' = irr \cup {d} /\ apic' = [apic EXCEPT !.irr = @ \/ d = 4]
    /\ UNCHANGED <<cpu, pc, idt, isr_table, base, isr, imr, stack, ticks, keyboard>>

-----------------------------------------------------------------------------
(* The keyboard.  A byte is a scan code: a key with its make or break bit, *)
(* or the prefix E0 of an extended one.                                    *)

E0 == [key |-> "E0", make |-> FALSE]

Extended == {"RCTRL", "KPSLASH"}

Scancode(k, make) ==
    LET byte == [key |-> k, make |-> make]
    IN  IF k \in Extended THEN <<E0, byte>> ELSE <<byte>>

Shifts == {"LSHIFT", "RSHIFT"}
Modifiers == Shifts \cup {"LCTRL", "RCTRL", "LALT"}

\* A key goes down, is repeated while it is held, or goes up.
Press(k) ==
    /\ Alive(cpu) /\ pc \in BootPoints
    /\ raised.devices + raised.keys < MaxEvents /\ Len(wire) < MaxWire
    /\ k \notin held \/ Repeat
    /\ held' = held \cup {k} /\ wire' = wire \o Scancode(k, TRUE)
    /\ typed' = Append(typed, <<k, held \cap Shifts # {}>>)
    /\ raised' = [raised EXCEPT !.keys = @ + 1]
    /\ UNCHANGED <<cpu, pc, idt, isr_table, pic, apic, stack, ticks, mods, obf, data, shown>>

LetGo(k) ==
    /\ Alive(cpu) /\ k \in held /\ Len(wire) < MaxWire
    /\ held' = held \ {k} /\ wire' = wire \o Scancode(k, FALSE)
    /\ UNCHANGED <<cpu, pc, idt, isr_table, pic, apic, stack, ticks, mods, obf, data, shown,
                   typed, raised>>

\* The controller gets the next byte.
Transfer ==
    /\ Alive(cpu) /\ ~obf /\ wire # <<>>
    /\ obf' = TRUE /\ data' = Head(wire) /\ wire' = Tail(wire)
    /\ irr' = irr \cup {1}
    /\ UNCHANGED <<cpu, pc, idt, isr_table, base, isr, imr, apic, stack, ticks, mods, shown,
                   held, typed, raised>>

\* What kbd_interrupt_handler does with a byte.
Toggle(m) == IF m \in mods THEN mods \ {m} ELSE mods \cup {m}

\* What is printed for a key: its string in kbd_scanmap_ascii_shift or in
\* kbd_scanmap_ascii_regular.
Ascii(key) == <<key, "shift" \in mods>>

\* Faulty variant of Translate: break codes print too.
TranslateBreaks(b) ==
    /\ mods' = IF b.key \in Shifts THEN Toggle("shift")
               ELSE IF b.key \in {"LCTRL", "RCTRL"} THEN Toggle("ctrl")
               ELSE IF b.key = "LALT" THEN Toggle("alt") ELSE mods
    /\ shown' = IF b.key \in Keys \ Modifiers
                THEN Append(shown, Ascii(b.key)) ELSE shown

Translate(b) ==
    /\ mods' = IF b.key \in Shifts THEN Toggle("shift")
               ELSE IF b.key \in {"LCTRL", "RCTRL"} THEN Toggle("ctrl")
               ELSE IF b.key = "LALT" THEN Toggle("alt") ELSE mods
    /\ shown' = IF b.make /\ b.key \in Keys \ Modifiers
                THEN Append(shown, Ascii(b.key)) ELSE shown

\* kbd_interrupt_handler(): after E0 it reads at once again, and gets the next
\* byte if that has arrived by then, raising the line once more, or E0 again.
kbd_interrupt_handler ==
    /\ obf' = FALSE /\ UNCHANGED <<held, typed>>
    /\ \/ /\ data = E0 /\ wire # <<>>
          /\ data' = Head(wire) /\ wire' = Tail(wire) /\ irr' = irr \cup {1}
          /\ Translate(Head(wire))
       \/ Translate(data) /\ UNCHANGED <<data, wire, irr>>

-----------------------------------------------------------------------------
(* isr_handler()                                                           *)

At(label) == Alive(cpu) /\ stack # <<>> /\ stack[1].at = label

Goto(label) == stack' = [stack EXCEPT ![1].at = label]

\* A vector without a handler stops the kernel.  print_interrupt_state reads
\* through myproc(), which is null in the scheduler: then it is a page fault.
MissingHandler ==
    /\ At("isr_handler") /\ stack[1].vector \notin isr_table
    /\ \E msg \in {"isr_handler", "page fault not handled!"} : cpu' = Panic(cpu, msg)
    /\ UNCHANGED <<pc, idt, isr_table, pic, apic, stack, ticks, keyboard, raised>>

TimerHandler ==
    /\ At("isr_handler") /\ stack[1].vector = IDT_IRQ_BASE + 0
    /\ stack[1].vector \in isr_table /\ Goto("eoi") /\ ticks' = ticks + 1
    /\ UNCHANGED <<cpu, pc, idt, isr_table, pic, apic, keyboard, raised>>

KbdHandler ==
    /\ At("isr_handler") /\ stack[1].vector = IDT_IRQ_BASE + 1
    /\ stack[1].vector \in isr_table /\ Goto("eoi") /\ kbd_interrupt_handler
    /\ UNCHANGED <<cpu, pc, idt, isr_table, base, isr, imr, apic, ticks, raised>>

\* The others print or echo; the system call's is module Proc.
OtherHandler ==
    /\ At("isr_handler") /\ stack[1].vector \notin {IDT_IRQ_BASE, IDT_IRQ_BASE + 1}
    /\ stack[1].vector \in isr_table /\ Goto("eoi")
    /\ UNCHANGED <<cpu, pc, idt, isr_table, pic, apic, ticks, keyboard, raised>>

\* An EOI ends the most urgent interrupt in service on a PIC.
Eoi(S) == IF S = {} THEN {} ELSE {First(S)}

\* Faulty variant of pic_send_eoi: the second PIC is forgotten.
eoi_master_only(irq) == isr' = isr \ Eoi(isr \cap 0..7)

pic_send_eoi(irq) ==
    isr' = isr \ (Eoi(isr \cap 0..7) \cup IF irq >= 8 THEN Eoi(isr \cap 8..15) ELSE {})

\* The EOI of isr_handler; irq_no is a uint8_t.
SendEoi ==
    /\ At("eoi") /\ Goto("iret")
    /\ IF stack[1].vector < IDT_IRQ_SIZE_MAX
       THEN pic_send_eoi((stack[1].vector - IDT_IRQ_BASE) % 256)
       ELSE UNCHANGED isr
    /\ UNCHANGED <<cpu, pc, idt, isr_table, base, irr, imr, apic, ticks, keyboard, raised>>

\* trapret; a system call leaves its critical sections before.
Iret ==
    /\ At("iret") /\ (stack[1].vector = SYSCALL => cpu.iflag)
    /\ stack' = Tail(stack) /\ cpu' = [cpu EXCEPT !.iflag = stack[1].iflag]
    /\ UNCHANGED <<pc, idt, isr_table, pic, apic, ticks, keyboard, raised>>

Halted == ~Alive(cpu) /\ UNCHANGED vars

BootStep ==
    \/ IdtInit \/ PicInit \/ TimerInit \/ KbdInit \/ PagingInit \/ UartInit
    \/ ProcessInit \/ IdeInit \/ Scheduler

HandlerStep ==
    MissingHandler \/ TimerHandler \/ KbdHandler \/ OtherHandler \/ SendEoi \/ Iret

Next ==
    \/ BootStep \/ HandlerStep \/ SectionStart \/ SectionEnd \/ Int64
    \/ PicInterrupt \/ ApicInterrupt \/ Transfer
    \/ \E d \in Devices : Raise(d)
    \/ \E k \in Keys : Press(k) \/ LetGo(k)
    \/ Halted

Spec == Init /\ [][Next]_vars

\* The processor executes and its critical sections end; it looks for requests
\* after every instruction, so one that is there whenever interrupts are on is
\* accepted; the controller passes bytes on.
FairSpec ==
    /\ Spec /\ WF_vars(BootStep) /\ WF_vars(HandlerStep) /\ WF_vars(SectionEnd)
    /\ SF_vars(PicInterrupt) /\ WF_vars(Transfer)

-----------------------------------------------------------------------------
InProgress == {i \in 1..Len(stack) : stack[i].vector # SYSCALL}

\* isr_handler sends "ACK" for the interrupt it handled, on each PIC it came
\* through, and for no other: what is in service is exactly the one handler in
\* progress until its EOI, and nothing if the local APIC sent it; handlers of
\* lines do not nest, and a line is never left in service, which would shut out
\* all less urgent ones for good.
AckedExactly ==
    Alive(cpu) =>
    /\ Cardinality(InProgress) <= 1 /\ Len(stack) <= 2
    /\ isr = IF \/ stack = <<>> \/ stack[1].vector = SYSCALL
                \/ stack[1].by = "apic" \/ stack[1].at = "iret" THEN {}
             ELSE LET l == stack[1].vector - IDT_IRQ_BASE
                  IN  IF l >= 8 THEN {2, l} ELSE {l}

\* The kernel stops in isr_handler only for a line that no driver has a handler
\* for and that the BIOS had left unmasked: nothing arrives before its driver
\* is ready, or as the number of an exception.
OnlyBiosLinesPanic ==
    ~Alive(cpu) =>
        stack[1].vector \in {IDT_IRQ_BASE + l : l \in Devices \ (BiosMask \cup {0, 1, 4, 14})}

\* The keys pressed that print.
Printing == SelectSeq(typed, LAMBDA t : t[1] \notin Modifiers)

Settled ==
    /\ pc = "run" /\ wire = <<>> /\ ~obf /\ 1 \notin irr
    /\ \A i \in 1..Len(stack) : stack[i].vector # IDT_IRQ_BASE + 1

\* The presses of keys with the prefix E0, each of which sends two of them.
Prefixed == {i \in 1..Len(typed) : typed[i][1] \in Extended}

\* No shift key went down while one was down, and none was repeated.
OneShift == \A i \in 1..Len(typed) : typed[i][1] \in Shifts => ~typed[i][2]

\* Key i of Printing is printed at its place, and again at the next if it is in
\* twice.
PrintedAs(twice) ==
    LET Place(i) == i + Cardinality({k \in twice : k < i})
        Places(i) == {Place(i)} \cup (IF i \in twice THEN {Place(i) + 1} ELSE {})
        Same(s, t) == s[1] = t[1] /\ (Prefixed = {} /\ OneShift => s[2] = t[2])
        All == Len(Printing) + Cardinality(twice)
    IN  /\ Len(shown) <= All /\ (Settled => Len(shown) = All)
        /\ \A i \in 1..Len(Printing) : \A k \in Places(i) :
              k <= Len(shown) => Same(shown[k], Printing[i])

\* The keys printed are the keys pressed, in order and none left out, whatever
\* arrives while interrupts are off or the line is in service.  Each is printed
\* once, from the table for the shift key as it was when the key was pressed,
\* with two exceptions.  After E0 the handler may read the next byte before its
\* interrupt, which then finds it, or the byte after it, a second time: each E0
\* may have one key printed twice, or a shift key counted twice.  And a shift
\* key that goes down or repeats while one is down flips the flag.
KeysInOrder ==
    \E twice \in SUBSET (1..Len(Printing)) :
        Cardinality(twice) <= 2 * Cardinality(Prefixed) /\ PrintedAs(twice)

\* A request of the timer is accepted, and once pic_init is over and no byte is
\* left over in the keyboard controller, the bytes of the keyboard all get read,
\* unless the kernel stops.  A byte the controller got before pic_init is never
\* asked for again: the PIC forgets the request.
EveryIrqServed ==
    /\ 0 \in irr /\ pc = "run" ~> 0 \notin irr \/ ~Alive(cpu)
    /\ ~obf /\ base = IDT_IRQ_BASE ~> (wire = <<>> /\ ~obf) \/ ~Alive(cpu)

\* kbd.c remembers "that Shift is down": once all bytes are handled the flag is
\* set exactly when a shift key is held.
ShiftTracksKey == Settled /\ Alive(cpu) => ("shift" \in mods <=> held \cap Shifts # {})
=============================================================================
