------------------------------- MODULE Ioapic -------------------------------
(***************************************************************************)
(* The start of the I/O APIC (kernel/drivers/ioapic.c) and of the serial   *)
(* port COM1 (kernel/drivers/uart.c).                                      *)
(*                                                                         *)
(* machine.ioapic is the device: its highest redirection entry and what    *)
(* the firmware left in the entries; machine.com1 says if there is a port. *)
(***************************************************************************)
EXTENDS Acpi

CONSTANTS UartPolls,     \* 128 in uartputc
          Announcement   \* length of "xv6...\n"

VARIABLES redir,         \* the redirection table
          line,          \* i of ioapicinit
          isr,           \* vectors isr_register was called for from here on
          uart           \* uart, the transmitter (thr: a byte waits), p and i

iovars == <<redir, line, isr, uart>>

IDT_IRQ_BASE == 32
IDT_IRQ_COM1 == 4

IoInit ==
    /\ redir = [i \in 0..machine.ioapic.maxintr |-> machine.ioapic.left]
    /\ line = 0 /\ isr = {}
    /\ uart = [there |-> FALSE, thr |-> FALSE, p |-> 0, i |-> 0]

-----------------------------------------------------------------------------
\* The registers are at their physical address, which setupkvm maps as part
\* of the device space.  The id is only compared and printed.
ioapicinit ==
    /\ pc = "ioapicinit" /\ UNCHANGED iovars
    /\ IF Len(acpi_info.ioapic) # 1 THEN Stop("assertion failed")
       ELSE IF ~Mapped(acpi_info.ioapic[1].addr) THEN Stop("page fault not handled!")
       ELSE Goto("ioapic_line")

\* Faulty variant of LineLeft: the loop ends one line early.
LineLeftShort(i, maxintr) == i < maxintr

LineLeft(i, maxintr) == i <= maxintr

\* One round of the loop of ioapicinit, both registers of the line.
ioapic_line ==
    /\ pc = "ioapic_line" /\ LineLeft(line, machine.ioapic.maxintr)
    /\ redir' = [redir EXCEPT ![line] =
                    [masked |-> TRUE, vector |-> IDT_IRQ_BASE + line, dest |-> 0]]
    /\ line' = line + 1
    /\ Goto("ioapic_line") /\ UNCHANGED <<isr, uart>>

ioapic_done ==
    /\ pc = "ioapic_line" /\ ~LineLeft(line, machine.ioapic.maxintr)
    /\ Goto("uartinit") /\ UNCHANGED iovars

ioapicenable(table, irq, cpunum) ==
    [table EXCEPT ![irq] = [masked |-> FALSE, vector |-> IDT_IRQ_BASE + irq, dest |-> cpunum]]

\* uartinit up to the announcement: the handler is registered, and a port
\* that reads 0xFF is not there.
uartinit ==
    /\ pc = "uartinit" /\ isr' = isr \cup {IDT_IRQ_BASE + IDT_IRQ_COM1}
    /\ UNCHANGED line
    /\ IF machine.com1
       THEN /\ uart' = [uart EXCEPT !.there = TRUE]
            /\ redir' = ioapicenable(redir, IDT_IRQ_COM1, 0)
            /\ Goto("uartputc")
       ELSE UNCHANGED <<redir, uart>> /\ Goto("cpu_init")

\* The loop condition of uartputc.
PollAgain(i, full) == i < UartPolls /\ full

\* uartputc(*p): a poll, or the byte is sent whether there is room or not.
uartputc ==
    /\ pc = "uartputc" /\ UNCHANGED <<redir, line, isr>>
    /\ \/ /\ uart.p < Announcement /\ PollAgain(uart.i, uart.thr)
          /\ uart' = [uart EXCEPT !.i = @ + 1]
          /\ Goto("uartputc")
       \/ /\ uart.p < Announcement /\ ~PollAgain(uart.i, uart.thr)
          /\ uart' = [uart EXCEPT !.i = 0, !.p = @ + 1, !.thr = TRUE]
          /\ Goto("uartputc")
       \/ /\ uart.p = Announcement
          /\ Goto("cpu_init") /\ UNCHANGED uart

\* The port puts the byte on the wire, at its own pace.
Transmit ==
    /\ uart.thr /\ uart' = [uart EXCEPT !.thr = FALSE]
    /\ UNCHANGED <<machine, pc, panic, redir, line, isr>>

IoStep == ioapicinit \/ ioapic_line \/ ioapic_done \/ uartinit \/ uartputc

=============================================================================
