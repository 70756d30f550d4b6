-------------------------------- MODULE Ide --------------------------------
(***************************************************************************)
(* The disk driver (kernel/drivers/ide.c): ide_init, which looks for a     *)
(* drive and writes a first block to it, and ide_start, which starts the   *)
(* transfer of a block.  The driver polls; nothing waits for the interrupt *)
(* of the drive, whose handler only prints.                                *)
(*                                                                         *)
(* The drive is the environment.  machine.drive is what sits at device 1   *)
(* of the primary bus: its kind, whether it answers IDENTIFY with an error,*)
(* and whether multiple mode (which READ and WRITE MULTIPLE need) is on;   *)
(* machine.requests are blocks the running kernel may ask for next.        *)
(* While it is busy it ignores its registers; a busy spell ends whenever   *)
(* it likes.  Data it does not ask for is lost.                            *)
(***************************************************************************)
EXTENDS Ioapic

CONSTANTS IDE_WAIT_CYCLES,
          FSSIZE

VARIABLES ide,        \* where the driver is: b, i, k, ready, status, found, model
          disk,       \* the drive: phase, cmd, registers, intrq
          platter     \* sectors written: device, sector, the data it got and, as
                      \* history, what the wait before the command returned

idevars == <<ide, disk, platter>>

SECTORS_PER_BLOCK == 2
IDT_IRQ_IDE1 == 14

NoBlock == [dev |-> 1, block_no |-> 0, dirty |-> FALSE, data |-> "none"]

\* What ide_init writes.
FirstBlock == [dev |-> 1, block_no |-> 0, dirty |-> TRUE, data |-> "FOUDIL WAS HERE"]

IdeInit ==
    /\ ide = [b |-> NoBlock, i |-> 0, k |-> 1, ready |-> FALSE, status |-> {},
              found |-> FALSE, model |-> "none"]
    /\ disk = [phase |-> "idle", cmd |-> "none", intrq |-> FALSE,
               regs |-> [control |-> 0, sectors |-> 1, lo |-> 1, mi |-> 0, hi |-> 0,
                         select |-> 0]]
    /\ platter = {}

drive == machine.drive

-----------------------------------------------------------------------------
(* The registers.                                                          *)

AllBits == {"BSY", "RDY", "DF", "DRQ", "ERR"}

\* inb(IDE_ALT_STATUS), with device 1 selected.
Status ==
    IF drive.kind = "none" THEN {}
    ELSE IF drive.kind = "floating" THEN AllBits
    ELSE CASE disk.phase = "busy"  -> {"BSY"}
           [] disk.phase = "idle"  -> IF drive.kind = "atapi" THEN {} ELSE {"RDY"}
           [] disk.phase = "error" -> {"RDY", "ERR"}
           [] OTHER                -> {"RDY", "DRQ"}

\* outb to one of the registers r but the command.
Outb(d, r, v) ==
    IF d.phase = "busy" /\ r # "control" THEN d ELSE [d EXCEPT !.regs[r] = v]

\* outb(IDE_COMMAND, cmd): there is a drive to take it, and it is not busy.
Command(d, cmd) ==
    IF d.phase = "busy" \/ drive.kind \in {"none", "floating"} THEN d
    ELSE [d EXCEPT !.phase = "busy", !.cmd = cmd, !.intrq = FALSE]

LBA_SELECT(dev, sector) == 16 * (dev % 2) + ((sector \div 16777216) % 16)

\* The device and the first sector the registers name.
Addressed(regs) ==
    [dev |-> regs.select \div 16,
     sector |-> regs.lo + 256 * regs.mi + 65536 * regs.hi + 16777216 * (regs.select % 16)]

-----------------------------------------------------------------------------
(* The drive.  A busy spell ends with the answer to the command; the two   *)
(* sectors of a block fit into one burst of multiple mode.                 *)

Answer(cmd) ==
    CASE cmd = "IDFY" -> IF drive.kind = "pata" /\ ~drive.fails THEN "dataIn" ELSE "error"
      [] cmd = "RDMUL" -> IF drive.kind = "pata" /\ drive.multiple THEN "dataIn" ELSE "error"
      [] cmd = "WRMUL" -> IF drive.kind = "pata" /\ drive.multiple THEN "dataOut" ELSE "error"
      [] cmd = "store" -> "idle"

\* An ATAPI drive that refuses IDENTIFY leaves its signature in two registers.
DriveAnswers ==
    /\ disk.phase = "busy"
    /\ LET ph == Answer(disk.cmd)
           sg == disk.cmd = "IDFY" /\ drive.kind = "atapi"
       IN  disk' = [disk EXCEPT !.phase = ph,
                                !.intrq = disk.regs.control = 0 /\ ph # "dataOut",
                                !.regs.mi = IF sg THEN 20 ELSE @,
                                !.regs.hi = IF sg THEN 235 ELSE @]
    /\ UNCHANGED <<machine, pc, panic, ide, platter>>

-----------------------------------------------------------------------------
(* ide_wait_ready, from two places; nobody looks at its result, which      *)
(* ide.ready keeps.                                                        *)

Ready(status) == status \cap {"BSY", "RDY"} = {"RDY"}

\* Another round of the loop: cycles are left after an unready status.
Spin(i, status) == ~Ready(status) /\ i > 1

ide_wait_ready(here, next) ==
    /\ pc = here /\ UNCHANGED <<disk, platter>>
    /\ LET status == Status IN
       IF Spin(ide.i, status)
       THEN ide' = [ide EXCEPT !.i = @ - 1] /\ Goto(here)
       ELSE /\ ide' = [ide EXCEPT !.k = 1,
                          !.ready = Ready(status) /\ status \cap {"DF", "ERR"} = {}]
            /\ Goto(next)

\* One outb of the list regs, or the command after the last.
Program(here, regs, cmd, next) ==
    /\ pc = here /\ UNCHANGED platter
    /\ IF ide.k <= Len(regs)
       THEN /\ disk' = Outb(disk, regs[ide.k][1], regs[ide.k][2])
            /\ ide' = [ide EXCEPT !.k = @ + 1]
            /\ Goto(here)
       ELSE disk' = Command(disk, cmd) /\ Goto(next) /\ UNCHANGED ide

-----------------------------------------------------------------------------
(* ide_init.                                                               *)

ide_init ==
    /\ pc = "ide_init" /\ isr' = isr \cup {IDT_IRQ_BASE + IDT_IRQ_IDE1}
    /\ disk' = Outb(disk, "select", LBA_SELECT(1, 0))
    /\ ide' = [ide EXCEPT !.i = IDE_WAIT_CYCLES]
    /\ Goto("ide_select") /\ UNCHANGED <<redir, line, uart, platter>>

ide_select == ide_wait_ready("ide_select", "ide_identify")

ide_identify ==
    Program("ide_identify",
            << <<"control", 0>>, <<"sectors", 0>>, <<"lo", 0>>, <<"mi", 0>>, <<"hi", 0>> >>,
            "IDFY", "ide_exists")

\* Faulty variant of Exists: the first status is not looked at.
ExistsAlways(status) == TRUE

Exists(status) == status # {}

ide_exists ==
    /\ pc = "ide_exists" /\ UNCHANGED idevars
    /\ IF Exists(Status) THEN Goto("ide_poll") ELSE Stop("error occurred")

\* The loop that waits for IDENTIFY: the status ...
ide_poll ==
    /\ pc = "ide_poll" /\ UNCHANGED <<disk, platter>>
    /\ ide' = [ide EXCEPT !.status = Status] /\ Goto("ide_signature")

\* ... then the two registers where another kind of drive leaves its mark, the
\* loop condition, and the error bit.
ide_signature ==
    /\ pc = "ide_signature" /\ UNCHANGED idevars
    /\ IF drive.kind = "floating" \/ disk.regs.mi # 0 \/ disk.regs.hi # 0
       THEN Stop("error occurred")
       ELSE IF "BSY" \in ide.status /\ ide.status \cap {"DRQ", "ERR"} # {}
       THEN Goto("ide_poll")
       ELSE IF "ERR" \in ide.status THEN Stop("error occurred")
       ELSE Goto("ide_insl")

\* The drive's description is read, or what the bus holds if it has none to
\* give; the drive is reported and the first block made.
ide_insl ==
    /\ pc = "ide_insl" /\ UNCHANGED platter
    /\ ide' = [ide EXCEPT !.model = IF disk.phase = "dataIn" THEN "described" ELSE "junk",
                          !.found = TRUE, !.b = FirstBlock]
    /\ disk' = IF disk.phase = "dataIn" THEN [disk EXCEPT !.phase = "idle"] ELSE disk
    /\ Goto("ide_start")

-----------------------------------------------------------------------------
(* ide_start(b).                                                           *)

InRange(block_no) == block_no < FSSIZE

ide_start ==
    /\ pc = "ide_start" /\ UNCHANGED <<disk, platter>>
    /\ ide' = [ide EXCEPT !.i = IDE_WAIT_CYCLES]
    /\ IF InRange(ide.b.block_no) THEN Goto("ide_wait") ELSE Stop("incorrect blockno")

ide_wait == ide_wait_ready("ide_wait", "ide_program")

\* Faulty variants of BlockRegs: the high bits of the sector are lost, the
\* interrupt of the drive is turned off.
BlockRegsLow(b) ==
    LET sector == b.block_no * SECTORS_PER_BLOCK
    IN  << <<"control", 0>>, <<"sectors", SECTORS_PER_BLOCK>>,
           <<"lo", sector % 256>>, <<"mi", 0>>, <<"hi", 0>>,
           <<"select", LBA_SELECT(b.dev, sector)>> >>

BlockRegsQuiet(b) ==
    LET sector == b.block_no * SECTORS_PER_BLOCK
    IN  << <<"control", 2>>, <<"sectors", SECTORS_PER_BLOCK>>,
           <<"lo", sector % 256>>, <<"mi", (sector \div 256) % 256>>,
           <<"hi", (sector \div 65536) % 256>>, <<"select", LBA_SELECT(b.dev, sector)>> >>

BlockRegs(b) ==
    LET sector == b.block_no * SECTORS_PER_BLOCK
    IN  << <<"control", 0>>, <<"sectors", SECTORS_PER_BLOCK>>,
           <<"lo", sector % 256>>, <<"mi", (sector \div 256) % 256>>,
           <<"hi", (sector \div 65536) % 256>>, <<"select", LBA_SELECT(b.dev, sector)>> >>

ide_program ==
    LET dirty == ide.b.dirty IN
    Program("ide_program", BlockRegs(ide.b), IF dirty THEN "WRMUL" ELSE "RDMUL",
            IF dirty THEN "ide_outsl" ELSE "run")

\* The data follows the command at once, whatever the drive is doing.
ide_outsl ==
    /\ pc = "ide_outsl" /\ UNCHANGED ide
    /\ LET at == Addressed(disk.regs) IN
       IF disk.phase = "dataOut"
       THEN /\ platter' = platter \cup
                  {[dev |-> at.dev, sector |-> at.sector + j, data |-> <<ide.b.data, j>>,
                    ready |-> ide.ready] : j \in 0..(SECTORS_PER_BLOCK - 1)}
            /\ disk' = IF disk.regs.sectors = SECTORS_PER_BLOCK
                       THEN [disk EXCEPT !.phase = "busy", !.cmd = "store"] ELSE disk
       ELSE UNCHANGED <<disk, platter>>
    /\ Goto("run")

\* A block request of the kernel, once it runs: ide_start again.
Request ==
    /\ pc = "run" /\ ide.b = FirstBlock
    /\ \E b \in machine.requests : ide' = [ide EXCEPT !.b = b]
    /\ Goto("ide_start") /\ UNCHANGED <<disk, platter>>

IdeStep ==
    \/ ide_select \/ ide_identify \/ ide_exists \/ ide_poll \/ ide_signature
    \/ ide_insl \/ ide_start \/ ide_wait \/ ide_program \/ ide_outsl

=============================================================================
