------------------------------ MODULE Console -------------------------------
(***************************************************************************)
(* The console: cprintf, panic and the screen of kernel/drivers/screen.c.  *)
(* A kernel thread prints messages, the keyboard handler interrupts it to  *)
(* print a key, and a bad %s argument faults in the middle of a message.   *)
(*                                                                         *)
(* A message is a format and its arguments, 32-bit words on the stack.  A  *)
(* character stands for itself; "P" is the text "panic: ", "F", "A" and    *)
(* "Z" are the messages of the page fault, of acquire and of a null        *)
(* format, "N" is "(null)", "W" the warning of page_fault_handler, "@" the *)
(* addresses panic prints.  What is sent to the serial port is what the    *)
(* screen gets.                                                            *)
(***************************************************************************)
EXTENDS Cpu, Strings, SequencesExt

CONSTANTS MAX_ROWS, MAX_COLS,
          LastCol,    \* the column print_char goes to for a newline, 79
          W,          \* bits of a word
          Messages,   \* what the kernel thread prints
          Key,        \* what the keyboard handler prints
          Str,        \* Str[a]: the string at address a
          MaxCalls    \* bound on calls of cprintf, before a panic

ASSUME ScreenAssumption ==
    MAX_ROWS \in Nat \ {0} /\ MAX_COLS \in Nat \ {0} /\ LastCol = MAX_COLS - 1

Cells == 0..(MAX_ROWS * MAX_COLS - 1)

VARIABLES cpu,
          lock, locking,   \* cons.lock and cons.locking
          vidmem, cursor,
          stack,           \* the callers of cprintf, innermost first
          calls,           \* messages the thread and the handler have started
          out,             \* history: the characters put on the console
          log,             \* history: the text of the messages, as they start
          cursor0          \* history: the cursor as the boot loader left it

vars == <<cpu, lock, locking, vidmem, cursor, stack, calls, out, log, cursor0>>

\* A caller: the messages it has still to print, after which a thread goes on,
\* an interrupt handler returns, page_fault_handler panics and panic() loops;
\* where it is; the local variable locking; the rest of the format, of the
\* arguments, and of the characters of a conversion.
Caller(who, msgs) ==
    [who |-> who, msgs |-> msgs, at |-> "call", locking |-> FALSE,
     fmt |-> <<>>, args |-> <<>>, pend |-> <<>>]

Text(c) == [fmt |-> <<c>>, args |-> <<>>]

Init ==
    /\ cpu = [CpuBoot EXCEPT !.iflag = TRUE]
    /\ lock = initlock /\ locking = TRUE      \* consoleinit()
    /\ vidmem = [i \in Cells |-> "?"]
    /\ cursor0 \in Cells /\ cursor = cursor0
    /\ stack = <<>> /\ calls = 0 /\ out = <<>> /\ log = <<>>

-----------------------------------------------------------------------------
(* The screen.  Offsets count cells of two bytes.                          *)

Blank == "0"

\* handle_scrolling(): the contents and the offset it leaves.
Scrolled(vid, offset) ==
    IF offset < MAX_ROWS * MAX_COLS THEN vid
    ELSE LET up(v, row) == memcpy(v, (row - 1) * MAX_COLS, row * MAX_COLS, MAX_COLS)
             moved == FoldLeft(up, vid, [row \in 1..(MAX_ROWS - 1) |-> row])
         IN  [i \in Cells |-> IF i < (MAX_ROWS - 1) * MAX_COLS THEN moved[i] ELSE Blank]

ScrolledOffset(offset) ==
    IF offset < MAX_ROWS * MAX_COLS THEN offset ELSE offset - MAX_COLS

\* Faulty variant of NewlineOffset: the column of the cursor is kept.
NewlineKeepsColumn(offset) == offset + MAX_COLS - 1

\* A newline goes to the end of the row.
NewlineOffset(offset) == (offset \div MAX_COLS) * MAX_COLS + LastCol

\* print_char(c, -1, -1, attr), all that consputc does to the screen.
print_char(c) ==
    LET offset == (IF c = "\n" THEN NewlineOffset(cursor) ELSE cursor) + 1
        vid == IF c = "\n" THEN vidmem ELSE [vidmem EXCEPT ![cursor] = c]
    IN  vidmem' = Scrolled(vid, offset) /\ cursor' = ScrolledOffset(offset)

-----------------------------------------------------------------------------
(* cprintf                                                                 *)

digits == <<"0", "1", "2", "3", "4", "5", "6", "7", "8", "9", "a", "b", "c", "d", "e", "f">>

\* The do loop of printint(): buf, which is printed from its end.
RECURSIVE Buf(_, _)
Buf(x, base) ==
    <<digits[(x % base) + 1]>> \o (IF x \div base = 0 THEN <<>> ELSE Buf(x \div base, base))

Signed(w) == IF w >= 2^(W - 1) THEN w - 2^W ELSE w

\* printint() of the word w.  -xx is computed on W bits.
printint(w, base, sign) ==
    LET neg == sign /\ Signed(w) < 0
        x == IF neg THEN (-Signed(w)) % 2^W ELSE w
    IN  Reverse(Buf(x, base) \o (IF neg THEN <<"-">> ELSE <<>>))

\* printptr() of a 64-bit value in two words, low word first.
printptr(lo, hi) ==
    LET nibble(w, i) == (w \div 2^(W - 4 * i)) % 16
        hex(w) == [i \in 1..(W \div 4) |-> digits[nibble(w, i) + 1]]
    IN  <<"0", "x">> \o hex(hi) \o hex(lo)

\* The words of the argument list a conversion uses.
Words(conv) ==
    CASE conv \in {"%d", "%x", "%p", "%s"} -> 1
      [] conv = "%l" -> 2
      [] OTHER -> 0

\* The characters of one element of a format; args is what argp points to.  A
\* "%" without a letter can only be the end of the format.
Convert(conv, args) ==
    CASE conv = "%d" -> printint(args[1], 10, TRUE)
      [] conv \in {"%x", "%p"} -> printint(args[1], 16, FALSE)
      [] conv = "%l" -> printptr(args[1], args[2])
      [] conv = "%s" -> IF args[1] = 0 THEN <<"N">> ELSE Str[args[1]]
      [] conv = "%%" -> <<"%">>
      [] conv = "%?" -> <<"%", "?">>
      [] conv = "%" -> <<>>
      [] OTHER -> <<conv>>

Top == stack[1]
At(label) == stack # <<>> /\ Top.at = label
Update(c) == stack' = <<c>> \o Tail(stack)

\* The format of a call with a null pointer.
NullFmt == <<"(nil)">>

\* What panic(s) says, and where it loops.
PanicText(s) == CASE s = "acquire" -> "A" [] s = "null fmt" -> "Z" [] OTHER -> "F"

PanicCaller(s) == Caller("panic", <<Text("P"), Text(PanicText(s)), Text("\n"), Text("@")>>)

\* Faulty variant of panic: cons.locking stays set.  (The depth of its nested
\* calls is not counted.)
panic_keeps_locking(c, s) ==
    /\ cpu' = Panic([c EXCEPT !.ncli = cpu.ncli], s) /\ UNCHANGED locking
    /\ Update(PanicCaller(s))

\* panic(s): cli, cons.locking = 0, and what it prints; the caller never
\* continues.
panic(c, s) ==
    /\ cpu' = Panic(c, s) /\ locking' = FALSE
    /\ Update(PanicCaller(s))

\* The text of a message as its author means it, for the history.
Numeral(n, base) ==
    LET abs == IF n < 0 THEN -n ELSE n
        len == CHOOSE k \in 1..W : abs < base^k /\ (k > 1 => abs >= base^(k - 1))
        digit(i) == (abs \div base^(len - i)) % base
    IN  (IF n < 0 THEN <<"-">> ELSE <<>>) \o [i \in 1..len |-> digits[digit(i) + 1]]

Mapped(a) == a \in DOMAIN Str \cup {0}

Meant(conv, args) ==
    IF conv = "%d" THEN Numeral(Signed(args[1]), 10)
    ELSE IF conv \in {"%x", "%p"} THEN Numeral(args[1], 16)
    ELSE IF conv = "%s" /\ ~Mapped(args[1]) THEN <<>> ELSE Convert(conv, args)

RECURSIVE Rendered(_, _)
Rendered(fmt, args) ==
    IF fmt \in {<<>>, NullFmt} THEN <<>>
    ELSE Meant(Head(fmt), args) \o
         Rendered(Tail(fmt), SubSeq(args, Words(Head(fmt)) + 1, Len(args)))

\* Faulty variant of Begin: the lock is not taken.
BeginUnlocked ==
    /\ At("call") /\ Top.msgs # <<>> /\ Head(Top.msgs).fmt # NullFmt
    /\ LET m == Head(Top.msgs)
       IN  /\ Update([Top EXCEPT !.msgs = Tail(@), !.at = "fmt", !.fmt = m.fmt, !.args = m.args])
           /\ log' = Append(log, Rendered(m.fmt, m.args))
    /\ UNCHANGED <<cpu, lock, locking, vidmem, cursor, calls, out, cursor0>>

\* cprintf() up to its loop.  A caller that holds the lock panics in acquire,
\* one without a format panics with the lock held.
Begin ==
    /\ At("call") /\ Top.msgs # <<>>
    /\ LET m == Head(Top.msgs)
           c == IF locking THEN AcquireCpu(cpu, lock, cpu.iflag) ELSE cpu
       IN  IF locking /\ holds(lock) THEN panic(c, "acquire") /\ UNCHANGED <<lock, log>>
           ELSE IF m.fmt = NullFmt
           THEN /\ panic(c, "null fmt")
                /\ lock' = (IF locking THEN Taken ELSE lock) /\ UNCHANGED log
           ELSE /\ cpu' = c /\ lock' = (IF locking THEN Taken ELSE lock)
                /\ Update([Top EXCEPT !.msgs = Tail(@), !.at = "fmt", !.locking = locking,
                                      !.fmt = m.fmt, !.args = m.args])
                /\ log' = Append(log, Rendered(m.fmt, m.args))
                /\ UNCHANGED locking
    /\ UNCHANGED <<vidmem, cursor, calls, out, cursor0>>

\* One element of the format, and the characters it stands for.
Element ==
    /\ At("fmt") /\ Top.pend = <<>> /\ Top.fmt # <<>>
    /\ LET conv == Head(Top.fmt)
       IN  /\ conv = "%s" => Mapped(Top.args[1])
           /\ Update([Top EXCEPT !.fmt = Tail(@), !.pend = Convert(conv, Top.args),
                                 !.args = SubSeq(@, Words(conv) + 1, Len(@))])
    /\ UNCHANGED <<cpu, lock, locking, vidmem, cursor, calls, out, log, cursor0>>

\* consputc() of the next character.
Consputc ==
    /\ At("fmt") /\ Top.pend # <<>>
    /\ print_char(Head(Top.pend)) /\ out' = Append(out, Head(Top.pend))
    /\ Update([Top EXCEPT !.pend = Tail(@)])
    /\ UNCHANGED <<cpu, lock, locking, calls, log, cursor0>>

\* The end of cprintf().
End ==
    /\ At("fmt") /\ Top.pend = <<>> /\ Top.fmt = <<>>
    /\ cpu' = IF Top.locking THEN ReleaseCpu(cpu, lock) ELSE cpu
    /\ lock' = IF Top.locking THEN Dropped ELSE lock
    /\ Update([Top EXCEPT !.at = "call", !.locking = FALSE, !.args = <<>>])
    /\ UNCHANGED <<locking, vidmem, cursor, calls, out, log, cursor0>>

-----------------------------------------------------------------------------
(* The callers.                                                            *)

Thread(m) ==
    /\ stack = <<>> /\ calls < MaxCalls /\ calls' = calls + 1
    /\ stack' = <<Caller("thread", <<m>>)>>
    /\ UNCHANGED <<cpu, lock, locking, vidmem, cursor, out, log, cursor0>>

\* kbd_interrupt_handler() prints a key.
Interrupt ==
    /\ cpu.iflag /\ calls < MaxCalls /\ calls' = calls + 1
    /\ cpu' = [cpu EXCEPT !.iflag = FALSE]
    /\ stack' = <<Caller("irq", <<Key>>)>> \o stack
    /\ UNCHANGED <<lock, locking, vidmem, cursor, out, log, cursor0>>

\* A page fault: a %s whose argument is not an address, or anything outside
\* cprintf.  page_fault_handler warns first.
Fault ==
    /\ \/ stack = <<>> /\ calls < MaxCalls
       \/ /\ At("fmt") /\ Top.pend = <<>> /\ Top.fmt # <<>>
          /\ Head(Top.fmt) = "%s" /\ ~Mapped(Top.args[1])
    /\ cpu' = [cpu EXCEPT !.iflag = FALSE]
    /\ stack' = <<Caller("fault", <<Text("W")>>)>> \o stack
    /\ UNCHANGED <<lock, locking, vidmem, cursor, calls, out, log, cursor0>>

\* page_fault_handler() after its warning.
FaultPanics ==
    /\ At("call") /\ Top.who = "fault" /\ Top.msgs = <<>>
    /\ panic(cpu, "page fault not handled!")
    /\ UNCHANGED <<lock, vidmem, cursor, calls, out, log, cursor0>>

\* The caller goes on; iret restores the flag.
Return ==
    /\ At("call") /\ Top.who \in {"thread", "irq"} /\ Top.msgs = <<>>
    /\ stack' = Tail(stack)
    /\ cpu' = [cpu EXCEPT !.iflag = @ \/ Top.who = "irq"]
    /\ UNCHANGED <<lock, locking, vidmem, cursor, calls, out, log, cursor0>>

\* panic() has printed all it prints, and loops.
Looping == At("call") /\ Top.who = "panic" /\ Top.msgs = <<>>

Idle == (Looping \/ stack = <<>>) /\ UNCHANGED vars

Output == Begin \/ Element \/ Consputc \/ End \/ FaultPanics \/ Return

Next == Output \/ Fault \/ Interrupt \/ Idle \/ \E m \in Messages : Thread(m)

Spec == Init /\ [][Next]_vars

\* The processor keeps executing.
FairSpec == Spec /\ WF_vars(Output)

-----------------------------------------------------------------------------
\* Before a panic, messages come out whole, one after the other in the order
\* in which their cprintf got the lock, each as its format says, whatever
\* interrupts the printing thread: cons.lock.
MessagesWhole ==
    Alive(cpu) =>
        LET all == FlattenSeq(log)
        IN  /\ out = SubSeq(all, 1, Len(out))
            /\ ~lock.locked => out = all

\* What was printed, laid out on paper without end from the first cursor on.
Paper ==
    LET put(s, c) ==
            IF c = "\n" THEN [s EXCEPT !.row = @ + 1, !.col = 0]
            ELSE [row |-> IF s.col = MAX_COLS - 1 THEN s.row + 1 ELSE s.row,
                  col |-> (s.col + 1) % MAX_COLS,
                  ink |-> s.ink \cup {[row |-> s.row, col |-> s.col, c |-> c]}]
    IN  FoldLeft(put, [row |-> cursor0 \div MAX_COLS, col |-> cursor0 % MAX_COLS,
                       ink |-> {}], out)

\* The screen shows the last rows of that paper, and the cursor is where the
\* next character goes, inside the screen: wrapping, newlines and scrolling of
\* print_char and handle_scrolling add up.
ScreenShowsOutput ==
    LET paper == Paper
        first == IF paper.row < MAX_ROWS THEN 0 ELSE paper.row - (MAX_ROWS - 1)
        inked(r, c) == {x \in paper.ink : x.row = r /\ x.col = c}
    IN  /\ cursor = (paper.row - first) * MAX_COLS + paper.col
        /\ \A i \in Cells :
              LET r == first + i \div MAX_COLS
                  x == inked(r, i % MAX_COLS)
              IN  vidmem[i] = IF x # {} THEN (CHOOSE y \in x : TRUE).c
                              ELSE IF r < MAX_ROWS THEN "?" ELSE Blank

\* A panic gets its message out, even when cons.lock is held, and then loops
\* with interrupts off.  A null format is reported as such; a fault inside
\* cprintf is reported as a panic of acquire, because page_fault_handler's own
\* warning wants the lock.
PanicReported ==
    ~Alive(cpu) ~> /\ Looping /\ ~cpu.iflag
                   /\ IsSuffix(<<"P", PanicText(cpu.panic), "\n", "@">>, out)
=============================================================================
