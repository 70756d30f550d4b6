------------------------------ MODULE SysArgs ------------------------------
(***************************************************************************)
(* System call arguments: sysarg_get_int, sysarg_get_ptr and               *)
(* sysarg_get_str of kernel/syscall.c, in the order sys_hello and sys_exit *)
(* (syshello.c, sysproc.c) call them, up to the cprintf that reads the     *)
(* string.  The process chose esp and the contents of its memory; the      *)
(* kernel dereferences what it finds there, so every address is checked    *)
(* against proc->sz first, in unsigned arithmetic that wraps.              *)
(***************************************************************************)
EXTENDS Integers, FiniteSets

CONSTANTS Radix,      \* values of a byte
          sz,         \* proc->sz
          Block,      \* the size sys_hello passes to sysarg_get_ptr
          Stacks,     \* values of tf->esp
          Images,     \* contents of the process's memory
          SpaceSize   \* Radix^4: addresses and words are in 0..SpaceSize-1

WordSize == 4         \* sizeof(uint32_t)

Address == 0..(SpaceSize - 1)

Byte == 0..(Radix - 1)

\* The memory of a process ends below the top of the address space, by more
\* than any object whose end is computed (sz is PGSIZE, the sizes 4 and 8).
ASSUME SpaceAssumption ==
    /\ Radix \in Nat \ {0} /\ Block \in Nat /\ sz \in Nat
    /\ SpaceSize \in Nat \ {0}
    /\ sz + WordSize <= SpaceSize /\ sz + Block <= SpaceSize
    /\ Stacks \subseteq Address /\ Images \subseteq [0..(sz - 1) -> Byte]

VARIABLES pc, num,    \* where the kernel is, in which system call
          esp, mem,   \* tf->esp and the memory, set by the process
          i, p, str,  \* the locals of sys_hello; i is n in sys_exit
          s, len,     \* the local s of fetchstr and its result
          ret,        \* result of the system call
          touched     \* history: the user addresses the kernel dereferenced

vars == <<pc, num, esp, mem, i, p, str, s, len, ret, touched>>

Init ==
    /\ pc = "int" /\ num \in {"hello", "exit"}
    /\ esp \in Stacks /\ mem \in Images
    /\ i = 0 /\ p = 0 /\ str = 0 /\ s = 0 /\ len = 0
    /\ ret = "none" /\ touched = {}

\* CDECL_ARG
ArgAddr(n) == (esp + WordSize * (1 + n)) % SpaceSize

\* Faulty variant of Fits: the end of the object is not checked.
FitsStart(addr, size) == addr < sz

\* Faulty variant of Fits: an object that ends where memory ends is refused.
FitsStrict(addr, size) == addr < sz /\ (addr + size) % SpaceSize < sz

\* The test of fetchint and of sysarg_get_ptr, negated.
Fits(addr, size) == addr < sz /\ (addr + size) % SpaceSize <= sz

\* A load of a byte; what lies outside the process is not known to the model.
Load(addr) == IF addr \in DOMAIN mem THEN mem[addr] ELSE 0

\* The little-endian word at addr.
Word(addr) ==
    (Load(addr) + Radix * (Load(addr + 1) + Radix * (Load(addr + 2)
        + Radix * Load(addr + 3)))) % SpaceSize

Bytes(addr, size) == {addr + k : k \in 0..(size - 1)}

\* fetchint(): if the n-th argument is inside the process, ok, else fail.
FetchInt(n, ok, fail) ==
    IF Fits(ArgAddr(n), WordSize)
    THEN /\ touched' = touched \cup Bytes(ArgAddr(n), WordSize)
         /\ ok
    ELSE fail /\ UNCHANGED touched

Fail == /\ ret' = "fail" /\ pc' = "done"

\* sysarg_get_int(proc, 0, ..), the first call of both system calls; exit(n)
\* follows in sys_exit.
GetInt ==
    /\ pc = "int"
    /\ FetchInt(0, /\ i' = Word(ArgAddr(0))
                   /\ IF num = "hello" THEN pc' = "ptr" /\ UNCHANGED ret
                      ELSE pc' = "done" /\ ret' = "ok",
                   Fail /\ UNCHANGED i)
    /\ UNCHANGED <<num, esp, mem, p, str, s, len>>

\* sysarg_get_ptr(proc, 1, &p, 8)
GetPtr ==
    /\ pc = "ptr"
    /\ LET w == Word(ArgAddr(1))
       IN  FetchInt(1, IF Fits(w, Block) THEN p' = w /\ pc' = "str" /\ UNCHANGED ret
                       ELSE Fail /\ UNCHANGED p,
                       Fail /\ UNCHANGED p)
    /\ UNCHANGED <<num, esp, mem, i, str, s, len>>

\* sysarg_get_str(proc, 2, &str) up to the loop of fetchstr.
GetStr ==
    /\ pc = "str"
    /\ LET w == Word(ArgAddr(2))
       IN  FetchInt(2, IF w < sz THEN str' = w /\ s' = w /\ pc' = "scan" /\ UNCHANGED ret
                       ELSE Fail /\ UNCHANGED <<str, s>>,
                       Fail /\ UNCHANGED <<str, s>>)
    /\ UNCHANGED <<num, esp, mem, i, p, len>>

\* Faulty variant of ScanFails: a string that meets the end of memory is
\* accepted.
ScanAccepts == len' = s - str /\ s' = str /\ pc' = "print" /\ UNCHANGED ret

\* s - *pp, s++, and `return -1' behind the loop of fetchstr.
Length == s - str

NextChar == s + 1

ScanFails == Fail /\ UNCHANGED <<s, len>>

\* One iteration of the loop of fetchstr, or its end.
Scan ==
    /\ pc = "scan"
    /\ IF s < sz
       THEN /\ touched' = touched \cup {s}
            /\ IF Load(s) = 0
               THEN len' = Length /\ s' = str /\ pc' = "print" /\ UNCHANGED ret
               ELSE s' = NextChar /\ UNCHANGED <<len, pc, ret>>
       ELSE ScanFails /\ UNCHANGED touched
    /\ UNCHANGED <<num, esp, mem, i, p, str>>

\* The %s of the cprintf in sys_hello: characters up to the null byte, or
\* "(null)" for the address 0.
Hello ==
    /\ pc = "print"
    /\ touched' = IF str = 0 THEN touched ELSE touched \cup {s}
    /\ IF str = 0 \/ Load(s) = 0 THEN pc' = "done" /\ ret' = "ok" /\ UNCHANGED s
       ELSE s' = s + 1 /\ UNCHANGED <<pc, ret>>
    /\ UNCHANGED <<num, esp, mem, i, p, str, len>>

\* Back in the process.  A call leaves nothing behind, so the next one is an
\* initial state again.
Done == pc = "done" /\ UNCHANGED vars

KernelStep == GetInt \/ GetPtr \/ GetStr \/ Scan \/ Hello

Next == KernelStep \/ Done

Spec == Init /\ [][Next]_vars

-----------------------------------------------------------------------------
TypeOK ==
    /\ pc \in {"int", "ptr", "str", "scan", "print", "done"}
    /\ num \in {"hello", "exit"} /\ ret \in {"none", "ok", "fail"}
    /\ esp \in Address /\ mem \in [0..(sz - 1) -> Byte]
    /\ {i, p, str, s} \subseteq Address /\ len \in Nat

\* Whatever esp, the arguments and the memory hold, the kernel dereferences
\* only addresses of the process, in the checks and in the printing after them.
OnlyProcessMemory == touched \subseteq 0..(sz - 1)

\* What sys_hello works with after the checks: the block of size 8 at p is in
\* the process, and str is a string of length len whose null byte is too.
ArgumentsSound ==
    /\ pc \in {"scan", "print"} => p + Block <= sz
    /\ pc = "print" =>
          /\ str + len < sz /\ mem[str + len] = 0
          /\ \A k \in str..(str + len - 1) : mem[k] # 0

\* The arguments a caller is promised to get accepted: the words of the stack
\* are in memory, and so are the block and the string with its end.
Valid ==
    LET inside(n) == ArgAddr(n) + WordSize <= sz
    IN  IF num = "exit" THEN inside(0)
        ELSE /\ \A n \in 0..2 : inside(n)
             /\ Word(ArgAddr(1)) < sz /\ Word(ArgAddr(1)) + Block <= sz
             /\ \E k \in 0..(sz - 1) : k >= Word(ArgAddr(2)) /\ mem[k] = 0

\* A call fails exactly when its arguments are not valid.
AcceptsExactly == pc = "done" => (ret = "ok" <=> Valid)
=============================================================================
