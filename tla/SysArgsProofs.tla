--------------------------- MODULE SysArgsProofs ---------------------------
(***************************************************************************)
(* Module SysArgs, proved for every size of memory and address space,      *)
(* every stack pointer and every contents of the process's memory.         *)
(***************************************************************************)
EXTENDS SysArgs, TLAPS

\* The n-th argument is in the process.
Inside(n) == ArgAddr(n) + WordSize <= sz

\* What is known of the call after each sysarg_get_* that succeeded.
Progress ==
    /\ pc \in {"ptr", "str", "scan", "print"} =>
          num = "hello" /\ Inside(0)
    /\ pc \in {"str", "scan", "print"} =>
          /\ Inside(1) /\ p = Word(ArgAddr(1)) /\ p < sz /\ p + Block <= sz
    /\ pc \in {"scan", "print"} =>
          Inside(2) /\ str = Word(ArgAddr(2)) /\ str < sz /\ str <= s /\ s <= sz
    /\ pc = "scan" => \A k \in str..(s - 1) : mem[k] # 0
    /\ pc = "print" =>
          /\ str + len < sz /\ mem[str + len] = 0 /\ s <= str + len
          /\ \A k \in str..(str + len - 1) : mem[k] # 0

IInv == TypeOK /\ OnlyProcessMemory /\ Progress /\ AcceptsExactly

\* The bounds check with wrapping arithmetic means what it says without.
LEMMA FitsExact ==
    ASSUME NEW addr \in Address, NEW size \in Nat, sz + size <= SpaceSize
    PROVE  Fits(addr, size) <=> addr < sz /\ addr + size <= sz
<1>1. addr < sz => addr + size < SpaceSize /\ addr + size >= 0
  BY SpaceAssumption DEF Address
<1>2. addr < sz => (addr + size) % SpaceSize = addr + size
  BY <1>1, SpaceAssumption DEF Address
<1> QED
  BY <1>2 DEF Fits

\* A computed argument address is an address.
LEMMA ArgAddrType ==
    ASSUME esp \in Address, NEW n \in Nat
    PROVE  ArgAddr(n) \in Address
BY SpaceAssumption DEF ArgAddr, Address, WordSize

\* A word loaded from memory is a number of the address space.
LEMMA WordType ==
    ASSUME mem \in [0..(sz - 1) -> Byte], NEW addr \in Nat
    PROVE  Word(addr) \in Address
<1>1. \A a \in Nat : Load(a) \in Nat
  BY SpaceAssumption DEF Load, Byte
<1>2. Load(addr) \in Nat /\ Load(addr + 1) \in Nat /\ Load(addr + 2) \in Nat
      /\ Load(addr + 3) \in Nat
  <2>1. addr + 1 \in Nat /\ addr + 2 \in Nat /\ addr + 3 \in Nat
    OBVIOUS
  <2> QED
    BY <1>1, <2>1
<1>3. \A x, y \in Nat : x + Radix * y \in Nat
  <2>1. Radix \in Nat
    BY SpaceAssumption
  <2>2. \A y \in Nat : Radix * y \in Nat
    BY <2>1
  <2>3. \A x, z \in Nat : x + z \in Nat
    OBVIOUS
  <2> QED
    BY <2>2, <2>3, Zenon
<1>4. Load(addr) + Radix * (Load(addr + 1) + Radix * (Load(addr + 2)
        + Radix * Load(addr + 3))) \in Nat
  BY <1>2, <1>3, Zenon
<1>5. \A x \in Nat : x % SpaceSize \in Address
  BY SpaceAssumption DEF Address
<1> QED
  BY <1>4, <1>5 DEF Word

\* Addresses are numbers.
LEMMA AddressNat == Address \subseteq Nat
BY SpaceAssumption DEF Address

\* fetchint() succeeds exactly when the argument is in the process, and then
\* the bytes it loads are.
LEMMA FetchExact ==
    ASSUME esp \in Address, NEW n \in Nat
    PROVE  /\ Fits(ArgAddr(n), WordSize) <=> Inside(n)
           /\ Inside(n) => Bytes(ArgAddr(n), WordSize) \subseteq 0..(sz - 1)
<1>1. ArgAddr(n) \in Address
  BY ArgAddrType
<1>2. Fits(ArgAddr(n), WordSize)
        <=> ArgAddr(n) < sz /\ ArgAddr(n) + WordSize <= sz
  BY <1>1, FitsExact, SpaceAssumption DEF WordSize
<1>3. Inside(n) => ArgAddr(n) < sz
  BY <1>1, SpaceAssumption DEF Inside, WordSize, Address
<1>4. Inside(n) => Bytes(ArgAddr(n), WordSize) \subseteq 0..(sz - 1)
  BY <1>1, SpaceAssumption DEF Inside, WordSize, Address, Bytes
<1> QED
  BY <1>2, <1>3, <1>4 DEF Inside

\* When the call enters the kernel nothing has been dereferenced.
LEMMA InitIInv == Init => IInv
BY SpaceAssumption DEF Init, IInv, TypeOK, OnlyProcessMemory, Progress, AcceptsExactly,
   Address

\* What the proofs of the steps use of the invariant, and of the expressions
\* that do not change within a call.
LEMMA Facts ==
    ASSUME IInv
    PROVE  /\ esp \in Address /\ mem \in [0..(sz - 1) -> Byte]
           /\ \A n \in Nat : /\ ArgAddr(n) \in Address /\ Word(ArgAddr(n)) \in Address
                             /\ Fits(ArgAddr(n), WordSize) <=> Inside(n)
                             /\ Inside(n) => Bytes(ArgAddr(n), WordSize) \subseteq 0..(sz - 1)
           /\ \A addr \in Address : Fits(addr, Block) <=> addr < sz /\ addr + Block <= sz
<1>1. esp \in Address /\ mem \in [0..(sz - 1) -> Byte]
  BY DEF IInv, TypeOK
<1>2. \A n \in Nat : ArgAddr(n) \in Address
  BY <1>1, ArgAddrType
<1>3. \A n \in Nat : Word(ArgAddr(n)) \in Address
  <2> TAKE n \in Nat
  <2>1. ArgAddr(n) \in Nat
    BY <1>2, AddressNat, Zenon
  <2> QED
    BY <1>1, <2>1, WordType
<1>4. \A n \in Nat : /\ Fits(ArgAddr(n), WordSize) <=> Inside(n)
                     /\ Inside(n) => Bytes(ArgAddr(n), WordSize) \subseteq 0..(sz - 1)
  BY <1>1, FetchExact
<1>5. \A addr \in Address : Fits(addr, Block) <=> addr < sz /\ addr + Block <= sz
  BY FitsExact, SpaceAssumption
<1> QED
  BY <1>1, <1>2, <1>3, <1>4, <1>5

\* Within a call the process does not run: its stack pointer, its memory and
\* so the arguments keep their values.
LEMMA Frame ==
    ASSUME UNCHANGED <<num, esp, mem>>
    PROVE  /\ \A n \in Nat : /\ ArgAddr(n)' = ArgAddr(n) /\ Inside(n)' = Inside(n)
                             /\ Word(ArgAddr(n))' = Word(ArgAddr(n))
           /\ Valid' = Valid
<1>1. \A n \in Nat : ArgAddr(n)' = ArgAddr(n) /\ Inside(n)' = Inside(n)
  BY DEF ArgAddr, Inside
<1>2. \A n \in Nat : Word(ArgAddr(n))' = Word(ArgAddr(n))
  BY <1>1 DEF ArgAddr, Word, Load
<1>3. Valid' = Valid
  BY DEF Valid, ArgAddr, Word, Load
<1> QED
  BY <1>1, <1>2, <1>3

\* Fetching the integer argument preserves the invariant.
LEMMA GetIntIInv == IInv /\ GetInt => IInv'
<1> SUFFICES ASSUME IInv, GetInt PROVE IInv'
  OBVIOUS
<1>1. UNCHANGED <<num, esp, mem>> /\ pc = "int"
  BY DEF GetInt
<1>2. /\ Inside(0)' = Inside(0) /\ Valid' = Valid /\ Word(ArgAddr(0)) \in Address
      /\ Fits(ArgAddr(0), WordSize) <=> Inside(0)
      /\ Inside(0) => Bytes(ArgAddr(0), WordSize) \subseteq 0..(sz - 1)
  BY <1>1, Frame, Facts
<1>3. CASE Inside(0) /\ num = "hello"
  <2>1. pc' = "ptr" /\ i' \in Address /\ UNCHANGED ret
        /\ touched' = touched \cup Bytes(ArgAddr(0), WordSize)
    BY <1>2, <1>3 DEF GetInt, FetchInt
  <2>2. TypeOK' /\ OnlyProcessMemory'
    BY <1>2, <1>3, <2>1, Zenon DEF IInv, TypeOK, OnlyProcessMemory, GetInt
  <2>3. Progress' /\ AcceptsExactly'
    BY <1>1, <1>2, <1>3, <2>1 DEF Progress, AcceptsExactly
  <2> QED
    BY <2>2, <2>3 DEF IInv
<1>4. CASE Inside(0) /\ num # "hello"
  <2>1. pc' = "done" /\ i' \in Address /\ ret' = "ok"
        /\ touched' = touched \cup Bytes(ArgAddr(0), WordSize)
    BY <1>2, <1>4 DEF GetInt, FetchInt
  <2>2. TypeOK' /\ OnlyProcessMemory'
    BY <1>2, <1>4, <2>1, Zenon DEF IInv, TypeOK, OnlyProcessMemory, GetInt
  <2>3. Valid
    BY <1>4 DEF IInv, TypeOK, Valid, Inside
  <2>4. Progress' /\ AcceptsExactly'
    BY <1>2, <2>1, <2>3 DEF Progress, AcceptsExactly
  <2> QED
    BY <2>2, <2>4 DEF IInv
<1>5. CASE ~Inside(0)
  <2>1. pc' = "done" /\ ret' = "fail" /\ UNCHANGED <<i, touched>>
    BY <1>2, <1>5 DEF GetInt, FetchInt, Fail
  <2>2. TypeOK' /\ OnlyProcessMemory'
    BY <2>1 DEF IInv, TypeOK, OnlyProcessMemory, GetInt
  <2>3. ~Valid
    BY <1>5 DEF Valid, Inside
  <2>4. Progress' /\ AcceptsExactly'
    BY <1>2, <2>1, <2>3 DEF Progress, AcceptsExactly
  <2> QED
    BY <2>2, <2>4 DEF IInv
<1> QED
  BY <1>3, <1>4, <1>5

\* Fetching and checking the block preserves the invariant.
LEMMA GetPtrIInv == IInv /\ GetPtr => IInv'
<1> SUFFICES ASSUME IInv, GetPtr PROVE IInv'
  OBVIOUS
<1> DEFINE w == Word(ArgAddr(1))
<1>1. /\ UNCHANGED <<num, esp, mem, i, str, s, len>> /\ pc = "ptr"
      /\ num = "hello" /\ Inside(0)
  BY DEF GetPtr, IInv, Progress
<1>2. /\ Inside(0)' = Inside(0) /\ Inside(1)' = Inside(1) /\ Word(ArgAddr(1))' = w
      /\ Valid' = Valid /\ w \in Address
      /\ Fits(ArgAddr(1), WordSize) <=> Inside(1)
      /\ Inside(1) => Bytes(ArgAddr(1), WordSize) \subseteq 0..(sz - 1)
      /\ Fits(w, Block) <=> w < sz /\ w + Block <= sz
  BY <1>1, Frame, Facts
<1>3. CASE Inside(1) /\ Fits(w, Block)
  <2>1. /\ pc' = "str" /\ p' = w /\ UNCHANGED ret
        /\ touched' = touched \cup Bytes(ArgAddr(1), WordSize)
    BY <1>2, <1>3 DEF GetPtr, FetchInt
  <2> HIDE DEF w
  <2>2. TypeOK' /\ OnlyProcessMemory'
    BY <1>1, <1>2, <1>3, <2>1, Zenon DEF IInv, TypeOK, OnlyProcessMemory
  <2>3. Progress' /\ AcceptsExactly'
    BY <1>1, <1>2, <1>3, <2>1 DEF Progress, AcceptsExactly
  <2> QED
    BY <2>2, <2>3 DEF IInv
<1>4. CASE ~(Inside(1) /\ Fits(w, Block))
  <2>1. /\ pc' = "done" /\ ret' = "fail" /\ UNCHANGED p
        /\ touched' \subseteq touched \cup 0..(sz - 1)
    BY <1>2, <1>4 DEF GetPtr, FetchInt, Fail
  <2>2. ~Valid
    BY <1>1, <1>2, <1>4 DEF Valid, Inside
  <2> HIDE DEF w
  <2>3. TypeOK' /\ OnlyProcessMemory'
    BY <1>1, <2>1 DEF IInv, TypeOK, OnlyProcessMemory
  <2>4. Progress' /\ AcceptsExactly'
    BY <1>2, <2>1, <2>2 DEF Progress, AcceptsExactly
  <2> QED
    BY <2>3, <2>4 DEF IInv
<1> QED
  BY <1>3, <1>4

\* Fetching the address of the string preserves the invariant.
LEMMA GetStrIInv == IInv /\ GetStr => IInv'
<1> SUFFICES ASSUME IInv, GetStr PROVE IInv'
  OBVIOUS
<1> DEFINE w == Word(ArgAddr(2))
<1>1. /\ UNCHANGED <<num, esp, mem, i, p, len>> /\ pc = "str"
      /\ num = "hello" /\ Inside(0)
      /\ Inside(1) /\ p = Word(ArgAddr(1)) /\ p < sz /\ p + Block <= sz
  BY DEF GetStr, IInv, Progress
<1>2. /\ Inside(0)' = Inside(0) /\ Inside(1)' = Inside(1) /\ Inside(2)' = Inside(2)
      /\ Word(ArgAddr(1))' = Word(ArgAddr(1)) /\ Word(ArgAddr(2))' = w
      /\ Valid' = Valid /\ w \in Address
      /\ Fits(ArgAddr(2), WordSize) <=> Inside(2)
      /\ Inside(2) => Bytes(ArgAddr(2), WordSize) \subseteq 0..(sz - 1)
  BY <1>1, Frame, Facts
<1>3. CASE Inside(2) /\ w < sz
  <2>1. /\ pc' = "scan" /\ str' = w /\ s' = w /\ UNCHANGED ret
        /\ touched' = touched \cup Bytes(ArgAddr(2), WordSize)
    BY <1>2, <1>3 DEF GetStr, FetchInt
  <2> HIDE DEF w
  <2>2. TypeOK' /\ OnlyProcessMemory'
    BY <1>1, <1>2, <1>3, <2>1, Zenon DEF IInv, TypeOK, OnlyProcessMemory
  <2>3. w..(w - 1) = {}
    BY <1>2 DEF Address
  <2>4. Progress'
    BY <1>1, <1>2, <1>3, <2>1, <2>3, SpaceAssumption DEF Progress, Address
  <2>5. AcceptsExactly'
    BY <2>1 DEF AcceptsExactly
  <2> QED
    BY <2>2, <2>4, <2>5 DEF IInv
<1>4. CASE ~(Inside(2) /\ w < sz)
  <2>1. /\ pc' = "done" /\ ret' = "fail" /\ UNCHANGED <<str, s>>
        /\ touched' \subseteq touched \cup 0..(sz - 1)
    BY <1>2, <1>4 DEF GetStr, FetchInt, Fail
  <2>2. ~Valid
    <3>1. CASE ~Inside(2)
      BY <1>1, <3>1 DEF Valid, Inside
    <3>2. CASE ~(w < sz)
      <4>1. \A k \in 0..(sz - 1) : ~(k >= w)
        BY <1>2, <3>2, SpaceAssumption DEF Address
      <4> QED
        BY <1>1, <4>1 DEF Valid
    <3> QED
      BY <1>4, <3>1, <3>2
  <2> HIDE DEF w
  <2>3. TypeOK' /\ OnlyProcessMemory'
    BY <1>1, <2>1 DEF IInv, TypeOK, OnlyProcessMemory
  <2>4. Progress' /\ AcceptsExactly'
    BY <1>2, <2>1, <2>2 DEF Progress, AcceptsExactly
  <2> QED
    BY <2>3, <2>4 DEF IInv
<1> QED
  BY <1>3, <1>4

\* An iteration of fetchstr stays below sz and adds a nonzero byte, or ends.
LEMMA ScanIInv == IInv /\ Scan => IInv'
<1> SUFFICES ASSUME IInv, Scan PROVE IInv'
  OBVIOUS
<1>1. /\ UNCHANGED <<num, esp, mem, i, p, str>> /\ pc = "scan"
      /\ num = "hello" /\ Inside(0)
      /\ Inside(1) /\ p = Word(ArgAddr(1)) /\ p < sz /\ p + Block <= sz
      /\ Inside(2) /\ str = Word(ArgAddr(2)) /\ str < sz /\ str <= s /\ s <= sz
      /\ \A k \in str..(s - 1) : mem[k] # 0
  BY DEF Scan, IInv, Progress
<1>2. /\ Inside(0)' = Inside(0) /\ Inside(1)' = Inside(1) /\ Inside(2)' = Inside(2)
      /\ Word(ArgAddr(1))' = Word(ArgAddr(1)) /\ Word(ArgAddr(2))' = Word(ArgAddr(2))
      /\ Valid' = Valid
  BY <1>1, Frame
<1>3. /\ str \in Nat /\ s \in Nat /\ sz \in Nat /\ sz < SpaceSize /\ SpaceSize \in Nat
      /\ mem \in [0..(sz - 1) -> Byte]
  BY SpaceAssumption DEF IInv, TypeOK, Address, WordSize
<1>4. s < sz => s \in 0..(sz - 1) /\ Load(s) = mem[s]
  BY <1>3 DEF Load
<1>5. CASE s < sz /\ Load(s) = 0
  <2>1. /\ pc' = "print" /\ s' = str /\ len' = s - str /\ UNCHANGED ret
        /\ touched' = touched \cup {s}
    BY <1>1, <1>5 DEF Scan, Length
  <2>2. len' \in Nat /\ str + len' = s
    <3>1. \A x \in Nat : \A y \in Nat : x <= y => y - x \in Nat /\ x + (y - x) = y
      OBVIOUS
    <3>2. str \in Nat /\ s \in Nat /\ str <= s
      BY <1>1, <1>3
    <3> QED
      BY <2>1, <3>1, <3>2
  <2>3. TypeOK' /\ OnlyProcessMemory'
    BY <1>1, <1>4, <1>5, <2>1, <2>2, Zenon DEF IInv, TypeOK, OnlyProcessMemory
  <2>4. /\ str' + len' < sz /\ mem'[str' + len'] = 0 /\ s' <= str' + len'
        /\ str' <= s' /\ s' <= sz
    <3>1. str' = str /\ mem' = mem /\ str' + len' = s
      BY <1>1, <2>2
    <3>2. mem[s] = 0
      BY <1>4, <1>5
    <3>3. mem'[str' + len'] = 0
      BY <3>1, <3>2
    <3>4. s' = str
      BY <2>1
    <3>5. str' + len' < sz
      BY <1>5, <3>1
    <3>6. s' <= str' + len'
      BY <1>1, <3>1, <3>4
    <3>7. str' <= s' /\ s' <= sz
      BY <1>1, <1>3, <3>1, <3>4
    <3> QED
      BY <3>3, <3>5, <3>6, <3>7
  <2>5. \A k \in str'..(str' + len' - 1) : mem'[k] # 0
    <3>1. str' = str /\ mem' = mem /\ str' + len' = s
      BY <1>1, <2>2
    <3>2. str' \in Nat /\ len' \in Nat /\ s \in Nat
      BY <1>3, <2>2, <3>1
    <3>3. str' + len' - 1 = s - 1
      <4>1. PICK a \in Nat : a = str'
        BY <3>2
      <4>2. PICK b \in Nat : b = len'
        BY <3>2
      <4>3. a + b = s /\ s \in Nat
        BY <3>1, <3>2, <4>1, <4>2, Zenon
      <4>4. a + b - 1 = s - 1
        BY <4>3
      <4> QED
        BY <4>1, <4>2, <4>4
    <3> QED
      BY <1>1, <3>1, <3>3
  <2>6. Progress'
    BY <1>1, <1>2, <2>1, <2>4, <2>5 DEF Progress
  <2>7. AcceptsExactly'
    BY <2>1 DEF AcceptsExactly
  <2> QED
    BY <2>3, <2>6, <2>7 DEF IInv
<1>6. CASE s < sz /\ Load(s) # 0
  <2>1. /\ pc' = "scan" /\ s' = s + 1 /\ UNCHANGED <<len, ret>>
        /\ touched' = touched \cup {s}
    BY <1>1, <1>6 DEF Scan, NextChar
  <2>2. s' \in Address /\ s' <= sz /\ str <= s'
    BY <1>1, <1>3, <1>6, <2>1 DEF Address
  <2>3. TypeOK' /\ OnlyProcessMemory'
    BY <1>1, <1>4, <1>6, <2>1, <2>2, Zenon DEF IInv, TypeOK, OnlyProcessMemory
  <2>4. \A k \in str..(s' - 1) : mem[k] # 0
    BY <1>1, <1>3, <1>4, <1>6, <2>1
  <2>5. Progress'
    BY <1>1, <1>2, <2>1, <2>2, <2>4 DEF Progress
  <2>6. AcceptsExactly'
    BY <2>1 DEF AcceptsExactly
  <2> QED
    BY <2>3, <2>5, <2>6 DEF IInv
<1>7. CASE ~(s < sz)
  <2>1. pc' = "done" /\ ret' = "fail" /\ UNCHANGED <<s, len, touched>>
    BY <1>1, <1>7 DEF Scan, ScanFails, Fail
  <2>2. \A k \in 0..(sz - 1) : ~(k >= str /\ mem[k] = 0)
    <3> SUFFICES ASSUME NEW k \in 0..(sz - 1), k >= str PROVE mem[k] # 0
      OBVIOUS
    <3>1. k \in str..(s - 1)
      BY <1>1, <1>3, <1>7
    <3> QED
      BY <1>1, <3>1
  <2>3. ~Valid
    BY <1>1, <2>2 DEF Valid
  <2>4. TypeOK' /\ OnlyProcessMemory'
    BY <1>1, <2>1 DEF IInv, TypeOK, OnlyProcessMemory
  <2>5. Progress' /\ AcceptsExactly'
    BY <1>2, <2>1, <2>3 DEF Progress, AcceptsExactly
  <2> QED
    BY <2>4, <2>5 DEF IInv
<1> QED
  BY <1>5, <1>6, <1>7

\* Printing reads up to the null byte fetchstr found.
LEMMA HelloIInv == IInv /\ Hello => IInv'
<1> SUFFICES ASSUME IInv, Hello PROVE IInv'
  OBVIOUS
<1>1. /\ UNCHANGED <<num, esp, mem, i, p, str, len>> /\ pc = "print"
      /\ num = "hello" /\ Inside(0)
      /\ Inside(1) /\ p = Word(ArgAddr(1)) /\ p < sz /\ p + Block <= sz
      /\ Inside(2) /\ str = Word(ArgAddr(2)) /\ str < sz /\ str <= s /\ s <= sz
      /\ str + len < sz /\ mem[str + len] = 0 /\ s <= str + len
      /\ \A k \in str..(str + len - 1) : mem[k] # 0
      /\ touched' \subseteq touched \cup {s}
  BY DEF Hello, IInv, Progress
<1>2. /\ Inside(0)' = Inside(0) /\ Inside(1)' = Inside(1) /\ Inside(2)' = Inside(2)
      /\ Word(ArgAddr(1))' = Word(ArgAddr(1)) /\ Word(ArgAddr(2))' = Word(ArgAddr(2))
      /\ Valid' = Valid
  BY <1>1, Frame
<1>3. /\ str \in Nat /\ s \in Nat /\ sz \in Nat /\ sz < SpaceSize /\ SpaceSize \in Nat
      /\ len \in Nat /\ mem \in [0..(sz - 1) -> Byte]
  BY SpaceAssumption DEF IInv, TypeOK, Address, WordSize
<1>4. s \in 0..(sz - 1) /\ Load(s) = mem[s]
  BY <1>1, <1>3 DEF Load
<1>5. CASE str = 0 \/ Load(s) = 0
  <2>1. pc' = "done" /\ ret' = "ok" /\ UNCHANGED s
    BY <1>1, <1>5 DEF Hello
  <2>2. str + len \in 0..(sz - 1) /\ str + len >= str
    BY <1>1, <1>3
  <2>3. Valid
    BY <1>1, <2>2 DEF Valid, Inside
  <2>4. TypeOK' /\ OnlyProcessMemory'
    BY <1>1, <1>4, <2>1 DEF IInv, TypeOK, OnlyProcessMemory
  <2>5. Progress' /\ AcceptsExactly'
    BY <1>2, <2>1, <2>3 DEF Progress, AcceptsExactly
  <2> QED
    BY <2>4, <2>5 DEF IInv
<1>6. CASE str # 0 /\ Load(s) # 0
  <2>1. pc' = "print" /\ s' = s + 1 /\ UNCHANGED ret
    BY <1>1, <1>6 DEF Hello
  <2>2. s # str + len
    BY <1>1, <1>4, <1>6
  <2>3. s' \in Address /\ s' <= sz /\ str <= s' /\ s' <= str + len
    BY <1>1, <1>3, <2>1, <2>2 DEF Address
  <2>4. TypeOK' /\ OnlyProcessMemory'
    BY <1>1, <1>4, <2>1, <2>3 DEF IInv, TypeOK, OnlyProcessMemory
  <2>5. Progress'
    BY <1>1, <1>2, <2>1, <2>3 DEF Progress
  <2>6. AcceptsExactly'
    BY <2>1 DEF AcceptsExactly
  <2> QED
    BY <2>4, <2>5, <2>6 DEF IInv
<1> QED
  BY <1>5, <1>6

\* The invariant depends on the variables only.
LEMMA StutterIInv == IInv /\ UNCHANGED vars => IInv'
<1> SUFFICES ASSUME IInv, UNCHANGED vars PROVE IInv'
  OBVIOUS
<1>1. UNCHANGED <<pc, num, esp, mem, i, p, str, s, len, ret, touched>>
  BY DEF vars
<1>2. /\ Inside(0)' = Inside(0) /\ Inside(1)' = Inside(1) /\ Inside(2)' = Inside(2)
      /\ Word(ArgAddr(1))' = Word(ArgAddr(1)) /\ Word(ArgAddr(2))' = Word(ArgAddr(2))
      /\ Valid' = Valid
  BY <1>1, Frame
<1>3. TypeOK' /\ OnlyProcessMemory'
  BY <1>1 DEF IInv, TypeOK, OnlyProcessMemory
<1>4. Progress'
  BY <1>1, <1>2 DEF IInv, Progress
<1>5. AcceptsExactly'
  BY <1>1, <1>2 DEF IInv, AcceptsExactly
<1> QED
  BY <1>3, <1>4, <1>5 DEF IInv

\* The invariant holds throughout every system call.
THEOREM Invariance == Spec => []IInv
<1>1. IInv /\ [Next]_vars => IInv'
  BY GetIntIInv, GetPtrIInv, GetStrIInv, ScanIInv, HelloIInv, StutterIInv
     DEF Next, KernelStep, Done
<1> QED
  BY <1>1, InitIInv, PTL DEF Spec

\* Types: the locals of the system calls stay addresses.
THEOREM TypeCorrect == Spec => []TypeOK
BY Invariance, PTL DEF IInv

\* For every stack pointer, every argument and every contents of memory, the
\* kernel dereferences only addresses below proc->sz while it fetches and
\* prints arguments.
THEOREM KernelStaysInProcess == Spec => []OnlyProcessMemory
BY Invariance, PTL DEF IInv

\* The block and the string sys_hello goes on with lie in the process.
THEOREM FetchedArgumentsSound == Spec => []ArgumentsSound
<1>1. IInv => ArgumentsSound
  BY DEF IInv, Progress, ArgumentsSound
<1> QED
  BY <1>1, Invariance, PTL

\* The checks refuse no valid call and accept no other, wrapping included.
THEOREM ChecksExact == Spec => []AcceptsExactly
BY Invariance, PTL DEF IInv
=============================================================================
