------------------------------ MODULE Strings ------------------------------
(***************************************************************************)
(* The memory and string functions of kernel/lib/string.c.  Memory is a    *)
(* function from addresses to bytes; a function of the library that writes *)
(* becomes an operator from memory to memory, its loop a recursion with    *)
(* the same pointers, counter and order of loads and stores.               *)
(*                                                                         *)
(* FunctionsAsPromised compares them with what their comments say, in      *)
(* closed form.  memmove onto a destination that overlaps from above is    *)
(* left to module Memmove.                                                 *)
(***************************************************************************)
EXTENDS Integers, FiniteSets, FiniteSetsExt

CONSTANTS Space,      \* the objects of callers lie in 0..Space-1
          Bytes,      \* byte values that occur, a subset of 0..255 with 0
          MaxCount    \* largest count passed

\* A loop may look at the byte behind an object.
Addr == 0..Space

\* A char is signed on x86.
char(b) == IF b >= 128 THEN b - 256 ELSE b

RECURSIVE memset(_, _, _, _), memcpy(_, _, _, _),
          MoveBack(_, _, _, _), Compare(_, _, _, _, _, _),
          ScanStr(_, _, _), CompareStr(_, _, _, _, _, _)

memset(m, dst, c, count) ==
    IF count = 0 THEN m
    ELSE memset([m EXCEPT ![dst] = c], dst + 1, c, count - 1)

memcpy(m, dst, src, count) ==
    IF count = 0 THEN m
    ELSE memcpy([m EXCEPT ![dst] = m[src]], dst + 1, src + 1, count - 1)

\* The loop of memmove that goes down, from its two pointers.
MoveBack(m, dst, src, count) ==
    IF count = 0 THEN m
    ELSE MoveBack([m EXCEPT ![dst] = m[src]], dst - 1, src - 1, count - 1)

\* The unsigned comparison dst - src >= count.
ForwardSafe(dst, src, count) == dst < src \/ dst - src >= count

memmove(m, dst, src, count) ==
    IF ForwardSafe(dst, src, count) THEN memcpy(m, dst, src, count)
    ELSE MoveBack(m, dst + count, src + count, count)

\* The loop of memcmp, with the last bytes b1 and b2 it has compared.
Compare(m, ptr1, ptr2, count, b1, b2) ==
    IF count = 0 THEN b1 - b2
    ELSE LET c1 == char(m[ptr1])
             c2 == char(m[ptr2])
         IN  IF c1 # c2 THEN c1 - c2
             ELSE Compare(m, ptr1 + 1, ptr2 + 1, count - 1, c1, c2)

memcmp(m, ptr1, ptr2, count) == Compare(m, ptr1, ptr2, count, 0, 0)

\* The loop of strlen and of strnlen, from index len on; strlen has no count.
ScanStr(m, at, count) ==
    IF m[at] # 0 /\ count > 0 THEN 1 + ScanStr(m, at + 1, count - 1) ELSE 0

strlen(m, str) == ScanStr(m, str, Space)

strnlen(m, str, count) == ScanStr(m, str, count)

CompareStr(m, str1, str2, count, c1, c2) ==
    IF count = 0 THEN c1 - c2
    ELSE LET d1 == char(m[str1])
             d2 == char(m[str2])
         IN  IF d1 = 0 \/ d1 # d2 THEN d1 - d2
             ELSE CompareStr(m, str1 + 1, str2 + 1, count - 1, d1, d2)

strncmp(m, str1, str2, count) == CompareStr(m, str1, str2, count, 0, 0)

strncpy(m, dst, src, count) ==
    LET size   == strnlen(m, src, count)
        padded == IF size # count THEN memset(m, dst + size, 0, count - size) ELSE m
    IN  memcpy([padded EXCEPT ![dst + size] = 0], dst, src, size)

strncat(m, dst, src, count) ==
    LET end  == dst + strlen(m, dst)
        size == strnlen(m, src, count)
    IN  memcpy([m EXCEPT ![end + size] = 0], end, src, size)

-----------------------------------------------------------------------------
(* What the comments say of a call on memory m, when the caller keeps to   *)
(* them: objects lie in memory, the regions of memcpy and of the string    *)
(* functions do not overlap, and a string has a null byte.                 *)

Bytewise(a, n) == a..(a + n - 1)

Within(a, n) == a + n <= Space

Disjoint(a, n, b, k) == Bytewise(a, n) \cap Bytewise(b, k) = {}

IsString(m, a) == \E k \in a..(Space - 1) : m[k] = 0

\* The length of the string at a, and with at most count characters.
Length(m, a) == Min({k \in 0..(Space - 1 - a) : m[a + k] = 0})

Limited(m, a, count) ==
    Min({count} \cup {k \in 0..(count - 1) : a + k < Space /\ m[a + k] = 0})

Readable(m, a, count) == IsString(m, a) \/ Within(a, count)

\* m2 has at a the n bytes m has at b, and is otherwise m but for the k bytes
\* at a.
CopiedOnly(m, m2, a, b, n, k) ==
    /\ \A i \in 0..(n - 1) : m2[a + i] = m[b + i]
    /\ \A x \in Addr \ Bytewise(a, k) : m2[x] = m[x]

\* The first k below n where the bytes at a and b differ, n if there is none.
Differ(m, a, b, n) ==
    Min({n} \cup {k \in 0..(n - 1) : {a + k, b + k} \subseteq Addr /\ m[a + k] # m[b + k]})

MemoryAsPromised(m, a, b, n) ==
    LET c == Max(Bytes)
        k == Differ(m, a, b, n)
    IN  /\ Within(a, n) => memset(m, a, c, n) = [x \in Addr |-> IF x \in Bytewise(a, n) THEN c ELSE m[x]]
        /\ Within(a, n) /\ Within(b, n) =>
              /\ Disjoint(a, n, b, n) => CopiedOnly(m, memcpy(m, a, b, n), a, b, n, n)
              /\ ForwardSafe(a, b, n) => CopiedOnly(m, memmove(m, a, b, n), a, b, n, n)
              /\ memcmp(m, a, b, n) = 0 <=> k = n
              /\ k < n /\ {m[a + k], m[b + k]} \subseteq 0..127 =>
                    (memcmp(m, a, b, n) < 0 <=> m[a + k] < m[b + k])

StringsAsPromised(m, a, b, n) ==
    LET size == Limited(m, b, n)
        end  == Length(m, a)
        e    == Min({n, end + 1})
        k    == Differ(m, a, b, e)
        cpy  == strncpy(m, a, b, n)
        cat  == strncat(m, a, b, n)
    IN  /\ IsString(m, a) => strlen(m, a) = end
        /\ Readable(m, a, n) => strnlen(m, a, n) = Limited(m, a, n)
        /\ IsString(m, a) /\ IsString(m, b) =>
              IF k = e THEN strncmp(m, a, b, n) = 0
              ELSE strncmp(m, a, b, n) < 0 <=> char(m[a + k]) < char(m[b + k])
        /\ Readable(m, b, n) /\ Within(a, n + 1) /\ Disjoint(a, n + 1, b, size + 1) =>
              CopiedOnly(m, cpy, a, b, size, Max({n, size + 1})) /\ cpy[a + size] = 0
        /\ /\ IsString(m, a) /\ Readable(m, b, n)
           /\ Within(a, end + size + 1) /\ Disjoint(a, end + size + 1, b, size + 1)
           => CopiedOnly(m, cat, a + end, b, size, size + 1) /\ cat[a + end + size] = 0

\* The functions leave exactly what their comments say and touch no other byte
\* (memset, memcpy, memmove where it copies upwards, strncpy and strncat with
\* their terminator); lengths are those of the strings; memcmp is zero exactly
\* for equal regions and orders bytes below 128; strncmp orders by the first
\* difference that is not behind the end of a string.
ASSUME FunctionsAsPromised ==
    \A m \in [Addr -> Bytes], a, b \in 0..(Space - 1), n \in 0..MaxCount :
        MemoryAsPromised(m, a, b, n) /\ StringsAsPromised(m, a, b, n)
=============================================================================
