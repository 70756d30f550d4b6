------------------------------ MODULE Memmove -------------------------------
(***************************************************************************)
(* One call of memmove() of kernel/lib/string.c, with every pair of        *)
(* regions in memory, overlapping or not: `before' and `mem' are the       *)
(* memory around it.                                                       *)
(***************************************************************************)
EXTENDS Strings

VARIABLES before, mem,
          call        \* the arguments; count -1 before the call

vars == <<before, mem, call>>

Init ==
    /\ mem \in [Addr -> Bytes] /\ before = mem
    /\ call = [dst |-> 0, src |-> 0, count |-> -1]

Call(dst, src, count) ==
    /\ call.count = -1 /\ Within(dst, count) /\ Within(src, count)
    /\ call' = [dst |-> dst, src |-> src, count |-> count]
    /\ mem' = memmove(mem, dst, src, count)
    /\ UNCHANGED before

Returned == call.count # -1 /\ UNCHANGED vars

Next ==
    \/ \E dst, src \in 0..(Space - 1), count \in 0..MaxCount : Call(dst, src, count)
    \/ Returned

Spec == Init /\ [][Next]_vars

-----------------------------------------------------------------------------
\* The copy is as if relayed by a buffer, for regions that overlap too: COUNT
\* bytes arrive at DST, and no other byte changes (string.c:38-43).
MemmoveAsPromised ==
    call.count # -1 =>
        CopiedOnly(before, mem, call.dst, call.src, call.count, call.count)
=============================================================================
