----------------------------- MODULE MCSysArgs -----------------------------
(***************************************************************************)
(* Bytes have four values, so the address space has 256 addresses.  The    *)
(* process has 20 bytes; for esp = 0 its arguments are at 4, 8 and 12.     *)
(* The pointers it passes are at both sides of every boundary, and every   *)
(* pattern of null bytes in the last four addresses occurs.                *)
(***************************************************************************)
EXTENDS SysArgs

\* The k-th byte of a word.
Digit(w, k) == (w \div Radix^k) % Radix

MCImages ==
    {[a \in 0..19 |-> CASE a \in 8..11  -> Digit(ptr, a - 8)
                        [] a \in 12..15 -> Digit(st, a - 12)
                        [] a >= 16 -> IF a \in nul THEN 0 ELSE 3
                        [] OTHER -> 1] :
        ptr \in {0, 11, 12, 13, 20, 248, 255}, st \in {0, 2, 16, 19, 20, 255},
        nul \in SUBSET (16..19)}

MCStacks == {0, 1, 2, 3, 4, 5, 8, 12, 13, 16, 18, 20, 244, 248, 252, 255}
=============================================================================
