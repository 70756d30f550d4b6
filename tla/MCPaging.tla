------------------------------ MODULE MCPaging ------------------------------
(***************************************************************************)
(* Tables of 8 entries; the kernel is mapped from page 32 on.  Physical    *)
(* memory has 13 pages, two of them below the heap, and takes two tables,  *)
(* ACPI shares the second, devices have a third.  initcode fits in a page  *)
(* or just does not.  The free list of kinit1 has 0 to 5 frames and        *)
(* kinit2 adds 0 to 6, in descending order: memory runs out at every       *)
(* kalloc, and it suffices.                                                *)
(***************************************************************************)
EXTENDS Paging

Descending(hi, n) == [j \in 1..n |-> hi + 1 - j]

MCEarly == {Descending(6, n) : n \in 0..5}

MCLate == {Descending(12, n) : n \in 0..6}
=============================================================================
