------------------------------ MODULE IrqMutex ------------------------------
(***************************************************************************)
(* What kernel/spinlock.c promises its callers on one processor, without   *)
(* saying how.  Execution contexts are stacked: context 1 is the kernel    *)
(* thread (or the process) and each interrupt handler runs on top of what  *)
(* it interrupted.  A lock belongs to at most one context, and no handler  *)
(* starts while any lock is owned, so the owner is always the context that *)
(* runs and nobody ever waits for a lock.                                  *)
(***************************************************************************)
EXTENDS Integers

CONSTANTS Locks,      \* the locks of the kernel
          MaxDepth    \* bound on the number of stacked contexts

VARIABLES top,        \* the context that runs
          owned       \* owned[k]: the locks context k owns

vars == <<top, owned>>

Init == top = 1 /\ owned = [k \in 1..MaxDepth |-> {}]

Take(l) ==
    /\ \A k \in 1..MaxDepth : l \notin owned[k]
    /\ owned' = [owned EXCEPT ![top] = @ \cup {l}]
    /\ UNCHANGED top

Give(l) ==
    /\ l \in owned[top]
    /\ owned' = [owned EXCEPT ![top] = @ \ {l}]
    /\ UNCHANGED top

Enter ==
    /\ top = 1
    /\ \A k \in 1..MaxDepth : owned[k] = {}
    /\ top' = 2
    /\ UNCHANGED owned

Leave ==
    /\ top = 2
    /\ \A k \in 1..MaxDepth : owned[k] = {}
    /\ top' = 1
    /\ UNCHANGED owned

Next == Enter \/ Leave \/ \E l \in Locks : Take(l) \/ Give(l)

Spec == Init /\ [][Next]_vars
=============================================================================
