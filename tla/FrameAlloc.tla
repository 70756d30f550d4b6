----------------------------- MODULE FrameAlloc -----------------------------
(***************************************************************************)
(* What the page allocator of kernel/kalloc.c promises: a pool of frames.  *)
(* kalloc takes one that nobody holds and fails only when there is none;   *)
(* kfree gives back one that is held; the boot code donates frames that    *)
(* were never in the pool.                                                 *)
(***************************************************************************)
CONSTANTS Frames,   \* the frames that may ever be donated
          Null      \* the null pointer kalloc returns when it fails

VARIABLES free,     \* the frames in the pool
          used,     \* the frames handed out
          ret       \* what the last kalloc returned

vars == <<free, used, ret>>

Init == free = {} /\ used = {} /\ ret = Null

Donate(f) ==
    /\ f \in Frames \ (free \cup used)
    /\ free' = free \cup {f}
    /\ UNCHANGED <<used, ret>>

Alloc(f) ==
    /\ f \in free
    /\ free' = free \ {f} /\ used' = used \cup {f} /\ ret' = f

AllocFails ==
    /\ free = {}
    /\ ret' = Null
    /\ UNCHANGED <<free, used>>

Free(f) ==
    /\ f \in used
    /\ free' = free \cup {f} /\ used' = used \ {f}
    /\ UNCHANGED ret

Next == AllocFails \/ \E f \in Frames : Donate(f) \/ Alloc(f) \/ Free(f)

Spec == Init /\ [][Next]_vars
=============================================================================
