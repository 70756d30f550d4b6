----------------------------- MODULE Lifecycle -----------------------------
(***************************************************************************)
(* What the process code promises, without slots, stacks, locks or         *)
(* interrupts: processes known by their pid are created, run one at a time *)
(* and once only, make calls while they run, and are over for good with    *)
(* the status they passed to exit.                                         *)
(***************************************************************************)
CONSTANTS Pids, Statuses, Calls,
          ExitCall(_)          \* the call that ends a process with a status

VARIABLES life, status, asked

vars == <<life, status, asked>>

Init ==
    /\ life = [q \in Pids |-> "unborn"]
    /\ status \in [Pids -> Statuses] /\ \A q, r \in Pids : status[q] = status[r]
    /\ asked \in [Pids -> Calls] /\ \A q, r \in Pids : asked[q] = asked[r]

Create(q) ==
    /\ life[q] = "unborn" /\ life' = [life EXCEPT ![q] = "ready"]
    /\ UNCHANGED <<status, asked>>

Run(q) ==
    /\ life[q] = "ready" /\ \A r \in Pids : life[r] # "running"
    /\ life' = [life EXCEPT ![q] = "running"]
    /\ UNCHANGED <<status, asked>>

Ask(q, call) ==
    /\ life[q] = "running" /\ asked' = [asked EXCEPT ![q] = call]
    /\ UNCHANGED <<life, status>>

End(q, st) ==
    /\ life[q] = "running" /\ asked[q] = ExitCall(st)
    /\ life' = [life EXCEPT ![q] = "over"] /\ status' = [status EXCEPT ![q] = st]
    /\ UNCHANGED asked

Next ==
    \E q \in Pids :
        \/ Create(q) \/ Run(q)
        \/ \E call \in Calls : Ask(q, call)
        \/ \E st \in Statuses : End(q, st)

Spec == Init /\ [][Next]_vars

=============================================================================
