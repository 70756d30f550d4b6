-------------------------------- MODULE Main --------------------------------
(***************************************************************************)
(* What the components of the boot share: the machine the code finds, which*)
(* no step changes, the point of main() (or of the loader before it) that  *)
(* runs, and the message it stopped with.  Interrupts are off until        *)
(* scheduler() turns them on, so the boot is one sequence of steps, and    *)
(* only the devices move beside it.                                        *)
(***************************************************************************)
EXTENDS Integers, Sequences

VARIABLES machine, pc, panic

NoPanic == "none"

\* The next statement is the one labelled l.
Goto(l) == pc' = l /\ UNCHANGED <<machine, panic>>

\* panic(msg), or the loader's message before `jmp $'.
Stop(msg) == pc' = "stopped" /\ panic' = msg /\ UNCHANGED machine

=============================================================================
