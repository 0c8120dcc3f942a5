------------------------------ MODULE ForkJoin ------------------------------
(***************************************************************************)
(* What an engine call promises the program that makes it: every worker    *)
(* runs its share of the operation exactly once, all of them between the   *)
(* call and its return, and no two operations overlap.                     *)
(***************************************************************************)
EXTENDS Integers

CONSTANTS Threads, MaxOps

VARIABLES
    op,       \* number of operations called so far
    inCall,   \* the main thread is inside an engine call
    doneBy    \* workers that have run their share of operation op

fvars == <<op, inCall, doneBy>>

Init == op = 0 /\ inCall = FALSE /\ doneBy = Threads

Call ==
    /\ ~inCall /\ op < MaxOps
    /\ op' = op + 1 /\ inCall' = TRUE /\ doneBy' = {}

RunShare(t) ==
    /\ inCall /\ t \notin doneBy
    /\ doneBy' = doneBy \cup {t}
    /\ UNCHANGED <<op, inCall>>

Return ==
    /\ inCall /\ doneBy = Threads
    /\ inCall' = FALSE
    /\ UNCHANGED <<op, doneBy>>

Next == Call \/ (\E t \in Threads : RunShare(t)) \/ Return
Spec == Init /\ [][Next]_fvars
=============================================================================
