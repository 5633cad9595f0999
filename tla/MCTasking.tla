------------------------------ MODULE MCTasking -----------------------------
(***************************************************************************)
(* Tasking for TLC: the threads, and the points at which the timer may     *)
(* interrupt (Calm and PCs of Tasking, or Outside, for Preemptible).       *)
(***************************************************************************)
EXTENDS Tasking, TLC

CONSTANTS t1, t2   \* model values for the tasks

TwoTasks == {t1, t2}

\* The timer may interrupt everywhere but in the windows of switch_next.
Outside == PCs \ Windows

Symmetric == Permutations(TwoTasks)

============================================================================
