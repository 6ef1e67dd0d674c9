-------------------------- MODULE MCSchedulerHistory --------------------------
(* SchedulerHistory for TLC: main and two threads it creates. *)
EXTENDS SchedulerHistory, TLC

CONSTANTS t1, t2

\* The threads main creates are interchangeable.
Symmetry == Permutations({t1, t2})
===============================================================================
