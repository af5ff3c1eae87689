---------------------------- MODULE MCIdleClock -----------------------------
(***************************************************************************)
(* IdleClock for TLC.  The two tasks of a side run the same loop.          *)
(***************************************************************************)
EXTENDS IdleClock, TLC

Symmetry == Permutations(Task)
=============================================================================
