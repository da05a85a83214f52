--------------------------- MODULE MCProcessRuntime ---------------------------
(***************************************************************************)
(* Two windows, two requests for the same process and run control.         *)
(***************************************************************************)
EXTENDS ProcessRuntime, TLC
CONSTANTS w1, w2, r1, r2

Symmetry == Permutations({w1, w2}) \cup Permutations({r1, r2})
===============================================================================
