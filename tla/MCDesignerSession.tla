--------------------------- MODULE MCDesignerSession ---------------------------
(***************************************************************************)
(* Two edits of the developer, one of the agent and one of App Designer;   *)
(* two calls that wait at the same time.                                   *)
(***************************************************************************)
EXTENDS DesignerSession, TLC
CONSTANTS e1, e2, agent, other, c1, c2

MCAgentEdit == [c \in Calls |-> agent]
MCSymmetry == Permutations(Calls)
===============================================================================
