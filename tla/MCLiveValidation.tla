---------------------------- MODULE MCLiveValidation ----------------------------
(***************************************************************************)
(* Two documents and one worker.                                           *)
(***************************************************************************)
EXTENDS LiveValidation
CONSTANTS d1, d2
===============================================================================
