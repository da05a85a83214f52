--------------------------- MODULE MCManualCapture ---------------------------
(***************************************************************************)
(* Two windows save one definition, with different contents.               *)
(***************************************************************************)
EXTENDS ManualCapture
CONSTANTS s1, s2, x, y

MCSaves == {s1, s2}
MCText == [s \in MCSaves |-> IF s = s1 THEN x ELSE y]
MCContents == {Absent, x, y}
===============================================================================
