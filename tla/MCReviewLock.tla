----------------------------- MODULE MCReviewLock -----------------------------
(***************************************************************************)
(* Four calls in three extension hosts: c1 and c4 share a host, as a panel *)
(* command and an agent request in one VS Code window do.                  *)
(***************************************************************************)
EXTENDS ReviewLock
CONSTANTS c1, c2, c3, c4, h1, h2, h3

MCCallers == {c1, c2, c3, c4}
MCHosts == {h1, h2, h3}
MCHost == [c \in MCCallers |-> IF c = c2 THEN h2 ELSE IF c = c3 THEN h3 ELSE h1]
===============================================================================
