---------------------------- MODULE MCReviewLineage ----------------------------
(***************************************************************************)
(* "user" depends on "owner".  Either may be new or exist already.         *)
(***************************************************************************)
EXTENDS ReviewLineage
CONSTANTS owner, user, x, y

MCContents == {Absent, x, y}
Existing == [o \in Objects |-> x]
Created == [o \in Objects |-> Absent]
MCProposed == [o \in Objects |-> y]
MCDepends == [o \in Objects |-> IF o = user THEN {owner} ELSE {}]
MCFingerprint == [v \in MCContents |-> IF v = x THEN 1 ELSE IF v = y THEN 2 ELSE 3]
===============================================================================
