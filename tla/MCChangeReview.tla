---------------------------- MODULE MCChangeReview ----------------------------
(***************************************************************************)
(* Two definitions: "owner" does not exist yet, "user" does.  The agent    *)
(* may create one, change or delete the other, in either dependency order. *)
(***************************************************************************)
EXTENDS ChangeReview
CONSTANTS owner, user, x, y

MCContents == {Absent, x, y}
MCInitial == [o \in Objects |-> IF o = owner THEN Absent ELSE x]
MCDeletable == {user}
===============================================================================
