-------------------------------- MODULE OneShot --------------------------------
(***************************************************************************)
(* What a durable confirmation promises: it may be refused, or used once;  *)
(* while its outcome is unknown it is neither refused nor used again, and  *)
(* at most one run becomes known as its outcome, for good.                 *)
(***************************************************************************)
CONSTANTS Requests, Runs, NoRun
VARIABLE outcome  \* outcome[r]: how far request r got, and its run

Init == outcome = [r \in Requests |-> [state |-> "none", run |-> NoRun]]
Move(r, from, to, run) ==
  /\ outcome[r].state = from
  /\ outcome' = [outcome EXCEPT ![r] = [state |-> to, run |-> run]]
Make(r) == Move(r, "none", "open", NoRun)
Refuse(r) == Move(r, "open", "refused", NoRun)
Use(r) == Move(r, "open", "unknown", NoRun)
Learn(r) == \E run \in Runs : Move(r, "unknown", "known", run)
Next == \E r \in Requests : Make(r) \/ Refuse(r) \/ Use(r) \/ Learn(r)
Spec == Init /\ [][Next]_outcome
===============================================================================
