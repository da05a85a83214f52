------------------------------ MODULE DirectSave ------------------------------
(***************************************************************************)
(* A developer's save as it is without any history: the write runs at most *)
(* once and its own outcome is what the caller is told.                    *)
(***************************************************************************)
CONSTANT Saves
VARIABLE save  \* save[s]: how far the save is

Init == save = [s \in Saves |-> "idle"]
Move(s, from, to) == save[s] = from /\ save' = [save EXCEPT ![s] = to]
Call(s) == Move(s, "idle", "called")
Write(s) == Move(s, "called", "written") \/ Move(s, "called", "failed")
Answer(s) == Move(s, "written", "result") \/ Move(s, "failed", "error")
Die(s) == save[s] # "dead" /\ save' = [save EXCEPT ![s] = "dead"]
Next == \E s \in Saves : Call(s) \/ Write(s) \/ Answer(s) \/ Die(s)
Safe == Init /\ [][Next]_save
Spec == Safe /\ \A s \in Saves : WF_save(Write(s)) /\ WF_save(Answer(s))
===============================================================================
