-------------------------------- MODULE Mutex --------------------------------
(***************************************************************************)
(* What ReviewStore.exclusive promises the service above it: at most one   *)
(* caller at a time, taken only when it is free and given up by its holder *)
(* (by returning from exclusive() or by dying in it).  The promise can be  *)
(* broken while somebody holds the mutex, and is good again when it is     *)
(* free and everybody has left.                                            *)
(***************************************************************************)
CONSTANTS Callers, NoCaller
VARIABLES holder, broken

Init == holder = NoCaller /\ ~broken
Acquire(c) == ~broken /\ holder = NoCaller /\ holder' = c /\ ~broken'
GiveUp == ~broken /\ holder # NoCaller /\ holder' = NoCaller /\ ~broken'
Break == ~broken /\ holder # NoCaller /\ holder' = holder /\ broken'
WhileBroken == broken /\ broken'
Mend == broken /\ ~broken' /\ holder' = NoCaller
Next == GiveUp \/ Break \/ WhileBroken \/ Mend \/ \E c \in Callers : Acquire(c)
Spec == Init /\ [][Next]_<<holder, broken>>
===============================================================================
