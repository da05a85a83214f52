--------------------------- MODULE MCWriteApprovals ---------------------------
(***************************************************************************)
(* Two agents' calls and a person's save of one delivered definition.      *)
(***************************************************************************)
EXTENDS WriteApprovals
CONSTANTS a1, a2, u, k

MCCalls == {a1, a2, u}
MCKey == [c \in MCCalls |-> k]
MCOwnership == [d \in Keys |-> "DELIVERED"]
===============================================================================
