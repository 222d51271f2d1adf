-------------------------- MODULE ExclusiveEvents --------------------------
(***************************************************************************)
(* What the event handling of opsiclientd promises: every occurrence is    *)
(* refused, or is processed from its start to its end; an occurrence that  *)
(* is not a user login starts only when no other such occurrence is being  *)
(* processed.                                                              *)
(***************************************************************************)
CONSTANTS
  Events,     \* occurrences of events
  Exclusive   \* those of another type than user login

VARIABLE fate \* fate[e] \in {"pending", "processing", "done", "refused"}

Processing == {e \in Events : fate[e] = "processing"}

Init == fate = [e \in Events |-> "pending"]

Refuse(e) ==
  /\ fate[e] = "pending"
  /\ fate' = [fate EXCEPT ![e] = "refused"]

Start(e) ==
  /\ fate[e] = "pending"
  /\ e \in Exclusive => Processing \cap Exclusive = {}
  /\ fate' = [fate EXCEPT ![e] = "processing"]

Finish(e) ==
  /\ fate[e] = "processing"
  /\ fate' = [fate EXCEPT ![e] = "done"]

Next == \E e \in Events : Refuse(e) \/ Start(e) \/ Finish(e)

Spec == Init /\ [][Next]_fate
=============================================================================
