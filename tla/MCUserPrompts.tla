--------------------------- MODULE MCUserPrompts ---------------------------
(* Instances of UserPrompts for TLC.                                       *)
EXTENDS UserPrompts, TLC

CONSTANTS p1, p2, onDemand, sync

\* An event with actions and a passive one.
TwoNames == p1 :> onDemand @@ p2 :> sync
NoHour == -1
=============================================================================
