--------------------------- MODULE MCControlPipe ----------------------------
(* Instances of ControlPipe for TLC.                                       *)
EXTENDS ControlPipe, TLC

CONSTANTS c1, c2, s, l, m

Symmetry == Permutations(Clients)
=============================================================================
