--------------------------- MODULE MCConfigCache ---------------------------
(* Instances of ConfigCache for TLC; products are interchangeable.         *)
EXTENDS ConfigCache, TLC

CONSTANTS a, b

Symmetry == Permutations(Products)
=============================================================================
