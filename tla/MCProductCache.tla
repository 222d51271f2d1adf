--------------------------- MODULE MCProductCache ---------------------------
(* Instances of ProductCache for TLC.                                      *)
EXTENDS ProductCache, TLC

CONSTANTS a, b, script

\* Two products of two units; all three do not fit into the cache.
TwoUnits == a :> 2 @@ b :> 2 @@ script :> 1

Symmetry == Permutations({a, b})
=============================================================================
