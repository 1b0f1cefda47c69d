--------------------------- MODULE MCAccessControl ---------------------------
(* AccessControl on a handful of keys and one hook. *)
EXTENDS AccessControl, TLC

(* Keys that were not minted by the master are interchangeable. *)
Symmetry == Permutations(Keys \ (Parents \cup {Master})) \cup Permutations(Workers)
=============================================================================
