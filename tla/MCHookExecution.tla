--------------------------- MODULE MCHookExecution ---------------------------
(* Small instances of HookExecution. *)
EXTENDS HookExecution, TLC

Symmetry == Permutations(Requests)
=============================================================================
