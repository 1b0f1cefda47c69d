---------------------------- MODULE MCReplayGuard ----------------------------
(* A small ReplayGuard: half-second ticks and a one-second window.          *)
EXTENDS ReplayGuard, TLC

CONSTANT Presented     \* the X-Timestamp every signature of this instance carries

MCTimestampOf == [s \in Sigs |-> Presented]
Symmetry == Permutations(Workers)
=============================================================================
