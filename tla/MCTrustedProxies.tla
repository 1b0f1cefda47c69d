-------------------------- MODULE MCTrustedProxies --------------------------
(* A small instance of TrustedProxies: two names, one literal entry. *)
EXTENDS TrustedProxies

CONSTANTS h1, h2, a1, a2

NamesInOrder == <<h1, h2>>

(* A failed lookup, and a container at one of two addresses. *)
Lookups == {{}, {a1}, {a2}}
=============================================================================
