---------------------------- MODULE MCMasterPin ----------------------------
(* A small instance of MasterPin: two replicas and an old database. *)
EXTENDS MasterPin

(* A good environment, one with a fixed master key, and one per refusal. *)
Environments ==
    {[proxies |-> TRUE, initial |-> "unset", cipher |-> TRUE],
     [proxies |-> TRUE, initial |-> "hex", cipher |-> TRUE],
     [proxies |-> FALSE, initial |-> "unset", cipher |-> TRUE],
     [proxies |-> TRUE, initial |-> "empty", cipher |-> TRUE],
     [proxies |-> TRUE, initial |-> "unset", cipher |-> FALSE]}

Upgraded == {1, 2}
=============================================================================
