--------------------------- MODULE MCHookRegistry ---------------------------
(* A small instance of HookRegistry: one name, two parameters whose keys      *)
(* differ in case, a template that refers to one of them and one that is      *)
(* never closed.                                                              *)
EXTENDS HookRegistry

Keys == {"ip", "IP"}
InUpperCase == [k \in Keys |-> "HOOK_PARAM_IP"]
Inherited == {"PATH", "HOOK_PARAM_IP"}

Required == [key |-> "ip", default |-> "none", required |-> TRUE]
Optional == [key |-> "ip", default |-> "none", required |-> FALSE]
Defaulted == [key |-> "IP", default |-> "default", required |-> TRUE]

Bans == <<<<Text>>, <<Text, Ref("ip")>>>>
Unclosed == <<<<Open>>, <<Ref("IP")>>>>

Creation(declared, mode, secret, template) ==
    [name |-> "ban", script |-> "inside", params |-> declared, mode |-> mode, secret |-> secret,
     template |-> [given |-> TRUE, is |-> template]]

SomeCreations ==
    {Creation(<<Required>>, "HMAC_ONLY", "set", Bans),
     Creation(<<Optional, Defaulted>>, "NONE", "set", <<>>),
     Creation(<<Required, Required>>, "CANONICAL_V1", "omitted", Unclosed),
     Creation(<<Defaulted>>, "HMAC_ONLY", "omitted", <<>>),
     Creation(<<Defaulted>>, "API_KEY_ONLY", "omitted", Bans),
     [Creation(<<>>, "NONE", "omitted", <<>>) EXCEPT !.script = "outside"]}

Update(mode, secret, given, template) ==
    [name |-> "omitted", script |-> "omitted", mode |-> mode, secret |-> secret,
     template |-> [given |-> given, is |-> template]]

SomeUpdates ==
    {Update("HMAC_ONLY", "omitted", FALSE, <<>>),
     Update("omitted", "clear", FALSE, <<>>),
     Update("omitted", "set", TRUE, Unclosed),
     Update("omitted", "omitted", TRUE, Bans)}

SomeDeclarations == {Optional, Defaulted}

SomeBodies ==
    {[form |-> "flat", map |-> m] : m \in UNION {[ks -> Json] : ks \in SUBSET Keys}}
    \cup {[form |-> f, map |-> m] : f \in {"wrapped", "wrapped null"},
                                    m \in [{"ip"} -> {"null", "scalar"}]}
    \cup {[form |-> f, map |-> <<>>] : f \in {"empty", "null", "malformed", "scalar", "wrapped other"}}

SomeMachines ==
    {[script |-> s, sudo |-> "fine"] : s \in Scripts} \cup {[script |-> "fine", sudo |-> s] : s \in Sudo}
=============================================================================
