--------------------------- MODULE SignatureLedger ---------------------------
(***************************************************************************)
(* What the anti-replay layer promises, with no map, no sweeps and no      *)
(* locks: a ledger of the uses of each signature.  A use was stamped       *)
(* (its timestamp found inside the window), then sampled (the guard read   *)
(* the monotonic clock), then recorded.  The promise is that a signature   *)
(* is honoured again only once every earlier use of it is at least one     *)
(* memory Window in the past.  ReplayGuard implements this module.         *)
(*                                                                         *)
(* Time is counted in ticks; X-Timestamp is in whole seconds, so one       *)
(* second is TicksPerSecond ticks and Utc::now().timestamp() truncates.    *)
(***************************************************************************)
EXTENDS Integers, Sequences

CONSTANTS
    Sigs,            \* authentic CANONICAL_V1 signatures, one per (key, digest)
    TimestampOf,     \* [Sigs -> Nat]: the X-Timestamp (seconds) bound into each
    MaxAge,          \* signature_max_age_seconds, at least 1 after from_env's clamp
    MaxWindow,       \* the 3600 of ReplayGuard::new's clamp
    TicksPerSecond,  \* resolution of the monotonic clock below one second
    MaxTime          \* bound on the clock

VARIABLES
    clock,     \* ticks since the process started
    accepted   \* [Sigs -> Seq(Use)]: every use that was honoured, in order

ledgerVars == <<clock, accepted>>

Use == [stamped : Nat, sampled : Nat, recorded : Nat]

(* ReplayGuard::new: window_seconds.clamp(1, 3600), in ticks. *)
Window == (IF MaxAge > MaxWindow THEN MaxWindow ELSE MaxAge) * TicksPerSecond

Second(t) == t \div TicksPerSecond

(* validate_timestamp: |now - presented| > max_age is refused, both ways.   *)
TimestampValid(s, t) ==
    /\ Second(t) - TimestampOf[s] <= MaxAge
    /\ TimestampOf[s] - Second(t) <= MaxAge

(* Every earlier use of s has left the guard's memory by time t. *)
Forgotten(s, t) ==
    \A i \in DOMAIN accepted[s] : accepted[s][i].sampled + Window <= t

-----------------------------------------------------------------------------
Init ==
    /\ clock = 0
    /\ accepted = [s \in Sigs |-> <<>>]

(* The bounded passage of time. *)
Tick ==
    /\ clock < MaxTime
    /\ clock' = clock + 1
    /\ UNCHANGED accepted

Honour(s) ==
    \E v \in 0..clock : \E n \in v..clock :
        /\ TimestampValid(s, v)
        /\ Forgotten(s, clock)
        /\ accepted' = [accepted EXCEPT ![s] =
                Append(@, [stamped |-> v, sampled |-> n, recorded |-> clock])]
        /\ UNCHANGED clock

Next == Tick \/ \E s \in Sigs : Honour(s)

Spec == Init /\ [][Next]_ledgerVars
=============================================================================
