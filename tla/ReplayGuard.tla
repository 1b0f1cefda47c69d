----------------------------- MODULE ReplayGuard -----------------------------
(***************************************************************************)
(* The anti-replay path of a signed request: the two timestamp checks and  *)
(* the body read of middleware::authenticate_bearer_key, then              *)
(* ReplayGuard::check_and_record with its amortised sweep.  The guard      *)
(* samples the clock once and then enters four separate critical sections  *)
(* (length, schedule, retain, record), so other requests run in between    *)
(* with older or newer samples.                                            *)
(*                                                                         *)
(* The wall clock of X-Timestamp and the monotonic clock of the guard are  *)
(* one clock here.  A poisoned mutex is left out: nothing in the sections  *)
(* panics.                                                                 *)
(***************************************************************************)
EXTENDS Integers, Sequences, FiniteSets

CONSTANTS
    Sigs, TimestampOf, MaxAge, MaxWindow, TicksPerSecond, MaxTime,
    Workers,           \* requests that can be in flight at once
    MaxTracked,        \* MAX_TRACKED_SIGNATURES
    PruneDivisor,      \* PRUNE_INTERVAL_DIVISOR
    CapacityDivisor    \* CAPACITY_BACKOFF_DIVISOR

VARIABLES
    clock, accepted,   \* as in SignatureLedger; accepted is a history variable
    seen,              \* [Sigs -> Nat]: when the entry expires, Absent if none
    schedule,          \* PruneSchedule
    phase,             \* [Workers -> Phases]: where each request has got to
    sig,               \* [Workers -> Sigs]: the signature it presents
    stamped,           \* [Workers -> Nat]: when its timestamp was validated
    sampled,           \* [Workers -> Nat]: check_and_record's now
    over               \* [Workers -> BOOLEAN]: prune_if_due's over_capacity

guard == <<accepted, seen, schedule>>
locals == <<sig, stamped, sampled, over>>
vars == <<clock, guard, phase, locals>>

Ledger == INSTANCE SignatureLedger WITH clock <- clock, accepted <- accepted

ASSUME GuardAssumption ==
    /\ TimestampOf \in [Sigs -> Nat]
    /\ MaxAge \in Nat \ {0}
    /\ MaxWindow \in Nat \ {0}
    /\ TicksPerSecond \in Nat \ {0}
    /\ MaxTime \in Nat
    /\ MaxTracked \in Nat \ {0}
    /\ PruneDivisor \in Nat \ {0}
    /\ CapacityDivisor \in Nat \ {0}

Window == Ledger!Window
PruneInterval == Window \div PruneDivisor
CapacityBackoff == Window \div CapacityDivisor

(* An expiry is at least Window > 0, so 0 can stand for "no entry". *)
Absent == 0

Phases == {"idle", "lookup", "body", "length", "schedule", "sweep", "record"}

Live(s, t) == seen[s] > t

Tracked == {s \in Sigs : seen[s] # Absent}

Goto(w, p) == phase' = [phase EXCEPT ![w] = p]

(* The request is answered, or dropped, and its locals are gone. *)
Finish(w) ==
    /\ Goto(w, "idle")
    /\ stamped' = [stamped EXCEPT ![w] = 0]
    /\ sampled' = [sampled EXCEPT ![w] = 0]
    /\ over' = [over EXCEPT ![w] = FALSE]
    /\ UNCHANGED sig

TypeOK ==
    /\ clock \in Nat
    /\ accepted \in [Sigs -> Seq(Ledger!Use)]
    /\ seen \in [Sigs -> Nat]
    /\ schedule \in [next : Nat, next_capacity : Nat]
    /\ phase \in [Workers -> Phases]
    /\ sig \in [Workers -> Sigs]
    /\ stamped \in [Workers -> Nat]
    /\ sampled \in [Workers -> Nat]
    /\ over \in [Workers -> BOOLEAN]

(* check_and_record's insert: remembered for a window from the sample. *)
Accept(w) ==
    /\ seen' = [seen EXCEPT ![sig[w]] = sampled[w] + Window]
    /\ accepted' = [accepted EXCEPT ![sig[w]] =
            Append(@, [stamped |-> stamped[w], sampled |-> sampled[w],
                       recorded |-> clock])]

-----------------------------------------------------------------------------
(* Plausible bugs of the steps below, used to check that the properties     *)
(* notice them; no specification takes them.                                *)

(* The authoritative window check dropped in favour of the pre-check. *)
ValidateIgnoringWindow(w) ==
    /\ phase[w] = "lookup"
    /\ Goto(w, "body")
    /\ stamped' = [stamped EXCEPT ![w] = clock]
    /\ UNCHANGED <<clock, guard, sig, sampled, over>>

(* The next sweep scheduled on the wrong side of now. *)
RescheduleBackwards(w) ==
    /\ phase[w] = "schedule"
    /\ schedule' = [schedule EXCEPT !.next = sampled[w] - PruneInterval]
    /\ Goto(w, "sweep")
    /\ UNCHANGED <<clock, accepted, seen, locals>>

(* A map at its ceiling flushed instead of being allowed to grow. *)
SweepFlushingAtCapacity(w) ==
    /\ phase[w] = "sweep"
    /\ seen' = [s \in Sigs |-> IF Live(s, sampled[w]) /\ ~over[w]
                               THEN seen[s] ELSE Absent]
    /\ Goto(w, "record")
    /\ UNCHANGED <<clock, accepted, schedule, locals>>

(* expires_at >= now instead of expires_at > now. *)
RecordRefusingAtExpiry(w) ==
    /\ phase[w] = "record"
    /\ IF seen[sig[w]] # Absent /\ seen[sig[w]] >= sampled[w]
          THEN UNCHANGED <<seen, accepted>>
          ELSE Accept(w)
    /\ Finish(w)
    /\ UNCHANGED <<clock, schedule>>

-----------------------------------------------------------------------------
(* ReplayGuard::new: the routine sweep is one interval away, the capacity   *)
(* sweep is due at once.                                                    *)
Init ==
    /\ clock = 0
    /\ accepted = [s \in Sigs |-> <<>>]
    /\ seen = [s \in Sigs |-> Absent]
    /\ schedule = [next |-> PruneInterval, next_capacity |-> 0]
    /\ phase = [w \in Workers |-> "idle"]
    /\ sig \in [Workers -> Sigs]
    /\ stamped = [w \in Workers |-> 0]
    /\ sampled = [w \in Workers |-> 0]
    /\ over = [w \in Workers |-> FALSE]

Tick ==
    /\ clock < MaxTime
    /\ clock' = clock + 1
    /\ UNCHANGED <<guard, phase, locals>>

(* prevalidate_timestamp_header: a stale or forward-dated timestamp is      *)
(* refused before the key lookup and leaves no trace.                       *)
Prevalidate(w, s) ==
    /\ phase[w] = "idle"
    /\ Ledger!TimestampValid(s, clock)
    /\ Goto(w, "lookup")
    /\ sig' = [sig EXCEPT ![w] = s]
    /\ UNCHANGED <<clock, guard, stamped, sampled, over>>

(* The authoritative check, after the key row has been fetched. *)
Validate(w) ==
    /\ phase[w] = "lookup"
    /\ IF Ledger!TimestampValid(sig[w], clock)
          THEN /\ Goto(w, "body")
               /\ stamped' = [stamped EXCEPT ![w] = clock]
               /\ UNCHANGED <<sig, sampled, over>>
          ELSE Finish(w)
    /\ UNCHANGED <<clock, guard>>

(* The key does not exist, the client goes away while its body is awaited,  *)
(* the body is too large, or the digest does not verify: nothing recorded.  *)
Abandon(w) ==
    /\ phase[w] \in {"lookup", "body"}
    /\ Finish(w)
    /\ UNCHANGED <<clock, guard>>

(* The body is in and the digest verified: check_and_record reads the clock.*)
Sample(w) ==
    /\ phase[w] = "body"
    /\ Goto(w, "length")
    /\ sampled' = [sampled EXCEPT ![w] = clock]
    /\ UNCHANGED <<clock, guard, sig, stamped, over>>

(* prune_if_due, first section: is the map at its ceiling? *)
ReadLength(w) ==
    /\ phase[w] = "length"
    /\ Goto(w, "schedule")
    /\ over' = [over EXCEPT ![w] = Cardinality(Tracked) >= MaxTracked]
    /\ UNCHANGED <<clock, guard, sig, stamped, sampled>>

(* prune_if_due, second section: claim the sweep, or skip it. *)
Reschedule(w) ==
    LET now         == sampled[w]
        routineDue  == now >= schedule.next
        capacityDue == over[w] /\ now >= schedule.next_capacity
    IN  /\ phase[w] = "schedule"
        /\ IF routineDue \/ capacityDue
              THEN /\ schedule' =
                        [next |-> now + PruneInterval,
                         next_capacity |-> IF capacityDue THEN now + CapacityBackoff
                                           ELSE schedule.next_capacity]
                   /\ Goto(w, "sweep")
              ELSE /\ UNCHANGED schedule
                   /\ Goto(w, "record")
        /\ UNCHANGED <<clock, accepted, seen, locals>>

(* prune_if_due, third section: retain what has not expired at the sample;  *)
(* a map still at its ceiling is never flushed.                             *)
Sweep(w) ==
    /\ phase[w] = "sweep"
    /\ seen' = [s \in Sigs |-> IF Live(s, sampled[w]) THEN seen[s] ELSE Absent]
    /\ Goto(w, "record")
    /\ UNCHANGED <<clock, accepted, schedule, locals>>

(* check_and_record, last section: a live entry means a replay (401),       *)
(* anything else is overwritten and honoured.                               *)
Record(w) ==
    /\ phase[w] = "record"
    /\ IF Live(sig[w], sampled[w])
          THEN UNCHANGED <<seen, accepted>>
          ELSE Accept(w)
    /\ Finish(w)
    /\ UNCHANGED <<clock, schedule>>

Next ==
    \/ Tick
    \/ \E w \in Workers, s \in Sigs : Prevalidate(w, s)
    \/ \E w \in Workers :
          \/ Validate(w)
          \/ Abandon(w)
          \/ Sample(w)
          \/ ReadLength(w)
          \/ Reschedule(w)
          \/ Sweep(w)
          \/ Record(w)

Spec == Init /\ [][Next]_vars

-----------------------------------------------------------------------------
(* The guard with its map, sweeps, backoff and interleaved sections does    *)
(* nothing the plain ledger would not: check_and_record honours a signature *)
(* again only when every earlier use is at least one window in the past.    *)
ImplementsLedger == Ledger!Spec

(* A signature first used at least one whole second after its timestamp can *)
(* be honoured again only by a straggler: a request whose timestamp was     *)
(* validated while the first use was still remembered and whose body        *)
(* arrived after it was forgotten (middleware.rs awaits to_bytes between    *)
(* validate_timestamp and check_and_record).                                *)
ReplayNeedsStraggler ==
    \A s \in Sigs : \A i, j \in DOMAIN accepted[s] :
        LET first == accepted[s][i]
            again == accepted[s][j]
        IN  (/\ i < j
             /\ MaxAge <= MaxWindow
             /\ first.sampled >= (TimestampOf[s] + 1) * TicksPerSecond)
            => /\ again.stamped < first.sampled + Window
               /\ first.sampled + Window <= again.recorded

(* check_and_record refuses only a real replay: at the sampled instant some *)
(* earlier use of this very signature was still inside its window, whatever *)
(* sweeps and stale samples did to the map meanwhile.                       *)
RefusalJustified ==
    [][\A w \in Workers :
         (phase[w] = "record" /\ phase'[w] = "idle" /\ accepted' = accepted)
         => \E i \in DOMAIN accepted[sig[w]] :
               accepted[sig[w]][i].sampled + Window > sampled[w]]_vars

(* README.md:92-95: "within the window each CANONICAL_V1 signature is       *)
(* accepted exactly once and a resend is refused".  The code does not keep  *)
(* it: the memory is counted from the use, the validity from the timestamp. *)
SingleUse == \A s \in Sigs : Len(accepted[s]) <= 1
=============================================================================
