-------------------------- MODULE ReplayGuard_proofs --------------------------
(***************************************************************************)
(* Proofs about ReplayGuard, for every set of signatures and requests,     *)
(* every window, tick length and capacity.                                 *)
(***************************************************************************)
EXTENDS ReplayGuard, TLAPS

(* A timestamp validated at v went stale before v left the last second it   *)
(* covers; needs integer division, so it is settled once here.              *)
LEMMA SecondBound ==
    ASSUME NEW v \in Nat, NEW T \in Nat \ {0}, NEW k \in Int, v \div T <= k
    PROVE  v < (k + 1) * T
<1> DEFINE q == v \div T
           r == v % T
<1>1. q \in Int /\ r \in Int /\ r < T /\ v = T * q + r
  BY SMT
<1>2. q + 1 <= k + 1
  BY <1>1
<1>3. T * (q + 1) <= T * (k + 1)
  BY <1>1, <1>2, SMT
<1>4. v < T * (q + 1)
  BY <1>1, SMT
<1> QED
  BY <1>1, <1>3, <1>4, SMT

(* The window of ReplayGuard::new is positive. *)
LEMMA WindowType == Window \in Nat \ {0}
<1> DEFINE M == IF MaxAge > MaxWindow THEN MaxWindow ELSE MaxAge
<1>1. M \in Nat \ {0}
  BY GuardAssumption DEF GuardAssumption
<1>2. M * TicksPerSecond \in Nat \ {0}
  BY <1>1, GuardAssumption, SMT DEF GuardAssumption
<1> QED
  BY <1>2 DEF Window, Ledger!Window
LEMMA IntervalTypes == PruneInterval \in Nat /\ CapacityBackoff \in Nat
BY WindowType, GuardAssumption, SMT
   DEF PruneInterval, CapacityBackoff, GuardAssumption

-----------------------------------------------------------------------------
(* The two outcomes of the authoritative timestamp check. *)
Stamp(w) ==
    /\ Ledger!TimestampValid(sig[w], clock)
    /\ Goto(w, "body")
    /\ stamped' = [stamped EXCEPT ![w] = clock]
    /\ UNCHANGED <<clock, guard, sig, sampled, over>>

LEMMA ValidateCases ==
    ASSUME NEW w \in Workers, Validate(w)
    PROVE  Stamp(w) \/ (Finish(w) /\ UNCHANGED <<clock, guard>>)
BY Zenon DEF Validate, Stamp

(* The two outcomes of check_and_record: refused, or honoured. *)
LEMMA RecordCases ==
    ASSUME NEW w \in Workers, Record(w)
    PROVE  /\ phase[w] = "record"
           /\ Finish(w)
           /\ UNCHANGED <<clock, schedule>>
           /\ \/ Live(sig[w], sampled[w]) /\ UNCHANGED <<seen, accepted>>
              \/ ~Live(sig[w], sampled[w]) /\ Accept(w)
BY Zenon DEF Record

(* Type correctness: no step of a request leaves the map, the schedule or   *)
(* its own locals outside their types.                                      *)
LEMMA TypeStep == TypeOK /\ [Next]_vars => TypeOK'
<1> SUFFICES ASSUME TypeOK, [Next]_vars PROVE TypeOK'
  OBVIOUS
<1> USE WindowType, IntervalTypes, GuardAssumption DEF TypeOK, GuardAssumption, Phases, Goto, guard, locals
<1>1. CASE Tick
  BY <1>1 DEF Tick
<1>2. ASSUME NEW w \in Workers, NEW s \in Sigs, Prevalidate(w, s) PROVE TypeOK'
  BY <1>2 DEF Prevalidate
<1>3. ASSUME NEW w \in Workers, Validate(w) PROVE TypeOK'
  <2>1. CASE Stamp(w)
    BY <2>1 DEF Stamp
  <2>2. CASE Finish(w) /\ UNCHANGED <<clock, guard>>
    BY <2>2 DEF Finish
  <2> QED BY <1>3, <2>1, <2>2, ValidateCases
<1>4. ASSUME NEW w \in Workers, Abandon(w) PROVE TypeOK'
  BY <1>4 DEF Abandon, Finish
<1>5. ASSUME NEW w \in Workers, Sample(w) PROVE TypeOK'
  BY <1>5 DEF Sample
<1>6. ASSUME NEW w \in Workers, ReadLength(w) PROVE TypeOK'
  BY <1>6 DEF ReadLength
<1>7. ASSUME NEW w \in Workers, Reschedule(w) PROVE TypeOK'
  <2>1. schedule' \in [next : Nat, next_capacity : Nat]
    BY <1>7 DEF Reschedule
  <2>2. phase' \in [Workers -> Phases]
    BY <1>7 DEF Reschedule
  <2> QED
    BY <1>7, <2>1, <2>2 DEF Reschedule
<1>8. ASSUME NEW w \in Workers, Sweep(w) PROVE TypeOK'
  BY <1>8 DEF Sweep, Absent
<1>9. ASSUME NEW w \in Workers, Record(w) PROVE TypeOK'
  <2> DEFINE use == [stamped |-> stamped[w], sampled |-> sampled[w], recorded |-> clock]
  <2>1. Append(accepted[sig[w]], use) \in Seq(Ledger!Use)
    BY DEF Ledger!Use
  <2>2. Finish(w) /\ UNCHANGED <<clock, schedule>>
    BY <1>9, RecordCases
  <2>3. CASE UNCHANGED <<seen, accepted>>
    BY <2>2, <2>3 DEF Finish
  <2>4. CASE Accept(w)
    <3>1. accepted' \in [Sigs -> Seq(Ledger!Use)]
      BY <2>1, <2>4 DEF Accept
    <3>2. seen' \in [Sigs -> Nat]
      BY <2>4 DEF Accept
    <3> QED
      BY <2>2, <3>1, <3>2 DEF Finish
  <2> QED
    BY <1>9, <2>3, <2>4, RecordCases
<1>10. CASE UNCHANGED vars
  BY <1>10 DEF vars, guard, locals
<1> QED
  BY <1>1, <1>2, <1>3, <1>4, <1>5, <1>6, <1>7, <1>8, <1>9, <1>10 DEF Next

LEMMA TypeInit == Init => TypeOK
<1> SUFFICES ASSUME Init PROVE TypeOK
  OBVIOUS
<1>1. accepted \in [Sigs -> Seq(Ledger!Use)]
  BY DEF Init
<1> QED
  BY <1>1, IntervalTypes DEF Init, TypeOK, Absent, Phases

(* The guard's state keeps its types in every behaviour. *)
THEOREM TypeCorrect == Spec => []TypeOK
BY TypeInit, TypeStep, PTL DEF Spec
-----------------------------------------------------------------------------
Stamped == {"body", "length", "schedule", "sweep", "record"}
Sampled == {"length", "schedule", "sweep", "record"}

(* What a request's locals say about the past. *)
LocalsOK ==
    \A w \in Workers :
        /\ stamped[w] <= clock
        /\ sampled[w] <= clock
        /\ phase[w] \in Stamped => Ledger!TimestampValid(sig[w], stamped[w])
        /\ phase[w] \in Sampled => stamped[w] <= sampled[w]

(* Every honoured use was stamped, then sampled, then recorded. *)
UsesOK ==
    \A s \in Sigs : \A i \in DOMAIN accepted[s] :
        LET u == accepted[s][i]
        IN  /\ u.stamped <= u.sampled
            /\ u.sampled <= u.recorded
            /\ u.recorded <= clock
            /\ Ledger!TimestampValid(s, u.stamped)

(* A use inside its window is still in the map. *)
Remembered ==
    \A s \in Sigs : \A i \in DOMAIN accepted[s] :
        \/ accepted[s][i].sampled + Window <= clock
        \/ accepted[s][i].sampled + Window <= seen[s]

(* An entry of the map is the window of some use. *)
EntriesFromUses ==
    \A s \in Sigs : seen[s] # Absent =>
        \E i \in DOMAIN accepted[s] : accepted[s][i].sampled + Window = seen[s]

(* Two uses of one signature are a window apart. *)
Spaced ==
    \A s \in Sigs : \A i, j \in DOMAIN accepted[s] :
        i < j => accepted[s][i].sampled + Window <= accepted[s][j].recorded

Inv == TypeOK /\ LocalsOK /\ UsesOK /\ Remembered /\ EntriesFromUses /\ Spaced
(* The types of a recorded use's instants. *)
LEMMA UseType ==
    ASSUME TypeOK, NEW s \in Sigs, NEW i \in DOMAIN accepted[s]
    PROVE  /\ accepted[s][i] \in Ledger!Use
           /\ accepted[s][i].stamped \in Nat
           /\ accepted[s][i].sampled \in Nat
           /\ accepted[s][i].recorded \in Nat
<1>1. accepted[s][i] \in Ledger!Use
  BY DEF TypeOK
<1> QED
  BY <1>1 DEF Ledger!Use

LEMMA InvInit == Init => Inv
<1> SUFFICES ASSUME Init PROVE Inv
  OBVIOUS
<1>1. TypeOK
  BY TypeInit
<1>2. \A s \in Sigs : DOMAIN accepted[s] = {}
  BY DEF Init
<1> QED
  BY <1>1, <1>2 DEF Init, Inv, LocalsOK, UsesOK, Remembered, EntriesFromUses,
                    Spaced, Stamped, Sampled, Absent

(* The steps that touch neither the map nor the history keep what is said   *)
(* about them, time passing included.                                       *)
LEMMA HistoryKept ==
    ASSUME Inv, UNCHANGED <<accepted, seen>>, clock' \in Nat, clock <= clock'
    PROVE  UsesOK' /\ Remembered' /\ EntriesFromUses' /\ Spaced'
<1> USE WindowType DEF Inv, TypeOK
<1>1. \A s \in Sigs : \A i \in DOMAIN accepted[s] : accepted[s][i] \in Ledger!Use
  OBVIOUS
<1>2. UsesOK'
  BY <1>1 DEF UsesOK, Ledger!Use
<1>3. Remembered'
  BY <1>1 DEF Remembered, Ledger!Use
<1>4. EntriesFromUses'
  BY DEF EntriesFromUses
<1>5. Spaced'
  BY DEF Spaced
<1> QED
  BY <1>2, <1>3, <1>4, <1>5
(* A request that ends keeps the others' locals and resets its own. *)
LEMMA FinishKeepsLocals ==
    ASSUME Inv, NEW w \in Workers, Finish(w), UNCHANGED clock
    PROVE  LocalsOK'
BY DEF Inv, TypeOK, LocalsOK, Finish, Goto, Stamped, Sampled

(* A sweep at a sample in the past forgets only what has expired by now. *)
LEMMA SweepKeeps ==
    ASSUME Inv, NEW w \in Workers, Sweep(w)
    PROVE  Remembered' /\ EntriesFromUses'
<1> USE WindowType DEF Inv, TypeOK
<1>1. UNCHANGED <<clock, accepted>>
  BY DEF Sweep
<1>2. \A s \in Sigs : seen'[s] = IF seen[s] > sampled[w] THEN seen[s] ELSE 0
  BY DEF Sweep, Live, Absent
<1>3. sampled[w] <= clock /\ sampled[w] \in Nat
  BY DEF LocalsOK
<1>4. ASSUME NEW s \in Sigs, NEW i \in DOMAIN accepted[s]
      PROVE  \/ accepted[s][i].sampled + Window <= clock
             \/ accepted[s][i].sampled + Window <= seen'[s]
  <2>1. accepted[s][i].sampled \in Nat /\ seen[s] \in Nat
    BY UseType
  <2>2. \/ accepted[s][i].sampled + Window <= clock
        \/ accepted[s][i].sampled + Window <= seen[s]
    BY DEF Remembered
  <2> QED
    BY <1>2, <1>3, <2>1, <2>2
<1>5. Remembered'
  BY <1>1, <1>4 DEF Remembered
<1>6. EntriesFromUses'
  BY <1>1, <1>2 DEF EntriesFromUses, Absent
<1> QED
  BY <1>5, <1>6

(* An expired or missing entry means every earlier use is a window old. *)
LEMMA HonouredAfterWindow ==
    ASSUME Inv, NEW w \in Workers, ~Live(sig[w], sampled[w])
    PROVE  Ledger!Forgotten(sig[w], clock)
<1> USE WindowType DEF Inv, TypeOK
<1>1. ASSUME NEW i \in DOMAIN accepted[sig[w]]
      PROVE  accepted[sig[w]][i].sampled + Window <= clock
  <2>1. accepted[sig[w]][i].sampled \in Nat /\ seen[sig[w]] \in Nat
    <3>1. sig[w] \in Sigs
      OBVIOUS
    <3> QED BY <3>1, UseType
  <2>2. sampled[w] <= clock /\ sampled[w] \in Nat
    BY DEF LocalsOK
  <2>3. \/ accepted[sig[w]][i].sampled + Window <= clock
        \/ accepted[sig[w]][i].sampled + Window <= seen[sig[w]]
    BY DEF Remembered
  <2> QED
    BY <2>1, <2>2, <2>3 DEF Live
<1> QED
  BY <1>1 DEF Ledger!Forgotten, Window

(* An honoured use extends the history and the map together. *)
LEMMA AcceptKeeps ==
    ASSUME Inv, NEW w \in Workers, phase[w] = "record",
           ~Live(sig[w], sampled[w]), Accept(w), UNCHANGED clock
    PROVE  UsesOK' /\ Remembered' /\ EntriesFromUses' /\ Spaced'
<1> USE WindowType DEF Inv, TypeOK
<1> DEFINE s == sig[w]
           n == Len(accepted[s])
           use == [stamped |-> stamped[w], sampled |-> sampled[w], recorded |-> clock]
<1>1. /\ s \in Sigs /\ n \in Nat
      /\ accepted[s] \in Seq(Ledger!Use) /\ DOMAIN accepted[s] = 1..n
      /\ use \in Ledger!Use
  BY DEF Ledger!Use
<1>2. /\ DOMAIN accepted'[s] = 1..(n + 1)
      /\ accepted'[s][n + 1] = use
      /\ \A i \in 1..n : accepted'[s][i] = accepted[s][i]
  BY <1>1 DEF Accept
<1>3. \A r \in Sigs : r # s => accepted'[r] = accepted[r] /\ seen'[r] = seen[r]
  BY DEF Accept
<1>4. seen'[s] = sampled[w] + Window
  BY <1>1 DEF Accept
<1>5. \A i \in 1..n : accepted[s][i].sampled + Window <= clock
  BY <1>1, HonouredAfterWindow DEF Ledger!Forgotten, Window
<1>6. /\ stamped[w] <= sampled[w] /\ sampled[w] <= clock
      /\ Ledger!TimestampValid(s, stamped[w])
  BY DEF LocalsOK, Stamped, Sampled
<1>7. \A i \in 1..(n + 1) : i \in 1..n \/ i = n + 1
  BY <1>1
<1>8. UsesOK'
  <2> SUFFICES ASSUME NEW r \in Sigs, NEW i \in DOMAIN accepted'[r]
               PROVE  /\ accepted'[r][i].stamped <= accepted'[r][i].sampled
                      /\ accepted'[r][i].sampled <= accepted'[r][i].recorded
                      /\ accepted'[r][i].recorded <= clock
                      /\ Ledger!TimestampValid(r, accepted'[r][i].stamped)
    BY DEF UsesOK
  <2>1. CASE r = s /\ i = n + 1
    BY <1>2, <1>6, <2>1
  <2>2. CASE accepted'[r][i] = accepted[r][i] /\ i \in DOMAIN accepted[r]
    BY <2>2 DEF UsesOK
  <2> QED
    BY <1>1, <1>2, <1>3, <1>7, <2>1, <2>2
<1>9. Remembered'
  <2> SUFFICES ASSUME NEW r \in Sigs, NEW i \in DOMAIN accepted'[r]
               PROVE  \/ accepted'[r][i].sampled + Window <= clock
                      \/ accepted'[r][i].sampled + Window <= seen'[r]
    BY DEF Remembered
  <2>1. CASE r = s /\ i = n + 1
    BY <1>2, <1>4, <2>1
  <2>2. CASE r = s /\ i \in 1..n
    BY <1>2, <1>5, <2>2
  <2>3. CASE r # s
    BY <1>3, <2>3 DEF Remembered
  <2> QED
    BY <1>1, <1>2, <1>7, <2>1, <2>2, <2>3
<1>10. EntriesFromUses'
  <2> SUFFICES ASSUME NEW r \in Sigs, seen'[r] # Absent
               PROVE  \E i \in DOMAIN accepted'[r] :
                         accepted'[r][i].sampled + Window = seen'[r]
    BY DEF EntriesFromUses
  <2>1. CASE r = s
    <3>1. n + 1 \in DOMAIN accepted'[r] /\ accepted'[r][n + 1].sampled + Window = seen'[r]
      BY <1>1, <1>2, <1>4, <2>1
    <3> QED BY <3>1
  <2>2. CASE r # s
    BY <1>3, <2>2 DEF EntriesFromUses
  <2> QED
    BY <2>1, <2>2
<1>11. Spaced'
  <2>1. ASSUME NEW i \in 1..(n + 1), NEW j \in 1..(n + 1), i < j
        PROVE  accepted'[s][i].sampled + Window <= accepted'[s][j].recorded
    <3>1. i \in 1..n
      BY <1>1, <2>1
    <3>2. CASE j \in 1..n
      BY <1>1, <1>2, <2>1, <3>1, <3>2 DEF Spaced
    <3>3. CASE j = n + 1
      BY <1>1, <1>2, <1>5, <3>1, <3>3
    <3> QED
      BY <1>7, <3>2, <3>3
  <2> QED
    BY <1>2, <1>3, <2>1 DEF Spaced
<1> QED
  BY <1>8, <1>9, <1>10, <1>11
(* Every step of every request preserves the inductive invariant. *)
LEMMA InvStep == Inv /\ [Next]_vars => Inv'
<1> SUFFICES ASSUME Inv, [Next]_vars PROVE Inv'
  OBVIOUS
<1>1. TypeOK'
  BY TypeStep DEF Inv
<1> DEFINE History == UsesOK' /\ Remembered' /\ EntriesFromUses' /\ Spaced'
<1>2. SUFFICES LocalsOK' /\ History
  BY <1>1 DEF Inv
<1>3. CASE Tick
  <2>1. clock' \in Nat /\ clock <= clock' /\ UNCHANGED <<guard, phase, locals>>
    BY <1>3 DEF Tick, Inv, TypeOK
  <2>2. LocalsOK'
    BY <2>1 DEF LocalsOK, Inv, TypeOK, locals
  <2> QED
    BY <2>1, <2>2, HistoryKept DEF guard
<1>4. ASSUME UNCHANGED <<clock, accepted, seen>>, LocalsOK' PROVE LocalsOK' /\ History
  <2>1. clock' \in Nat /\ clock <= clock'
    BY <1>4 DEF Inv, TypeOK
  <2> QED
    BY <1>4, <2>1, HistoryKept
<1>5. ASSUME NEW w \in Workers, NEW s \in Sigs, Prevalidate(w, s)
      PROVE  LocalsOK' /\ History
  <2>1. LocalsOK'
    BY <1>5 DEF Prevalidate, Goto, LocalsOK, Inv, TypeOK, Stamped, Sampled
  <2> QED
    BY <1>4, <1>5, <2>1 DEF Prevalidate, guard
<1>6. ASSUME NEW w \in Workers, Validate(w) PROVE LocalsOK' /\ History
  <2>1. CASE Stamp(w)
    <3>1. LocalsOK'
      BY <2>1 DEF Stamp, Goto, LocalsOK, Inv, TypeOK, Stamped, Sampled
    <3> QED
      BY <1>4, <2>1, <3>1 DEF Stamp, guard
  <2>2. CASE Finish(w) /\ UNCHANGED <<clock, guard>>
    BY <1>4, <2>2, FinishKeepsLocals DEF guard
  <2> QED
    BY <1>6, <2>1, <2>2, ValidateCases
<1>7. ASSUME NEW w \in Workers, Abandon(w) PROVE LocalsOK' /\ History
  BY <1>4, <1>7, FinishKeepsLocals DEF Abandon, guard
<1>8. ASSUME NEW w \in Workers, Sample(w) PROVE LocalsOK' /\ History
  <2>1. LocalsOK'
    BY <1>8 DEF Sample, Goto, LocalsOK, Inv, TypeOK, Stamped, Sampled
  <2> QED
    BY <1>4, <1>8, <2>1 DEF Sample, guard
<1>9. ASSUME NEW w \in Workers, ReadLength(w) PROVE LocalsOK' /\ History
  <2>1. LocalsOK'
    BY <1>9 DEF ReadLength, Goto, LocalsOK, Inv, TypeOK, Stamped, Sampled
  <2> QED
    BY <1>4, <1>9, <2>1 DEF ReadLength, guard
<1>10. ASSUME NEW w \in Workers, Reschedule(w) PROVE LocalsOK' /\ History
  <2>1. /\ phase[w] = "schedule"
        /\ Goto(w, "sweep") \/ Goto(w, "record")
        /\ UNCHANGED <<clock, accepted, seen, locals>>
    BY <1>10, Zenon DEF Reschedule
  <2>2. LocalsOK'
    BY <2>1 DEF Goto, LocalsOK, Inv, TypeOK, Stamped, Sampled, locals
  <2> QED
    BY <1>4, <2>1, <2>2
<1>11. ASSUME NEW w \in Workers, Sweep(w) PROVE LocalsOK' /\ History
  <2>1. LocalsOK'
    BY <1>11 DEF Sweep, Goto, LocalsOK, Inv, TypeOK, Stamped, Sampled, locals
  <2>2. UsesOK' /\ Spaced'
    BY <1>11 DEF Sweep, UsesOK, Spaced, Inv
  <2> QED
    BY <1>11, <2>1, <2>2, SweepKeeps
<1>12. ASSUME NEW w \in Workers, Record(w) PROVE LocalsOK' /\ History
  <2>1. /\ phase[w] = "record"
        /\ Finish(w)
        /\ UNCHANGED clock
    BY <1>12, RecordCases
  <2>2. LocalsOK'
    BY <2>1, FinishKeepsLocals
  <2>3. CASE UNCHANGED <<seen, accepted>>
    BY <1>4, <2>1, <2>2, <2>3
  <2>4. CASE ~Live(sig[w], sampled[w]) /\ Accept(w)
    BY <2>1, <2>2, <2>4, AcceptKeeps
  <2> QED
    BY <1>12, <2>3, <2>4, RecordCases
<1>13. CASE UNCHANGED vars
  <2>1. LocalsOK'
    BY <1>13 DEF vars, locals, LocalsOK, Inv
  <2> QED
    BY <1>4, <1>13, <2>1 DEF vars, guard
<1> QED
  BY <1>3, <1>5, <1>6, <1>7, <1>8, <1>9, <1>10, <1>11, <1>12, <1>13 DEF Next

(* The inductive invariant holds throughout. *)
THEOREM InvHolds == Spec => []Inv
BY InvInit, InvStep, PTL DEF Spec

-----------------------------------------------------------------------------
(* After a first use at least a second past its timestamp, only a request   *)
(* validated before that use was forgotten can reuse the signature.         *)
THEOREM StragglerOnly == Spec => []ReplayNeedsStraggler
<1>1. Inv => ReplayNeedsStraggler
  <2> SUFFICES ASSUME Inv, NEW s \in Sigs,
                      NEW i \in DOMAIN accepted[s], NEW j \in DOMAIN accepted[s],
                      i < j, MaxAge <= MaxWindow,
                      accepted[s][i].sampled >= (TimestampOf[s] + 1) * TicksPerSecond
               PROVE  /\ accepted[s][j].stamped < accepted[s][i].sampled + Window
                      /\ accepted[s][i].sampled + Window <= accepted[s][j].recorded
    BY DEF ReplayNeedsStraggler
  <2> DEFINE T == TicksPerSecond
             first == accepted[s][i].sampled
             v == accepted[s][j].stamped
  <2>1. /\ TimestampOf[s] \in Nat /\ MaxAge \in Nat /\ T \in Nat \ {0}
        /\ first \in Nat /\ v \in Nat
    BY GuardAssumption, UseType DEF GuardAssumption, Inv
  <2>2. Window = MaxAge * T
    BY <2>1, GuardAssumption DEF Window, Ledger!Window, GuardAssumption
  <2>3. v \div T <= TimestampOf[s] + MaxAge
    <3>1. Ledger!TimestampValid(s, v)
      BY DEF Inv, UsesOK
    <3>2. v \div T - TimestampOf[s] <= MaxAge
      BY <3>1 DEF Ledger!TimestampValid, Ledger!Second
    <3>3. v \div T \in Int
      BY <2>1
    <3> QED
      BY <2>1, <3>2, <3>3
  <2>4. v < ((TimestampOf[s] + MaxAge) + 1) * T
    <3> DEFINE k == TimestampOf[s] + MaxAge
    <3>1. k \in Int /\ v \div T <= k
      BY <2>1, <2>3
    <3> HIDE DEF k, v, T
    <3>2. v < (k + 1) * T
      BY <2>1, <3>1, SecondBound
    <3> QED
      BY <3>2 DEF k
  <2>5. ((TimestampOf[s] + MaxAge) + 1) * T = (TimestampOf[s] + 1) * T + MaxAge * T
    BY <2>1, SMT
  <2>6. v < first + Window
    BY <2>1, <2>2, <2>4, <2>5
  <2>7. first + Window <= accepted[s][j].recorded
    BY DEF Inv, Spaced
  <2> QED
    BY <2>6, <2>7
<1> QED
  BY <1>1, InvHolds, PTL

(* A refusal always has a use inside its window behind it. *)
THEOREM RefusalsJustified == Spec => RefusalJustified
<1> DEFINE A == \A w \in Workers :
                  (phase[w] = "record" /\ phase'[w] = "idle" /\ accepted' = accepted)
                  => \E i \in DOMAIN accepted[sig[w]] :
                        accepted[sig[w]][i].sampled + Window > sampled[w]
<1>1. Inv /\ [Next]_vars => [A]_vars
  <2> SUFFICES ASSUME Inv, Next, NEW w \in Workers,
                      phase[w] = "record", phase'[w] = "idle", accepted' = accepted
               PROVE  \E i \in DOMAIN accepted[sig[w]] :
                        accepted[sig[w]][i].sampled + Window > sampled[w]
    OBVIOUS
  <2> USE DEF Inv, TypeOK
  <2>1. Record(w)
    <3>1. ASSUME NEW x \in Workers, x # w
          PROVE  ~(Goto(x, "idle") \/ Goto(x, "lookup") \/ Goto(x, "body") \/ Goto(x, "length")
                    \/ Goto(x, "schedule") \/ Goto(x, "sweep") \/ Goto(x, "record"))
      BY <3>1 DEF Goto
    <3> QED
      BY <3>1 DEF Next, Tick, Prevalidate, Validate, Abandon, Sample, ReadLength,
                  Reschedule, Sweep, Record, Finish, Goto, guard, locals
  <2>2. sig[w] \in Sigs
    OBVIOUS
  <2>3. Live(sig[w], sampled[w])
    <3>1. ~Accept(w)
      <4> SUFFICES ASSUME Accept(w) PROVE FALSE
        OBVIOUS
      <4>1. Len(accepted'[sig[w]]) = Len(accepted[sig[w]]) + 1
        BY <2>2 DEF Accept, Ledger!Use
      <4> QED BY <2>2, <4>1
    <3> QED BY <2>1, <3>1, RecordCases
  <2>4. seen[sig[w]] > sampled[w] /\ sampled[w] \in Nat /\ seen[sig[w]] \in Nat
    BY <2>2, <2>3 DEF Live
  <2>5. seen[sig[w]] # Absent
    BY <2>4 DEF Absent
  <2> QED
    BY <2>2, <2>4, <2>5 DEF EntriesFromUses
<1> QED
  BY <1>1, InvHolds, PTL DEF Spec, RefusalJustified

(* The guard implements the plain ledger of uses. *)
THEOREM GuardImplementsLedger == Spec => ImplementsLedger
<1>1. Init => Ledger!Init
  BY DEF Init, Ledger!Init
<1>2. Inv /\ [Next]_vars => [Ledger!Next]_(Ledger!ledgerVars)
  <2> SUFFICES ASSUME Inv, [Next]_vars
               PROVE  Ledger!Next \/ UNCHANGED <<clock, accepted>>
    BY DEF Ledger!ledgerVars
  <2>1. CASE Tick
    BY <2>1 DEF Tick, Ledger!Next, Ledger!Tick, guard
  <2>2. ASSUME NEW w \in Workers, Record(w)
        PROVE  Ledger!Next \/ UNCHANGED <<clock, accepted>>
    <3>1. CASE ~Live(sig[w], sampled[w]) /\ Accept(w)
      <4>1. phase[w] = "record" /\ UNCHANGED clock
        BY <2>2, RecordCases
      <4>2. /\ stamped[w] \in 0..clock
            /\ sampled[w] \in stamped[w]..clock
            /\ Ledger!TimestampValid(sig[w], stamped[w])
        BY <4>1 DEF Inv, TypeOK, LocalsOK, Stamped, Sampled
      <4>3. Ledger!Forgotten(sig[w], clock)
        BY <3>1, HonouredAfterWindow
      <4>4. sig[w] \in Sigs
        BY DEF Inv, TypeOK
      <4>5. Ledger!Honour(sig[w])
        BY <3>1, <4>1, <4>2, <4>3 DEF Ledger!Honour, Accept
      <4> QED
        BY <4>4, <4>5 DEF Ledger!Next
    <3> QED
      BY <2>2, <3>1, RecordCases
  <2>3. ASSUME NEW w \in Workers, NEW s \in Sigs, Prevalidate(w, s)
        PROVE  UNCHANGED <<clock, accepted>>
    BY <2>3 DEF Prevalidate, guard
  <2>4. ASSUME NEW w \in Workers,
               \/ Validate(w) \/ Abandon(w) \/ Sample(w) \/ ReadLength(w)
               \/ Reschedule(w) \/ Sweep(w)
        PROVE  UNCHANGED <<clock, accepted>>
    BY <2>4, Zenon DEF Validate, Abandon, Sample, ReadLength, Reschedule, Sweep, guard
  <2>5. CASE UNCHANGED vars
    BY <2>5 DEF vars, guard
  <2> QED
    BY <2>1, <2>2, <2>3, <2>4, <2>5 DEF Next
<1> QED
  BY <1>1, <1>2, InvHolds, PTL DEF Spec, ImplementsLedger, Ledger!Spec
=============================================================================
