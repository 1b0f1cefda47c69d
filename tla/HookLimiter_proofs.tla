-------------------------- MODULE HookLimiter_proofs --------------------------
(***************************************************************************)
(* What HookExecution_proofs leaves out: the counting of permits, and what *)
(* the executions table says.  For every set of requests and keys, finite  *)
(* or not, and every bound.                                                *)
(***************************************************************************)
EXTENDS HookExecution_proofs, FiniteSetTheorems, SequenceTheorems

(* The columns and locals that Shape does not mention. *)
Columns ==
    /\ hook \in {"live", "trash", "gone"}
    /\ mode \in {"keyed", "hmac", "none"}
    /\ limit \in [Keys -> 0..MaxLimit]
    /\ limits \in [Keys -> SUBSET (1..MaxLimit)]
    /\ may \in [Keys -> BOOLEAN]
    /\ want \in [Requests -> 0..MaxLimit]
    /\ answer \in [Requests -> Answer]
    /\ admin \in 0..MaxAdmin

Arrays ==
    /\ permits \in [Keys -> Seq(1..MaxLimit)]
    /\ free \in [Keys -> Seq(0..MaxLimit)]
    /\ slot \in [Requests -> Nat]
    /\ holds \in [Requests -> BOOLEAN]

(* A request in flight was admitted under a limit its key has had. *)
Admitted ==
    /\ \A k \in Keys : limit[k] \in limits[k] \cup {0}
    /\ \A r \in Requests :
        /\ InFlight(r) /\ who[r] # Keyless => want[r] \in limits[who[r]]
        /\ pc[r] \in {"budget", "permit"} => who[r] # Keyless

(* A permit is held exactly from try_acquire to the end of execute_hook, and *)
(* belongs to a semaphore of the caller's key.                               *)
Executing == {"spawn", "wait", "kill", "drain", "insert"}
Custody ==
    \A r \in Requests :
        /\ holds[r] <=> pc[r] \in Executing /\ who[r] # Keyless
        /\ holds[r] \/ pc[r] = "permit" => slot[r] \in 1..Len(permits[who[r]])

(* Each semaphore was built for a limit of its key, the next one for another *)
(* limit, and its permits are free or held.                                  *)
Counted(k, i) ==
    /\ permits[k][i] \in limits[k]
    /\ IsFiniteSet(Holders(k, i))
    /\ free[k][i] + Cardinality(Holders(k, i)) = permits[k][i]
Semaphores ==
    \A k \in Keys :
        /\ Len(free[k]) = Len(permits[k])
        /\ \A i \in 1..Len(permits[k]) : Counted(k, i)
        /\ \A i \in 1..Len(permits[k]) : i > 1 => permits[k][i] # permits[k][i - 1]

LimiterInv == Columns /\ Arrays /\ Admitted /\ Custody /\ Semaphores

(* A row tells of a request that is over, once, and what became of it.       *)
Outcome ==
    \A r \in Requests :
        /\ pc[r] = "wait" => child[r] \in {"running", "succeeded", "failed"}
        /\ pc[r] \in PCs \ {"wait", "kill", "drain", "insert", "done"} => child[r] = "none"
        /\ pc[r] = "kill" => child[r] \in Child \ {"none"}
        /\ status[r] # "none" => pc[r] \in {"drain", "insert", "done"} /\ child[r] # "running"
        /\ status[r] = "SUCCESS" => child[r] = "succeeded"
        /\ status[r] = "FAILED" => child[r] \in {"none", "failed"}
        /\ status[r] = "TIMEOUT" => child[r] # "none"
Table ==
    /\ rows \subseteq [req : Requests, key : Keys \cup {Keyless}, status : Status]
    /\ \A row \in rows :
        /\ pc[row.req] = "done"
        /\ row.status = status[row.req]
        /\ row.key = who[row.req] \/ (row.key = Keyless /\ limit[who[row.req]] = 0)
    /\ \A x, y \in rows : x.req = y.req => x = y

HistoryInv == Outcome /\ Table
-----------------------------------------------------------------------------
(* One permit of one semaphore changes hands. *)

LEMMA Adjusted ==
    ASSUME NEW S, NEW s \in Seq(S), NEW i \in 1..Len(s), NEW v \in S
    PROVE  /\ [s EXCEPT ![i] = v] \in Seq(S)
           /\ Len([s EXCEPT ![i] = v]) = Len(s)
           /\ \A j \in 1..Len(s) : [s EXCEPT ![i] = v][j] = IF j = i THEN v ELSE s[j]
BY ExceptSeq

LEMMA Limits == MaxLimit \in Nat \ {0} /\ MaxAdmin \in Nat /\ Keyless \notin Keys
BY ExecutionAssumption DEF ExecutionAssumption

LEMMA SemaphoresKept ==
    ASSUME Semaphores, UNCHANGED limiter,
           \A q \in Requests : holds[q] => who'[q] = who[q],
           \A q \in Requests : who'[q] # who[q] => ~holds[q],
           \A k \in Keys : limits[k] \subseteq limits'[k]
    PROVE  Semaphores'
<1>1. ASSUME NEW k \in Keys, NEW i PROVE Holders(k, i)' = Holders(k, i)
  BY DEF Holders, limiter
<1> QED
  BY <1>1 DEF Semaphores, Counted, limiter

LEMMA ReleaseKeeps ==
    ASSUME Shape, Columns, Arrays, Custody, Semaphores, NEW r \in Requests, Release(r),
           UNCHANGED <<who, limits>>
    PROVE  /\ Arrays' /\ Semaphores'
           /\ holds' = [holds EXCEPT ![r] = FALSE] /\ UNCHANGED <<permits, slot>>
<1>0. holds' = [holds EXCEPT ![r] = FALSE] /\ UNCHANGED <<permits, slot>>
  BY DEF Release
<1>1. CASE ~holds[r]
  <2>1. holds' = holds
    BY <1>0, <1>1 DEF Arrays
  <2>2. UNCHANGED limiter
    BY <1>1, <2>1 DEF Release, limiter
  <2>3. Semaphores'
    BY <2>2, SemaphoresKept
  <2> QED
    BY <1>0, <2>2, <2>3 DEF Arrays, limiter
<1>2. CASE holds[r]
  <2>1. PICK k \in Keys, i \in Nat :
            /\ k = who[r] /\ i = slot[r]
            /\ i \in 1..Len(permits[k]) /\ i \in 1..Len(free[k])
    BY <1>2 DEF Custody, Shape, Semaphores, Arrays
  <2> DEFINE t == [free[k] EXCEPT ![i] = free[k][i] + 1]
  <2>2. r \in Holders(k, i)
    BY <1>2, <2>1 DEF Holders
  <2>3. Counted(k, i)
    BY <2>1 DEF Semaphores
  <2>4. /\ IsFiniteSet(Holders(k, i) \ {r})
        /\ Cardinality(Holders(k, i) \ {r}) = Cardinality(Holders(k, i)) - 1
        /\ Cardinality(Holders(k, i)) \in Nat
    BY <2>2, <2>3, FS_RemoveElement, FS_CardinalityType DEF Counted
  <2>5. Cardinality(Holders(k, i) \ {r}) \in Nat
    BY <2>4, FS_CardinalityType
  <2>6. free[k] \in Seq(0..MaxLimit) /\ permits[k] \in Seq(1..MaxLimit)
    BY <2>1 DEF Arrays
  <2>7. free[k][i] \in 0..MaxLimit /\ permits[k][i] \in 1..MaxLimit
    BY <2>1, <2>6, ElementOfSeq
  <2>8. free[k][i] + 1 \in 0..MaxLimit
    BY <2>3, <2>4, <2>5, <2>7, Limits DEF Counted
  <2>9. /\ t \in Seq(0..MaxLimit) /\ Len(t) = Len(free[k])
        /\ \A j \in 1..Len(free[k]) : t[j] = IF j = i THEN free[k][i] + 1 ELSE free[k][j]
    BY <2>1, <2>6, <2>8, Adjusted
  <2>10. free' = [free EXCEPT ![k] = t]
    BY <1>2, <2>1 DEF Release
  <2>11. Arrays'
    BY <1>0, <2>1, <2>9, <2>10 DEF Arrays
  <2>12. /\ Holders(k, i)' = Holders(k, i) \ {r}
         /\ \A kk, j : kk # k \/ j # i => Holders(kk, j)' = Holders(kk, j)
    BY <1>0, <2>1 DEF Holders, Arrays
  <2>13. free'[k] = t /\ \A kk \in Keys : kk # k => free'[kk] = free[kk]
    BY <2>1, <2>10 DEF Arrays
  <2>14. ASSUME NEW kk \in Keys, NEW j \in 1..Len(permits[kk]) PROVE Counted(kk, j)'
    <3>1. Counted(kk, j)
      BY <2>14 DEF Semaphores
    <3>2. CASE kk = k /\ j = i
      <4>1. free'[k][i] = free[k][i] + 1
        BY <2>1, <2>9, <2>13
      <4>2. permits'[k][i] = permits[k][i] /\ limits' = limits
        BY <1>0
      <4>3. permits[k][i] \in limits[k] /\ IsFiniteSet(Holders(k, i)')
        BY <2>3, <2>4, <2>12 DEF Counted
      <4>4. free'[k][i] + Cardinality(Holders(k, i)') = permits[k][i]
        BY <2>3, <2>4, <2>7, <2>12, <4>1 DEF Counted
      <4> QED
        BY <3>2, <4>2, <4>3, <4>4 DEF Counted
    <3>3. CASE kk # k \/ j # i
      <4>1. free'[kk][j] = free[kk][j]
        BY <2>9, <2>13, <2>14, <3>3 DEF Semaphores
      <4> QED
        BY <1>0, <2>12, <3>1, <3>3, <4>1 DEF Counted
    <3> QED
      BY <3>2, <3>3
  <2>15. ASSUME NEW kk \in Keys PROVE Len(free'[kk]) = Len(permits'[kk])
    BY <1>0, <2>9, <2>13, <2>15 DEF Semaphores
  <2> QED
    BY <1>0, <2>11, <2>14, <2>15 DEF Semaphores
<1> QED
  BY <1>1, <1>2 DEF Arrays

LEMMA TakeKeeps ==
    ASSUME Shape, Columns, Arrays, Admitted, Custody, Semaphores, NEW r \in Requests,
           pc[r] = "permit", free[who[r]][slot[r]] > 0,
           free' = [free EXCEPT ![who[r]][slot[r]] = @ - 1],
           holds' = [holds EXCEPT ![r] = TRUE],
           UNCHANGED <<permits, slot, who, limits>>
    PROVE  Arrays' /\ Semaphores'
<1>1. PICK k \in Keys, i \in Nat :
          /\ k = who[r] /\ i = slot[r]
          /\ i \in 1..Len(permits[k]) /\ i \in 1..Len(free[k])
  BY DEF Admitted, Custody, Shape, Semaphores, Arrays
<1> DEFINE t == [free[k] EXCEPT ![i] = free[k][i] - 1]
<1>2. r \notin Holders(k, i)
  BY DEF Holders, Custody, Executing
<1>3. Counted(k, i)
  BY <1>1 DEF Semaphores
<1>4. /\ IsFiniteSet(Holders(k, i) \cup {r})
      /\ Cardinality(Holders(k, i) \cup {r}) = Cardinality(Holders(k, i)) + 1
      /\ Cardinality(Holders(k, i)) \in Nat
  BY <1>2, <1>3, FS_AddElement, FS_CardinalityType DEF Counted
<1>5. free[k] \in Seq(0..MaxLimit) /\ permits[k] \in Seq(1..MaxLimit)
  BY <1>1 DEF Arrays
<1>6. free[k][i] \in 0..MaxLimit /\ permits[k][i] \in 1..MaxLimit
  BY <1>1, <1>5, ElementOfSeq
<1>7. free[k][i] - 1 \in 0..MaxLimit
  BY <1>1, <1>6, Limits
<1>8. /\ t \in Seq(0..MaxLimit) /\ Len(t) = Len(free[k])
      /\ \A j \in 1..Len(free[k]) : t[j] = IF j = i THEN free[k][i] - 1 ELSE free[k][j]
  BY <1>1, <1>5, <1>7, Adjusted
<1>9. free' = [free EXCEPT ![k] = t]
  BY <1>1
<1>10. Arrays'
  BY <1>1, <1>8, <1>9 DEF Arrays
<1>11. /\ Holders(k, i)' = Holders(k, i) \cup {r}
       /\ \A kk, j : kk # k \/ j # i => Holders(kk, j)' = Holders(kk, j)
  BY <1>1, <1>2 DEF Holders, Arrays
<1>12. free'[k] = t /\ \A kk \in Keys : kk # k => free'[kk] = free[kk]
  BY <1>1, <1>9 DEF Arrays
<1>13. ASSUME NEW kk \in Keys, NEW j \in 1..Len(permits[kk]) PROVE Counted(kk, j)'
  <2>1. Counted(kk, j)
    BY <1>13 DEF Semaphores
  <2>2. CASE kk = k /\ j = i
    <3>1. free'[k][i] = free[k][i] - 1
      BY <1>1, <1>8, <1>12
    <3>2. permits[k][i] \in limits[k] /\ IsFiniteSet(Holders(k, i)')
      BY <1>3, <1>4, <1>11 DEF Counted
    <3>3. free'[k][i] + Cardinality(Holders(k, i)') = permits[k][i]
      BY <1>3, <1>4, <1>6, <1>11, <3>1 DEF Counted
    <3> QED
      BY <2>2, <3>2, <3>3 DEF Counted
  <2>3. CASE kk # k \/ j # i
    <3>1. free'[kk][j] = free[kk][j]
      BY <1>8, <1>12, <1>13, <2>3 DEF Semaphores
    <3> QED
      BY <1>11, <2>1, <2>3, <3>1 DEF Counted
  <2> QED
    BY <2>2, <2>3
<1>14. ASSUME NEW kk \in Keys PROVE Len(free'[kk]) = Len(permits'[kk])
  BY <1>8, <1>12, <1>14 DEF Semaphores
<1> QED
  BY <1>10, <1>13, <1>14 DEF Semaphores

(* try_acquire finds the semaphore of its limit, or builds one. *)
LEMMA PickKeeps ==
    ASSUME Shape, Columns, Arrays, Admitted, Custody, Semaphores, NEW r \in Requests,
           PickBudget(r)
    PROVE  /\ Arrays' /\ Semaphores'
           /\ slot'[r] \in 1..Len(permits'[who[r]])
           /\ \A k \in Keys : Len(permits'[k]) >= Len(permits[k])
           /\ \A q \in Requests \ {r} : slot'[q] = slot[q]
<1>1. PICK k \in Keys : k = who[r] /\ want[r] \in limits[k]
  BY DEF PickBudget, Admitted, Shape, InFlight
<1>2. /\ pc[r] = "budget" /\ UNCHANGED <<holds, who, limits>>
      /\ ~holds[r]
  BY DEF PickBudget, catalogue, Custody, Executing
<1>3. want[r] \in 1..MaxLimit /\ want[r] \in 0..MaxLimit
  BY <1>1, Limits DEF Columns
<1>4. PICK n \in Nat : n = Len(permits[k])
  BY <1>1, LenProperties DEF Arrays
<1>5. permits[k] \in Seq(1..MaxLimit) /\ free[k] \in Seq(0..MaxLimit) /\ Len(free[k]) = n
  BY <1>1, <1>4 DEF Arrays, Semaphores
<1>6. CASE n = 0 \/ permits[k][n] # want[r]
  <2> DEFINE p == Append(permits[k], want[r])
             f == Append(free[k], want[r])
  <2>1. permits' = [permits EXCEPT ![k] = p] /\ free' = [free EXCEPT ![k] = f]
        /\ slot' = [slot EXCEPT ![r] = n + 1]
    BY <1>1, <1>4, <1>6 DEF PickBudget
  <2>2. /\ p \in Seq(1..MaxLimit) /\ Len(p) = n + 1 /\ p[n + 1] = want[r]
        /\ \A j \in 1..n : p[j] = permits[k][j]
        /\ f \in Seq(0..MaxLimit) /\ Len(f) = n + 1 /\ f[n + 1] = want[r]
        /\ \A j \in 1..n : f[j] = free[k][j]
    BY <1>3, <1>4, <1>5, AppendProperties
  <2> HIDE DEF p, f
  <2>3. Arrays'
    BY <1>2, <1>4, <2>1, <2>2 DEF Arrays
  <2>4. /\ permits'[k] = p /\ free'[k] = f
        /\ \A kk \in Keys : kk # k => permits'[kk] = permits[kk] /\ free'[kk] = free[kk]
    BY <2>1 DEF Arrays
  <2>5. \A kk, j : Holders(kk, j)' = Holders(kk, j)
    BY <1>2, <2>1 DEF Holders, Arrays
  <2>6. Holders(k, n + 1) = {}
    <3> SUFFICES ASSUME NEW q \in Requests, who[q] = k, slot[q] = n + 1, holds[q] PROVE FALSE
      BY DEF Holders
    <3>1. slot[q] \in 1..n
      BY <1>4 DEF Custody
    <3> QED
      BY <1>4, <3>1
  <2>7. ASSUME NEW kk \in Keys, NEW j \in 1..Len(permits'[kk]) PROVE Counted(kk, j)'
    <3>1. CASE kk = k /\ j = n + 1
      <4>1. free'[k][n + 1] = want[r] /\ permits'[k][n + 1] = want[r]
        BY <2>2, <2>4
      <4>2. IsFiniteSet(Holders(k, n + 1)') /\ Cardinality(Holders(k, n + 1)') = 0
        BY <2>5, <2>6, FS_EmptySet
      <4>3. free'[k][n + 1] + Cardinality(Holders(k, n + 1)') = permits'[k][n + 1]
        BY <1>3, <4>1, <4>2
      <4>4. permits'[k][n + 1] \in limits'[k]
        BY <1>1, <1>2, <4>1
      <4> QED
        BY <3>1, <4>2, <4>3, <4>4 DEF Counted
    <3>2. CASE ~(kk = k /\ j = n + 1)
      <4>1. j \in 1..Len(permits[kk]) /\ permits'[kk][j] = permits[kk][j] /\ free'[kk][j] = free[kk][j]
        <5>1. CASE kk = k
          <6>1. j \in 1..(n + 1) /\ j # n + 1
            BY <2>2, <2>4, <2>7, <3>2, <5>1
          <6>2. j \in 1..n
            BY <6>1
          <6> QED
            BY <1>4, <2>2, <2>4, <5>1, <6>2
        <5>2. CASE kk # k
          BY <2>4, <2>7, <5>2
        <5> QED
          BY <5>1, <5>2
      <4>2. Counted(kk, j)
        BY <4>1 DEF Semaphores
      <4> QED
        BY <1>2, <2>5, <4>1, <4>2 DEF Counted
    <3> QED
      BY <3>1, <3>2
  <2>8. ASSUME NEW kk \in Keys PROVE Len(free'[kk]) = Len(permits'[kk])
    BY <2>2, <2>4, <2>8 DEF Semaphores
  <2>9. ASSUME NEW kk \in Keys, NEW j \in 1..Len(permits'[kk]), j > 1
        PROVE  permits'[kk][j] # permits'[kk][j - 1]
    <3>1. CASE kk # k
      BY <2>4, <2>9, <3>1 DEF Semaphores
    <3>2. CASE kk = k /\ j = n + 1
      <4>1. n >= 1 /\ p[n] = permits[k][n] /\ j - 1 = n
        BY <1>4, <2>2, <2>9, <3>2
      <4> QED
        BY <1>6, <2>2, <2>4, <3>2, <4>1
    <3>3. CASE kk = k /\ j # n + 1
      <4>1. j \in 1..n /\ j - 1 \in 1..n
        BY <1>4, <2>2, <2>4, <2>9, <3>3
      <4>2. permits[k][j] # permits[k][j - 1]
        BY <1>4, <2>9, <4>1 DEF Semaphores
      <4>3. p[j] = permits[k][j] /\ p[j - 1] = permits[k][j - 1]
        BY <2>2, <4>1
      <4> QED
        BY <2>4, <3>3, <4>2, <4>3
    <3> QED
      BY <3>1, <3>2, <3>3
  <2>10. Semaphores'
    BY <2>7, <2>8, <2>9 DEF Semaphores
  <2>11. slot'[r] = n + 1 /\ \A q \in Requests \ {r} : slot'[q] = slot[q]
    BY <2>1 DEF Arrays
  <2>12. \A kk \in Keys : Len(permits'[kk]) >= Len(permits[kk])
    <3>1. \A kk \in Keys : Len(permits[kk]) \in Nat
      BY LenProperties DEF Arrays
    <3> QED
      BY <1>4, <2>2, <2>4, <3>1
  <2> QED
    BY <1>1, <1>4, <2>2, <2>3, <2>4, <2>10, <2>11, <2>12
<1>7. CASE ~(n = 0 \/ permits[k][n] # want[r])
  <2>1. UNCHANGED <<permits, free, holds>> /\ slot' = [slot EXCEPT ![r] = n]
    BY <1>1, <1>2, <1>4, <1>7 DEF PickBudget
  <2>2. Arrays'
    BY <2>1 DEF Arrays
  <2>3. \A kk, j : Holders(kk, j)' = Holders(kk, j)
    BY <1>2, <2>1 DEF Holders, Arrays
  <2>4. Semaphores'
    BY <1>2, <2>1, <2>3 DEF Semaphores, Counted
  <2>5. slot'[r] = n /\ n \in 1..n /\ \A q \in Requests \ {r} : slot'[q] = slot[q]
    BY <1>7, <2>1 DEF Arrays
  <2>6. \A kk \in Keys : Len(permits[kk]) \in Nat
    BY LenProperties DEF Arrays
  <2> QED
    BY <1>1, <1>4, <2>1, <2>2, <2>4, <2>5, <2>6
<1> QED
  BY <1>6, <1>7

-----------------------------------------------------------------------------
(* Every step keeps the limiter's invariant.                                 *)

(* A handler moves on; its permit and its key stay with it. *)
LEMMA MoveKeepsLimiter ==
    ASSUME Inv, LimiterInv, NEW r \in Requests, NEW p \in PCs \ {"idle", "permit"},
           Goto(r, p), UNCHANGED <<catalogue, limiter, who, want, answer>>,
           InFlight(r),
           p = "budget" => who[r] # Keyless,
           who[r] # Keyless => (p \in Executing <=> pc[r] \in Executing)
    PROVE  LimiterInv'
<1> USE DEF LimiterInv, Goto
<1>1. Columns' /\ Arrays'
  BY DEF Columns, Arrays, catalogue, limiter
<1>2. Semaphores'
  BY SemaphoresKept DEF catalogue
<1>3. Admitted'
  BY DEF Admitted, InFlight, Inv, Shape, catalogue
<1>4. Custody'
  BY DEF Custody, Inv, Shape, limiter
<1> QED
  BY <1>1, <1>2, <1>3, <1>4

(* A handler ends and gives back what it holds. *)
LEMMA EndKeepsLimiter ==
    ASSUME Inv, LimiterInv, NEW r \in Requests, NEW a \in Answer,
           Goto(r, "done"), Release(r), answer' = [answer EXCEPT ![r] = a],
           UNCHANGED <<catalogue, who, want>>
    PROVE  LimiterInv'
<1> USE DEF LimiterInv, Goto
<1>1. /\ Arrays' /\ Semaphores'
      /\ holds' = [holds EXCEPT ![r] = FALSE] /\ UNCHANGED <<permits, slot>>
  BY ReleaseKeeps DEF Inv, catalogue
<1>2. Columns'
  BY DEF Columns, catalogue
<1>3. Admitted'
  BY DEF Admitted, InFlight, Inv, Shape, catalogue
<1>4. Custody'
  BY <1>1 DEF Custody, Inv, Shape, Arrays, Executing
<1> QED
  BY <1>1, <1>2, <1>3, <1>4

LEMMA WriteKeepsLimiter ==
    ASSUME Inv, LimiterInv, Write, Columns',
           \A k \in Keys : limits[k] \subseteq limits'[k],
           \A k \in Keys : limit'[k] \in limits'[k] \cup {0}
    PROVE  LimiterInv'
<1> USE DEF LimiterInv, Write
<1>1. Arrays'
  BY DEF Arrays, limiter
<1>2. Semaphores'
  BY SemaphoresKept
<1>3. Admitted'
  BY DEF Admitted, InFlight, Inv, Shape
<1>4. Custody'
  BY DEF Custody, limiter
<1> QED
  BY <1>1, <1>2, <1>3, <1>4

LEMMA LimiterInit == Init => LimiterInv
<1> SUFFICES ASSUME Init PROVE LimiterInv
  OBVIOUS
<1> USE Limits DEF Init
<1>1. Columns
  BY DEF Columns, Answer
<1>2. Arrays
  <2>1. <<>> \in Seq(1..MaxLimit) /\ <<>> \in Seq(0..MaxLimit)
    OBVIOUS
  <2> QED
    BY <2>1 DEF Arrays
<1>3. Admitted
  BY DEF Admitted, InFlight
<1>4. Custody
  BY DEF Custody, Executing
<1>5. Semaphores
  BY DEF Semaphores
<1> QED
  BY <1>1, <1>2, <1>3, <1>4, <1>5 DEF LimiterInv

LEMMA LimiterStep == Inv /\ LimiterInv /\ [Next]_vars => LimiterInv'
<1> SUFFICES ASSUME Inv, LimiterInv, [Next]_vars PROVE LimiterInv'
  OBVIOUS
<1>p. {"guard", "prepare", "budget", "spawn", "wait", "kill", "drain", "insert"}
        \subseteq PCs \ {"idle", "permit"}
  BY DEF PCs
<1>a. {"refused", "ok", "error", "dropped"} \subseteq Answer
  BY DEF Answer
<1>0. ASSUME NEW r \in Requests, Refuse(r) PROVE LimiterInv'
  BY <1>0, <1>a, EndKeepsLimiter DEF Refuse
<1>1. ASSUME NEW r \in Requests, NEW k \in Keys, Authenticate(r, k) PROVE LimiterInv'
  <2> USE <1>1 DEF LimiterInv, Authenticate, Goto
  <2>0. ~holds[r]
    BY DEF Custody, Executing
  <2>1. Columns' /\ Arrays'
    BY DEF Columns, Arrays, catalogue, limiter
  <2>2. Semaphores'
    BY <2>0, SemaphoresKept DEF catalogue, Inv, Shape
  <2>3. Admitted'
    <3>1. limit[k] \in limits[k]
      BY DEF Admitted
    <3> QED
      BY <3>1 DEF Admitted, InFlight, Inv, Shape, Columns, catalogue
  <2>4. Custody'
    BY <2>0 DEF Custody, Inv, Shape, limiter, Executing
  <2> QED
    BY <2>1, <2>2, <2>3, <2>4
<1>2. ASSUME NEW r \in Requests, AdmitKeyless(r) PROVE LimiterInv'
  <2> USE <1>2 DEF LimiterInv, AdmitKeyless, Goto
  <2>0. who[r] = Keyless
    BY DEF Inv, WitnessOK
  <2>1. Columns' /\ Arrays'
    BY DEF Columns, Arrays, catalogue, limiter
  <2>2. Semaphores'
    BY SemaphoresKept DEF catalogue
  <2>3. Admitted'
    BY <2>0 DEF Admitted, InFlight, Inv, Shape, catalogue
  <2>4. Custody'
    BY <2>0 DEF Custody, Inv, Shape, limiter, Executing
  <2> QED
    BY <2>1, <2>2, <2>3, <2>4
<1>3. ASSUME NEW r \in Requests, ResolveHook(r) PROVE LimiterInv'
  <2>1. CASE Proceed(r, "guard")
    BY <1>3, <1>p, <2>1, MoveKeepsLimiter DEF ResolveHook, Proceed, InFlight, Executing
  <2> QED
    BY <1>0, <1>3, <2>1 DEF ResolveHook
<1>4. ASSUME NEW r \in Requests, GuardExecute(r) PROVE LimiterInv'
  <2>1. CASE Proceed(r, "prepare")
    BY <1>4, <1>p, <2>1, MoveKeepsLimiter DEF GuardExecute, Proceed, InFlight, Executing
  <2> QED
    BY <1>0, <1>4, <2>1 DEF GuardExecute
<1>5. ASSUME NEW r \in Requests, Prepare(r) PROVE LimiterInv'
  <2>1. CASE who[r] = Keyless /\ Proceed(r, "spawn")
    BY <1>5, <1>p, <2>1, MoveKeepsLimiter DEF Prepare, Proceed, InFlight
  <2>2. CASE who[r] # Keyless /\ Proceed(r, "budget")
    BY <1>5, <1>p, <2>2, MoveKeepsLimiter DEF Prepare, Proceed, InFlight, Executing
  <2> QED
    BY <1>0, <1>5, <2>1, <2>2 DEF Prepare
<1>6. ASSUME NEW r \in Requests, PickBudget(r) PROVE LimiterInv'
  <2>0. /\ pc[r] = "budget" /\ Goto(r, "permit")
        /\ UNCHANGED <<catalogue, holds, who, want, answer>>
    BY <1>6 DEF PickBudget
  <2> USE <2>0 DEF LimiterInv, Goto
  <2>1. /\ Arrays' /\ Semaphores'
        /\ slot'[r] \in 1..Len(permits'[who[r]])
        /\ \A k \in Keys : Len(permits'[k]) >= Len(permits[k])
        /\ \A q \in Requests \ {r} : slot'[q] = slot[q]
    BY <1>6, PickKeeps DEF Inv
  <2>2. Columns'
    BY DEF Columns, catalogue
  <2>3. Admitted'
    BY DEF Admitted, InFlight, Inv, Shape, catalogue
  <2>4. Custody'
    <3>1. ASSUME NEW q \in Requests, q # r, holds[q] \/ pc[q] = "permit"
          PROVE  slot'[q] \in 1..Len(permits'[who[q]])
      <4>1. who[q] \in Keys
        BY <3>1 DEF Custody, Admitted, Inv, Shape
      <4>2. Len(permits[who[q]]) \in Nat /\ Len(permits'[who[q]]) \in Nat
        BY <2>1, <4>1, LenProperties DEF Arrays
      <4>3. slot'[q] \in 1..Len(permits[who[q]])
        BY <2>1, <3>1 DEF Custody
      <4> QED
        BY <2>1, <4>1, <4>2, <4>3
    <3> QED
      BY <2>1, <3>1 DEF Custody, Inv, Shape, Executing
  <2> QED
    BY <2>1, <2>2, <2>3, <2>4
<1>7. ASSUME NEW r \in Requests, TakePermit(r) PROVE LimiterInv'
  <2>1. CASE /\ free[who[r]][slot[r]] > 0
             /\ free' = [free EXCEPT ![who[r]][slot[r]] = @ - 1]
             /\ holds' = [holds EXCEPT ![r] = TRUE]
             /\ Goto(r, "spawn")
             /\ UNCHANGED <<catalogue, permits, slot, who, want, answer>>
    <3> USE <1>7, <2>1 DEF LimiterInv, Goto
    <3>0. pc[r] = "permit" /\ who[r] # Keyless
      BY DEF TakePermit, Admitted
    <3>1. Arrays' /\ Semaphores'
      BY <3>0, TakeKeeps DEF Inv, catalogue
    <3>2. Columns'
      BY DEF Columns, catalogue
    <3>3. Admitted'
      BY <3>0 DEF Admitted, InFlight, Inv, Shape, catalogue
    <3>4. Custody'
      BY <3>0 DEF Custody, Inv, Shape, Arrays, Executing
    <3> QED
      BY <3>1, <3>2, <3>3, <3>4
  <2> QED
    BY <1>0, <1>7, <2>1 DEF TakePermit
<1>8. ASSUME NEW r \in Requests, Spawn(r) PROVE LimiterInv'
  <2>1. pc[r] = "spawn" /\ InFlight(r)
    BY <1>8 DEF Spawn, InFlight
  <2>2. CASE Goto(r, "insert") /\ UNCHANGED <<catalogue, limiter, who, want, answer>>
    BY <1>p, <2>1, <2>2, MoveKeepsLimiter DEF Executing
  <2>3. CASE Goto(r, "wait") /\ UNCHANGED <<catalogue, limiter, who, want, answer>>
    BY <1>p, <2>1, <2>3, MoveKeepsLimiter DEF Executing
  <2> QED
    BY <1>0, <1>8, <2>2, <2>3 DEF Spawn
<1>9. CASE /\ UNCHANGED <<catalogue, limiter, pc, who, want, answer>>
  <2> USE <1>9 DEF LimiterInv
  <2>1. Semaphores'
    BY SemaphoresKept DEF catalogue
  <2> QED
    BY <2>1 DEF Columns, Arrays, Admitted, Custody, InFlight, catalogue, limiter
<1>10. ASSUME NEW r \in Requests, WaitReturns(r) \/ Reap(r) PROVE LimiterInv'
  <2>1. /\ pc[r] \in {"wait", "kill"} /\ InFlight(r) /\ Goto(r, "drain")
        /\ UNCHANGED <<catalogue, limiter, who, want, answer>>
    BY <1>10 DEF WaitReturns, Reap, InFlight
  <2> QED
    BY <1>p, <2>1, MoveKeepsLimiter DEF Executing
<1>11. ASSUME NEW r \in Requests, TimeOut(r) PROVE LimiterInv'
  <2>1. /\ pc[r] = "wait" /\ InFlight(r) /\ Goto(r, "kill")
        /\ UNCHANGED <<catalogue, limiter, who, want, answer>>
    BY <1>11 DEF TimeOut, InFlight
  <2> QED
    BY <1>p, <2>1, MoveKeepsLimiter DEF Executing
<1>12. ASSUME NEW r \in Requests, Drain(r) PROVE LimiterInv'
  BY <1>12, <1>p, MoveKeepsLimiter DEF Drain, Proceed, InFlight, Executing
<1>13. ASSUME NEW r \in Requests, Insert(r) PROVE LimiterInv'
  <2>1. PICK a \in {"ok", "error"} : answer' = [answer EXCEPT ![r] = a]
    BY <1>13 DEF Insert
  <2> QED
    BY <1>13, <1>a, <2>1, EndKeepsLimiter DEF Insert
<1>14. ASSUME NEW r \in Requests, Disconnect(r) PROVE LimiterInv'
  BY <1>14, <1>a, EndKeepsLimiter DEF Disconnect
<1>15. ASSUME NEW k \in Keys, EditLimit(k) \/ DeleteKey(k) \/ SetPermission(k) PROVE LimiterInv'
  <2> USE <1>15 DEF EditLimit, DeleteKey, SetPermission, LimiterInv
  <2>0. Write
    OBVIOUS
  <2>1. admin' \in 0..MaxAdmin
    BY <2>0, Limits DEF Write, Columns
  <2>2. want' = want /\ answer' = answer
    BY <2>0 DEF Write
  <2>3. Columns'
    <3>1. limit' \in [Keys -> 0..MaxLimit] /\ limits' \in [Keys -> SUBSET (1..MaxLimit)]
      BY Limits DEF Columns
    <3>2. may' \in [Keys -> BOOLEAN]
      BY DEF Columns
    <3>3. hook' = hook /\ mode' = mode
      OBVIOUS
    <3> QED
      BY <2>1, <2>2, <3>1, <3>2, <3>3 DEF Columns
  <2>4. \A kk \in Keys : limits[kk] \subseteq limits'[kk]
    BY DEF Columns
  <2>5. \A kk \in Keys : limit'[kk] \in limits'[kk] \cup {0}
    <3>1. \A kk \in Keys : limit[kk] \in limits[kk] \cup {0}
      BY DEF Admitted
    <3>2. CASE EditLimit(k)
      BY <3>1, <3>2 DEF Columns
    <3>3. CASE DeleteKey(k)
      BY <3>1, <3>3 DEF Columns
    <3>4. CASE SetPermission(k)
      BY <3>1, <3>4
    <3> QED
      BY <3>2, <3>3, <3>4
  <2> QED
    BY <2>0, <2>3, <2>4, <2>5, WriteKeepsLimiter
<1>16. CASE SetMode \/ Trash \/ Restore \/ HardDelete \/ EraseRows
  <2> USE <1>16 DEF SetMode, Trash, Restore, HardDelete, EraseRows, LimiterInv
  <2>0. Write
    OBVIOUS
  <2>1. admin' \in 0..MaxAdmin
    BY <2>0, Limits DEF Write, Columns
  <2>2. want' = want /\ answer' = answer
    BY <2>0 DEF Write
  <2>3. Columns'
    BY <2>1, <2>2 DEF Columns
  <2>4. limits' = limits /\ limit' = limit
    OBVIOUS
  <2> QED
    BY <2>0, <2>3, <2>4, WriteKeepsLimiter DEF Admitted
<1>17. ASSUME NEW r \in Requests, Fork(r) \/ Exit(r) \/ StrayExit(r) PROVE LimiterInv'
  BY <1>9, <1>17 DEF Fork, Exit, StrayExit
<1>18. CASE UNCHANGED vars
  BY <1>9, <1>18 DEF vars
<1> QED
  BY <1>1, <1>2, <1>3, <1>4, <1>5, <1>6, <1>7, <1>8, <1>10, <1>11, <1>12, <1>13,
     <1>14, <1>15, <1>16, <1>17, <1>18, Zenon DEF Next, ServerStep

LEMMA LimiterHolds == Spec => []LimiterInv
BY LimiterInit, LimiterStep, InvHolds, PTL DEF Spec

-----------------------------------------------------------------------------
(* The executions table.                                                     *)

LEMMA OutcomeInit == Init => HistoryInv
BY DEF Init, HistoryInv, Outcome, Table, PCs

(* Rows and the requests they tell of stay as they are. *)
LEMMA TableKept ==
    ASSUME Inv, Table, rows' = rows, limit' = limit,
           NEW r \in Requests, pc[r] # "done",
           \A q \in Requests \ {r} : pc'[q] = pc[q] /\ status'[q] = status[q] /\ who'[q] = who[q]
    PROVE  Table'
BY DEF Table

LEMMA OutcomeStep == Inv /\ HistoryInv /\ [Next]_vars => Outcome'
<1> SUFFICES ASSUME Inv, HistoryInv, [Next]_vars PROVE Outcome'
  OBVIOUS
<1> USE DEF Inv, HistoryInv
<1>0. ASSUME NEW r \in Requests, NEW p \in {"kill", "done"}, NEW aim \in SUBSET Parts,
             "child" \in aim, NEW left \in SUBSET Parts, Kill(r, aim, left),
             Goto(r, p), UNCHANGED status, p = "kill" => pc[r] = "wait"
      PROVE  Outcome'
  <2>1. /\ \A q \in Requests \ {r} : child'[q] = child[q]
        /\ child'[r] = child[r] \/ (child[r] = "running" /\ child'[r] = "killed")
    BY <1>0, KillKeeps
  <2> QED
    BY <1>0, <2>1 DEF Goto, Outcome, Shape, PCs, Child
<1>1. ASSUME NEW r \in Requests, (\E k \in Keys : Authenticate(r, k)) \/ AdmitKeyless(r)
      PROVE  Outcome'
  BY <1>1 DEF Authenticate, AdmitKeyless, Goto, process, Outcome, Shape, PCs
<1>2. ASSUME NEW r \in Requests, NEW p \in {"guard", "prepare", "spawn", "budget", "insert", "permit"},
             Goto(r, p), UNCHANGED process,
             pc[r] \in PCs \ {"idle", "wait", "kill", "insert", "done"}, pc[r] = "drain" <=> p = "insert"
      PROVE  Outcome'
  BY <1>2 DEF Goto, process, Outcome, Shape, PCs
<1>3. ASSUME NEW r \in Requests, Goto(r, "done"), UNCHANGED process
      PROVE  Outcome'
  BY <1>3 DEF Goto, process, Outcome, Shape
<1>4. ASSUME NEW r \in Requests, ResolveHook(r) \/ GuardExecute(r) \/ Prepare(r) \/ Drain(r)
      PROVE  Outcome'
  BY <1>2, <1>3, <1>4 DEF ResolveHook, GuardExecute, Prepare, Drain, Proceed, Refuse, PCs
<1>5. ASSUME NEW r \in Requests, PickBudget(r) \/ TakePermit(r)
      PROVE  Outcome'
  <2>1. /\ pc[r] \in {"budget", "permit"} /\ UNCHANGED process
        /\ Goto(r, "permit") \/ Goto(r, "spawn") \/ Goto(r, "done")
    BY <1>5 DEF PickBudget, TakePermit, Refuse
  <2> QED
    BY <1>2, <1>3, <2>1 DEF PCs
<1>6. ASSUME NEW r \in Requests, Spawn(r)
      PROVE  Outcome'
  <2>1. CASE Refuse(r)
    BY <1>3, <2>1 DEF Refuse
  <2>2. CASE /\ status' = [status EXCEPT ![r] = "FAILED"] /\ Goto(r, "insert")
             /\ UNCHANGED <<child, stray, spared>>
    BY <1>6, <2>2 DEF Spawn, Goto, Outcome, Shape, PCs
  <2>3. CASE /\ child' = [child EXCEPT ![r] = "running"] /\ Goto(r, "wait")
             /\ UNCHANGED <<stray, spared, status>>
    BY <1>6, <2>3 DEF Spawn, Goto, Outcome, Shape, PCs
  <2> QED
    BY <1>6, <2>1, <2>2, <2>3 DEF Spawn
<1>7. ASSUME NEW r \in Requests, Fork(r) \/ Exit(r) \/ StrayExit(r)
      PROVE  Outcome'
  <2>1. CASE UNCHANGED <<child, status, pc>>
    BY <2>1 DEF Outcome
  <2>2. CASE Exit(r)
    <3>1. PICK e \in {"succeeded", "failed"} : child' = [child EXCEPT ![r] = e]
      BY <2>2 DEF Exit
    <3>2. child[r] = "running" /\ UNCHANGED <<status, pc>>
      BY <2>2 DEF Exit
    <3> QED
      BY <3>1, <3>2 DEF Outcome, Shape, PCs, Child
  <2> QED
    BY <1>7, <2>1, <2>2 DEF Fork, StrayExit
<1>8. ASSUME NEW r \in Requests, WaitReturns(r) \/ Reap(r) \/ TimeOut(r)
      PROVE  Outcome'
  <2>1. CASE WaitReturns(r) \/ Reap(r)
    BY <2>1 DEF WaitReturns, Reap, Goto, Outcome, Shape, PCs, Child
  <2>2. CASE TimeOut(r)
    BY <1>0, <2>2 DEF TimeOut, Parts
  <2> QED
    BY <1>8, <2>1, <2>2
<1>9. ASSUME NEW r \in Requests, Insert(r)
      PROVE  Outcome'
  BY <1>3, <1>9 DEF Insert
<1>10. ASSUME NEW r \in Requests, Disconnect(r)
      PROVE  Outcome'
  BY <1>10, <1>0 DEF Disconnect, Parts
<1>11. CASE UNCHANGED <<process, pc>>
  BY <1>11 DEF process, Outcome
<1>12. CASE Write \/ UNCHANGED vars
  BY <1>11, <1>12 DEF Write, vars
<1> QED
  BY <1>1, <1>4, <1>5, <1>6, <1>7, <1>8, <1>9, <1>10, <1>12, Zenon
     DEF Next, ServerStep, EditLimit, DeleteKey, SetPermission, SetMode, Trash, Restore,
         HardDelete, EraseRows

LEMMA TableStep == Inv /\ LimiterInv /\ HistoryInv /\ [Next]_vars => Table'
<1> SUFFICES ASSUME Inv, LimiterInv, HistoryInv, [Next]_vars PROVE Table'
  OBVIOUS
<1> USE DEF Inv, HistoryInv
<1>1. ASSUME NEW r \in Requests, (\E k \in Keys : Authenticate(r, k)) \/ AdmitKeyless(r)
      PROVE  Table'
  BY <1>1, TableKept DEF Authenticate, AdmitKeyless, Goto, process, Shape, catalogue
<1>2. ASSUME NEW r \in Requests, NEW p, Goto(r, p), pc[r] # "done",
             UNCHANGED <<catalogue, who, rows>>,
             \A q \in Requests \ {r} : status'[q] = status[q]
      PROVE  Table'
  BY <1>2, TableKept DEF Goto, Shape, catalogue
<1>3. ASSUME NEW r \in Requests,
             ResolveHook(r) \/ GuardExecute(r) \/ Prepare(r) \/ Drain(r) \/ PickBudget(r)
               \/ TakePermit(r) \/ Spawn(r) \/ TimeOut(r) \/ WaitReturns(r) \/ Reap(r)
               \/ Disconnect(r)
      PROVE  Table'
  <2>1. /\ pc[r] # "done" /\ UNCHANGED <<catalogue, who, rows>>
        /\ \A q \in Requests \ {r} : status'[q] = status[q]
        /\ \E p \in PCs : Goto(r, p)
    BY <1>3 DEF ResolveHook, GuardExecute, Prepare, Drain, PickBudget, TakePermit, Spawn, TimeOut,
                WaitReturns, Reap, Disconnect, Refuse, Proceed, InFlight, process, Shape, PCs
  <2> QED
    BY <1>2, <2>1
<1>4. ASSUME NEW r \in Requests, Fork(r) \/ Exit(r) \/ StrayExit(r)
      PROVE  Table'
  BY <1>4 DEF Fork, Exit, StrayExit, catalogue, Table
<1>5. ASSUME NEW r \in Requests, Insert(r)
      PROVE  Table'
  <2> DEFINE new == [req |-> r, key |-> who[r], status |-> status[r]]
  <2>0. /\ pc[r] = "insert" /\ pc' = [pc EXCEPT ![r] = "done"]
        /\ UNCHANGED <<status, who, limit>>
        /\ rows' = rows \/ rows' = rows \cup {new}
    BY <1>5 DEF Insert, Goto, catalogue, process
  <2>1. /\ new \in [req : Requests, key : Keys \cup {Keyless}, status : Status]
        /\ new.req = r /\ new.key = who[r] /\ new.status = status[r]
    BY DEF Shape
  <2>2. \A row \in rows : row.req # r
    BY <2>0 DEF Table
  <2> HIDE DEF new
  <2>3. \A row \in rows' : row = new \/ row \in rows
    BY <2>0
  <2> QED
    BY <2>0, <2>1, <2>2, <2>3 DEF Table, Shape
<1>6. ASSUME NEW k \in Keys, DeleteKey(k)
      PROVE  Table'
  <2> DEFINE Moved(row) == [row EXCEPT !.key = IF row.key = k THEN Keyless ELSE row.key]
  <2>0. /\ UNCHANGED <<pc, status, who>> /\ limit' = [limit EXCEPT ![k] = 0]
        /\ rows' = {Moved(row) : row \in rows}
    BY <1>6 DEF DeleteKey, Write, process
  <2>1. ASSUME NEW row \in rows
        PROVE  /\ Moved(row) \in [req : Requests, key : Keys \cup {Keyless}, status : Status]
               /\ Moved(row).req = row.req /\ Moved(row).status = row.status
               /\ Moved(row).key = IF row.key = k THEN Keyless ELSE row.key
    <3>1. row \in [req : Requests, key : Keys \cup {Keyless}, status : Status]
      BY DEF Table
    <3> QED
      BY <3>1
  <2>2. ASSUME NEW row \in rows
        PROVE  /\ pc'[row.req] = "done" /\ row.status = status'[row.req]
               /\ \/ Moved(row).key = who'[row.req]
                  \/ Moved(row).key = Keyless /\ limit'[who'[row.req]] = 0
    <3>1. /\ pc[row.req] = "done" /\ row.status = status[row.req]
          /\ row.key = who[row.req] \/ (row.key = Keyless /\ limit[who[row.req]] = 0)
          /\ row.req \in Requests
      BY DEF Table
    <3>2. who[row.req] \in Keys \cup {Keyless}
      BY <3>1 DEF Shape
    <3>3. limit'[k] = 0 /\ \A kk : kk \in Keys /\ limit[kk] = 0 => limit'[kk] = 0
      BY <2>0 DEF LimiterInv, Columns
    <3> QED
      BY <2>0, <2>1, <3>1, <3>2, <3>3
  <2> HIDE DEF Moved
  <2> QED
    BY <2>0, <2>1, <2>2 DEF Table
<1>7. ASSUME NEW k \in Keys, EditLimit(k)
      PROVE  Table'
  <2>0. UNCHANGED <<pc, status, who, rows>>
    BY <1>7 DEF EditLimit, Write, process
  <2>1. \A kk \in Keys : limit[kk] = 0 => limit'[kk] = 0
    BY <1>7 DEF EditLimit, LimiterInv, Columns
  <2>2. ASSUME NEW row \in rows, row.key # who[row.req] PROVE limit'[who[row.req]] = 0
    <3>1. who[row.req] \in Keys /\ limit[who[row.req]] = 0
      BY <2>2 DEF Table, Shape
    <3> QED
      BY <2>1, <3>1
  <2> QED
    BY <2>0, <2>2 DEF Table
<1>8. CASE (\E k \in Keys : SetPermission(k)) \/ SetMode \/ Trash \/ Restore \/ HardDelete \/ EraseRows
  <2>0. UNCHANGED <<pc, status, who, limit>> /\ rows' \subseteq rows
    BY <1>8 DEF SetPermission, SetMode, Trash, Restore, HardDelete, EraseRows, Write, process
  <2> QED
    BY <2>0 DEF Table
<1>9. CASE UNCHANGED vars
  BY <1>9 DEF vars, catalogue, process, Table
<1> QED
  BY <1>1, <1>3, <1>4, <1>5, <1>6, <1>7, <1>8, <1>9, Zenon DEF Next, ServerStep

LEMMA HistoryHolds == Spec => []HistoryInv
<1>1. Inv /\ LimiterInv /\ HistoryInv /\ [Next]_vars => HistoryInv'
  BY OutcomeStep, TableStep DEF HistoryInv
<1> QED
  BY <1>1, OutcomeInit, InvHolds, LimiterHolds, PTL DEF Spec

-----------------------------------------------------------------------------
(* Database columns, semaphores, requests and rows stay well typed; no       *)
(* semaphore of ConcurrencyLimiter goes below zero or above its size.        *)
THEOREM TypeCorrect == Spec => []TypeOK
<1>1. Inv /\ LimiterInv /\ HistoryInv => TypeOK
  BY DEF Inv, Shape, LimiterInv, Columns, Arrays, HistoryInv, Table, TypeOK
<1> QED
  BY <1>1, InvHolds, LimiterHolds, HistoryHolds, PTL

(* Every permit of every semaphore, retired ones included, is free or held   *)
(* by one request: no exit of execute_hook leaks or misplaces one.           *)
THEOREM PermitsAreConserved == Spec => []PermitsConserved
<1>1. LimiterInv => PermitsConserved
  <2> SUFFICES ASSUME LimiterInv, NEW k \in Keys, NEW i \in DOMAIN permits[k]
               PROVE  free[k][i] + Cardinality(Holders(k, i)) = permits[k][i]
    BY DEF PermitsConserved
  <2>1. i \in 1..Len(permits[k])
    BY LenProperties DEF LimiterInv, Arrays
  <2> QED
    BY <2>1 DEF LimiterInv, Semaphores, Counted
<1> QED
  BY <1>1, LimiterHolds, PTL

(* A key whose max_concurrent_jobs was never edited never has more children  *)
(* running than it allows, those aside whose client left and that the daemon *)
(* may not signal.                                                           *)
THEOREM ConcurrencyIsRespected == Spec => []ConcurrencyRespected
<1>1. Inv /\ LimiterInv => ConcurrencyRespected
  <2> SUFFICES ASSUME Inv, LimiterInv, NEW k \in Keys, Cardinality(limits[k]) = 1,
                      NEW n \in limits[k]
               PROVE  Cardinality(Running(k)) <= n
    BY DEF ConcurrencyRespected
  <2> USE DEF LimiterInv
  <2>1. limits[k] \subseteq 1..MaxLimit /\ IsFiniteSet(limits[k])
    <3>1. limits[k] \subseteq 1..MaxLimit
      BY DEF Columns
    <3>2. IsFiniteSet(1..MaxLimit)
      BY FS_Interval, Limits
    <3> QED
      BY <3>1, <3>2, FS_Subset
  <2>2. limits[k] = {n} /\ n \in Nat
    BY <2>1, FS_Singleton
  <2>3. Len(permits[k]) \in Nat /\ permits[k] \in Seq(1..MaxLimit)
    BY LenProperties DEF Arrays
  <2>4. Len(permits[k]) <= 1
    <3> SUFFICES ASSUME Len(permits[k]) > 1 PROVE FALSE
      BY <2>3
    <3>1. 1 \in 1..Len(permits[k]) /\ 2 \in 1..Len(permits[k])
      BY <2>3
    <3>2. permits[k][1] = n /\ permits[k][2] = n
      BY <2>2, <3>1 DEF Semaphores, Counted
    <3>3. permits[k][2] # permits[k][2 - 1]
      BY <3>1 DEF Semaphores
    <3> QED
      BY <3>2, <3>3
  <2>5. ASSUME NEW r \in Running(k)
        PROVE  r \in Holders(k, 1) /\ 1 \in 1..Len(permits[k])
    <3>1. r \in Requests /\ who[r] = k /\ pc[r] \in {"wait", "kill"}
      BY <2>5 DEF Running, Inv, ProcessOK
    <3>2. holds[r] /\ slot[r] \in 1..Len(permits[k])
      BY <3>1, Limits DEF Custody, Executing
    <3> QED
      BY <2>3, <2>4, <3>1, <3>2 DEF Holders
  <2>6. CASE Running(k) = {}
    BY <2>2, <2>6, FS_EmptySet
  <2>7. CASE Running(k) # {}
    <3>1. 1 \in 1..Len(permits[k]) /\ Running(k) \subseteq Holders(k, 1)
      BY <2>5, <2>7
    <3>2. Counted(k, 1)
      BY <3>1 DEF Semaphores
    <3>3. permits[k][1] = n /\ free[k][1] \in Nat
      <4>1. free[k] \in Seq(0..MaxLimit) /\ Len(free[k]) = Len(permits[k])
        BY DEF Arrays, Semaphores
      <4>2. free[k][1] \in 0..MaxLimit
        BY <3>1, <4>1, ElementOfSeq
      <4> QED
        BY <2>2, <3>2, <4>2, Limits DEF Counted
    <3>4. /\ IsFiniteSet(Holders(k, 1)) /\ Cardinality(Holders(k, 1)) \in Nat
          /\ Cardinality(Running(k)) <= Cardinality(Holders(k, 1))
          /\ IsFiniteSet(Running(k))
      BY <3>1, <3>2, FS_Subset, FS_CardinalityType DEF Counted
    <3>5. Cardinality(Running(k)) \in Nat
      BY <3>4, FS_CardinalityType
    <3> QED
      BY <2>2, <3>2, <3>3, <3>4, <3>5 DEF Counted
  <2> QED
    BY <2>6, <2>7
<1> QED
  BY <1>1, InvHolds, LimiterHolds, PTL

(* The executions table never lies: one row per request at most, with the    *)
(* way its process ended and the key that ran it unless that is deleted.     *)
THEOREM HistoryIsFaithful == Spec => []HistoryFaithful
<1>1. HistoryInv => HistoryFaithful
  <2> SUFFICES ASSUME HistoryInv PROVE HistoryFaithful
    OBVIOUS
  <2> USE DEF HistoryInv
  <2>1. ASSUME NEW row \in rows
        PROVE  /\ row.key = who[row.req] \/ (row.key = Keyless /\ limit[who[row.req]] = 0)
               /\ row.status = "SUCCESS" => child[row.req] = "succeeded"
               /\ row.status = "FAILED" => child[row.req] \in {"none", "failed"}
               /\ row.status = "TIMEOUT" => child[row.req] # "none"
    BY DEF Table, Outcome
  <2>2. ASSUME NEW r \in Requests
        PROVE  Cardinality({row \in rows : row.req = r}) <= 1
    <3>1. CASE {row \in rows : row.req = r} = {}
      BY <3>1, FS_EmptySet
    <3>2. CASE {row \in rows : row.req = r} # {}
      <4>1. PICK x \in rows : x.req = r
        BY <3>2
      <4>2. {row \in rows : row.req = r} = {x}
        BY <4>1 DEF Table
      <4> QED
        BY <4>2, FS_Singleton
    <3> QED
      BY <3>1, <3>2
  <2> QED
    BY <2>1, <2>2 DEF HistoryFaithful
<1> QED
  BY <1>1, HistoryHolds, PTL
=============================================================================
