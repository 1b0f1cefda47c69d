------------------------ MODULE TrustedProxies_proofs ------------------------
(* The safety of TrustedProxies for every list of names, every lifetime and   *)
(* any number of requests: types, the view that requests are given, how old   *)
(* a trusted address may be, when the resolver is asked, and whom the walk    *)
(* over the headers finds.                                                    *)
EXTENDS TrustedProxies, WellFoundedInduction, NaturalsInduction, SequenceTheorems, TLAPS

-----------------------------------------------------------------------------
(* The inductive invariant.                                                   *)

(* The lock belongs to the task that is looking a name up. *)
Locking ==
    /\ \A t \in Tasks : pc[t] = "lookup" <=> writer = t
    /\ \A t \in Tasks : pc[t] = "lookup" => cursor[t] \in 1..Len(HostOrder)
    /\ HostOrder = <<>> => pc[Boot] = "served"

(* The cache is what the resolver said, an answer without an address is a     *)
(* failure, and no answer is from the future.                                 *)
Answered ==
    /\ hosts = said
    /\ \A h \in Hosts : hosts[h].resolved <=> hosts[h].networks # {}
    /\ \A h \in Hosts : hosts[h].networks # {} => hosts[h].known
    /\ \A h \in Hosts : hosts[h].at <= clock
    /\ \A t \in Requests : arrived[t] <= clock

(* The view is the merged cache, or some name is stale. *)
View == writer = NoOne => merged = Merge(hosts) \/ ~AllFresh

(* A request looks up a stale name, and the names before it in the order were *)
(* fresh after it came.                                                       *)
Passed(t, h) == hosts[h].networks # {} => arrived[t] - hosts[h].at < Ttl
Passing ==
    \A t \in Requests : pc[t] = "lookup" =>
        /\ ~IsFresh(hosts[HostOrder[cursor[t]]])
        /\ \A j \in 1..Len(HostOrder) : j < cursor[t] => Passed(t, HostOrder[j])

IInv == TypeOK /\ Locking /\ Answered /\ View /\ Passing

-----------------------------------------------------------------------------
(* Least and greatest positions.                                              *)

(* A nonempty set of naturals has a least element, and Min is one. *)
LEMMA MinFound ==
    ASSUME NEW S \in SUBSET Nat, S # {}
    PROVE  Min(S) \in S /\ \A y \in S : Min(S) <= y
<1>1. \E x \in S : \A y \in S : <<y, x>> \notin OpToRel(<, Nat)
  BY NatLessThanWellFounded, WFMin, Zenon
<1>2. PICK x \in S : \A y \in S : <<y, x>> \notin OpToRel(<, Nat)
  BY <1>1
<1>3. \A y \in S : x <= y
  <2>1. TAKE y \in S
  <2>2. <<y, x>> \notin {ss \in Nat \X Nat : ss[1] < ss[2]}
    BY <1>2, <2>1 DEF OpToRel
  <2>3. ~(y < x)
    BY <2>2
  <2> QED BY <2>3
<1> QED BY <1>3 DEF Min

(* So has a nonempty set of positions up to n a greatest one, and Max is it. *)
LEMMA MaxFound ==
    ASSUME NEW n \in Nat, NEW S \in SUBSET (1..n), S # {}
    PROVE  Max(S) \in S /\ \A y \in S : y <= Max(S)
<1> DEFINE R == {n - y : y \in S}
<1>1. R \in SUBSET Nat /\ R # {}
  <2>1. PICK y \in S : TRUE
    OBVIOUS
  <2>2. n - y \in R
    BY <2>1
  <2>3. \A z \in S : n - z \in Nat
    OBVIOUS
  <2> QED BY <2>2, <2>3
<1>2. Min(R) \in R /\ \A z \in R : Min(R) <= z
  BY <1>1, MinFound
<1>3. PICK x \in S : n - x = Min(R)
  BY <1>2
<1>4. \A y \in S : n - x <= n - y
  BY <1>2, <1>3
<1>5. \A y \in S : x >= y
  BY <1>4
<1>6. \E x1 \in S : \A y \in S : x1 >= y
  BY <1>5
<1>7. Max(S) \in S /\ \A y \in S : Max(S) >= y
  BY <1>6 DEF Max
<1> QED BY <1>7

(* There is only one greatest position. *)
LEMMA MaxIs ==
    ASSUME NEW n \in Nat, NEW S \in SUBSET (1..n), NEW x \in S, \A y \in S : y <= x
    PROVE  Max(S) = x
<1>1. Max(S) \in S /\ \A y \in S : y <= Max(S)
  BY MaxFound
<1>2. PICK m \in S : m = Max(S) /\ \A y \in S : y <= m
  BY <1>1
<1>3. x <= m /\ m <= x
  BY <1>2
<1>4. x \in Nat /\ m \in Nat
  OBVIOUS
<1> QED BY <1>2, <1>3, <1>4

(* The configured names and their positions. *)
LEMMA Positions ==
    /\ Len(HostOrder) \in Nat
    /\ \A j \in 1..Len(HostOrder) : HostOrder[j] \in Hosts
    /\ \A h \in Hosts : \E j \in 1..Len(HostOrder) : HostOrder[j] = h
    /\ HostOrder # <<>> => 1 \in 1..Len(HostOrder)
<1>1. HostOrder \in Seq(Hosts)
  BY ProxiesAssumption
<1>2. Len(HostOrder) \in Nat /\ DOMAIN HostOrder = 1..Len(HostOrder)
  BY <1>1, LenProperties
<1>3. HostOrder # <<>> => Len(HostOrder) # 0
  BY <1>1, EmptySeq
<1> QED BY <1>2, <1>3 DEF Hosts

(* The next name of a pass is due, and no name before it is. *)
LEMMA NextDue ==
    ASSUME NEW t, NEW i \in Nat \ {0}, NEW cache, Due(t, i, cache) # {}
    PROVE  /\ Min(Due(t, i, cache)) \in i..Len(HostOrder)
           /\ t # Boot => ~IsFresh(cache[HostOrder[Min(Due(t, i, cache))]])
           /\ t # Boot => \A j \in i..Len(HostOrder) :
                  j < Min(Due(t, i, cache)) => IsFresh(cache[HostOrder[j]])
<1> DEFINE D == Due(t, i, cache)
<1>1. Len(HostOrder) \in Nat
  BY Positions
<1>2. D \in SUBSET (i..Len(HostOrder)) /\ D \in SUBSET Nat
  BY <1>1 DEF Due
<1>3. Min(D) \in D /\ \A y \in D : Min(D) <= y
  BY <1>2, MinFound
<1>4. t # Boot => ~IsFresh(cache[HostOrder[Min(D)]])
  BY <1>3 DEF Due
<1>5. ASSUME t # Boot, NEW j \in i..Len(HostOrder), j < Min(D)
      PROVE  IsFresh(cache[HostOrder[j]])
  <2>1. j \notin D
    BY <1>1, <1>2, <1>3, <1>5
  <2> QED BY <2>1, <1>5 DEF Due
<1> QED BY <1>2, <1>3, <1>4, <1>5

(* A pass that starts has a name to look up. *)
LEMMA PassHasWork ==
    ASSUME NEW t \in Tasks, t = Boot => HostOrder # <<>>, t # Boot => ~AllFresh
    PROVE  Due(t, 1, hosts) # {}
<1>1. CASE t = Boot
  BY <1>1, Positions DEF Due
<1>2. CASE t # Boot
  <2>1. PICK h \in Hosts : ~IsFresh(hosts[h])
    BY <1>2 DEF AllFresh
  <2>2. PICK j \in 1..Len(HostOrder) : HostOrder[j] = h
    BY Positions
  <2> QED BY <2>1, <2>2 DEF Due
<1> QED BY <1>1, <1>2

(* A fresh answer that holds addresses is younger than the long lifetime. *)
LEMMA FreshIsRecent ==
    ASSUME NEW h \in Hosts, IInv, IsFresh(hosts[h]), hosts[h].networks # {}
    PROVE  clock - hosts[h].at < Ttl
BY DEF IInv, Answered, IsFresh, Lifetime

LEMMA InitInv == Init => IInv
<1> SUFFICES ASSUME Init PROVE IInv
  OBVIOUS
<1>1. TypeOK
  <2>1. Unknown \in Entry
    BY DEF Unknown, Entry
  <2>2. hosts \in [Hosts -> Entry] /\ said \in [Hosts -> Entry]
    BY <2>1 DEF Init
  <2>3. pc \in [Tasks -> {"idle", "queued", "lookup", "sleeping", "served", "gone"}]
    BY DEF Init
  <2>4. cursor \in [Tasks -> 0..Len(HostOrder)]
    BY Positions DEF Init
  <2>5. arrived \in [Requests -> Nat] /\ trusted \in [Requests -> SUBSET Addrs]
    BY DEF Init
  <2> QED BY <2>2, <2>3, <2>4, <2>5, ProxiesAssumption DEF Init, TypeOK
<1>2. Locking
  BY ProxiesAssumption DEF Init, Locking, Tasks
<1>3. Answered
  BY DEF Init, Answered, Unknown
<1>4. View
  <2>1. \A h \in Hosts : hosts[h].networks = {}
    BY DEF Init, Unknown
  <2>2. Merge(hosts) = Static
    BY <2>1 DEF Merge
  <2> QED BY <2>2 DEF View, Init
<1>5. Passing
  BY ProxiesAssumption DEF Init, Passing, Tasks
<1> QED BY <1>1, <1>2, <1>3, <1>4, <1>5 DEF IInv

-----------------------------------------------------------------------------
(* Every action preserves the invariant.                                      *)

(* Time passes: what was stale stays stale. *)
LEMMA TickKeeps == ASSUME IInv, Tick PROVE IInv'
<1> USE DEF IInv, Tick, locals
<1>1. TypeOK'
  BY DEF TypeOK
<1>2. Locking'
  BY DEF Locking
<1>3. Answered'
  BY DEF Answered, TypeOK, Entry
<1>4. \A h \in Hosts : ~IsFresh(hosts[h]) => ~IsFresh(hosts[h])'
  BY ProxiesAssumption DEF IsFresh, Lifetime, TypeOK, Entry
<1>5. View'
  BY <1>4 DEF View, AllFresh, Merge
<1>6. Passing'
  <2> SUFFICES ASSUME NEW t \in Requests, pc[t] = "lookup"
               PROVE  /\ ~IsFresh(hosts[HostOrder[cursor[t]]])'
                      /\ \A j \in 1..Len(HostOrder) :
                             j < cursor[t] => Passed(t, HostOrder[j])'
    BY DEF Passing
  <2>1. cursor[t] \in 1..Len(HostOrder) /\ HostOrder[cursor[t]] \in Hosts
    BY Positions DEF Locking, Tasks
  <2>2. ~IsFresh(hosts[HostOrder[cursor[t]]])'
    BY <1>4, <2>1 DEF Passing
  <2> QED BY <2>2 DEF Passing, Passed
<1> QED BY <1>1, <1>2, <1>3, <1>5, <1>6

(* A request reads under the read lock: nobody is looking anything up. *)
LEMMA ConsultKeeps == ASSUME IInv, NEW t \in Requests, Consult(t) PROVE IInv'
<1> USE DEF IInv
<1>1. t \in Tasks /\ t # Boot
  BY ProxiesAssumption DEF Tasks
<1>2. TypeOK'
  BY <1>1 DEF TypeOK, Consult, Serve
<1>3. \A u \in Tasks : pc[u] # "lookup" /\ pc'[u] # "lookup"
  BY <1>1, ProxiesAssumption DEF Consult, Serve, Locking, TypeOK
<1>4. Locking'
  <2>1. pc'[Boot] = pc[Boot]
    BY <1>1 DEF Consult, Serve, TypeOK, Tasks
  <2>2. \A u \in Tasks : writer' # u
    BY ProxiesAssumption DEF Consult
  <2> QED BY <1>3, <2>1, <2>2 DEF Locking, Consult
<1>5. Answered'
  BY DEF Answered, TypeOK, Consult
<1>6. View'
  BY DEF View, AllFresh, IsFresh, Lifetime, Merge, Consult
<1>7. Passing'
  BY <1>3 DEF Passing, Tasks
<1> QED BY <1>2, <1>4, <1>5, <1>6, <1>7

(* The lock is granted: the fast answer after all, or the first due name. *)
LEMMA LockKeeps == ASSUME IInv, NEW t \in Tasks, Lock(t) PROVE IInv'
<1> USE DEF IInv
<1>1. \A u \in Tasks : pc[u] # "lookup" /\ u # NoOne
  BY ProxiesAssumption DEF Lock, Locking
<1>2. CASE t # Boot /\ AllFresh
  <2> USE <1>2 DEF Lock, Serve
  <2>1. t \in Requests
    BY DEF Tasks
  <2>2. TypeOK'
    BY <2>1 DEF TypeOK
  <2>3. \A u \in Tasks : pc'[u] # "lookup"
    BY <1>1 DEF TypeOK
  <2>4. Locking'
    <3>1. pc'[Boot] = pc[Boot]
      BY DEF TypeOK, Tasks
    <3> QED BY <1>1, <2>3, <3>1 DEF Locking
  <2>5. Answered' /\ View' /\ Passing'
    BY <2>3 DEF Answered, View, AllFresh, IsFresh, Lifetime, Merge, Passing, Tasks
  <2> QED BY <2>2, <2>4, <2>5
<1>3. CASE ~(t # Boot /\ AllFresh)
  <2> USE <1>3 DEF Lock, LookUp
  <2>1. PICK c : c = Min(Due(t, 1, hosts))
    OBVIOUS
  <2>2. HostOrder # <<>> \/ t # Boot
    BY DEF Locking
  <2>3. Due(t, 1, hosts) # {}
    BY <2>2, PassHasWork
  <2>4. /\ c \in 1..Len(HostOrder)
        /\ t # Boot => ~IsFresh(hosts[HostOrder[c]])
        /\ t # Boot => \A j \in 1..Len(HostOrder) :
               j < c => IsFresh(hosts[HostOrder[j]])
    <3>1. PICK cache : cache = hosts
      OBVIOUS
    <3>2. 1 \in Nat \ {0} /\ Due(t, 1, cache) # {} /\ c = Min(Due(t, 1, cache))
      BY <2>1, <2>3, <3>1
    <3>3. /\ c \in 1..Len(HostOrder)
          /\ t # Boot => ~IsFresh(cache[HostOrder[c]])
          /\ t # Boot => \A j \in 1..Len(HostOrder) :
                 j < c => IsFresh(cache[HostOrder[j]])
      BY <3>2, NextDue
    <3> QED BY <3>1, <3>3
  <2>5. /\ cursor' = [cursor EXCEPT ![t] = c]
        /\ pc' = [pc EXCEPT ![t] = "lookup"]
        /\ writer' = t
        /\ UNCHANGED <<clock, hosts, merged, arrived, trusted, unresolved, wake, said>>
    BY <2>1
  <2>6. TypeOK'
    <3>1. c \in 0..Len(HostOrder)
      BY <2>4, Positions
    <3>2. cursor' \in [Tasks -> 0..Len(HostOrder)]
      BY <2>5, <3>1 DEF TypeOK
    <3> QED BY <2>5, <3>2 DEF TypeOK
  <2>7. Locking'
    <3>1. HostOrder # <<>>
      BY <2>4, Positions, EmptySeq, ProxiesAssumption
    <3>2. \A u \in Tasks : pc'[u] = "lookup" <=> writer' = u
      BY <1>1, <2>5 DEF TypeOK
    <3> QED BY <3>1, <3>2, <2>4, <2>5 DEF Locking, TypeOK
  <2>8. Answered'
    BY <2>5 DEF Answered
  <2>9. View'
    BY <1>1, <2>5 DEF View
  <2>10. Passing'
    <3> SUFFICES ASSUME NEW u \in Requests, pc'[u] = "lookup"
                 PROVE  /\ ~IsFresh(hosts[HostOrder[cursor[u]]])'
                        /\ \A j \in 1..Len(HostOrder) :
                               j < cursor'[u] => Passed(u, HostOrder[j])'
      BY DEF Passing
    <3>1. u = t /\ t # Boot /\ cursor'[t] = c
      BY <1>1, <2>5, ProxiesAssumption DEF TypeOK, Tasks
    <3>2. ~IsFresh(hosts[HostOrder[cursor[u]]])'
      BY <2>4, <2>5, <3>1 DEF IsFresh, Lifetime
    <3>3. ASSUME NEW j \in 1..Len(HostOrder), j < c, hosts[HostOrder[j]].networks # {}
          PROVE  arrived[t] - hosts[HostOrder[j]].at < Ttl
      <4>1. HostOrder[j] \in Hosts
        BY Positions
      <4>2. clock - hosts[HostOrder[j]].at < Ttl
        BY <2>4, <3>1, <3>3, <4>1, FreshIsRecent
      <4>3. arrived[t] <= clock
        BY <3>1 DEF Answered
      <4> QED BY <4>1, <4>2, <4>3, <3>1, ProxiesAssumption DEF TypeOK, Entry
    <3> QED BY <3>1, <3>2, <3>3, <2>5 DEF Passed
  <2> QED BY <2>6, <2>7, <2>8, <2>9, <2>10
<1> QED BY <1>2, <1>3

(* The grace period ends. *)
LEMMA WakeKeeps == ASSUME IInv, Wake PROVE IInv'
<1> USE DEF IInv, Wake
<1>1. TypeOK'
  BY DEF TypeOK
<1>2. \A u \in Tasks : pc'[u] = "lookup" <=> pc[u] = "lookup"
  BY DEF TypeOK
<1>3. Locking'
  BY <1>2 DEF Locking
<1>4. Answered' /\ View'
  BY DEF Answered, View, AllFresh, IsFresh, Lifetime, Merge
<1>5. Passing'
  BY <1>2 DEF Passing, Passed, IsFresh, Lifetime, Tasks
<1> QED BY <1>1, <1>3, <1>4, <1>5

(* A client leaves: if its pass is dropped, the name it was looking up is     *)
(* stale still.                                                               *)
LEMMA LeaveKeeps == ASSUME IInv, NEW t \in Requests, Leave(t) PROVE IInv'
<1> USE DEF IInv, Leave, locals
<1>1. t \in Tasks /\ t # Boot
  BY ProxiesAssumption DEF Tasks
<1>2. TypeOK'
  BY DEF TypeOK
<1>3. \A u \in Tasks : pc'[u] = "lookup" <=> pc[u] = "lookup" /\ u # t
  BY <1>1 DEF TypeOK
<1>4. Locking'
  <2>1. \A u \in Tasks : pc'[u] = "lookup" <=> writer' = u
    BY <1>1, <1>3, ProxiesAssumption DEF Locking
  <2>2. pc'[Boot] = pc[Boot]
    BY <1>1 DEF TypeOK, Tasks
  <2> QED BY <1>3, <2>1, <2>2 DEF Locking
<1>5. Answered'
  BY DEF Answered
<1>6. View'
  <2>1. CASE writer = t
    <3>1. pc[t] = "lookup"
      BY <1>1, <2>1 DEF Locking
    <3>2. ~IsFresh(hosts[HostOrder[cursor[t]]]) /\ HostOrder[cursor[t]] \in Hosts
      BY <1>1, <3>1, Positions DEF Passing, Locking
    <3> QED BY <3>2 DEF View, AllFresh, IsFresh, Lifetime
  <2>2. CASE writer # t
    BY <2>2 DEF View, AllFresh, IsFresh, Lifetime, Merge
  <2> QED BY <2>1, <2>2
<1>7. Passing'
  BY <1>3 DEF Passing, Passed, IsFresh, Lifetime, Tasks
<1> QED BY <1>2, <1>4, <1>5, <1>6, <1>7

(* An answer is stored: the pass ends with the view rebuilt, or goes on. *)
LEMMA ResolvedKeeps ==
    ASSUME IInv, NEW t \in Tasks, NEW nets \in Answers, Resolved(t, nets)
    PROVE  IInv'
<1> USE DEF IInv
<1>1. PICK i : i = cursor[t]
  OBVIOUS
<1>2. PICK h : h = HostOrder[i]
  OBVIOUS
<1>3. PICK now : now = clock
  OBVIOUS
<1>4. PICK cache : cache = [hosts EXCEPT ![h] = Answer(nets, now)]
  OBVIOUS
<1>5. /\ pc[t] = "lookup" /\ writer = t
      /\ i \in 1..Len(HostOrder) /\ h \in Hosts /\ HostOrder # <<>>
      /\ now \in Nat /\ clock = now /\ clock' = now
  BY <1>1, <1>2, <1>3, Positions, EmptySeq, ProxiesAssumption
     DEF Resolved, Locking, TypeOK
<1>6. \A u \in Tasks : u # t => pc[u] # "lookup"
  BY <1>5 DEF Locking
<1>7. Answer(nets, now) \in Entry
  BY <1>5, ProxiesAssumption DEF Answer, Entry
<1>8. /\ hosts' = cache
      /\ said' = [said EXCEPT ![h] = Answer(nets, now)]
      /\ arrived' = arrived
  BY <1>1, <1>2, <1>3, <1>4 DEF Resolved
<1>9. cache \in [Hosts -> Entry] /\ said' \in [Hosts -> Entry]
  BY <1>4, <1>5, <1>7, <1>8 DEF TypeOK
<1>10. /\ cache[h] = Answer(nets, now)
       /\ \A g \in Hosts : g # h => cache[g] = hosts[g]
  BY <1>4, <1>5 DEF TypeOK
<1>11. Answered'
  <2>1. said' = cache
    BY <1>4, <1>8 DEF Answered
  <2>2. \A g \in Hosts : cache[g].resolved <=> cache[g].networks # {}
    <3>1. Answer(nets, now).resolved = (nets # {}) /\ Answer(nets, now).networks = nets
      BY Zenon DEF Answer
    <3>2. cache[h].resolved <=> cache[h].networks # {}
      BY <1>10, <3>1, Zenon
    <3>3. \A g \in Hosts : g # h => (cache[g].resolved <=> cache[g].networks # {})
      BY <1>10 DEF Answered
    <3> QED BY <3>2, <3>3
  <2>3. \A g \in Hosts : cache[g].networks # {} => cache[g].known
    BY <1>10 DEF Answered, Answer
  <2>4. \A g \in Hosts : cache[g].at <= clock'
    BY <1>5, <1>10 DEF Answered, Answer
  <2> QED BY <1>5, <1>8, <2>1, <2>2, <2>3, <2>4 DEF Answered
<1>12. \A u \in Requests : \A g \in Hosts :
           cache[g].networks # {} /\ (g # h => Passed(u, g)) => arrived[u] - cache[g].at < Ttl
  <2> SUFFICES ASSUME NEW u \in Requests, NEW g \in Hosts, cache[g].networks # {},
                      g # h => Passed(u, g)
               PROVE  arrived[u] - cache[g].at < Ttl
    OBVIOUS
  <2>1. CASE g = h
    <3>1. cache[g].at = now /\ arrived[u] <= now /\ arrived[u] \in Nat
      BY <1>5, <1>10, <2>1 DEF Answer, Answered, TypeOK
    <3> QED BY <3>1, <1>5, ProxiesAssumption
  <2>2. CASE g # h
    BY <1>10, <2>2 DEF Passed
  <2> QED BY <2>1, <2>2
<1>13. CASE Due(t, i + 1, cache) = {}
  <2>1. EndPass(t, cache, unresolved \/ nets = {})
    BY <1>1, <1>2, <1>3, <1>4, <1>13 DEF Resolved
  <2>2. merged' = Merge(cache) /\ writer' = NoOne /\ cursor' = cursor
    BY <2>1 DEF EndPass
  <2>3. merged' \subseteq Addrs
    BY <1>9, <2>2, ProxiesAssumption DEF Merge, Entry
  <2>4. \E v \in {"served", "sleeping"} : pc' = [pc EXCEPT ![t] = v]
    BY <2>1 DEF EndPass, Serve
  <2>5. trusted' \in [Requests -> SUBSET Addrs]
    BY <2>1, <2>3 DEF EndPass, Serve, Tasks, TypeOK
  <2>6. unresolved' \in BOOLEAN /\ wake' \in Nat
    BY <2>1, ProxiesAssumption DEF EndPass, TypeOK
  <2>7. TypeOK'
    BY <1>5, <1>8, <1>9, <2>2, <2>3, <2>4, <2>5, <2>6 DEF TypeOK
  <2>8. \A u \in Tasks : pc'[u] # "lookup"
    BY <1>6, <2>4 DEF TypeOK
  <2>9. Locking'
    BY <1>5, <2>2, <2>8, ProxiesAssumption DEF Locking
  <2>10. View'
    BY <1>8, <2>2 DEF View, Merge
  <2>11. Passing'
    BY <2>8 DEF Passing, Tasks
  <2> QED BY <1>11, <2>7, <2>9, <2>10, <2>11
<1>14. CASE Due(t, i + 1, cache) # {}
  <2>1. PICK c : c = Min(Due(t, i + 1, cache))
    OBVIOUS
  <2>2. /\ pc' = [pc EXCEPT ![t] = "lookup"]
        /\ cursor' = [cursor EXCEPT ![t] = c]
        /\ unresolved' = IF t = Boot THEN unresolved \/ nets = {} ELSE unresolved
        /\ UNCHANGED <<merged, writer, trusted, wake>>
    BY <1>1, <1>2, <1>3, <1>4, <1>14, <2>1 DEF Resolved, LookUp
  <2>3. i + 1 \in Nat \ {0}
    BY <1>5
  <2>4. /\ c \in (i + 1)..Len(HostOrder)
        /\ t # Boot => ~IsFresh(cache[HostOrder[c]])
        /\ t # Boot => \A j \in (i + 1)..Len(HostOrder) :
               j < c => IsFresh(cache[HostOrder[j]])
    BY <1>14, <2>1, <2>3, NextDue
  <2>5. c \in 1..Len(HostOrder) /\ c \in 0..Len(HostOrder)
    BY <1>5, <2>4, Positions
  <2>6. TypeOK'
    <3>1. cursor' \in [Tasks -> 0..Len(HostOrder)]
      BY <2>2, <2>5 DEF TypeOK
    <3>2. pc' \in [Tasks -> {"idle", "queued", "lookup", "sleeping", "served", "gone"}]
      BY <2>2 DEF TypeOK
    <3>3. unresolved' \in BOOLEAN
      BY <2>2 DEF TypeOK
    <3> QED BY <1>5, <1>8, <1>9, <2>2, <3>1, <3>2, <3>3 DEF TypeOK
  <2>7. \A u \in Tasks : pc'[u] = "lookup" <=> u = t
    BY <1>6, <2>2 DEF TypeOK
  <2>8. cursor'[t] = c
    BY <2>2 DEF TypeOK
  <2>9. Locking'
    BY <1>5, <2>2, <2>5, <2>7, <2>8 DEF Locking
  <2>10. View'
    BY <1>5, <2>2, ProxiesAssumption DEF View
  <2>11. Passing'
    <3> SUFFICES ASSUME NEW u \in Requests, pc'[u] = "lookup"
                 PROVE  /\ ~IsFresh(hosts[HostOrder[cursor[u]]])'
                        /\ \A j \in 1..Len(HostOrder) :
                               j < cursor'[u] => Passed(u, HostOrder[j])'
      BY DEF Passing
    <3>1. u = t /\ t # Boot
      BY <2>7, ProxiesAssumption DEF Tasks
    <3>2. ~IsFresh(hosts[HostOrder[cursor[u]]])'
      BY <1>5, <1>8, <2>4, <2>8, <3>1 DEF IsFresh, Lifetime
    <3>3. ASSUME NEW j \in 1..Len(HostOrder), j < c
          PROVE  Passed(u, HostOrder[j])'
      <4>1. HostOrder[j] \in Hosts
        BY Positions
      <4>2. SUFFICES ASSUME cache[HostOrder[j]].networks # {}
                     PROVE  arrived[u] - cache[HostOrder[j]].at < Ttl
        BY <1>8 DEF Passed
      <4>3. CASE j <= i
        <5>1. HostOrder[j] # h => Passed(u, HostOrder[j])
          BY <1>1, <1>2, <1>5, <3>1, <4>3 DEF Passing
        <5> QED BY <1>12, <4>1, <4>2, <5>1
      <4>4. CASE j > i
        <5>1. IsFresh(cache[HostOrder[j]])
          BY <1>5, <2>4, <3>1, <3>3, <4>4
        <5>2. cache[HostOrder[j]].resolved
          BY <1>8, <1>11, <4>1, <4>2 DEF Answered
        <5>3. clock - cache[HostOrder[j]].at < Ttl
          BY <5>1, <5>2 DEF IsFresh, Lifetime
        <5>4. arrived[u] <= clock /\ arrived[u] \in Nat /\ cache[HostOrder[j]].at \in Nat
          BY <1>9, <4>1 DEF Answered, TypeOK, Entry
        <5> QED BY <5>3, <5>4, <1>5, ProxiesAssumption
      <4> QED BY <1>5, <4>3, <4>4
    <3> QED BY <2>8, <3>1, <3>2, <3>3
  <2> QED BY <1>11, <2>6, <2>9, <2>10, <2>11
<1> QED BY <1>13, <1>14

LEMMA Inductive == IInv /\ [Next]_vars => IInv'
<1> SUFFICES ASSUME IInv, [Next]_vars PROVE IInv'
  OBVIOUS
<1>1. CASE Next
  BY <1>1, TickKeeps, WakeKeeps, ConsultKeeps, LeaveKeeps, LockKeeps, ResolvedKeeps DEF Next
<1>2. CASE UNCHANGED vars
  BY <1>2 DEF vars, locals, IInv, TypeOK, Locking, Answered, View, Passing, Passed,
              AllFresh, IsFresh, Lifetime, Merge
<1> QED BY <1>1, <1>2

LEMMA Invariance == Spec => []IInv
BY InitInv, Inductive, PTL DEF Spec

-----------------------------------------------------------------------------
(* Every variable keeps its type: in particular a pass never goes on to a     *)
(* position that holds no name (refresh_stale).                               *)
THEOREM TypeCorrect == Spec => []TypeOK
<1>1. IInv => TypeOK
  BY DEF IInv
<1> QED BY <1>1, Invariance, PTL

(* Whenever resolved() may answer from the merged view, that view is what the *)
(* resolver last said, whichever passes were dropped on the way.              *)
THEOREM ViewIsCurrent == Spec => []ViewCurrent
<1>1. IInv => ViewCurrent
  <2> SUFFICES ASSUME IInv, writer = NoOne, AllFresh PROVE merged = Merge(said)
    BY DEF ViewCurrent
  <2> QED BY DEF IInv, View, Answered
<1> QED BY <1>1, Invariance, PTL

(* What the merged view adds to the literal entries comes from some name. *)
LEMMA FromAName ==
    ASSUME NEW cache, NEW a \in Merge(cache) \ Static
    PROVE  \E h \in Hosts : a \in cache[h].networks
BY DEF Merge

(* A request answered from the view trusts only recent answers. *)
LEMMA FastAnswerRecent ==
    ASSUME IInv, writer = NoOne, AllFresh, NEW a \in merged \ Static,
           NEW since \in Nat, since <= clock
    PROVE  \E h \in Hosts : a \in said[h].networks /\ since - said[h].at < Ttl
<1>1. PICK cache : cache = hosts
  OBVIOUS
<1>2. a \in Merge(cache) \ Static
  BY <1>1 DEF IInv, View, Merge
<1>3. PICK h \in Hosts : a \in hosts[h].networks
  BY <1>1, <1>2, FromAName
<1>4. clock - hosts[h].at < Ttl
  BY <1>3, FreshIsRecent DEF AllFresh
<1>5. since - hosts[h].at < Ttl
  BY <1>4, ProxiesAssumption DEF IInv, TypeOK, Entry
<1> QED BY <1>3, <1>5 DEF IInv, Answered

(* A request that did a pass of its own trusts only recent answers: a name    *)
(* was asked in this pass, or was fresh when the pass went by.                *)
LEMMA PassRecent ==
    ASSUME IInv, NEW t \in Requests, NEW nets \in Answers, Resolved(t, nets),
           pc'[t] = "served", NEW a \in trusted'[t] \ Static
    PROVE  \E h \in Hosts : a \in said'[h].networks /\ arrived[t] - said'[h].at < Ttl
<1> USE DEF IInv
<1>1. PICK i : i = cursor[t]
  OBVIOUS
<1>2. PICK now : now = clock
  OBVIOUS
<1>3. PICK cache : cache = [hosts EXCEPT ![HostOrder[i]] = Answer(nets, now)]
  OBVIOUS
<1>4. t \in Tasks /\ t # Boot
  BY ProxiesAssumption DEF Tasks
<1>5. /\ i \in 1..Len(HostOrder) /\ HostOrder[i] \in Hosts
      /\ now \in Nat /\ clock = now /\ arrived[t] <= now /\ arrived[t] \in Nat
  BY <1>1, <1>2, <1>4, Positions DEF Resolved, Locking, TypeOK, Answered
<1>6. IInv'
  BY <1>4, ResolvedKeeps
<1>7. hosts' = cache /\ said' = cache
  BY <1>1, <1>2, <1>3, <1>6 DEF Resolved, Answered
<1>8. Due(t, i + 1, cache) = {} /\ trusted'[t] = Merge(cache)
  <2>1. CASE Due(t, i + 1, cache) = {}
    <3>1. EndPass(t, cache, unresolved \/ nets = {})
      BY <1>1, <1>2, <1>3, <2>1 DEF Resolved
    <3> QED BY <1>4, <2>1, <3>1 DEF EndPass, Serve, TypeOK
  <2>2. CASE Due(t, i + 1, cache) # {}
    BY <1>1, <1>2, <1>3, <1>4, <2>2 DEF Resolved, LookUp, TypeOK
  <2> QED BY <2>1, <2>2
<1>9. PICK h \in Hosts : a \in cache[h].networks
  BY <1>8, FromAName
<1>10. cache[h].at \in Nat /\ cache[h].resolved
  BY <1>6, <1>7, <1>9 DEF TypeOK, Entry, Answered
<1>11. PICK j \in 1..Len(HostOrder) : HostOrder[j] = h
  BY Positions
<1>12. CASE j > i
  <2>1. j \in (i + 1)..Len(HostOrder)
    BY <1>5, <1>12, Positions
  <2>2. IsFresh(cache[h])
    BY <1>4, <1>8, <1>11, <2>1 DEF Due
  <2>3. clock - cache[h].at < Ttl
    BY <1>10, <2>2 DEF IsFresh, Lifetime
  <2>4. arrived[t] - cache[h].at < Ttl
    BY <1>5, <1>10, <2>3, ProxiesAssumption
  <2> QED BY <1>7, <1>9, <2>4
<1>13. CASE h = HostOrder[i]
  <2>1. cache[h].at = now
    BY <1>3, <1>5, <1>13 DEF TypeOK, Answer
  <2>2. arrived[t] - cache[h].at < Ttl
    BY <1>5, <2>1, ProxiesAssumption
  <2> QED BY <1>7, <1>9, <2>2
<1>14. CASE j < i /\ h # HostOrder[i]
  <2>1. cache[h] = hosts[h]
    BY <1>3, <1>14 DEF TypeOK
  <2>2. Passed(t, h)
    BY <1>1, <1>11, <1>14 DEF Passing, Resolved
  <2>3. arrived[t] - cache[h].at < Ttl
    BY <1>9, <2>1, <2>2 DEF Passed
  <2> QED BY <1>7, <1>9, <2>3
<1> QED BY <1>5, <1>11, <1>12, <1>13, <1>14

(* Whatever a request is told to trust beyond the literal entries, the        *)
(* resolver named in its last answer for some name, less than one TTL before  *)
(* the request came (resolved, refresh_stale).                                *)
THEOREM TrustIsRecent == Spec => TrustRecent
<1>1. ASSUME IInv, [Next]_vars, NEW t \in Requests, pc'[t] = "served", pc[t] # "served",
             NEW a \in trusted'[t] \ Static
      PROVE  \E h \in Hosts : Vouched(a, h, arrived'[t])
  <2> USE DEF IInv
  <2>1. t \in Tasks /\ t # Boot
    BY ProxiesAssumption DEF Tasks
  <2>2. CASE Consult(t)
    <3>1. /\ writer = NoOne /\ AllFresh /\ trusted'[t] = merged
          /\ arrived'[t] = clock /\ said' = said
      BY <1>1, <2>1, <2>2 DEF Consult, Serve, TypeOK
    <3>2. \E h \in Hosts : a \in said[h].networks /\ clock - said[h].at < Ttl
      BY <1>1, <3>1, FastAnswerRecent DEF TypeOK
    <3> QED BY <3>1, <3>2 DEF Vouched
  <2>3. CASE Lock(t)
    <3>1. /\ writer = NoOne /\ AllFresh /\ trusted'[t] = merged
          /\ arrived' = arrived /\ said' = said
      BY <1>1, <2>1, <2>3 DEF Lock, LookUp, Serve, TypeOK
    <3>2. arrived[t] \in Nat /\ arrived[t] <= clock
      BY <1>1 DEF TypeOK, Answered
    <3>3. \E h \in Hosts : a \in said[h].networks /\ arrived[t] - said[h].at < Ttl
      BY <1>1, <3>1, <3>2, FastAnswerRecent
    <3> QED BY <3>1, <3>3 DEF Vouched
  <2>4. ASSUME NEW nets \in Answers, Resolved(t, nets)
        PROVE  \E h \in Hosts : Vouched(a, h, arrived'[t])
    <3>1. arrived' = arrived
      BY <2>4 DEF Resolved
    <3> QED BY <1>1, <2>4, <3>1, PassRecent DEF Vouched
  <2>5. CASE pc'[t] = pc[t] \/ pc'[t] = "gone"
    BY <1>1, <2>5
  <2>6. CASE Next
    <3>1. CASE Tick
      BY <3>1, <2>5 DEF Tick
    <3>2. CASE Wake
      BY <3>2, <1>1, <2>1, <2>5 DEF Wake, TypeOK
    <3>3. ASSUME NEW u \in Requests, Consult(u) \/ Leave(u)
          PROVE  (u = t /\ Consult(t)) \/ pc'[t] = pc[t] \/ pc'[t] = "gone"
      BY <3>3, <1>1, <2>1 DEF Consult, Leave, Serve, TypeOK
    <3>4. ASSUME NEW u \in Tasks, u # t, Lock(u)
          PROVE  pc'[t] = pc[t]
      BY <3>4, <1>1, <2>1 DEF Lock, LookUp, Serve, TypeOK
    <3>5. ASSUME NEW u \in Tasks, u # t, NEW nets \in Answers, Resolved(u, nets)
          PROVE  pc'[t] = pc[t]
      BY <3>5, <1>1, <2>1 DEF Resolved, EndPass, LookUp, Serve, TypeOK
    <3> QED BY <2>6, <2>2, <2>3, <2>4, <2>5, <3>1, <3>2, <3>3, <3>4, <3>5 DEF Next
  <2>7. CASE UNCHANGED vars
    BY <2>7, <2>5 DEF vars
  <2> QED BY <1>1, <2>6, <2>7
<1>2. IInv /\ [Next]_vars => [\A t \in Requests :
          pc'[t] = "served" /\ pc[t] # "served" =>
              \A a \in trusted'[t] \ Static :
                  \E h \in Hosts : Vouched(a, h, arrived'[t])]_vars
  BY <1>1
<1> QED BY <1>2, Invariance, PTL DEF Spec, TrustRecent

(* A request looks a name up only when the last completed lookup of it has    *)
(* outlived its lifetime (is_fresh, refresh_stale).                           *)
THEOREM NoLookupStorm == Spec => NoStorm
<1>1. ASSUME IInv, [Next]_vars, NEW t \in Requests, NEW h \in Hosts, Asks(t, h), said[h].known
      PROVE  clock - said[h].at >= (IF said[h].networks # {} THEN Ttl ELSE NegativeTtl)
  <2> USE DEF IInv
  <2>1. t \in Tasks /\ t # Boot
    BY ProxiesAssumption DEF Tasks
  <2>2. ~IsFresh(hosts[h]) =>
            clock - said[h].at >= (IF said[h].networks # {} THEN Ttl ELSE NegativeTtl)
    BY <1>1, ProxiesAssumption DEF IsFresh, Lifetime, Answered, TypeOK, Entry
  <2>3. IInv'
    BY <1>1, Inductive
  <2>4. ~IsFresh(hosts[h])'
    BY <1>1, <2>3 DEF Asks, Passing
  <2>5. CASE clock' = clock /\ hosts'[h] = hosts[h]
    BY <2>2, <2>4, <2>5 DEF IsFresh, Lifetime
  <2>6. CASE clock' = clock /\ hosts'[h].known /\ hosts'[h].at = clock
    BY <1>1, <2>4, <2>6, ProxiesAssumption DEF IsFresh, Lifetime, TypeOK
  <2>7. CASE Next
    <3>1. CASE Tick
      BY <1>1, <3>1 DEF Tick, Asks, locals
    <3>2. CASE Wake
      BY <2>5, <3>2 DEF Wake
    <3>3. CASE \E u \in Requests : Consult(u) \/ Leave(u)
      BY <2>5, <3>3 DEF Consult, Leave
    <3>4. CASE \E u \in Tasks : Lock(u)
      BY <2>5, <3>4 DEF Lock
    <3>5. ASSUME NEW u \in Tasks, NEW nets \in Answers, Resolved(u, nets)
          PROVE  /\ clock' = clock
                 /\ hosts'[h] = hosts[h] \/ (hosts'[h].known /\ hosts'[h].at = clock)
      BY <1>1, <3>5 DEF Resolved, Answer, TypeOK
    <3> QED BY <2>5, <2>6, <2>7, <3>1, <3>2, <3>3, <3>4, <3>5 DEF Next
  <2>8. CASE UNCHANGED vars
    BY <2>5, <2>8 DEF vars
  <2> QED BY <1>1, <2>7, <2>8
<1>2. IInv /\ [Next]_vars => [\A t \in Requests, h \in Hosts :
          Asks(t, h) /\ said[h].known =>
              clock - said[h].at >= (IF said[h].networks # {} THEN Ttl ELSE NegativeTtl)]_vars
  BY <1>1
<1> QED BY <1>2, Invariance, PTL DEF Spec, NoStorm

-----------------------------------------------------------------------------
(* The hops that are no trusted proxy. *)
Strangers(hops, len, trust) == {i \in 1..len : Normalize(hops[i]) \notin trust}

(* What is read of a header the hops have written to. *)
LEMMA LineRead ==
    ASSUME NEW claimed \in Seq(Lines), NEW seen \in Seq(Claims)
    PROVE  /\ claimed = <<>> => /\ Read(Appended(claimed, seen)) = seen
                                /\ Read(Added(claimed, seen)) = seen
           /\ claimed # <<>> => /\ Read(Appended(claimed, seen)) =
                                        IF claimed[1].text THEN claimed[1].entries \o seen ELSE <<>>
                                /\ Read(Added(claimed, seen)) = Read(claimed)
                                /\ claimed[1].entries \in Seq(Claims)
<1>1. CASE claimed = <<>>
  BY <1>1 DEF Read, Appended, Added
<1>2. CASE claimed # <<>>
  <2>1. /\ Len(claimed) \in Nat /\ Len(claimed) >= 1 /\ 1 \in DOMAIN claimed
        /\ DOMAIN claimed = 1..Len(claimed)
    BY <1>2, EmptySeq, LenProperties
  <2>2. claimed[1] \in Lines
    BY <2>1, ElementOfSeq
  <2>3. claimed[1].text \in BOOLEAN /\ claimed[1].entries \in Seq(Claims)
    BY <2>2 DEF Lines
  <2> DEFINE line == [text |-> claimed[1].text, entries |-> claimed[1].entries \o seen]
             new == [text |-> TRUE, entries |-> seen]
  <2>4. Appended(claimed, seen) = [claimed EXCEPT ![1] = line]
    BY <1>2, Zenon DEF Appended
  <2>5. [claimed EXCEPT ![1] = line] # <<>> /\ [claimed EXCEPT ![1] = line][1] = line
    BY <2>1
  <2>6. Read(Appended(claimed, seen)) = IF claimed[1].text THEN claimed[1].entries \o seen ELSE <<>>
    BY <2>4, <2>5 DEF Read
  <2>7. Added(claimed, seen) # <<>> /\ Added(claimed, seen)[1] = claimed[1]
    BY <2>1 DEF Added
  <2>8. Read(Added(claimed, seen)) = Read(claimed)
    BY <1>2, <2>7 DEF Read
  <2> QED BY <1>2, <2>3, <2>6, <2>8
<1> QED BY <1>1, <1>2

(* resolve_client_ip, for headers and routes of every length.  A request that *)
(* came over hops which each appended the peer they saw is attributed to the  *)
(* nearest hop that is not a trusted proxy, if the client's header was text   *)
(* or the peer itself is that hop; a header that is not text is dropped with  *)
(* what the hops wrote into it.  Lines that hops add after one of the         *)
(* client's change nothing.                                                   *)
THEOREM NearestStranger ==
    ASSUME NEW claimed \in Seq(Lines), NEW real \in Claims, NEW trust,
           NEW n \in Nat \ {0}, NEW hops \in [1..n -> RawAddrs],
           Strangers(hops, n, trust) # {}
    PROVE  LET nearest == Normalize(hops[Max(Strangers(hops, n, trust))])
               seen == SubSeq(hops, 1, n - 1)
           IN  /\ ResolveClientIp(hops[n], Appended(claimed, seen), real, trust) =
                   IF n \in Strangers(hops, n, trust) \/ claimed = <<>> \/ claimed[1].text
                   THEN nearest
                   ELSE IF real # Garbage THEN Normalize(real)
                   ELSE Normalize(hops[n])
               /\ ResolveClientIp(hops[n], Added(claimed, seen), real, trust) =
                   IF n \in Strangers(hops, n, trust) \/ claimed = <<>> THEN nearest
                   ELSE ResolveClientIp(hops[n], claimed, real, trust)
<1> DEFINE strangers == Strangers(hops, n, trust)
           nearest == Normalize(hops[Max(strangers)])
<1>1. PICK seen : seen = SubSeq(hops, 1, n - 1)
  OBVIOUS
<1>2. seen \in Seq(RawAddrs)
  <2>1. hops \in Seq(RawAddrs) /\ Len(hops) = n /\ n - 1 \in Nat
    OBVIOUS
  <2> QED BY <1>1, <2>1, SubSeqProperties
<1>3. seen \in Seq(Claims)
  BY <1>2 DEF Claims
<1>4. <<>> \in Seq(Claims) /\ <<>> \o seen = seen
  BY <1>3, ConcatEmptySeq
<1>5. ASSUME n \in strangers, NEW lines
      PROVE  ResolveClientIp(hops[n], lines, real, trust) = nearest
  <2>1. Max(strangers) = n
    <3>1. strangers \in SUBSET (1..n) /\ n \in Nat /\ \A i \in strangers : i <= n
      BY DEF Strangers
    <3> QED BY <1>5, <3>1, MaxIs
  <2>2. Normalize(hops[n]) \notin trust
    BY <1>5 DEF Strangers
  <2> QED BY <2>1, <2>2 DEF ResolveClientIp
<1>6. ASSUME NEW c \in Seq(Claims), NEW lines, Read(lines) = c \o seen
      PROVE  ResolveClientIp(hops[n], lines, real, trust) = nearest
  <2> USE DEF Strangers
  <2>1. PICK m : m = Max(strangers)
    OBVIOUS
  <2>2. m \in strangers /\ \A i \in strangers : i <= m
    <3>1. strangers \in SUBSET (1..n) /\ n \in Nat
      OBVIOUS
    <3> QED BY <2>1, <3>1, MaxFound
  <2>3. m \in 1..n /\ Normalize(hops[m]) \notin trust
    BY <2>2
  <2>4. CASE m = n
    BY <2>1, <2>3, <2>4 DEF ResolveClientIp
  <2>5. CASE m # n
    <3>1. n \notin strangers /\ m \in 1..(n - 1) /\ n - 1 \in Nat
      BY <2>2, <2>3, <2>5
    <3>2. Normalize(hops[n]) \in trust
      BY <3>1
    <3>4. /\ hops \in Seq(RawAddrs) /\ Len(hops) = n
      OBVIOUS
    <3>5. /\ seen \in Seq(RawAddrs) /\ Len(seen) = n - 1
          /\ \A i \in 1..(n - 1) : seen[i] = hops[i]
      BY <1>1, <3>1, <3>4, SubSeqProperties
    <3>6. PICK k \in Nat : k = Len(c)
      BY LenProperties
    <3>7. PICK forwarded : forwarded = c \o seen
      OBVIOUS
    <3>8. seen \in Seq(Claims)
      BY <3>5 DEF Claims
    <3>9. /\ forwarded \in Seq(Claims) /\ Len(forwarded) = k + (n - 1)
          /\ \A i \in 1..(k + (n - 1)) :
                 forwarded[i] = IF i <= k THEN c[i] ELSE seen[i - k]
      <4>1. /\ c \o seen \in Seq(Claims)
            /\ Len(c \o seen) = Len(c) + Len(seen)
            /\ \A i \in 1..Len(c) + Len(seen) : (c \o seen)[i] =
                   IF i <= Len(c) THEN c[i] ELSE seen[i - Len(c)]
        BY <3>8, ConcatProperties, Zenon
      <4>2. Len(c) = k /\ Len(seen) = n - 1
        BY <3>5, <3>6
      <4> QED BY <3>7, <4>1, <4>2, Zenon
    <3>10. DOMAIN forwarded = 1..(k + (n - 1))
      BY <3>9, LenProperties
    <3>11. \A i \in 1..(n - 1) : forwarded[k + i] = hops[i]
      <4>1. TAKE i \in 1..(n - 1)
      <4>2. k + i \in 1..(k + (n - 1)) /\ ~(k + i <= k) /\ (k + i) - k = i
        BY <3>1, <3>6, <4>1
      <4> QED BY <3>5, <3>9, <4>2
    <3>12. \A i \in 1..(n - 1) : hops[i] # Garbage
      BY <3>1, ProxiesAssumption DEF RawAddrs
    <3>13. k + m \in Outside(forwarded, trust)
      <4>1. k + m \in DOMAIN forwarded
        BY <3>1, <3>6, <3>10
      <4>2. forwarded[k + m] = hops[m] /\ hops[m] # Garbage
        BY <3>1, <3>11, <3>12
      <4> QED BY <2>3, <4>1, <4>2 DEF Outside
    <3>14. \A j \in Outside(forwarded, trust) : j <= k + m
      <4> SUFFICES ASSUME NEW j \in Outside(forwarded, trust), j > k + m
                   PROVE  FALSE
        BY <3>1, <3>6, <3>10 DEF Outside
      <4>1. j \in 1..(k + (n - 1)) /\ Normalize(forwarded[j]) \notin trust
        BY <3>10 DEF Outside
      <4>2. PICK i \in 1..(n - 1) : j = k + i /\ i > m
        <5>1. j - k \in 1..(n - 1) /\ j = k + (j - k) /\ j - k > m
          BY <3>1, <3>6, <4>1
        <5> QED BY <5>1
      <4>3. Normalize(hops[i]) \notin trust
        BY <3>11, <4>1, <4>2
      <4>4. i \in strangers
        BY <4>3
      <4> QED BY <2>2, <2>3, <4>2, <4>4
    <3>15. Max(Outside(forwarded, trust)) = k + m
      <4>1. k + (n - 1) \in Nat /\ Outside(forwarded, trust) \in SUBSET (1..(k + (n - 1)))
        BY <3>1, <3>6, <3>10 DEF Outside
      <4> QED BY <3>13, <3>14, <4>1, MaxIs
    <3>16. ResolveClientIp(hops[n], lines, real, trust) = Normalize(hops[m])
      BY <1>6, <3>1, <3>2, <3>7, <3>11, <3>13, <3>15 DEF ResolveClientIp
    <3> QED BY <2>1, <3>16
  <2> QED BY <2>4, <2>5
<1>7. CASE claimed = <<>>
  <2>1. Read(Appended(claimed, seen)) = <<>> \o seen /\ Read(Added(claimed, seen)) = <<>> \o seen
    BY <1>3, <1>4, <1>7, LineRead
  <2>2. /\ ResolveClientIp(hops[n], Appended(claimed, seen), real, trust) = nearest
        /\ ResolveClientIp(hops[n], Added(claimed, seen), real, trust) = nearest
    BY <1>4, <1>6, <2>1, Zenon
  <2> QED BY <1>1, <1>7, <2>2, Zenon
<1>8. CASE claimed # <<>>
  <2>1. /\ Read(Appended(claimed, seen)) =
             IF claimed[1].text THEN claimed[1].entries \o seen ELSE <<>>
        /\ Read(Added(claimed, seen)) = Read(claimed)
        /\ claimed[1].entries \in Seq(Claims)
    BY <1>3, <1>8, LineRead
  <2>2. ResolveClientIp(hops[n], Added(claimed, seen), real, trust)
            = ResolveClientIp(hops[n], claimed, real, trust)
    BY <2>1 DEF ResolveClientIp
  <2>3. CASE claimed[1].text
    <3>1. ResolveClientIp(hops[n], Appended(claimed, seen), real, trust) = nearest
      BY <1>6, <2>1, <2>3, Zenon
    <3> QED BY <1>1, <1>5, <1>8, <2>2, <2>3, <3>1
  <2>4. CASE ~claimed[1].text
    <3>1. Outside(<<>>, trust) = {}
      BY DEF Outside
    <3>2. ASSUME n \notin strangers
          PROVE  ResolveClientIp(hops[n], Appended(claimed, seen), real, trust) =
                     IF real # Garbage THEN Normalize(real) ELSE Normalize(hops[n])
      <4>1. Normalize(hops[n]) \in trust
        BY <3>2 DEF Strangers
      <4> QED BY <2>1, <2>4, <3>1, <4>1 DEF ResolveClientIp
    <3> QED BY <1>1, <1>5, <1>8, <2>2, <2>4, <3>2
  <2> QED BY <2>3, <2>4
<1> QED BY <1>7, <1>8

(* Every request that was served is attributed by the set it was given, with  *)
(* the exceptions NearestStranger names.                                      *)
THEOREM ClientIsFound == Spec => []ClientFound
<1>1. ASSUME NEW trust \in SUBSET Addrs PROVE Attributed(trust)
  <2> SUFFICES ASSUME NEW claimed \in Written, NEW real \in Claims,
                      NEW len \in 1..2, NEW hops \in Route(len),
                      Strangers(hops, len, trust) # {}
               PROVE  LET nearest == Normalize(hops[Max(Strangers(hops, len, trust))])
                          seen == SubSeq(hops, 1, len - 1)
                      IN  /\ ResolveClientIp(hops[len], Appended(claimed, seen), real, trust) =
                              IF len \in Strangers(hops, len, trust) \/ claimed = <<>>
                                   \/ claimed[1].text
                              THEN nearest
                              ELSE IF real # Garbage THEN Normalize(real)
                              ELSE Normalize(hops[len])
                          /\ ResolveClientIp(hops[len], Added(claimed, seen), real, trust) =
                              IF len \in Strangers(hops, len, trust) \/ claimed = <<>>
                              THEN nearest
                              ELSE ResolveClientIp(hops[len], claimed, real, trust)
    BY Zenon DEF Attributed, Strangers
  <2>1. claimed \in Seq(Lines)
    <3>1. CASE claimed = <<>>
      BY <3>1
    <3>2. ASSUME NEW b \in BOOLEAN, NEW e \in {<<>>} \cup {<<c>> : c \in Claims},
                 claimed = <<[text |-> b, entries |-> e]>>
          PROVE  claimed \in Seq(Lines)
      <4>1. e \in Seq(Claims)
        <5>1. CASE e = <<>>
          BY <5>1
        <5>2. CASE \E c \in Claims : e = <<c>>
          BY <5>2
        <5>3. e = <<>> \/ \E c \in Claims : e = <<c>>
          BY Zenon
        <5> QED BY <5>1, <5>2, <5>3
      <4>2. [text |-> b, entries |-> e] \in Lines
        BY <4>1 DEF Lines
      <4> QED BY <3>2, <4>2
    <3>3. \/ claimed = <<>>
          \/ \E b \in BOOLEAN, e \in {<<>>} \cup {<<c>> : c \in Claims} :
                claimed = <<[text |-> b, entries |-> e]>>
      BY DEF Written
    <3> QED BY <3>1, <3>2, <3>3, Zenon
  <2>2. len \in Nat \ {0} /\ hops \in [1..len -> RawAddrs]
    BY DEF Route
  <2> QED BY <2>1, <2>2, NearestStranger, Zenon
<1>2. IInv => ClientFound
  <2> SUFFICES ASSUME IInv, NEW t \in Requests
               PROVE  <<trusted[t], TRUE>> \in Attribution
    BY DEF ClientFound
  <2>1. PICK trust \in SUBSET Addrs : trust = trusted[t]
    BY DEF IInv, TypeOK
  <2>2. Attributed(trust) = TRUE
    BY <1>1, Zenon DEF Attributed
  <2> QED BY <2>1, <2>2 DEF Attribution
<1> QED BY <1>2, Invariance, PTL
=============================================================================
