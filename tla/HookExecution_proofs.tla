------------------------- MODULE HookExecution_proofs -------------------------
(***************************************************************************)
(* Proofs about HookExecution, for every set of requests and keys and      *)
(* every bound.  They need no counting: what is proved here is what a      *)
(* request's position says of its process and of what it has seen.         *)
(***************************************************************************)
EXTENDS HookExecution, TLAPS

(* The part of TypeOK these proofs rest on. *)
Shape ==
    /\ pc \in [Requests -> PCs]
    /\ who \in [Requests -> Keys \cup {Keyless}]
    /\ child \in [Requests -> Child]
    /\ stray \in [Requests -> BOOLEAN]
    /\ spared \in [Requests -> SUBSET Parts]
    /\ status \in [Requests -> Status]
    /\ answer \in [Requests -> Answer]
    /\ sawLive \in [Requests -> BOOLEAN]
    /\ sawRight \in [Requests -> BOOLEAN]

(* Where a request is tells what is left of its process group. *)
ProcessOK ==
    \A r \in Requests :
        /\ child[r] = "running" => \/ pc[r] = "wait"
                                   \/ pc[r] = "kill" /\ "child" \in spared[r]
                                   \/ pc[r] = "done" /\ Abandoned(r)
        /\ pc[r] = "kill" => (stray[r] => spared[r] # {})
        /\ status[r] = "TIMEOUT" => /\ stray[r] => spared[r] # {}
                                    /\ child[r] # "running"
                                    /\ pc[r] \in {"drain", "insert", "done"}

(* The histories miss nothing, and a request past a check has seen what the *)
(* check wants.                                                             *)
WitnessOK ==
    \A r \in Requests :
        /\ InFlight(r) /\ hook = "live" => sawLive[r]
        /\ InFlight(r) /\ Right(who[r], mode, may) => sawRight[r]
        /\ InFlight(r) /\ who[r] = Keyless => sawRight[r]
        /\ pc[r] \in {"guard", "prepare", "budget", "permit", "spawn"} => sawLive[r]
        /\ pc[r] \in {"prepare", "budget", "permit", "spawn"} => sawRight[r]
        /\ child[r] # "none" => sawLive[r] /\ sawRight[r]
        /\ pc[r] = "idle" => who[r] = Keyless /\ child[r] = "none"

Inv == Shape /\ ProcessOK /\ WitnessOK

-----------------------------------------------------------------------------
LEMMA InvInit == Init => Inv
BY DEF Init, Inv, Shape, ProcessOK, WitnessOK, InFlight, PCs, Child, Status, Answer

(* The handler advances: nothing but the position changes. *)
LEMMA ProceedKeeps ==
    ASSUME Inv, NEW r \in Requests, NEW p \in PCs \ {"idle", "kill"}, Proceed(r, p),
           InFlight(r), pc[r] # "wait", pc[r] # "kill",
           status[r] = "TIMEOUT" => p \in {"drain", "insert", "done"},
           p \in {"guard", "prepare", "budget", "permit", "spawn"} => sawLive[r],
           p \in {"prepare", "budget", "permit", "spawn"} => sawRight[r]
    PROVE  Inv'
<1> USE DEF Inv, Proceed, Goto, catalogue, process, witness
<1>1. Shape'
  BY DEF Shape
<1>2. ProcessOK'
  BY DEF Shape, ProcessOK, Abandoned, InFlight
<1>3. WitnessOK'
  BY DEF Shape, WitnessOK, InFlight
<1> QED
  BY <1>1, <1>2, <1>3

(* The handler ends, before the spawn or after the process is gone. *)
LEMMA RefuseKeeps ==
    ASSUME Inv, NEW r \in Requests, Refuse(r), InFlight(r), child[r] # "running"
    PROVE  Inv'
<1> USE DEF Inv, Refuse, Goto, catalogue, process, witness
<1>1. Shape'
  BY DEF Shape, PCs, Answer
<1>2. ProcessOK'
  BY DEF Shape, ProcessOK, Abandoned
<1>3. WitnessOK'
  BY DEF Shape, WitnessOK, InFlight
<1> QED
  BY <1>1, <1>2, <1>3

(* What a kill leaves alive, it was refused. *)
LEMMA KillKeeps ==
    ASSUME Shape, NEW r \in Requests, NEW aim \in SUBSET Parts, "child" \in aim,
           NEW left \in SUBSET Parts, Kill(r, aim, left)
    PROVE  /\ child' \in [Requests -> Child]
           /\ stray' \in [Requests -> BOOLEAN]
           /\ spared' \in [Requests -> SUBSET Parts]
           /\ \A q \in Requests \ {r} :
                child'[q] = child[q] /\ stray'[q] = stray[q] /\ spared'[q] = spared[q]
           /\ child'[r] = child[r] \/ (child[r] = "running" /\ child'[r] = "killed")
           /\ child'[r] = "running" => "child" \in spared'[r]
           /\ spared[r] \subseteq spared'[r]
           /\ stray'[r] => stray[r]
           /\ "stray" \in aim /\ stray'[r] => spared'[r] # {}
<1> DEFINE hit == (Living(r) \cap aim) \ left
<1>1. /\ child' = [child EXCEPT ![r] = IF "child" \in hit THEN "killed" ELSE child[r]]
      /\ stray' = [stray EXCEPT ![r] = stray[r] /\ "stray" \notin hit]
      /\ spared' = [spared EXCEPT ![r] = spared[r] \cup left]
  BY Zenon DEF Kill
<1>2. /\ "child" \in Living(r) <=> child[r] = "running"
      /\ "stray" \in Living(r) <=> stray[r] = TRUE
  BY DEF Living, Parts, Shape
<1>3. child[r] \in Child /\ stray[r] \in BOOLEAN /\ spared[r] \in SUBSET Parts
  BY DEF Shape
<1>4. /\ child' \in [Requests -> Child]
      /\ \A q \in Requests \ {r} : child'[q] = child[q]
      /\ child'[r] = IF "child" \in hit THEN "killed" ELSE child[r]
  BY <1>1, <1>3 DEF Shape, Child
<1>5. /\ stray' \in [Requests -> BOOLEAN]
      /\ \A q \in Requests \ {r} : stray'[q] = stray[q]
      /\ stray'[r] = (stray[r] /\ "stray" \notin hit)
  BY <1>1, <1>3, Zenon DEF Shape
<1>6. /\ spared' \in [Requests -> SUBSET Parts]
      /\ \A q \in Requests \ {r} : spared'[q] = spared[q]
      /\ spared'[r] = spared[r] \cup left
  BY <1>1, <1>3 DEF Shape
<1>7. child'[r] = "running" => "child" \in left
  BY <1>2, <1>4
<1>8. "stray" \in aim /\ stray'[r] => "stray" \in left
  BY <1>2, <1>5
<1>9. "child" \in hit => child[r] = "running"
  BY <1>2
<1> QED
  BY <1>4, <1>5, <1>6, <1>7, <1>8, <1>9

(* An administrative write changes no request, and the histories note it. *)
LEMMA WriteKeeps ==
    ASSUME Inv, Write
    PROVE  Inv'
<1> USE DEF Inv, Write, process
<1>1. Shape'
  BY DEF Shape
<1>2. ProcessOK'
  BY DEF ProcessOK, Abandoned
<1>3. WitnessOK'
  BY DEF Shape, WitnessOK, InFlight, Right
<1> QED
  BY <1>1, <1>2, <1>3

(* Every step preserves the invariant. *)
LEMMA InvStep == Inv /\ [Next]_vars => Inv'
<1> SUFFICES ASSUME Inv, [Next]_vars PROVE Inv'
  OBVIOUS
<1> USE DEF Inv
<1>1. ASSUME NEW r \in Requests, NEW k \in Keys, Authenticate(r, k) PROVE Inv'
  <2> USE <1>1, ExecutionAssumption DEF Authenticate, Goto, catalogue, process
  <2>1. Shape'
    BY DEF Shape, PCs, Right, ExecutionAssumption
  <2>2. ProcessOK'
    BY DEF Shape, ProcessOK, Abandoned
  <2>3. WitnessOK'
    BY DEF Shape, WitnessOK, InFlight, Right, ExecutionAssumption
  <2> QED
    BY <2>1, <2>2, <2>3
<1>2. ASSUME NEW r \in Requests, AdmitKeyless(r) PROVE Inv'
  <2> USE <1>2 DEF AdmitKeyless, Goto, catalogue, process
  <2>1. Shape'
    BY DEF Shape, PCs
  <2>2. ProcessOK'
    BY DEF Shape, ProcessOK, Abandoned
  <2>3. WitnessOK'
    BY DEF Shape, WitnessOK, InFlight, Right
  <2> QED
    BY <2>1, <2>2, <2>3
<1>3. ASSUME NEW r \in Requests, ResolveHook(r) PROVE Inv'
  <2>1. pc[r] = "resolve" /\ InFlight(r) /\ child[r] # "running" /\ status[r] # "TIMEOUT"
    BY <1>3 DEF ResolveHook, InFlight, ProcessOK
  <2>2. CASE hook = "live" /\ Proceed(r, "guard")
    BY <2>1, <2>2, ProceedKeeps DEF WitnessOK, PCs
  <2>3. CASE Refuse(r)
    BY <2>1, <2>3, RefuseKeeps
  <2> QED
    BY <1>3, <2>2, <2>3 DEF ResolveHook
<1>4. ASSUME NEW r \in Requests, GuardExecute(r) PROVE Inv'
  <2>1. pc[r] = "guard" /\ InFlight(r) /\ child[r] # "running" /\ status[r] # "TIMEOUT"
    BY <1>4 DEF GuardExecute, InFlight, ProcessOK
  <2>2. CASE /\ who[r] = Keyless \/ who[r] \in Masters \/ may[who[r]]
             /\ Proceed(r, "prepare")
    <3>1. sawLive[r] /\ sawRight[r]
      BY <2>1, <2>2 DEF WitnessOK, Right
    <3> QED
      BY <2>1, <2>2, <3>1, ProceedKeeps DEF PCs
  <2>3. CASE Refuse(r)
    BY <2>1, <2>3, RefuseKeeps
  <2> QED
    BY <1>4, <2>2, <2>3, Zenon DEF GuardExecute
<1>5. ASSUME NEW r \in Requests, Prepare(r) PROVE Inv'
  <2>1. /\ pc[r] = "prepare" /\ InFlight(r) /\ child[r] # "running" /\ status[r] # "TIMEOUT"
        /\ sawLive[r] /\ sawRight[r]
    BY <1>5 DEF Prepare, InFlight, ProcessOK, WitnessOK
  <2>2. CASE Proceed(r, "spawn")
    BY <2>1, <2>2, ProceedKeeps DEF PCs
  <2>3. CASE Proceed(r, "budget")
    BY <2>1, <2>3, ProceedKeeps DEF PCs
  <2>4. CASE Refuse(r)
    BY <2>1, <2>4, RefuseKeeps
  <2> QED
    BY <1>5, <2>2, <2>3, <2>4 DEF Prepare
<1>6. ASSUME NEW r \in Requests, PickBudget(r) PROVE Inv'
  <2>1. /\ pc[r] = "budget"
        /\ Goto(r, "permit")
        /\ UNCHANGED <<catalogue, process, who, witness, answer>>
    BY <1>6 DEF PickBudget
  <2> USE <2>1 DEF Goto, catalogue, process, witness
  <2>2. Shape'
    BY DEF Shape, PCs
  <2>3. ProcessOK'
    BY DEF Shape, ProcessOK, Abandoned
  <2>4. WitnessOK'
    BY DEF Shape, WitnessOK, InFlight
  <2> QED
    BY <2>2, <2>3, <2>4
<1>7. ASSUME NEW r \in Requests, TakePermit(r) PROVE Inv'
  <2>1. pc[r] = "permit" /\ InFlight(r) /\ child[r] # "running"
    BY <1>7 DEF TakePermit, InFlight, ProcessOK
  <2>2. CASE Goto(r, "spawn") /\ UNCHANGED <<catalogue, process, who, witness, answer>>
    <3> USE <2>1, <2>2 DEF Goto, catalogue, process, witness
    <3>1. Shape'
      BY DEF Shape, PCs
    <3>2. ProcessOK'
      BY DEF Shape, ProcessOK, Abandoned
    <3>3. WitnessOK'
      BY DEF Shape, WitnessOK, InFlight
    <3> QED
      BY <3>1, <3>2, <3>3
  <2>3. CASE Refuse(r)
    BY <2>1, <2>3, RefuseKeeps
  <2> QED
    BY <1>7, <2>2, <2>3 DEF TakePermit
<1>8. ASSUME NEW r \in Requests, Spawn(r) PROVE Inv'
  <2>1. pc[r] = "spawn" /\ InFlight(r) /\ child[r] # "running"
    BY <1>8 DEF Spawn, InFlight, ProcessOK
  <2>2. CASE Refuse(r)
    BY <2>1, <2>2, RefuseKeeps
  <2>3. CASE /\ status' = [status EXCEPT ![r] = "FAILED"]
             /\ Goto(r, "insert")
             /\ UNCHANGED <<catalogue, child, stray, spared, who, witness, answer>>
    <3> USE <2>1, <2>3 DEF Goto, catalogue, witness
    <3>1. Shape'
      BY DEF Shape, PCs, Status
    <3>2. ProcessOK'
      BY DEF Shape, ProcessOK, Abandoned
    <3>3. WitnessOK'
      BY DEF Shape, WitnessOK, InFlight
    <3> QED
      BY <3>1, <3>2, <3>3
  <2>4. CASE /\ child' = [child EXCEPT ![r] = "running"]
             /\ Goto(r, "wait")
             /\ UNCHANGED <<catalogue, stray, spared, status, who, witness, answer>>
    <3> USE <2>1, <2>4 DEF Goto, catalogue, witness
    <3>1. Shape'
      BY DEF Shape, PCs, Child
    <3>2. ProcessOK'
      BY DEF Shape, ProcessOK, Abandoned
    <3>3. WitnessOK'
      BY DEF Shape, WitnessOK, InFlight
    <3> QED
      BY <3>1, <3>2, <3>3
  <2> QED
    BY <1>8, <2>2, <2>3, <2>4 DEF Spawn
<1>9. ASSUME NEW r \in Requests, Fork(r) \/ Exit(r) \/ StrayExit(r) PROVE Inv'
  <2> USE <1>9 DEF Fork, Exit, StrayExit, catalogue, witness
  <2>1. Shape'
    BY DEF Shape, Child
  <2>2. ProcessOK'
    BY DEF Shape, ProcessOK, Abandoned
  <2>3. WitnessOK'
    BY DEF Shape, WitnessOK, InFlight, ProcessOK
  <2> QED
    BY <2>1, <2>2, <2>3
<1>10. ASSUME NEW r \in Requests, WaitReturns(r) \/ Reap(r) PROVE Inv'
  <2> USE <1>10 DEF WaitReturns, Reap, Goto, catalogue, witness
  <2>1. Shape'
    BY DEF Shape, PCs, Status
  <2>2. ProcessOK'
    BY DEF Shape, ProcessOK, Abandoned
  <2>3. WitnessOK'
    BY DEF Shape, WitnessOK, InFlight
  <2> QED
    BY <2>1, <2>2, <2>3
<1>11. ASSUME NEW r \in Requests, TimeOut(r) PROVE Inv'
  <2>0. /\ pc[r] = "wait" /\ Goto(r, "kill")
        /\ UNCHANGED <<catalogue, status, who, witness, answer>>
    BY <1>11 DEF TimeOut
  <2>1. PICK left \in SUBSET Parts : Kill(r, Parts, left)
    BY <1>11 DEF TimeOut
  <2>2. /\ child' \in [Requests -> Child]
        /\ stray' \in [Requests -> BOOLEAN]
        /\ spared' \in [Requests -> SUBSET Parts]
        /\ \A q \in Requests \ {r} :
             child'[q] = child[q] /\ stray'[q] = stray[q] /\ spared'[q] = spared[q]
        /\ child'[r] = child[r] \/ (child[r] = "running" /\ child'[r] = "killed")
        /\ child'[r] = "running" => "child" \in spared'[r]
        /\ stray'[r] => spared'[r] # {}
    BY <2>1, KillKeeps DEF Parts
  <2> USE <2>0, <2>2 DEF Goto, catalogue, witness
  <2>3. Shape'
    BY DEF Shape, PCs
  <2>4. ProcessOK'
    BY DEF Shape, ProcessOK, Abandoned
  <2>5. WitnessOK'
    BY DEF Shape, WitnessOK, InFlight
  <2> QED
    BY <2>3, <2>4, <2>5
<1>12. ASSUME NEW r \in Requests, Drain(r) PROVE Inv'
  <2>1. pc[r] = "drain" /\ InFlight(r) /\ Proceed(r, "insert")
    BY <1>12 DEF Drain, InFlight
  <2> QED
    BY <2>1, ProceedKeeps DEF PCs
<1>13. ASSUME NEW r \in Requests, Insert(r) PROVE Inv'
  <2>1. /\ pc[r] = "insert" /\ Goto(r, "done") /\ UNCHANGED <<catalogue, process, who, witness>>
        /\ \E a \in {"ok", "error"} : answer' = [answer EXCEPT ![r] = a]
    BY <1>13 DEF Insert
  <2> USE <2>1 DEF Goto, catalogue, process, witness
  <2>2. Shape'
    BY DEF Shape, PCs, Answer
  <2>3. ProcessOK'
    BY DEF Shape, ProcessOK, Abandoned
  <2>4. WitnessOK'
    BY DEF Shape, WitnessOK, InFlight
  <2> QED
    BY <2>2, <2>3, <2>4
<1>14. ASSUME NEW r \in Requests, Disconnect(r) PROVE Inv'
  <2>0. /\ InFlight(r) /\ Goto(r, "done") /\ answer' = [answer EXCEPT ![r] = "dropped"]
        /\ UNCHANGED <<catalogue, status, who, witness>>
    BY <1>14 DEF Disconnect
  <2>1. PICK left \in SUBSET Parts : Kill(r, {"child"}, left)
    BY <1>14 DEF Disconnect
  <2>2. /\ child' \in [Requests -> Child]
        /\ stray' \in [Requests -> BOOLEAN]
        /\ spared' \in [Requests -> SUBSET Parts]
        /\ \A q \in Requests \ {r} :
             child'[q] = child[q] /\ stray'[q] = stray[q] /\ spared'[q] = spared[q]
        /\ child'[r] = child[r] \/ (child[r] = "running" /\ child'[r] = "killed")
        /\ child'[r] = "running" => "child" \in spared'[r]
        /\ spared[r] \subseteq spared'[r]
        /\ stray'[r] => stray[r]
    BY <2>1, KillKeeps DEF Parts
  <2> USE <2>0, <2>2 DEF Goto, catalogue, witness
  <2>3. Shape'
    BY DEF Shape, PCs, Answer
  <2>4. ProcessOK'
    BY DEF Shape, ProcessOK, Abandoned, InFlight
  <2>5. WitnessOK'
    BY DEF Shape, WitnessOK, InFlight
  <2> QED
    BY <2>3, <2>4, <2>5
<1>15. ASSUME NEW k \in Keys, EditLimit(k) \/ DeleteKey(k) \/ SetPermission(k) PROVE Inv'
  BY <1>15, WriteKeeps, Zenon DEF EditLimit, DeleteKey, SetPermission
<1>16. CASE SetMode \/ Trash \/ Restore \/ HardDelete \/ EraseRows
  BY <1>16, WriteKeeps, Zenon DEF SetMode, Trash, Restore, HardDelete, EraseRows
<1>17. CASE UNCHANGED vars
  BY <1>17 DEF vars, catalogue, process, witness, Shape, ProcessOK, Abandoned, WitnessOK, InFlight
<1> QED
  BY <1>1, <1>2, <1>3, <1>4, <1>5, <1>6, <1>7, <1>8, <1>9, <1>10, <1>11, <1>12, <1>13,
     <1>14, <1>15, <1>16, <1>17, Zenon DEF Next, ServerStep

LEMMA InvHolds == Spec => []Inv
BY InvInit, InvStep, PTL DEF Spec

-----------------------------------------------------------------------------
(* No hook is started that was not live, or that its caller had no right    *)
(* to, at some instant of the very request that started it.                 *)
THEOREM SpawnsEntitled == Spec => []SpawnEntitled
<1>1. Inv => SpawnEntitled
  BY DEF Inv, WitnessOK, SpawnEntitled
<1> QED
  BY <1>1, InvHolds, PTL

(* A timed-out execution leaves no member of its process group alive unless *)
(* the operating system refused to kill a part of it, and the direct child  *)
(* is dead in any case.                                                     *)
THEOREM TimeoutsLeaveNothing == Spec => []TimeoutLeavesNothing
<1>1. Inv => TimeoutLeavesNothing
  BY DEF Inv, ProcessOK, TimeoutLeavesNothing
<1> QED
  BY <1>1, InvHolds, PTL
=============================================================================
