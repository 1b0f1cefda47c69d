------------------------- MODULE AccessControl_proofs -------------------------
(***************************************************************************)
(* TLAPS proofs about AccessControl: the tables stay well typed, no verb   *)
(* reaches a key that the master or a creator's provisioning did not bring *)
(* to the hook, and no cascade leaves the caller's own subtree, for every  *)
(* number of keys, hooks, verbs and requests in flight; and what the       *)
(* guards achieve while requests do not overlap.                           *)
(***************************************************************************)
EXTENDS AccessControl, TLAPS

(* A request in flight has a caller, and one past its guards the hook they  *)
(* resolved.                                                                *)
HookSteps == {"permit", "revoke", "provision", "edit", "trash", "drop", "restore"}
GoodJob == {j \in Job : /\ j.pc # "idle" => j.who \in Keys
                        /\ j.pc \in HookSteps => j.hook \in Hooks}
TypeInv == TablesOK /\ job \in [Workers -> GoodJob]

(* Keys that exist or have existed; a request is made with one of them. *)
Minted(k) == k = Master \/ parent[k] # Nobody
CallersMinted == \A w \in Workers : job[w].pc # "idle" => Minted(job[w].who)

(* What a write in flight is about to grant is already rooted. *)
GrantsRooted ==
    \A w \in Workers : job[w].pc = "permit" /\ job[w].who # Master
        => (job[w].put \cap Verbs) \subseteq rooted[job[w].hook]

(* The history of ancestors follows parent_key_id, which starts at the master. *)
LineFollowsParents ==
    /\ parent[Master] = Nobody /\ line[Master] = {}
    /\ \A k \in alive : Minted(k)
    /\ \A k \in Keys : parent[k] # Nobody
         => Minted(parent[k]) /\ line[k] = line[parent[k]] \cup {parent[k]}

(* A subtree collected for deletion lies below the caller, and still will   *)
(* when the deletion is carried out.                                        *)
DoomedBelow ==
    \A w \in Workers : job[w].pc = "resolve"
        => \A k \in job[w].doomed : /\ k # Master /\ Minted(k)
                                    /\ job[w].who = Master \/ job[w].who \in line[k]

RightsInv == TypeInv /\ GrantsRooted /\ RightsRooted
LineInv == TypeInv /\ CallersMinted /\ LineFollowsParents /\ DoomedBelow
-----------------------------------------------------------------------------
(* Types                                                                    *)

LEMMA IdleTyped == Idle \in GoodJob
BY DEF Idle, GoodJob, HookSteps, Job, NoFate, Fates, PCs

(* The request of worker w is replaced by another well-typed one. *)
LEMMA JobReplaced ==
    ASSUME job \in [Workers -> GoodJob], NEW w \in Workers, NEW next \in GoodJob,
           job' = [job EXCEPT ![w] = next]
    PROVE  job' \in [Workers -> GoodJob]
OBVIOUS

LEMMA FinishTyped ==
    ASSUME job \in [Workers -> GoodJob], NEW w \in Workers, Finish(w)
    PROVE  job' \in [Workers -> GoodJob]
BY IdleTyped, JobReplaced DEF Finish

(* The fields of the request a step is taken for. *)
LEMMA Fields ==
    ASSUME TypeInv, NEW w \in Workers
    PROVE  /\ job[w] \in GoodJob
           /\ job[w].pc \in PCs
           /\ job[w].who \in Keys \cup {Nobody}
           /\ job[w].pc # "idle" => job[w].who \in Keys
           /\ job[w].key \in Keys \cup {Nobody}
           /\ job[w].pc \in HookSteps => job[w].hook \in Hooks
           /\ job[w].doomed \subseteq Keys
           /\ job[w].fate \in [Hooks -> Fates]
BY DEF TypeInv, GoodJob, Job

(* A request whose guards have passed only changes its own record. *)
LEMMA ProceedTyped ==
    ASSUME TypeInv, NEW w \in Workers, NEW next \in GoodJob, Proceed(w, next)
    PROVE  TypeInv'
<1>1. job' \in [Workers -> GoodJob]
  BY JobReplaced DEF Proceed, TypeInv
<1>2. TablesOK'
  BY DEF Proceed, TypeInv, TablesOK, keyTable, hookTable, config, permTable
<1> QED
  BY <1>1, <1>2 DEF TypeInv

(* The first steps of every request. *)
LEMMA TypeCheck ==
    ASSUME TypeInv, NEW w \in Workers, job[w].pc = "in",
           \/ \E t \in Keys, put, cut \in SUBSET (Flags \ {"secret"}) : CheckUpdate(w, t, put, cut)
           \/ \E t \in Keys : CheckRotate(w, t)
           \/ \E t \in Keys, fate \in [Hooks -> Fates] : CheckDelete(w, t, fate)
           \/ \E t \in Keys, h \in Hooks, vs \in SUBSET Verbs : CheckGrant(w, t, h, vs)
           \/ \E t \in Keys, h \in Hooks : CheckRevoke(w, t, h)
           \/ \E h \in Hooks, put \in EditRequests, to \in Keys \cup {Nobody} : CheckEdit(w, h, put, to)
           \/ \E h \in Hooks : CheckTrash(w, h) \/ CheckDrop(w, h) \/ CheckRestore(w, h)
    PROVE  TypeInv'
<1>1. job[w] \in GoodJob
  BY DEF TypeInv
<1>2. ASSUME NEW t \in Keys, NEW put \in SUBSET (Flags \ {"secret"}),
             NEW cut \in SUBSET (Flags \ {"secret"}), CheckUpdate(w, t, put, cut)
      PROVE  TypeInv'
  <2>1. [job[w] EXCEPT !.pc = "update", !.key = t, !.put = put, !.cut = cut] \in GoodJob
    BY <1>1 DEF GoodJob, HookSteps, Job, PCs
  <2> QED
    BY <1>2, <2>1, ProceedTyped DEF CheckUpdate
<1>3. ASSUME NEW t \in Keys, CheckRotate(w, t)
      PROVE  TypeInv'
  <2>1. [job[w] EXCEPT !.pc = "update", !.key = t, !.put = {"secret"}] \in GoodJob
    BY <1>1 DEF GoodJob, HookSteps, Job, PCs, Flags
  <2> QED
    BY <1>3, <2>1, ProceedTyped DEF CheckRotate
<1>4. ASSUME NEW t \in Keys, NEW fate \in [Hooks -> Fates], CheckDelete(w, t, fate)
      PROVE  TypeInv'
  <2>1. Subtree(t) \in SUBSET Keys
    BY DEF Subtree, Descendants, TypeInv, TablesOK
  <2>2. [job[w] EXCEPT !.pc = "resolve", !.doomed = Subtree(t), !.fate = fate] \in GoodJob
    BY <1>1, <2>1 DEF GoodJob, HookSteps, Job, PCs
  <2> QED
    BY <1>4, <2>2, ProceedTyped DEF CheckDelete
<1>5. ASSUME NEW t \in Keys, NEW h \in Hooks, NEW vs \in SUBSET Verbs, CheckGrant(w, t, h, vs)
      PROVE  TypeInv'
  <2>1. [job[w] EXCEPT !.pc = "permit", !.key = t, !.hook = h, !.put = vs] \in GoodJob
    BY <1>1 DEF GoodJob, HookSteps, Job, PCs
  <2> QED
    BY <1>5, <2>1, ProceedTyped DEF CheckGrant
<1>6. ASSUME NEW t \in Keys, NEW h \in Hooks, CheckRevoke(w, t, h)
      PROVE  TypeInv'
  <2>1. [job[w] EXCEPT !.pc = "revoke", !.key = t, !.hook = h] \in GoodJob
    BY <1>1 DEF GoodJob, HookSteps, Job, PCs
  <2> QED
    BY <1>6, <2>1, ProceedTyped DEF CheckRevoke
<1>7. ASSUME NEW h \in Hooks, NEW put \in EditRequests, NEW to \in Keys \cup {Nobody},
             CheckEdit(w, h, put, to)
      PROVE  TypeInv'
  <2>1. [job[w] EXCEPT !.pc = "edit", !.hook = h, !.put = put, !.key = to] \in GoodJob
    BY <1>1 DEF GoodJob, HookSteps, Job, PCs, EditRequests
  <2> QED
    BY <1>7, <2>1, ProceedTyped DEF CheckEdit
<1>8. ASSUME NEW h \in Hooks, CheckTrash(w, h) \/ CheckDrop(w, h) \/ CheckRestore(w, h)
      PROVE  TypeInv'
  <2>1. /\ [job[w] EXCEPT !.pc = "trash", !.hook = h] \in GoodJob
        /\ [job[w] EXCEPT !.pc = "drop", !.hook = h] \in GoodJob
        /\ [job[w] EXCEPT !.pc = "restore", !.hook = h] \in GoodJob
    BY <1>1 DEF GoodJob, HookSteps, Job, PCs
  <2> QED
    BY <1>8, <2>1, ProceedTyped DEF CheckTrash, CheckDrop, CheckRestore
<1> QED
  BY <1>2, <1>3, <1>4, <1>5, <1>6, <1>7, <1>8
(* Steps that write the tables, or begin and end a request. *)
LEMMA TypeWrite ==
    ASSUME TypeInv, NEW w \in Workers,
           \/ \E c \in Keys : Begin(w, c)
           \/ Abandon(w)
           \/ \E n \in Keys, fs \in SUBSET Flags : job[w].pc = "in" /\ CreateKey(w, n, fs)
           \/ UpdateKey(w) \/ Cascade(w) \/ Permit(w) \/ Revoke(w) \/ Provision(w)
           \/ \E h \in Hooks : Resolve(w, h)
           \/ \E h \in Hooks, runAs \in BOOLEAN : job[w].pc = "in" /\ CreateHook(w, h, runAs)
           \/ Edit(w) \/ Trash(w) \/ Drop(w) \/ Restore(w)
    PROVE  TypeInv'
<1>1. job \in [Workers -> GoodJob] /\ TablesOK
  BY DEF TypeInv
<1> USE Fields DEF keyTable, hookTable, config, permTable
<1>2. ASSUME NEW c \in Keys, Begin(w, c)
      PROVE  TypeInv'
  <2>1. flags[c] \in SUBSET Flags
    BY <1>1 DEF TablesOK
  <2>2. [Idle EXCEPT !.pc = "in", !.who = c, !.scopes = flags[c]] \in GoodJob
    BY <2>1, IdleTyped DEF GoodJob, HookSteps, Job, PCs
  <2>3. job' \in [Workers -> GoodJob]
    BY <1>1, <1>2, <2>2, JobReplaced DEF Begin
  <2>4. served' \in 0..MaxRequests
    <3>1. served \in 0..MaxRequests /\ served < MaxRequests /\ served' = served + 1
      BY <1>1, <1>2 DEF Begin, TablesOK
    <3>2. MaxRequests \in Nat
      BY AccessAssumption
    <3> QED
      BY <3>1, <3>2
  <2>5. TablesOK'
    BY <1>1, <1>2, <2>4 DEF Begin, TablesOK
  <2> QED
    BY <2>3, <2>5 DEF TypeInv
<1>3. CASE Abandon(w)
  <2>1. job' \in [Workers -> GoodJob]
    BY <1>1, <1>3, FinishTyped DEF Abandon
  <2>2. TablesOK'
    BY <1>1, <1>3 DEF Abandon, TablesOK
  <2> QED
    BY <2>1, <2>2 DEF TypeInv
<1>4. ASSUME NEW n \in Keys, NEW fs \in SUBSET Flags, job[w].pc = "in", CreateKey(w, n, fs)
      PROVE  TypeInv'
  <2>1. job' \in [Workers -> GoodJob]
    BY <1>1, <1>4, FinishTyped DEF CreateKey
  <2>2. TablesOK'
    BY <1>1, <1>4 DEF CreateKey, TablesOK
  <2> QED
    BY <2>1, <2>2 DEF TypeInv
<1>5. CASE UpdateKey(w)
  <2>1. job' \in [Workers -> GoodJob]
    BY <1>1, <1>5, FinishTyped DEF UpdateKey
  <2>2. TablesOK'
    BY <1>1, <1>5 DEF UpdateKey, TablesOK
  <2> QED
    BY <2>1, <2>2 DEF TypeInv
<1>6. CASE Cascade(w)
  <2>1. job' \in [Workers -> GoodJob]
    BY <1>1, <1>6, FinishTyped DEF Cascade
  <2>2. TablesOK'
    BY <1>1, <1>6 DEF Cascade, TablesOK
  <2> QED
    BY <2>1, <2>2 DEF TypeInv
<1>7. CASE Permit(w)
  <2>1. job' \in [Workers -> GoodJob]
    BY <1>1, <1>7, FinishTyped DEF Permit
  <2>2. TablesOK'
    BY <1>1, <1>7 DEF Permit, TablesOK, HookSteps
  <2> QED
    BY <2>1, <2>2 DEF TypeInv
<1>8. CASE Revoke(w)
  <2>1. job' \in [Workers -> GoodJob]
    BY <1>1, <1>8, FinishTyped DEF Revoke
  <2>2. TablesOK'
    BY <1>1, <1>8 DEF Revoke, TablesOK
  <2> QED
    BY <2>1, <2>2 DEF TypeInv
<1>9. CASE Provision(w)
  <2>1. job' \in [Workers -> GoodJob]
    BY <1>1, <1>9, FinishTyped DEF Provision
  <2>2. TablesOK'
    BY <1>1, <1>9 DEF Provision, TablesOK, HookSteps
  <2> QED
    BY <2>1, <2>2 DEF TypeInv
<1>10. ASSUME NEW h \in Hooks, Resolve(w, h)
       PROVE  TypeInv'
  <2>1. [job[w].fate EXCEPT ![h] = Keep] \in [Hooks -> Fates]
    BY DEF Fates
  <2>2. [job[w] EXCEPT !.fate = [job[w].fate EXCEPT ![h] = Keep]] \in GoodJob
    BY <1>1, <2>1 DEF GoodJob, HookSteps, Job
  <2>3. job' \in [Workers -> GoodJob]
    BY <1>1, <1>10, <2>2, JobReplaced DEF Resolve
  <2>4. TablesOK'
    BY <1>1, <1>10 DEF Resolve, Apply, TablesOK, HookStates
  <2> QED
    BY <2>3, <2>4 DEF TypeInv
<1>11. ASSUME NEW h \in Hooks, NEW runAs \in BOOLEAN, job[w].pc = "in", CreateHook(w, h, runAs)
       PROVE  TypeInv'
  <2>1. [job[w] EXCEPT !.pc = "provision", !.hook = h] \in GoodJob
    BY <1>11 DEF GoodJob, HookSteps, Job, PCs
  <2>2. job' = [job EXCEPT ![w] = [job[w] EXCEPT !.pc = "provision", !.hook = h]]
    BY <1>1, <1>11 DEF CreateHook
  <2>3. job' \in [Workers -> GoodJob]
    BY <1>1, <2>1, <2>2, JobReplaced
  <2>4. TablesOK'
    BY <1>1, <1>11 DEF CreateHook, TablesOK, HookStates
  <2> QED
    BY <2>3, <2>4 DEF TypeInv
<1>12. CASE Edit(w)
  <2>1. job' \in [Workers -> GoodJob]
    BY <1>1, <1>12, FinishTyped DEF Edit
  <2>2. TablesOK'
    BY <1>1, <1>12 DEF Edit, TablesOK, HookSteps
  <2> QED
    BY <2>1, <2>2 DEF TypeInv
<1>13. CASE Trash(w) \/ Restore(w)
  <2>1. job' \in [Workers -> GoodJob]
    BY <1>1, <1>13, FinishTyped DEF Trash, Restore
  <2>2. TablesOK'
    BY <1>1, <1>13 DEF Trash, Restore, TablesOK, HookStates
  <2> QED
    BY <2>1, <2>2 DEF TypeInv
<1>14. CASE Drop(w)
  <2>1. job' \in [Workers -> GoodJob]
    BY <1>1, <1>14, FinishTyped DEF Drop, Erase
  <2>2. TablesOK'
    BY <1>1, <1>14 DEF Drop, Erase, TablesOK, HookStates
  <2> QED
    BY <2>1, <2>2 DEF TypeInv
<1> QED
  BY <1>2, <1>3, <1>4, <1>5, <1>6, <1>7, <1>8, <1>9, <1>10, <1>11, <1>12, <1>13, <1>14

-----------------------------------------------------------------------------
(* The steps, sorted by what the proofs need to know of them.               *)

(* Guards that pass for anything but a grant or a deletion of a key. *)
PlainCheck(w) ==
    \/ \E t \in Keys, put, cut \in SUBSET (Flags \ {"secret"}) : CheckUpdate(w, t, put, cut)
    \/ \E t \in Keys : CheckRotate(w, t)
    \/ \E t \in Keys, h \in Hooks : CheckRevoke(w, t, h)
    \/ \E h \in Hooks, put \in EditRequests, to \in Keys \cup {Nobody} : CheckEdit(w, h, put, to)
    \/ \E h \in Hooks : CheckTrash(w, h) \/ CheckDrop(w, h) \/ CheckRestore(w, h)

(* Writes that add no key and no verb, and remove no key. *)
PlainWrite(w) ==
    \/ Abandon(w) \/ UpdateKey(w) \/ Revoke(w)
    \/ \E h \in Hooks : Resolve(w, h)
    \/ \E h \in Hooks, runAs \in BOOLEAN : job[w].pc = "in" /\ CreateHook(w, h, runAs)
    \/ Edit(w) \/ Trash(w) \/ Drop(w) \/ Restore(w)

GrantCheck(w) == \E t \in Keys, h \in Hooks, vs \in SUBSET Verbs : CheckGrant(w, t, h, vs)
DeleteCheck(w) == \E t \in Keys, fate \in [Hooks -> Fates] : CheckDelete(w, t, fate)
Creation(w) == \E n \in Keys, fs \in SUBSET Flags : CreateKey(w, n, fs)

Step(w) ==
    \/ \E c \in Keys : Begin(w, c)
    \/ job[w].pc = "in" /\ (PlainCheck(w) \/ GrantCheck(w) \/ DeleteCheck(w) \/ Creation(w))
    \/ PlainWrite(w) \/ Cascade(w) \/ Permit(w) \/ Provision(w)

LEMMA StepCases ==
    ASSUME Next
    PROVE  (\E w \in Workers : Step(w)) \/ (\E h \in Hooks : Purge(h))
<1>1. ASSUME NEW w \in Workers, KeyRequest(w)
      PROVE  Step(w)
  BY <1>1 DEF KeyRequest, Step, PlainCheck, DeleteCheck, Creation
<1>2. ASSUME NEW w \in Workers, HookRequest(w)
      PROVE  Step(w)
  BY <1>2 DEF HookRequest, Step, PlainCheck, GrantCheck, PlainWrite
<1> QED
  BY <1>1, <1>2 DEF Next, Step, PlainWrite

LEMMA TypeInit == Init => TypeInv
<1> SUFFICES ASSUME Init PROVE TypeInv
  OBVIOUS
<1>1. rights \in [Keys -> [Hooks -> SUBSET Verbs]] /\ rooted \in [Hooks -> SUBSET Verbs]
  <2>1. rights \in [Keys -> [Hooks -> SUBSET Verbs]]
    BY DEF Init
  <2>2. ASSUME NEW h \in Hooks
        PROVE  UNION {rights[k][h] : k \in Parents} \in SUBSET Verbs
    BY <2>1, AccessAssumption
  <2> QED
    BY <2>1, <2>2 DEF Init
<1>2. flags \in [Keys -> SUBSET Flags]
  <2>1. flags \in [Keys -> {{}, {"keys", "secret"}, {"keys", "hooks", "secret"}}]
    BY DEF Init
  <2>2. {{}, {"keys", "secret"}, {"keys", "hooks", "secret"}} \subseteq SUBSET Flags
    BY DEF Flags, Scopes
  <2> QED
    BY <2>1, <2>2
<1>3. alive \subseteq Keys /\ rows \subseteq Keys \X Hooks
  BY AccessAssumption DEF Init
<1>4. /\ parent \in [Keys -> Keys \cup {Nobody}] /\ line \in [Keys -> SUBSET Keys]
      /\ owner \in [Hooks -> Keys \cup {Nobody}] /\ author \in [Hooks -> Keys \cup {Nobody}]
  BY AccessAssumption DEF Init
<1>5. /\ hook \in [Hooks -> HookStates] /\ elevated \subseteq Hooks /\ served \in 0..MaxRequests
      /\ stamp \in [Hooks -> BOOLEAN] /\ approved \subseteq Hooks
  BY AccessAssumption DEF Init, HookStates
<1>6. job \in [Workers -> GoodJob]
  BY IdleTyped DEF Init
<1> QED
  BY <1>1, <1>2, <1>3, <1>4, <1>5, <1>6 DEF TypeInv, TablesOK

LEMMA TypeStep == TypeInv /\ [Next]_vars => TypeInv'
<1> SUFFICES ASSUME TypeInv, [Next]_vars PROVE TypeInv'
  OBVIOUS
<1>1. ASSUME NEW w \in Workers, Step(w)
      PROVE  TypeInv'
  BY <1>1, TypeCheck, TypeWrite
     DEF Step, PlainCheck, GrantCheck, DeleteCheck, Creation, PlainWrite
<1>2. ASSUME NEW h \in Hooks, Purge(h)
      PROVE  TypeInv'
  <2>1. TablesOK'
    BY <1>2 DEF Purge, Erase, TypeInv, TablesOK, HookStates, keyTable, config
  <2> QED
    BY <1>2, <2>1 DEF Purge, TypeInv
<1>3. CASE UNCHANGED vars
  BY <1>3 DEF vars, keyTable, hookTable, config, permTable, TypeInv, TablesOK
<1> QED
  BY <1>1, <1>2, <1>3, StepCases

(* The tables and the requests in flight stay well typed, for every number  *)
(* of keys, hooks, verbs and requests: no step of delete_api_key writes a   *)
(* resolution into owner_key_id that is not a key, no upsert a stray verb.  *)
THEOREM TypeCorrect == Spec => []TypeOK
<1>1. TypeInv => TypeOK
  BY DEF TypeInv, TypeOK, GoodJob
<1> QED
  BY <1>1, TypeInit, TypeStep, PTL DEF Spec

-----------------------------------------------------------------------------
(* Where the requests in flight can go in a plain step. *)
Moves ==
    \A v \in Workers :
        \/ job'[v] = job[v]
        \/ job'[v] = Idle
        \/ /\ job[v].pc # "idle" /\ job'[v].who = job[v].who
           /\ job'[v].pc # "permit"
           /\ job'[v].pc = "resolve" => job[v].pc = "resolve" /\ job'[v].doomed = job[v].doomed

LEMMA MovesTo ==
    ASSUME TypeInv, NEW w \in Workers, NEW next, job' = [job EXCEPT ![w] = next],
           job[w].pc # "idle", next.who = job[w].who, next.pc # "permit",
           next.pc = "resolve" => job[w].pc = "resolve" /\ next.doomed = job[w].doomed
    PROVE  Moves
BY DEF TypeInv, Moves

LEMMA FinishMoves ==
    ASSUME TypeInv, NEW w \in Workers, Finish(w)
    PROVE  Moves
BY DEF TypeInv, Finish, Moves

LEMMA PlainCheckMoves ==
    ASSUME TypeInv, NEW w \in Workers, job[w].pc = "in", PlainCheck(w)
    PROVE  Moves /\ UNCHANGED <<keyTable, hookTable, permTable, served>>
<1>1. job[w] \in Job
  BY Fields DEF GoodJob
<1>2. ASSUME NEW next, Proceed(w, next), next.who = job[w].who, next.pc \notin {"permit", "resolve"}
      PROVE  Moves /\ UNCHANGED <<keyTable, hookTable, permTable, served>>
  BY <1>2, MovesTo DEF Proceed
<1>3. ASSUME NEW t \in Keys, NEW put \in SUBSET (Flags \ {"secret"}),
             NEW cut \in SUBSET (Flags \ {"secret"}), CheckUpdate(w, t, put, cut)
      PROVE  Moves /\ UNCHANGED <<keyTable, hookTable, permTable, served>>
  BY <1>1, <1>2, <1>3 DEF CheckUpdate, Job
<1>4. ASSUME NEW t \in Keys, CheckRotate(w, t)
      PROVE  Moves /\ UNCHANGED <<keyTable, hookTable, permTable, served>>
  BY <1>1, <1>2, <1>4 DEF CheckRotate, Job
<1>5. ASSUME NEW t \in Keys, NEW h \in Hooks, CheckRevoke(w, t, h)
      PROVE  Moves /\ UNCHANGED <<keyTable, hookTable, permTable, served>>
  BY <1>1, <1>2, <1>5 DEF CheckRevoke, Job
<1>6. ASSUME NEW h \in Hooks, NEW put \in EditRequests, NEW to \in Keys \cup {Nobody},
             CheckEdit(w, h, put, to)
      PROVE  Moves /\ UNCHANGED <<keyTable, hookTable, permTable, served>>
  BY <1>1, <1>2, <1>6 DEF CheckEdit, Job
<1>7. ASSUME NEW h \in Hooks, CheckTrash(w, h) \/ CheckDrop(w, h) \/ CheckRestore(w, h)
      PROVE  Moves /\ UNCHANGED <<keyTable, hookTable, permTable, served>>
  BY <1>1, <1>2, <1>7 DEF CheckTrash, CheckDrop, CheckRestore, Job
<1> QED
  BY <1>3, <1>4, <1>5, <1>6, <1>7 DEF PlainCheck

LEMMA PlainWriteMoves ==
    ASSUME TypeInv, NEW w \in Workers, PlainWrite(w)
    PROVE  /\ Moves
           /\ UNCHANGED <<alive, parent, line, rooted>>
           /\ \A k \in Keys, h \in Hooks : rights'[k][h] \subseteq rights[k][h]
<1>1. job[w] \in Job /\ rights \in [Keys -> [Hooks -> SUBSET Verbs]]
  BY Fields DEF GoodJob, TypeInv, TablesOK
<1>2. CASE Abandon(w) \/ UpdateKey(w) \/ Edit(w) \/ Trash(w) \/ Restore(w)
  BY <1>2, FinishMoves DEF Abandon, UpdateKey, Edit, Trash, Restore, keyTable, permTable
<1>3. CASE Revoke(w)
  BY <1>1, <1>3, FinishMoves DEF Revoke, keyTable
<1>4. CASE Drop(w)
  BY <1>1, <1>4, FinishMoves DEF Drop, Erase, keyTable
<1>5. ASSUME NEW h \in Hooks, Resolve(w, h)
      PROVE  Moves /\ UNCHANGED <<keyTable, permTable>>
  <2>1. /\ [job[w] EXCEPT !.fate = [job[w].fate EXCEPT ![h] = Keep]].pc = job[w].pc
        /\ [job[w] EXCEPT !.fate = [job[w].fate EXCEPT ![h] = Keep]].who = job[w].who
        /\ [job[w] EXCEPT !.fate = [job[w].fate EXCEPT ![h] = Keep]].doomed = job[w].doomed
    BY <1>1 DEF Job
  <2> QED
    BY <1>5, <2>1, MovesTo DEF Resolve
<1>6. ASSUME NEW h \in Hooks, NEW runAs \in BOOLEAN, job[w].pc = "in", CreateHook(w, h, runAs)
      PROVE  Moves /\ UNCHANGED <<keyTable, permTable>>
  <2>1. /\ [job[w] EXCEPT !.pc = "provision", !.hook = h].pc = "provision"
        /\ [job[w] EXCEPT !.pc = "provision", !.hook = h].who = job[w].who
    BY <1>1 DEF Job
  <2>2. job' = [job EXCEPT ![w] = [job[w] EXCEPT !.pc = "provision", !.hook = h]]
    BY <1>6 DEF CreateHook, TypeInv
  <2> QED
    BY <1>6, <2>1, <2>2, MovesTo DEF CreateHook
<1> QED
  BY <1>2, <1>3, <1>4, <1>5, <1>6 DEF PlainWrite, keyTable, permTable

-----------------------------------------------------------------------------
(* Non-amplification.                                                       *)

LEMMA RightsInit == Init => GrantsRooted /\ RightsRooted
<1> SUFFICES ASSUME Init PROVE GrantsRooted /\ RightsRooted
  OBVIOUS
<1>1. GrantsRooted
  BY DEF Init, Idle, GrantsRooted
<1>2. ASSUME NEW k \in Keys \ {Master}, NEW h \in Hooks
      PROVE  rights[k][h] \subseteq rooted[h]
  <2>1. CASE k \in Parents
    BY <2>1 DEF Init
  <2>2. CASE k \notin Parents
    BY <2>2 DEF Init
  <2> QED
    BY <2>1, <2>2
<1> QED
  BY <1>1, <1>2 DEF RightsRooted

(* A step that only takes verbs away, and passes no guard of a grant. *)
LEMMA RightsShrink ==
    ASSUME RightsInv, Moves, rooted' = rooted,
           \A k \in Keys, h \in Hooks : rights'[k][h] \subseteq rights[k][h]
    PROVE  GrantsRooted' /\ RightsRooted'
<1>1. RightsRooted'
  BY DEF RightsInv, RightsRooted
<1>2. GrantsRooted'
  BY DEF RightsInv, GrantsRooted, Moves, Idle
<1> QED
  BY <1>1, <1>2

(* What CheckGrant lets through for a key other than the master is held by  *)
(* the target already or by the caller, so it is rooted.                    *)
LEMMA GrantChecked ==
    ASSUME RightsInv, NEW w \in Workers, job[w].pc = "in", GrantCheck(w)
    PROVE  GrantsRooted' /\ RightsRooted'
<1> PICK t \in Keys, h \in Hooks, vs \in SUBSET Verbs : CheckGrant(w, t, h, vs)
  BY DEF GrantCheck
<1> DEFINE next == [job[w] EXCEPT !.pc = "permit", !.key = t, !.hook = h, !.put = vs]
<1>1. job' = [job EXCEPT ![w] = next] /\ UNCHANGED <<rights, rooted>>
  BY DEF CheckGrant, Proceed, permTable
<1>2. next.who = job[w].who /\ next.hook = h /\ next.put = vs
  BY Fields DEF RightsInv, GoodJob, Job
<1>3. job[w].who # Master => vs \subseteq rooted[h]
  <2> SUFFICES ASSUME job[w].who # Master PROVE vs \subseteq rooted[h]
    OBVIOUS
  <2>1. job[w].who \in Keys
    BY Fields DEF RightsInv
  <2>2. t # Master /\ (vs \subseteq rights[t][h] \/ vs \subseteq rights[job[w].who][h])
    BY DEF CheckGrant, IsMaster, Holds
  <2> QED
    BY <2>1, <2>2 DEF RightsInv, RightsRooted
<1> HIDE DEF next
<1>4. GrantsRooted'
  <2> SUFFICES ASSUME NEW v \in Workers, job'[v].pc = "permit", job'[v].who # Master
               PROVE  (job'[v].put \cap Verbs) \subseteq rooted'[job'[v].hook]
    BY DEF GrantsRooted
  <2>1. CASE v = w
    BY <1>1, <1>2, <1>3, <2>1 DEF RightsInv, TypeInv
  <2>2. CASE v # w
    BY <1>1, <2>2 DEF RightsInv, TypeInv, GrantsRooted
  <2> QED
    BY <2>1, <2>2
<1>5. RightsRooted'
  BY <1>1 DEF RightsInv, RightsRooted
<1> QED
  BY <1>4, <1>5

(* Permit and Provision write verbs that are rooted, or root them. *)
LEMMA VerbsWritten ==
    ASSUME RightsInv, NEW w \in Workers, Permit(w) \/ Provision(w)
    PROVE  GrantsRooted' /\ RightsRooted'
<1>1. /\ rights \in [Keys -> [Hooks -> SUBSET Verbs]] /\ rooted \in [Hooks -> SUBSET Verbs]
      /\ job \in [Workers -> GoodJob] /\ alive \subseteq Keys
  BY DEF RightsInv, TypeInv, TablesOK
<1>2. job[w].hook \in Hooks /\ job[w].who \in Keys
  BY Fields DEF RightsInv, Permit, Provision, HookSteps
<1>3. \A h \in Hooks : rooted[h] \subseteq rooted'[h]
  BY <1>1, <1>2 DEF Permit, Provision
<1>4. GrantsRooted'
  <2> SUFFICES ASSUME NEW v \in Workers, job'[v].pc = "permit", job'[v].who # Master
               PROVE  (job'[v].put \cap Verbs) \subseteq rooted'[job'[v].hook]
    BY DEF GrantsRooted
  <2>1. job' = [job EXCEPT ![w] = Idle]
    BY DEF Permit, Provision, Finish
  <2>2. v # w
    BY <1>1, <2>1 DEF Idle
  <2>3. job'[v] = job[v]
    BY <1>1, <2>1, <2>2
  <2>4. job[v].hook \in Hooks
    BY <2>3, Fields DEF RightsInv, HookSteps
  <2> QED
    BY <1>3, <2>3, <2>4 DEF RightsInv, GrantsRooted
<1>5. RightsRooted'
  <2> SUFFICES ASSUME NEW k \in Keys \ {Master}, NEW h \in Hooks
               PROVE  rights'[k][h] \subseteq rooted'[h]
    BY DEF RightsRooted
  <2>1. rights[k][h] \subseteq rooted'[h]
    BY <1>3 DEF RightsInv, RightsRooted
  <2>2. CASE Permit(w)
    <3>1. job[w].who # Master => (job[w].put \cap Verbs) \subseteq rooted[job[w].hook]
      BY <2>2 DEF RightsInv, GrantsRooted, Permit
    <3>2. (job[w].put \cap Verbs) \subseteq rooted'[job[w].hook]
      BY <1>1, <1>2, <2>2, <3>1 DEF Permit, IsMaster
    <3> QED
      BY <1>1, <1>2, <2>1, <2>2, <3>2 DEF Permit
  <2>3. CASE Provision(w)
    BY <1>1, <1>2, <2>1, <2>3 DEF Provision, IsMaster
  <2> QED
    BY <2>2, <2>3
<1> QED
  BY <1>4, <1>5

LEMMA RightsStep == RightsInv /\ [Next]_vars => GrantsRooted' /\ RightsRooted'
<1> SUFFICES ASSUME RightsInv, [Next]_vars PROVE GrantsRooted' /\ RightsRooted'
  OBVIOUS
<1>1. TypeInv
  BY DEF RightsInv
<1>2. ASSUME NEW w \in Workers, Step(w)
      PROVE  GrantsRooted' /\ RightsRooted'
  <2>1. ASSUME NEW c \in Keys, Begin(w, c)
        PROVE  GrantsRooted' /\ RightsRooted'
    <3>1. job' = [job EXCEPT ![w] = [Idle EXCEPT !.pc = "in", !.who = c, !.scopes = flags[c]]]
          /\ UNCHANGED <<rights, rooted>>
      BY <2>1 DEF Begin, permTable
    <3>2. \A v \in Workers : job'[v] = job[v] \/ job'[v].pc = "in"
      BY <1>1, <3>1 DEF TypeInv, Idle
    <3> QED
      BY <3>1, <3>2 DEF RightsInv, GrantsRooted, RightsRooted
  <2>2. CASE job[w].pc = "in" /\ PlainCheck(w)
    BY <1>1, <2>2, PlainCheckMoves, RightsShrink DEF permTable
  <2>3. CASE job[w].pc = "in" /\ GrantCheck(w)
    BY <2>3, GrantChecked
  <2>4. ASSUME NEW t \in Keys, NEW fate \in [Hooks -> Fates], CheckDelete(w, t, fate)
        PROVE  GrantsRooted' /\ RightsRooted'
    <3>1. job' = [job EXCEPT ![w] = [job[w] EXCEPT !.pc = "resolve", !.doomed = Subtree(t), !.fate = fate]]
          /\ UNCHANGED <<rights, rooted>>
      BY <2>4 DEF CheckDelete, Proceed, permTable
    <3>2. [job[w] EXCEPT !.pc = "resolve", !.doomed = Subtree(t), !.fate = fate].pc = "resolve"
      BY <1>1, Fields DEF GoodJob, Job
    <3>3. \A v \in Workers : job'[v] = job[v] \/ job'[v].pc = "resolve"
      BY <1>1, <3>1, <3>2 DEF TypeInv
    <3> QED
      BY <3>1, <3>3 DEF RightsInv, GrantsRooted, RightsRooted
  <2>5. CASE Creation(w)
    <3>1. Moves /\ UNCHANGED <<rights, rooted>>
      BY <1>1, <2>5, FinishMoves DEF Creation, CreateKey, permTable
    <3> QED
      BY <3>1, RightsShrink
  <2>6. CASE PlainWrite(w)
    BY <1>1, <2>6, PlainWriteMoves, RightsShrink
  <2>7. CASE Cascade(w)
    <3>1. Moves /\ rooted' = rooted
      BY <1>1, <2>7, FinishMoves DEF Cascade
    <3>2. \A k \in Keys, h \in Hooks : rights'[k][h] \subseteq rights[k][h]
      BY <2>7 DEF Cascade
    <3> QED
      BY <3>1, <3>2, RightsShrink
  <2>8. CASE Permit(w) \/ Provision(w)
    BY <2>8, VerbsWritten
  <2> QED
    BY <1>2, <2>1, <2>2, <2>3, <2>4, <2>5, <2>6, <2>7, <2>8 DEF Step, DeleteCheck
<1>3. ASSUME NEW h \in Hooks, Purge(h)
      PROVE  GrantsRooted' /\ RightsRooted'
  <2>1. Moves /\ rooted' = rooted
    BY <1>3 DEF Purge, Erase, Moves
  <2>2. \A k \in Keys, g \in Hooks : rights'[k][g] \subseteq rights[k][g]
    BY <1>1, <1>3 DEF Purge, Erase, TypeInv, TablesOK
  <2> QED
    BY <2>1, <2>2, RightsShrink
<1>4. CASE UNCHANGED vars
  BY <1>4 DEF vars, permTable, RightsInv, GrantsRooted, RightsRooted
<1> QED
  BY <1>2, <1>3, <1>4, StepCases

(* Non-amplification, for every number of keys, hooks, verbs and requests   *)
(* in flight: no interleaving of grants, reductions, revocations, key and   *)
(* hook deletions gives a key other than the master a verb on a hook that   *)
(* neither the master granted on it nor a creator was provisioned with.     *)
THEOREM RightsStayRooted == Spec => []RightsRooted
<1>1. Init => RightsInv
  BY TypeInit, RightsInit DEF RightsInv
<1>2. RightsInv /\ [Next]_vars => RightsInv'
  BY TypeStep, RightsStep DEF RightsInv
<1>3. RightsInv => RightsRooted
  BY DEF RightsInv
<1> QED
  BY <1>1, <1>2, <1>3, PTL DEF Spec

-----------------------------------------------------------------------------
(* Lineage.                                                                 *)

LEMMA LineInit == Init => CallersMinted /\ LineFollowsParents /\ DoomedBelow
<1> SUFFICES ASSUME Init PROVE CallersMinted /\ LineFollowsParents /\ DoomedBelow
  OBVIOUS
<1>1. CallersMinted /\ DoomedBelow
  BY DEF Init, Idle, CallersMinted, DoomedBelow
<1>2. LineFollowsParents
  BY AccessAssumption DEF Init, LineFollowsParents, Minted
<1> QED
  BY <1>1, <1>2

(* descendant_key_ids reaches only keys with the root among their ancestors, *)
(* and, from a key below c, only keys below c; it never reaches the master.  *)
LEMMA DescendantsBelow ==
    ASSUME LineInv, NEW t \in Keys, NEW d \in Descendants(t)
    PROVE  /\ d # Master /\ Minted(d) /\ t \in line[d]
           /\ \A c \in Keys : c \in line[t] => c \in line[d]
<1>1. /\ LineFollowsParents /\ alive \subseteq Keys /\ line \in [Keys -> SUBSET Keys]
      /\ parent \in [Keys -> Keys \cup {Nobody}]
  BY DEF LineInv, TypeInv, TablesOK
<1> DEFINE S == {j \in alive : j # Master /\ t \in line[j] /\ line[t] \subseteq line[j]}
<1>2. S \in SUBSET alive
  OBVIOUS
<1>3. ASSUME NEW j \in alive, j # t, parent[j] \in S \cup {t}
      PROVE  j \in S
  <2>1. parent[j] \in Keys /\ parent[j] # Nobody
    BY <1>1, <1>3, AccessAssumption
  <2>2. j # Master
    BY <1>1, <2>1 DEF LineFollowsParents
  <2>3. line[j] = line[parent[j]] \cup {parent[j]}
    BY <1>1, <2>1 DEF LineFollowsParents
  <2> QED
    BY <1>3, <2>2, <2>3
<1>4. d \in S
  <2>1. \A j \in alive : j # t /\ parent[j] \in S \cup {t} => j \in S
    BY <1>3
  <2> HIDE DEF S
  <2> QED
    BY <1>2, <2>1 DEF Descendants
<1> QED
  BY <1>1, <1>4 DEF LineFollowsParents

(* CheckDelete collects keys below the caller only. *)
LEMMA DeleteChecked ==
    ASSUME LineInv, NEW w \in Workers, job[w].pc = "in", DeleteCheck(w)
    PROVE  CallersMinted' /\ LineFollowsParents' /\ DoomedBelow'
<1> PICK t \in Keys, fate \in [Hooks -> Fates] : CheckDelete(w, t, fate)
  BY DEF DeleteCheck
<1> DEFINE next == [job[w] EXCEPT !.pc = "resolve", !.doomed = Subtree(t), !.fate = fate]
<1>1. job' = [job EXCEPT ![w] = next] /\ UNCHANGED <<alive, parent, line>>
  BY DEF CheckDelete, Proceed, keyTable
<1>2. next.who = job[w].who /\ next.doomed = Subtree(t)
  BY Fields DEF LineInv, GoodJob, Job
<1>3. job[w].who \in Keys /\ job \in [Workers -> GoodJob]
  BY Fields DEF LineInv, TypeInv
<1>4. /\ t # Master /\ Minted(t)
      /\ job[w].who = Master \/ job[w].who \in line[t]
  <2>1. t \in alive \ {Master} /\ t # job[w].who /\ SeesFully(job[w].who, t)
    BY DEF CheckDelete, Administrable
  <2> QED
    BY <1>3, <2>1, DescendantsBelow DEF SeesFully, LineInv, LineFollowsParents
<1>5. ASSUME NEW k \in Subtree(t)
      PROVE  /\ k # Master /\ Minted(k)
             /\ job[w].who = Master \/ job[w].who \in line[k]
  BY <1>3, <1>4, <1>5, DescendantsBelow DEF Subtree
<1> HIDE DEF next
<1>6. CallersMinted'
  BY <1>1, <1>2, <1>3 DEF LineInv, CallersMinted, Minted
<1>7. LineFollowsParents'
  BY <1>1 DEF LineInv, LineFollowsParents, Minted
<1>8. DoomedBelow'
  <2> SUFFICES ASSUME NEW v \in Workers, job'[v].pc = "resolve", NEW k \in job'[v].doomed
               PROVE  /\ k # Master /\ Minted(k)
                      /\ job'[v].who = Master \/ job'[v].who \in line[k]
    BY <1>1 DEF DoomedBelow, Minted
  <2>1. CASE v = w
    BY <1>1, <1>2, <1>3, <1>5, <2>1
  <2>2. CASE v # w
    BY <1>1, <1>3, <2>2 DEF LineInv, DoomedBelow
  <2> QED
    BY <2>1, <2>2
<1> QED
  BY <1>6, <1>7, <1>8

(* A step that leaves the history of the keys alone and begins nothing. *)
LEMMA LineUntouched ==
    ASSUME LineInv, Moves, alive' \subseteq alive, UNCHANGED <<parent, line>>
    PROVE  CallersMinted' /\ LineFollowsParents' /\ DoomedBelow'
<1>1. CallersMinted'
  BY DEF LineInv, CallersMinted, Moves, Minted, Idle
<1>2. LineFollowsParents'
  BY DEF LineInv, LineFollowsParents, Minted
<1>3. DoomedBelow'
  BY DEF LineInv, DoomedBelow, Moves, Minted, Idle
<1> QED
  BY <1>1, <1>2, <1>3

(* A minted key writes its line once, before anything refers to it. *)
LEMMA KeyCreated ==
    ASSUME LineInv, NEW w \in Workers, job[w].pc = "in", Creation(w)
    PROVE  CallersMinted' /\ LineFollowsParents' /\ DoomedBelow'
<1> PICK n \in Keys, fs \in SUBSET Flags : CreateKey(w, n, fs)
  BY DEF Creation
<1> DEFINE c == job[w].who
<1>1. /\ parent \in [Keys -> Keys \cup {Nobody}] /\ line \in [Keys -> SUBSET Keys]
      /\ alive \subseteq Keys /\ c \in Keys /\ job \in [Workers -> GoodJob]
  BY Fields DEF LineInv, TypeInv, TablesOK
<1>2. /\ n # Master /\ parent[n] = Nobody /\ alive' = alive \cup {n}
      /\ parent' = [parent EXCEPT ![n] = c] /\ line' = [line EXCEPT ![n] = line[c] \cup {c}]
      /\ job' = [job EXCEPT ![w] = Idle]
  BY DEF CreateKey, Finish
<1>3. Minted(c) /\ c # Nobody /\ c # n
  BY <1>1, <1>2, AccessAssumption DEF LineInv, CallersMinted, Minted
<1>4. \A k \in Keys : Minted(k) => Minted(k)' /\ line'[k] = line[k] /\ parent'[k] = parent[k]
  BY <1>1, <1>2, <1>3 DEF Minted
<1>5. CallersMinted'
  <2> SUFFICES ASSUME NEW v \in Workers, job'[v].pc # "idle"
               PROVE  Minted(job[v].who)'
    BY DEF CallersMinted
  <2>1. job'[v] = job[v] /\ job[v].who \in Keys
    BY <1>1, <1>2, Fields DEF Idle, LineInv
  <2> QED
    BY <1>4, <2>1 DEF LineInv, CallersMinted, Minted
<1>6. LineFollowsParents'
  <2>1. Master \in Keys /\ (parent[Master] = Nobody /\ line[Master] = {})'
    BY <1>1, <1>2, AccessAssumption DEF LineInv, LineFollowsParents
  <2>2. \A k \in alive' : Minted(k)'
    BY <1>1, <1>2, <1>3, <1>4 DEF LineInv, LineFollowsParents, Minted
  <2>3. ASSUME NEW k \in Keys, parent'[k] # Nobody
        PROVE  Minted(parent[k])' /\ line'[k] = line'[parent'[k]] \cup {parent'[k]}
    <3>1. CASE k = n
      BY <1>1, <1>2, <1>3, <1>4, <3>1 DEF Minted
    <3>2. CASE k # n
      <4>1. parent'[k] = parent[k] /\ parent[k] \in Keys /\ line'[k] = line[k]
        BY <1>1, <1>2, <2>3, <3>2
      <4>2. Minted(parent[k]) /\ line[k] = line[parent[k]] \cup {parent[k]}
        BY <2>3, <4>1 DEF LineInv, LineFollowsParents
      <4> QED
        BY <1>4, <4>1, <4>2 DEF Minted
    <3> QED
      BY <3>1, <3>2
  <2> QED
    BY <2>1, <2>2, <2>3 DEF LineFollowsParents
<1>7. DoomedBelow'
  <2> SUFFICES ASSUME NEW v \in Workers, job'[v].pc = "resolve", NEW k \in job'[v].doomed
               PROVE  /\ k # Master /\ Minted(k)'
                      /\ job'[v].who = Master \/ job'[v].who \in line'[k]
    BY DEF DoomedBelow
  <2>1. job'[v] = job[v] /\ k \in Keys
    BY <1>1, <1>2, Fields DEF Idle, LineInv
  <2> QED
    BY <1>4, <2>1 DEF LineInv, DoomedBelow
<1> QED
  BY <1>5, <1>6, <1>7

LEMMA LineStep ==
    LineInv /\ [Next]_vars => CallersMinted' /\ LineFollowsParents' /\ DoomedBelow'
<1> SUFFICES ASSUME LineInv, [Next]_vars
             PROVE  CallersMinted' /\ LineFollowsParents' /\ DoomedBelow'
  OBVIOUS
<1>1. TypeInv
  BY DEF LineInv
<1>2. ASSUME NEW w \in Workers, Step(w)
      PROVE  CallersMinted' /\ LineFollowsParents' /\ DoomedBelow'
  <2>1. ASSUME NEW c \in Keys, Begin(w, c)
        PROVE  CallersMinted' /\ LineFollowsParents' /\ DoomedBelow'
    <3>1. /\ job' = [job EXCEPT ![w] = [Idle EXCEPT !.pc = "in", !.who = c, !.scopes = flags[c]]]
          /\ UNCHANGED <<alive, parent, line>> /\ c \in alive
      BY <2>1 DEF Begin, keyTable
    <3>2. \A v \in Workers : job'[v] = job[v] \/ (job'[v].pc = "in" /\ job'[v].who = c)
      BY <1>1, <3>1 DEF TypeInv, Idle
    <3>3. Minted(c)
      BY <3>1 DEF LineInv, LineFollowsParents
    <3>4. CallersMinted'
      BY <3>1, <3>2, <3>3 DEF LineInv, CallersMinted, Minted
    <3>5. LineFollowsParents'
      BY <3>1 DEF LineInv, LineFollowsParents, Minted
    <3>6. DoomedBelow'
      BY <3>1, <3>2 DEF LineInv, DoomedBelow, Minted
    <3> QED
      BY <3>4, <3>5, <3>6
  <2>2. CASE job[w].pc = "in" /\ PlainCheck(w)
    BY <1>1, <2>2, PlainCheckMoves, LineUntouched DEF keyTable
  <2>3. ASSUME NEW t \in Keys, NEW h \in Hooks, NEW vs \in SUBSET Verbs,
               job[w].pc = "in", CheckGrant(w, t, h, vs)
        PROVE  CallersMinted' /\ LineFollowsParents' /\ DoomedBelow'
    <3> DEFINE next == [job[w] EXCEPT !.pc = "permit", !.key = t, !.hook = h, !.put = vs]
    <3>1. job' = [job EXCEPT ![w] = next] /\ UNCHANGED <<alive, parent, line>>
      BY <2>3 DEF CheckGrant, Proceed, keyTable
    <3>2. next.pc = "permit" /\ next.who = job[w].who
      BY <1>1, Fields DEF GoodJob, Job
    <3> HIDE DEF next
    <3>3. \A v \in Workers : \/ job'[v] = job[v]
                            \/ /\ job'[v].pc = "permit" /\ job'[v].who = job[v].who
                               /\ job[v].pc # "idle"
      BY <1>1, <2>3, <3>1, <3>2 DEF TypeInv
    <3>4. CallersMinted' /\ LineFollowsParents'
      BY <3>1, <3>3 DEF LineInv, CallersMinted, LineFollowsParents, Minted
    <3>5. DoomedBelow'
      BY <3>1, <3>3 DEF LineInv, DoomedBelow, Minted
    <3> QED
      BY <3>4, <3>5
  <2>4. CASE job[w].pc = "in" /\ DeleteCheck(w)
    BY <2>4, DeleteChecked
  <2>5. CASE job[w].pc = "in" /\ Creation(w)
    BY <2>5, KeyCreated
  <2>6. CASE PlainWrite(w)
    BY <1>1, <2>6, PlainWriteMoves, LineUntouched
  <2>7. CASE Cascade(w) \/ Permit(w) \/ Provision(w)
    <3>1. Moves /\ alive' \subseteq alive /\ UNCHANGED <<parent, line>>
      BY <1>1, <2>7, FinishMoves DEF Cascade, Permit, Provision, keyTable
    <3> QED
      BY <3>1, LineUntouched
  <2> QED
    BY <1>2, <2>1, <2>2, <2>3, <2>4, <2>5, <2>6, <2>7 DEF Step, GrantCheck
<1>3. ASSUME NEW h \in Hooks, Purge(h)
      PROVE  CallersMinted' /\ LineFollowsParents' /\ DoomedBelow'
  <2>1. Moves
    BY <1>3 DEF Purge, Moves
  <2>2. alive' = alive /\ UNCHANGED <<parent, line>>
    BY <1>3 DEF Purge, Erase, keyTable
  <2> QED
    BY <2>1, <2>2, LineUntouched
<1>4. CASE UNCHANGED vars
  <2>1. Moves
    BY <1>4 DEF vars, Moves
  <2>2. alive' = alive /\ UNCHANGED <<parent, line>>
    BY <1>4 DEF vars, keyTable
  <2> QED
    BY <2>1, <2>2, LineUntouched
<1> QED
  BY <1>2, <1>3, <1>4, StepCases

(* A cascade never leaves the caller's subtree and never takes the master,  *)
(* for every key tree and every interleaving, although delete_api_key       *)
(* collects the subtree in one statement and deletes it in a later one.     *)
THEOREM DeletionsStayBelow == Spec => DeletionStaysBelow
<1>1. Init => LineInv
  BY TypeInit, LineInit DEF LineInv
<1>2. LineInv /\ [Next]_vars => LineInv'
  BY TypeStep, LineStep DEF LineInv
<1>3. ASSUME LineInv, [Next]_vars
      PROVE  [\A k \in alive \ alive' :
                /\ k # Master
                /\ \E w \in Workers : /\ job[w].pc = "resolve"
                                      /\ IsMaster(w) \/ job[w].who \in line[k]]_vars
  <2> SUFFICES ASSUME NEW k \in alive \ alive'
               PROVE  /\ k # Master
                      /\ \E w \in Workers : /\ job[w].pc = "resolve"
                                            /\ IsMaster(w) \/ job[w].who \in line[k]
    OBVIOUS
  <2>1. ASSUME NEW w \in Workers, Cascade(w)
        PROVE  /\ k # Master
               /\ \E v \in Workers : /\ job[v].pc = "resolve"
                                     /\ IsMaster(v) \/ job[v].who \in line[k]
    <3>1. job[w].pc = "resolve" /\ k \in job[w].doomed
      BY <2>1 DEF Cascade
    <3>2. k # Master /\ (job[w].who = Master \/ job[w].who \in line[k])
      BY <1>3, <3>1 DEF LineInv, DoomedBelow
    <3> QED
      BY <3>1, <3>2 DEF IsMaster
  <2>2. ASSUME NEW w \in Workers, Step(w), ~Cascade(w)
        PROVE  FALSE
    <3>1. TypeInv
      BY <1>3 DEF LineInv
    <3>2. CASE job[w].pc = "in" /\ PlainCheck(w)
      BY <3>1, <3>2, PlainCheckMoves DEF keyTable
    <3>3. CASE PlainWrite(w)
      BY <3>1, <3>3, PlainWriteMoves
    <3>4. CASE (\E c \in Keys : Begin(w, c)) \/ Permit(w) \/ Provision(w)
      BY <3>4 DEF Begin, Permit, Provision, keyTable
    <3>5. CASE GrantCheck(w)
      BY <3>5 DEF GrantCheck, CheckGrant, Proceed, keyTable
    <3>6. CASE DeleteCheck(w)
      BY <3>6 DEF DeleteCheck, CheckDelete, Proceed, keyTable
    <3>7. CASE Creation(w)
      BY <3>7 DEF Creation, CreateKey
    <3> QED
      BY <2>2, <3>2, <3>3, <3>4, <3>5, <3>6, <3>7 DEF Step
  <2>3. ASSUME NEW h \in Hooks, Purge(h)
        PROVE  FALSE
    BY <2>3 DEF Purge, Erase, keyTable
  <2>4. CASE UNCHANGED vars
    BY <2>4 DEF vars, keyTable
  <2> QED
    BY <1>3, <2>1, <2>2, <2>3, <2>4, StepCases
<1> QED
  BY <1>1, <1>2, <1>3, PTL DEF Spec, DeletionStaysBelow
-----------------------------------------------------------------------------
(* One request at a time.  What follows holds while no two requests         *)
(* overlap: the races run and the findings show what the tables can come to *)
(* when they do.  The requests may still be dropped between any two steps,  *)
(* and the retention worker purges in the middle of them.                   *)
OneAtATime == \A v, w \in Workers : v = w

(* A request acts on the record its key still has. *)
Served ==
    \A w \in Workers : job[w].pc # "idle"
        => /\ job[w].who \in alive
           /\ job[w].scopes = flags[job[w].who]
           /\ job[w].pc = "in" => job[w].cut = {}

(* The subtree collected for deletion is closed: no child is left outside. *)
Enclosed ==
    \A w \in Workers : job[w].pc = "resolve"
        => \A k \in alive \ {Master} : parent[k] \in job[w].doomed => k \in job[w].doomed

(* What the guards of update_api_key and update_hook found is still so at   *)
(* the write.                                                               *)
UpdateSound ==
    \A w \in Workers : job[w].pc = "update"
        => Canonical((flags[job[w].key] \ job[w].cut) \cup (job[w].put \cap Flags))

EditSound ==
    \A w \in Workers : job[w].pc = "edit"
        => /\ hook[job[w].hook] = "live"
           /\ IsMaster(w) \/ (job[w].hook \notin elevated /\ "elevate" \notin job[w].put)
           /\ job[w].put # {} => MayDispatch(w, job[w].hook)

Born == \A h \in elevated : hook[h] # "unborn"

InFlight == Served /\ Enclosed /\ UpdateSound /\ EditSound
Settled == LineageKept /\ ManagersSignStandard /\ ElevatedVetted /\ Born
SeqInv == TypeInv /\ InFlight /\ Settled

(* With one request, the step of one is the step of all. *)
LEMMA OnlyJob ==
    ASSUME OneAtATime, TypeInv, NEW w \in Workers, NEW next, job' = [job EXCEPT ![w] = next]
    PROVE  \A v \in Workers : v = w /\ job'[v] = next
BY DEF OneAtATime, TypeInv

(* A request that ends leaves nothing in flight. *)
LEMMA FinishSound ==
    ASSUME OneAtATime, TypeInv, NEW w \in Workers, Finish(w)
    PROVE  InFlight'
<1>1. \A v \in Workers : job'[v] = Idle
  BY OnlyJob DEF Finish
<1>2. \A v \in Workers : job'[v].pc = "idle"
  BY <1>1 DEF Idle
<1> QED
  BY <1>2 DEF InFlight, Served, Enclosed, UpdateSound, EditSound

LEMMA SettledKept ==
    ASSUME Settled, UNCHANGED <<keyTable, hookTable>>
    PROVE  Settled'
BY DEF Settled, LineageKept, ManagersSignStandard, ElevatedVetted, Born, Stored, keyTable, hookTable, config

(* The guards of update_api_key and of a rotation. *)
LEMMA UpdateCheckSound ==
    ASSUME OneAtATime, SeqInv, NEW w \in Workers, job[w].pc = "in", NEW t \in Keys,
           \/ \E put, cut \in SUBSET (Flags \ {"secret"}) : CheckUpdate(w, t, put, cut)
           \/ CheckRotate(w, t)
    PROVE  InFlight'
<1>1. PICK put \in SUBSET Flags, cut \in SUBSET Flags :
        /\ t \in alive
        /\ Canonical((flags[t] \ cut) \cup (put \cap Flags))
        /\ Proceed(w, [job[w] EXCEPT !.pc = "update", !.key = t, !.put = put, !.cut = cut])
  <2>1. ASSUME NEW put \in SUBSET (Flags \ {"secret"}), NEW cut \in SUBSET (Flags \ {"secret"}),
               CheckUpdate(w, t, put, cut)
        PROVE  /\ t \in alive
               /\ Canonical((flags[t] \ cut) \cup (put \cap Flags))
               /\ Proceed(w, [job[w] EXCEPT !.pc = "update", !.key = t, !.put = put, !.cut = cut])
    <3>1. put \cap Flags = put
      OBVIOUS
    <3> QED
      BY <2>1, <3>1 DEF CheckUpdate, Administrable, Effective
  <2>2. CASE CheckRotate(w, t)
    <3>1. t \in alive
      BY <2>2 DEF CheckRotate, Administrable
    <3>2. Canonical((flags[t] \ {}) \cup ({"secret"} \cap Flags))
      BY <3>1 DEF SeqInv, Settled, ManagersSignStandard, Canonical, Flags, Scopes
    <3>3. job[w] \in Job /\ job[w].cut = {}
      BY Fields DEF SeqInv, InFlight, Served, GoodJob
    <3>4. [job[w] EXCEPT !.pc = "update", !.key = t, !.put = {"secret"}]
            = [job[w] EXCEPT !.pc = "update", !.key = t, !.put = {"secret"}, !.cut = {}]
      BY <3>3 DEF Job
    <3>5. {"secret"} \in SUBSET Flags /\ {} \in SUBSET Flags
      BY DEF Flags
    <3> QED
      BY <2>2, <3>1, <3>2, <3>4, <3>5 DEF CheckRotate
  <2> QED
    BY <2>1, <2>2
<1>2. job[w] \in Job
  BY Fields DEF SeqInv, GoodJob
<1>3. \A v \in Workers :
        /\ v = w /\ job'[v].pc = "update" /\ job'[v].key = t /\ job'[v].put = put /\ job'[v].cut = cut
        /\ job'[v].who = job[w].who /\ job'[v].scopes = job[w].scopes
  <2>1. PICK next : next = [job[w] EXCEPT !.pc = "update", !.key = t, !.put = put, !.cut = cut]
    OBVIOUS
  <2>2. \A v \in Workers : v = w /\ job'[v] = next
    BY <1>1, <2>1, OnlyJob DEF Proceed, SeqInv
  <2>3. /\ next.pc = "update" /\ next.key = t /\ next.put = put /\ next.cut = cut
        /\ next.who = job[w].who /\ next.scopes = job[w].scopes
    BY <1>2, <2>1 DEF Job
  <2> QED
    BY <2>2, <2>3
<1>4. UNCHANGED <<alive, parent, flags, hook, elevated, rights>>
  BY <1>1 DEF Proceed, keyTable, hookTable, config, permTable
<1>5. Served'
  BY <1>3, <1>4 DEF SeqInv, InFlight, Served
<1>6. Enclosed' /\ EditSound'
  BY <1>3 DEF Enclosed, EditSound
<1>7. UpdateSound'
  BY <1>1, <1>3, <1>4 DEF UpdateSound
<1> QED
  BY <1>5, <1>6, <1>7 DEF InFlight

(* Nothing that hangs below the doomed is left out of the walk. *)
LEMMA SubtreeClosed ==
    ASSUME NEW t, NEW k \in alive, parent[k] \in Subtree(t)
    PROVE  k \in Subtree(t)
<1>1. CASE k = t
  BY <1>1 DEF Subtree
<1>2. CASE k # t
  <2>1. ASSUME NEW S \in SUBSET alive,
               \A j \in alive : j # t /\ parent[j] \in S \cup {t} => j \in S
        PROVE  k \in S
    <3>1. parent[k] \in S \cup {t}
      BY <2>1 DEF Subtree, Descendants
    <3> QED
      BY <1>2, <2>1, <3>1
  <2> QED
    BY <2>1 DEF Subtree, Descendants
<1> QED
  BY <1>1, <1>2

LEMMA DeleteCheckSound ==
    ASSUME OneAtATime, SeqInv, NEW w \in Workers, job[w].pc = "in", DeleteCheck(w)
    PROVE  InFlight'
<1> SUFFICES ASSUME NEW t \in Keys, NEW fate \in [Hooks -> Fates], CheckDelete(w, t, fate)
             PROVE  InFlight'
  BY DEF DeleteCheck
<1>1. PICK doomed \in SUBSET Keys : doomed = Subtree(t)
  BY DEF Subtree, Descendants, SeqInv, TypeInv, TablesOK
<1>2. Proceed(w, [job[w] EXCEPT !.pc = "resolve", !.doomed = doomed, !.fate = fate])
  BY <1>1 DEF CheckDelete
<1>3. job[w] \in Job
  BY Fields DEF SeqInv, GoodJob
<1>4. \A v \in Workers :
        /\ v = w /\ job'[v].pc = "resolve" /\ job'[v].doomed = doomed
        /\ job'[v].who = job[w].who /\ job'[v].scopes = job[w].scopes
  <2>1. PICK next : next = [job[w] EXCEPT !.pc = "resolve", !.doomed = doomed, !.fate = fate]
    OBVIOUS
  <2>2. \A v \in Workers : v = w /\ job'[v] = next
    BY <1>2, <2>1, OnlyJob DEF Proceed, SeqInv
  <2>3. /\ next.pc = "resolve" /\ next.doomed = doomed
        /\ next.who = job[w].who /\ next.scopes = job[w].scopes
    BY <1>3, <2>1 DEF Job
  <2> QED
    BY <2>2, <2>3
<1>5. UNCHANGED <<alive, parent, flags, hook, elevated, rights>>
  BY <1>2 DEF Proceed, keyTable, hookTable, config, permTable
<1>6. Served'
  BY <1>4, <1>5 DEF SeqInv, InFlight, Served
<1>7. Enclosed'
  <2>1. \A k \in alive : parent[k] \in doomed => k \in doomed
    BY <1>1, SubtreeClosed
  <2> QED
    BY <1>4, <1>5, <2>1 DEF Enclosed
<1>8. UpdateSound' /\ EditSound'
  BY <1>4 DEF UpdateSound, EditSound
<1> QED
  BY <1>6, <1>7, <1>8 DEF InFlight

(* The guards of update_hook. *)
LEMMA EditCheckSound ==
    ASSUME OneAtATime, SeqInv, NEW w \in Workers, job[w].pc = "in", NEW h \in Hooks,
           NEW put \in EditRequests, NEW to \in Keys \cup {Nobody}, CheckEdit(w, h, put, to)
    PROVE  InFlight'
<1>1. job[w] \in Job
  BY Fields DEF SeqInv, GoodJob
<1>2. Proceed(w, [job[w] EXCEPT !.pc = "edit", !.hook = h, !.put = put, !.key = to])
  BY DEF CheckEdit
<1>3. \A v \in Workers :
        /\ v = w /\ job'[v].pc = "edit" /\ job'[v].hook = h /\ job'[v].put = put
        /\ job'[v].who = job[w].who /\ job'[v].scopes = job[w].scopes
  <2>1. PICK next : next = [job[w] EXCEPT !.pc = "edit", !.hook = h, !.put = put, !.key = to]
    OBVIOUS
  <2>2. \A v \in Workers : v = w /\ job'[v] = next
    BY <1>2, <2>1, OnlyJob DEF Proceed, SeqInv
  <2>3. /\ next.pc = "edit" /\ next.hook = h /\ next.put = put
        /\ next.who = job[w].who /\ next.scopes = job[w].scopes
    BY <1>1, <2>1 DEF Job
  <2> QED
    BY <2>2, <2>3
<1>4. UNCHANGED <<alive, parent, flags, hook, elevated, rights>>
  BY <1>2 DEF Proceed, keyTable, hookTable, config, permTable
<1>5. Served'
  BY <1>3, <1>4 DEF SeqInv, InFlight, Served
<1>6. Enclosed' /\ UpdateSound'
  BY <1>3 DEF Enclosed, UpdateSound
<1>7. EditSound'
  <2>1. /\ hook[h] = "live"
        /\ put # {} => MayDispatch(w, h)
        /\ IsMaster(w) \/ (h \notin elevated /\ "elevate" \notin put)
    BY DEF CheckEdit, Touchable
  <2>2. /\ IsMaster(w)' <=> IsMaster(w)
        /\ MayDispatch(w, h)' <=> MayDispatch(w, h)
    BY <1>3, <1>4 DEF IsMaster, MayDispatch, Manages
  <2> QED
    BY <1>3, <1>4, <2>1, <2>2 DEF EditSound, IsMaster, MayDispatch, Manages
<1> QED
  BY <1>5, <1>6, <1>7 DEF InFlight

(* Guards after which the write depends on nothing they read. *)
LEMMA OtherCheckSound ==
    ASSUME OneAtATime, SeqInv, NEW w \in Workers, job[w].pc = "in",
           \/ GrantCheck(w)
           \/ \E t \in Keys, h \in Hooks : CheckRevoke(w, t, h)
           \/ \E h \in Hooks : CheckTrash(w, h) \/ CheckDrop(w, h) \/ CheckRestore(w, h)
    PROVE  InFlight'
<1>1. job[w] \in Job
  BY Fields DEF SeqInv, GoodJob
<1>2. ASSUME NEW next, Proceed(w, next), next.who = job[w].who, next.scopes = job[w].scopes,
             next.pc \notin {"in", "resolve", "update", "edit"}
      PROVE  InFlight'
  <2>1. \A v \in Workers : v = w /\ job'[v] = next
    BY <1>2, OnlyJob DEF Proceed, SeqInv
  <2>2. UNCHANGED <<alive, flags>>
    BY <1>2 DEF Proceed, keyTable
  <2>3. Served'
    BY <1>2, <2>1, <2>2 DEF SeqInv, InFlight, Served
  <2> QED
    BY <1>2, <2>1, <2>3 DEF InFlight, Enclosed, UpdateSound, EditSound
<1>3. ASSUME NEW t \in Keys, NEW h \in Hooks, NEW vs \in SUBSET Verbs, CheckGrant(w, t, h, vs)
      PROVE  InFlight'
  BY <1>1, <1>2, <1>3 DEF CheckGrant, Job
<1>4. ASSUME NEW t \in Keys, NEW h \in Hooks, CheckRevoke(w, t, h)
      PROVE  InFlight'
  BY <1>1, <1>2, <1>4 DEF CheckRevoke, Job
<1>5. ASSUME NEW h \in Hooks, CheckTrash(w, h) \/ CheckDrop(w, h) \/ CheckRestore(w, h)
      PROVE  InFlight'
  BY <1>1, <1>2, <1>5 DEF CheckTrash, CheckDrop, CheckRestore, Job
<1> QED
  BY <1>3, <1>4, <1>5 DEF GrantCheck

(* Writes to the key table. *)
LEMMA KeyWriteSettled ==
    ASSUME OneAtATime, SeqInv, NEW w \in Workers,
           \/ \E n \in Keys, fs \in SUBSET Flags : job[w].pc = "in" /\ CreateKey(w, n, fs)
           \/ UpdateKey(w)
           \/ Cascade(w)
    PROVE  Settled' /\ InFlight'
<1>1. /\ alive \subseteq Keys /\ parent \in [Keys -> Keys \cup {Nobody}]
      /\ flags \in [Keys -> SUBSET Flags] /\ TypeInv
  BY DEF SeqInv, TypeInv, TablesOK
<1>2. /\ LineageKept /\ ManagersSignStandard /\ Served /\ UpdateSound /\ Enclosed
      /\ ElevatedVetted /\ Born
  BY DEF SeqInv, Settled, InFlight
<1>3. ASSUME UNCHANGED hookTable
      PROVE  ElevatedVetted' /\ Born'
  BY <1>2, <1>3 DEF ElevatedVetted, Born, Stored, hookTable, config
<1>4. ASSUME NEW n \in Keys, NEW fs \in SUBSET Flags, job[w].pc = "in", CreateKey(w, n, fs)
      PROVE  Settled' /\ InFlight'
  <2>1. /\ job[w].who \in alive /\ Canonical(fs)
        /\ alive' = alive \cup {n}
        /\ parent' = [parent EXCEPT ![n] = job[w].who]
        /\ flags' = [flags EXCEPT ![n] = fs]
    BY <1>2, <1>4 DEF CreateKey, Served
  <2>2. LineageKept'
    BY <1>1, <1>2, <2>1 DEF LineageKept
  <2>3. ManagersSignStandard'
    BY <1>1, <1>2, <2>1 DEF ManagersSignStandard, Canonical
  <2> QED
    BY <1>1, <1>3, <1>4, <2>2, <2>3, FinishSound DEF CreateKey, Settled
<1>5. CASE UpdateKey(w)
  <2>1. LineageKept'
    BY <1>2, <1>5 DEF UpdateKey, LineageKept
  <2>2. ManagersSignStandard'
    BY <1>1, <1>2, <1>5 DEF UpdateKey, ManagersSignStandard, UpdateSound, Canonical
  <2> QED
    BY <1>1, <1>3, <1>5, <2>1, <2>2, FinishSound DEF UpdateKey, Settled
<1>6. CASE Cascade(w)
  <2>1. LineageKept'
    BY <1>2, <1>6 DEF Cascade, LineageKept, Enclosed
  <2>2. ManagersSignStandard'
    BY <1>2, <1>6 DEF Cascade, ManagersSignStandard
  <2> QED
    BY <1>1, <1>3, <1>6, <2>1, <2>2, FinishSound DEF Cascade, Settled
<1> QED
  BY <1>4, <1>5, <1>6

(* Writes to the permission rows, and requests that end without one. *)
LEMMA RowWriteSettled ==
    ASSUME OneAtATime, SeqInv, NEW w \in Workers,
           Permit(w) \/ Revoke(w) \/ Provision(w) \/ Abandon(w)
    PROVE  Settled' /\ InFlight'
<1>1. UNCHANGED <<keyTable, hookTable>> /\ Finish(w)
  BY DEF Permit, Revoke, Provision, Abandon
<1> QED
  BY <1>1, SettledKept, FinishSound DEF SeqInv

(* Writes to the hook table that end their request. *)
LEMMA HookWriteSettled ==
    ASSUME OneAtATime, SeqInv, NEW w \in Workers,
           Edit(w) \/ Trash(w) \/ Drop(w) \/ Restore(w)
    PROVE  Settled' /\ InFlight'
<1>1. hook \in [Hooks -> HookStates] /\ elevated \subseteq Hooks /\ TypeInv
  BY DEF SeqInv, TypeInv, TablesOK
<1>2. LineageKept /\ ManagersSignStandard /\ ElevatedVetted /\ Born /\ EditSound
  BY DEF SeqInv, Settled, InFlight
<1>3. UNCHANGED keyTable /\ Finish(w)
  BY DEF Edit, Trash, Drop, Erase, Restore
<1>4. LineageKept' /\ ManagersSignStandard'
  BY <1>2, <1>3 DEF LineageKept, ManagersSignStandard, keyTable
<1>5. CASE Edit(w)
  <2>1. job[w].pc = "edit" /\ job[w].hook \in Hooks /\ job[w].who \in Keys
    BY <1>1, <1>5, Fields DEF Edit, HookSteps
  <2>2. PICK h \in Hooks : h = job[w].hook
    BY <2>1
  <2>3. PICK put : put = job[w].put
    OBVIOUS
  <2>4. /\ hook' = hook
        /\ approved' = IF put \cap {"script", "elevate"} = {} THEN approved
                       ELSE IF job[w].who = Master THEN approved \cup {h}
                       ELSE approved \ {h}
        /\ elevated' = IF "elevate" \in put THEN elevated \cup {h}
                       ELSE IF "lower" \in put THEN elevated \ {h}
                       ELSE elevated
    BY <1>5, <2>2, <2>3 DEF Edit, IsMaster
  <2>5. /\ hook[h] = "live"
        /\ job[w].who = Master \/ (h \notin elevated /\ "elevate" \notin put)
    BY <1>2, <2>1, <2>2, <2>3 DEF EditSound, IsMaster
  <2>6. \A g \in elevated' : g \in elevated \/ (g = h /\ "elevate" \in put)
    BY <2>4
  <2>7. Born'
    BY <1>2, <2>4, <2>5, <2>6 DEF Born
  <2>8. ElevatedVetted'
    <3>1. ASSUME NEW g \in elevated', Stored(g) PROVE g \in approved'
      <4>1. g \in elevated => g \in approved
        BY <1>2, <3>1 DEF ElevatedVetted
      <4>2. CASE job[w].who = Master
        BY <2>4, <2>6, <4>1, <4>2
      <4>3. CASE job[w].who # Master
        BY <2>4, <2>5, <2>6, <4>1, <4>3
      <4> QED
        BY <4>2, <4>3
    <3> QED
      BY <2>4, <3>1 DEF ElevatedVetted, Stored
  <2> QED
    BY <1>1, <1>3, <1>4, <2>7, <2>8, FinishSound DEF Settled
<1>6. CASE Trash(w) \/ Drop(w) \/ Restore(w)
  <2>1. /\ UNCHANGED <<approved, elevated>>
        /\ \A g \in Hooks : hook'[g] # hook[g] => Stored(g) /\ hook'[g] # "unborn"
    BY <1>1, <1>6 DEF Trash, Drop, Erase, Restore, Stored, config
  <2>2. Born'
    BY <1>1, <1>2, <2>1 DEF Born
  <2>3. ElevatedVetted'
    BY <1>1, <1>2, <2>1 DEF ElevatedVetted, Stored
  <2> QED
    BY <1>1, <1>3, <1>4, <2>2, <2>3, FinishSound DEF Settled
<1> QED
  BY <1>5, <1>6

(* Steps after which a request goes on, or begins. *)
LEMMA BeginSound ==
    ASSUME OneAtATime, SeqInv, NEW w \in Workers, NEW c \in Keys, Begin(w, c)
    PROVE  Settled' /\ InFlight'
<1>1. PICK next : next = [Idle EXCEPT !.pc = "in", !.who = c, !.scopes = flags[c]]
  OBVIOUS
<1>2. \A v \in Workers : job'[v] = next
  BY <1>1, OnlyJob DEF Begin, SeqInv
<1>3. next.pc = "in" /\ next.who = c /\ next.scopes = flags[c] /\ next.cut = {}
  BY <1>1 DEF Idle
<1>4. c \in alive /\ UNCHANGED <<keyTable, hookTable>>
  BY DEF Begin
<1>5. Served'
  BY <1>2, <1>3, <1>4 DEF Served, keyTable
<1>6. Enclosed' /\ UpdateSound' /\ EditSound'
  BY <1>2, <1>3 DEF Enclosed, UpdateSound, EditSound
<1> QED
  BY <1>4, <1>5, <1>6, SettledKept DEF InFlight, SeqInv

LEMMA CreateHookSound ==
    ASSUME OneAtATime, SeqInv, NEW w \in Workers, NEW h \in Hooks, NEW runAs \in BOOLEAN,
           job[w].pc = "in", CreateHook(w, h, runAs)
    PROVE  Settled' /\ InFlight'
<1>1. job[w] \in Job /\ job \in [Workers -> GoodJob]
  BY Fields DEF SeqInv, GoodJob, TypeInv
<1>2. PICK next : next = [job[w] EXCEPT !.pc = "provision", !.hook = h]
  OBVIOUS
<1>3. job' = [job EXCEPT ![w] = next]
  BY <1>1, <1>2 DEF CreateHook
<1>4. \A v \in Workers : v = w /\ job'[v] = next
  BY <1>3, OnlyJob DEF SeqInv
<1>5. next.pc = "provision" /\ next.who = job[w].who /\ next.scopes = job[w].scopes
  BY <1>1, <1>2 DEF Job
<1>6. UNCHANGED <<alive, parent, flags>>
  BY DEF CreateHook, keyTable
<1>7. Served'
  BY <1>4, <1>5, <1>6 DEF Served, SeqInv, InFlight
<1>8. Enclosed' /\ UpdateSound' /\ EditSound'
  BY <1>4, <1>5 DEF Enclosed, UpdateSound, EditSound
<1>9. LineageKept' /\ ManagersSignStandard'
  BY <1>6 DEF SeqInv, Settled, LineageKept, ManagersSignStandard
<1>10. hook \in [Hooks -> HookStates] /\ elevated \subseteq Hooks /\ Born /\ ElevatedVetted
  BY DEF SeqInv, TypeInv, TablesOK, Settled
<1>11. /\ hook[h] = "unborn" /\ hook' = [hook EXCEPT ![h] = "live"]
       /\ approved' = IF job[w].who = Master THEN approved \cup {h} ELSE approved \ {h}
       /\ elevated' = IF runAs THEN elevated \cup {h} ELSE elevated
       /\ runAs => job[w].who = Master
  BY DEF CreateHook, IsMaster
<1>12. h \notin elevated
  BY <1>10, <1>11 DEF Born
<1>13. Born' /\ ElevatedVetted'
  BY <1>10, <1>11, <1>12 DEF Born, ElevatedVetted, Stored
<1> QED
  BY <1>7, <1>8, <1>9, <1>13 DEF Settled, InFlight

LEMMA ResolveSound ==
    ASSUME OneAtATime, SeqInv, NEW w \in Workers, NEW h \in Hooks, Resolve(w, h)
    PROVE  Settled' /\ InFlight'
<1>1. job[w] \in Job /\ job[w].pc = "resolve"
  BY Fields DEF SeqInv, GoodJob, Resolve
<1>2. PICK next : next = [job[w] EXCEPT !.fate = [job[w].fate EXCEPT ![h] = Keep]]
  OBVIOUS
<1>3. \A v \in Workers : v = w /\ job'[v] = next
  BY <1>2, OnlyJob DEF Resolve, SeqInv
<1>4. /\ next.pc = "resolve" /\ next.who = job[w].who /\ next.scopes = job[w].scopes
      /\ next.doomed = job[w].doomed
  BY <1>1, <1>2 DEF Job
<1>5. UNCHANGED <<alive, parent, flags, approved, elevated>>
  BY DEF Resolve, keyTable, config
<1>6. Served' /\ Enclosed'
  BY <1>1, <1>3, <1>4, <1>5 DEF Served, Enclosed, SeqInv, InFlight
<1>7. UpdateSound' /\ EditSound'
  BY <1>3, <1>4 DEF UpdateSound, EditSound
<1>8. LineageKept' /\ ManagersSignStandard'
  BY <1>5 DEF SeqInv, Settled, LineageKept, ManagersSignStandard
<1>9. hook \in [Hooks -> HookStates] /\ elevated \subseteq Hooks /\ Born /\ ElevatedVetted
  BY DEF SeqInv, TypeInv, TablesOK, Settled
<1>10. \A g \in Hooks : hook'[g] # hook[g] => Stored(g) /\ hook'[g] = "trash"
  BY <1>9 DEF Resolve, Apply, Stored
<1>11. Born' /\ ElevatedVetted'
  BY <1>5, <1>9, <1>10 DEF Born, ElevatedVetted, Stored
<1> QED
  BY <1>6, <1>7, <1>8, <1>11 DEF Settled, InFlight

(* The purge in the middle of a request: it takes only what is in the       *)
(* trash, and a request past its guards edits only what is live.            *)
LEMMA PurgeSound ==
    ASSUME OneAtATime, SeqInv, NEW h \in Hooks, Purge(h)
    PROVE  Settled' /\ InFlight'
<1>1. /\ UNCHANGED <<alive, parent, flags, approved, elevated, job>>
      /\ hook[h] = "trash" /\ hook' = [hook EXCEPT ![h] = "gone"]
      /\ rights' = [k \in Keys |-> [rights[k] EXCEPT ![h] = {}]]
  BY DEF Purge, Erase, keyTable, config
<1>2. /\ hook \in [Hooks -> HookStates] /\ rights \in [Keys -> [Hooks -> SUBSET Verbs]]
      /\ elevated \subseteq Hooks /\ Born /\ ElevatedVetted /\ TypeInv
  BY DEF SeqInv, TypeInv, TablesOK, Settled
<1>3. Served' /\ Enclosed' /\ UpdateSound'
  BY <1>1 DEF Served, Enclosed, UpdateSound, SeqInv, InFlight
<1>4. EditSound'
  <2> SUFFICES ASSUME NEW w \in Workers, job[w].pc = "edit"
               PROVE  /\ hook'[job[w].hook] = "live"
                      /\ IsMaster(w) \/ (job[w].hook \notin elevated /\ "elevate" \notin job[w].put)
                      /\ job[w].put # {} => IsMaster(w)
                           \/ ("keys" \in job[w].scopes /\ "manage" \in rights'[job[w].who][job[w].hook])
    BY <1>1 DEF EditSound, IsMaster, MayDispatch, Manages
  <2>1. /\ hook[job[w].hook] = "live"
        /\ IsMaster(w) \/ (job[w].hook \notin elevated /\ "elevate" \notin job[w].put)
        /\ job[w].put # {} => IsMaster(w)
             \/ ("keys" \in job[w].scopes /\ "manage" \in rights[job[w].who][job[w].hook])
    BY DEF SeqInv, InFlight, EditSound, MayDispatch, Manages
  <2>2. job[w].hook \in Hooks /\ job[w].who \in Keys /\ job[w].hook # h
    BY <1>1, <1>2, <2>1, Fields DEF HookSteps
  <2>3. hook'[job[w].hook] = "live" /\ rights'[job[w].who][job[w].hook] = rights[job[w].who][job[w].hook]
    BY <1>1, <1>2, <2>1, <2>2
  <2> QED
    BY <2>1, <2>3
<1>5. LineageKept' /\ ManagersSignStandard'
  BY <1>1 DEF SeqInv, Settled, LineageKept, ManagersSignStandard
<1>6. Born' /\ ElevatedVetted'
  BY <1>1, <1>2 DEF Born, ElevatedVetted, Stored
<1> QED
  BY <1>3, <1>4, <1>5, <1>6 DEF Settled, InFlight

LEMMA SeqInit == Init => SeqInv
<1> SUFFICES ASSUME Init PROVE SeqInv
  OBVIOUS
<1>1. \A w \in Workers : job[w].pc = "idle"
  BY DEF Init, Idle
<1>2. InFlight
  BY <1>1 DEF InFlight, Served, Enclosed, UpdateSound, EditSound
<1>3. LineageKept
  BY AccessAssumption DEF Init, LineageKept
<1>4. ManagersSignStandard
  <2>1. \A k \in Keys : flags[k] \in {{}, {"keys", "secret"}, {"keys", "hooks", "secret"}}
    BY DEF Init
  <2>2. alive \subseteq Keys
    BY AccessAssumption DEF Init
  <2> QED
    BY <2>1, <2>2 DEF ManagersSignStandard, Canonical
<1>5. ElevatedVetted /\ Born
  BY DEF Init, ElevatedVetted, Born
<1> QED
  BY <1>2, <1>3, <1>4, <1>5, TypeInit DEF SeqInv, Settled

LEMMA SeqStep ==
    ASSUME OneAtATime
    PROVE  SeqInv /\ [Next]_vars => SeqInv'
<1> SUFFICES ASSUME SeqInv, [Next]_vars PROVE Settled' /\ InFlight'
  BY TypeStep DEF SeqInv
<1>1. ASSUME NEW w \in Workers, job[w].pc = "in", PlainCheck(w) \/ GrantCheck(w) \/ DeleteCheck(w)
      PROVE  Settled' /\ InFlight'
  <2>1. InFlight'
    BY <1>1, UpdateCheckSound, EditCheckSound, OtherCheckSound, DeleteCheckSound DEF PlainCheck
  <2>2. UNCHANGED <<keyTable, hookTable>>
    BY <1>1 DEF PlainCheck, GrantCheck, DeleteCheck, CheckUpdate, CheckRotate, CheckRevoke, CheckEdit,
                CheckTrash, CheckDrop, CheckRestore, CheckGrant, CheckDelete, Proceed
  <2> QED
    BY <2>1, <2>2, SettledKept DEF SeqInv
<1>2. ASSUME NEW w \in Workers, Step(w)
      PROVE  Settled' /\ InFlight'
  BY <1>1, <1>2, BeginSound, KeyWriteSettled, RowWriteSettled, HookWriteSettled,
     CreateHookSound, ResolveSound DEF Step, PlainWrite, Creation
<1>3. ASSUME NEW h \in Hooks, Purge(h)
      PROVE  Settled' /\ InFlight'
  BY <1>3, PurgeSound
<1>4. CASE UNCHANGED vars
  <2>1. Settled'
    BY <1>4, SettledKept DEF SeqInv, vars
  <2>2. UNCHANGED <<alive, parent, flags, hook, elevated, rights, job>>
    BY <1>4 DEF vars, keyTable, hookTable, config, permTable
  <2>3. InFlight'
    BY <2>2 DEF SeqInv, InFlight, Served, Enclosed, UpdateSound, EditSound, IsMaster, MayDispatch, Manages
  <2> QED
    BY <2>1, <2>3
<1> QED
  BY <1>2, <1>3, <1>4, StepCases

(* One request at a time, delete_api_key takes the whole subtree, whatever  *)
(* its depth: no key is left whose parent is gone.                          *)
THEOREM LineageIsKept == ASSUME OneAtATime PROVE Spec => []LineageKept
<1>1. SeqInv => LineageKept
  BY DEF SeqInv, Settled
<1>2. SeqInv /\ [Next]_vars => SeqInv'
  BY SeqStep
<1> QED
  BY <1>1, <1>2, SeqInit, PTL DEF Spec

(* One request at a time, guard_canonical_v1_for_key_management keeps every *)
(* key manager on the standard signature, by whatever edits it is reached.  *)
THEOREM ManagersAlwaysSignStandard == ASSUME OneAtATime PROVE Spec => []ManagersSignStandard
<1>1. SeqInv => ManagersSignStandard
  BY DEF SeqInv, Settled
<1>2. SeqInv /\ [Next]_vars => SeqInv'
  BY SeqStep
<1> QED
  BY <1>1, <1>2, SeqInit, PTL DEF Spec

(* One request at a time, the script of a hook with a run_as_user is one    *)
(* the master wrote, or one it found there when it assigned that user,      *)
(* through any trashing, restoring, lowering, rewriting by managers and     *)
(* elevating again (guard_master_for_privileged_hook).                      *)
THEOREM ElevatedIsVetted == ASSUME OneAtATime PROVE Spec => []ElevatedVetted
<1>1. SeqInv => ElevatedVetted
  BY DEF SeqInv, Settled
<1>2. SeqInv /\ [Next]_vars => SeqInv'
  BY SeqStep
<1> QED
  BY <1>1, <1>2, SeqInit, PTL DEF Spec

(* Only update_hook writes the dispatch configuration of an existing hook. *)
LEMMA AuthorWritten ==
    ASSUME TypeInv, [Next]_vars, NEW h \in Hooks, hook[h] # "unborn", stamp'[h] # stamp[h]
    PROVE  \E w \in Workers : /\ Edit(w) /\ job[w].hook = h /\ job[w].put # {}
                              /\ author'[h] = job[w].who
<1>1. author \in [Hooks -> Keys \cup {Nobody}] /\ stamp \in [Hooks -> BOOLEAN]
  BY DEF TypeInv, TablesOK
<1>2. ASSUME NEW w \in Workers, Step(w), ~Edit(w)
      PROVE  FALSE
  <2>1. ASSUME NEW g \in Hooks, NEW runAs \in BOOLEAN, CreateHook(w, g, runAs)
        PROVE  FALSE
    BY <1>1, <2>1 DEF CreateHook
  <2>2. CASE stamp' = stamp
    BY <2>2
  <2>3. CASE PlainCheck(w) \/ GrantCheck(w) \/ DeleteCheck(w) \/ Creation(w)
    BY <2>2, <2>3 DEF PlainCheck, GrantCheck, DeleteCheck, Creation, CheckUpdate, CheckRotate,
         CheckRevoke, CheckEdit, CheckTrash, CheckDrop, CheckRestore, CheckGrant, CheckDelete,
         CreateKey, Proceed, hookTable, config
  <2>4. CASE \/ \E c \in Keys : Begin(w, c)
             \/ Cascade(w) \/ Permit(w) \/ Provision(w)
             \/ Abandon(w) \/ UpdateKey(w) \/ Revoke(w)
             \/ \E g \in Hooks : Resolve(w, g)
             \/ Trash(w) \/ Drop(w) \/ Restore(w)
    BY <2>2, <2>4 DEF Begin, Cascade, Permit, Provision, Abandon, UpdateKey, Revoke, Resolve,
         Trash, Drop, Erase, Restore, hookTable, config
  <2> QED
    BY <1>2, <2>1, <2>3, <2>4 DEF Step, PlainWrite
<1>3. ~(UNCHANGED vars) /\ ~(\E g \in Hooks : Purge(g))
  BY DEF vars, hookTable, config, Purge, Erase
<1>4. PICK w \in Workers : Edit(w)
  BY <1>2, <1>3, StepCases
<1>5. job[w].hook \in Hooks
  BY <1>4, Fields DEF Edit, HookSteps
<1> QED
  BY <1>1, <1>4, <1>5 DEF Edit

(* One request at a time, revocation is containment: every write to the     *)
(* dispatch configuration of an existing hook, the repeated ones of its     *)
(* last author too, is by the master or by a key that has can_manage_keys   *)
(* and a manage row when it is written, for every history of grants,        *)
(* revocations and changes of owner.                                        *)
THEOREM DispatchIsContained == ASSUME OneAtATime PROVE Spec => DispatchContained
<1>1. ASSUME SeqInv, [Next]_vars, NEW h \in Hooks, hook[h] # "unborn", stamp'[h] # stamp[h]
      PROVE  \/ author'[h] = Master
             \/ "keys" \in flags[author'[h]] /\ "manage" \in rights[author'[h]][h]
  <2>1. PICK w \in Workers : /\ Edit(w) /\ job[w].hook = h /\ job[w].put # {}
                             /\ author'[h] = job[w].who
    BY <1>1, AuthorWritten DEF SeqInv
  <2>2. job[w].pc = "edit"
    BY <2>1 DEF Edit
  <2>3. IsMaster(w) \/ Manages(w, h)
    BY <1>1, <2>1, <2>2 DEF SeqInv, InFlight, EditSound, MayDispatch
  <2>4. job[w].scopes = flags[job[w].who]
    BY <1>1, <2>2 DEF SeqInv, InFlight, Served
  <2> QED
    BY <2>1, <2>3, <2>4 DEF IsMaster, Manages
<1>2. SeqInv /\ [Next]_vars
        => [\A h \in Hooks : (hook[h] # "unborn" /\ stamp'[h] # stamp[h])
              => LET c == author'[h]
                 IN  c = Master \/ ("keys" \in flags[c] /\ "manage" \in rights[c][h])]_vars
  BY <1>1
<1>3. SeqInv /\ [Next]_vars => SeqInv'
  BY SeqStep
<1> QED
  BY <1>2, <1>3, SeqInit, PTL DEF Spec, DispatchContained
=============================================================================
