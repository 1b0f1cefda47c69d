---------------------------- MODULE HookRegistry ----------------------------
(* The hooks table over its life: creation with parameters, edits, trashing,  *)
(* restoring, hard deletion, purging, the parameter endpoints, the audit rows *)
(* that go with them, the hooks a deleted key's resolutions send to the trash *)
(* and the retention worker that empties it as days pass.                     *)
(* Source: api/hooks.rs, api/keys.rs, api/support.rs and retention.rs.        *)
(*                                                                            *)
(* Two requests may be in flight.  A handler is several statements with no    *)
(* transaction around them, so every statement is a step, what it read is in  *)
(* its job, and a client that leaves drops it between two.  Callers hold the  *)
(* rights they need: who may do what is AccessControl's.  Audit rows other    *)
(* than HOOK_DELETE are written last and read by nothing, and are left out.   *)
EXTENDS RequestAuth, CommandPlan

CONSTANTS
    Workers,           \* requests that may be in flight at once
    Names,             \* hook names
    Creations,         \* CreateHookPayload values considered
    Updates,           \* UpdateHookPayload values considered
    Declarations,      \* parameters considered by the parameter endpoints
    Users,             \* run_as_user values considered
    Retention,         \* DELETED_HOOK_RETENTION_DAYS
    LogRetention,      \* LOG_RETENTION_DAYS
    MaxDay,            \* bound on the clock
    MaxOps             \* bound on the requests

Days == 0..MaxDay
Never == -1
Ids == 0..MaxOps       \* 0 is the hook there may be at the start

VARIABLES
    hooks,             \* the hooks table, by id
    params,            \* [Ids -> Seq(Parameter)]: hook_parameters, in their order
    runs,              \* [Ids -> SUBSET Days]: executions, by hook and day
    trail,             \* [Ids -> Nat]: the HOOK_DELETE rows of audit_logs
    job,               \* [Workers -> Job]: the requests in flight
    ops,               \* requests so far
    day,
    stuck,             \* the executions table refuses the sweep's DELETE
    liveOn,            \* history: the last day each hook was live
    trashings,         \* history: how often each hook went to the trash
    cascaded,          \* history: how often delete_api_key sent it there
    late,              \* history: hooks delete_api_key gave a date gone by
    cut,               \* history: hooks a dropped request wrote to and did not audit
    raced              \* history: hooks whose last edit overwrote a newer row

tables == <<hooks, params, runs>>
vars == <<tables, trail, job, ops, day, stuck, liveOn, trashings, cascaded, late, cut,
          raced>>

NoRow == [name |-> "none", mode |-> "NONE", secret |-> NoSecret, template |-> <<>>,
          deletedAt |-> Never]

Live(id) == id \in DOMAIN hooks /\ hooks[id].deletedAt = Never
Trashed(id) == id \in DOMAIN hooks /\ hooks[id].deletedAt # Never

(* What deserialization and the shape checks of the handlers let through. *)
Template == [given : BOOLEAN, is : Seq(Seq(Piece))]
SecretFields == {"omitted", "set", "clear"}
CreateHookPayload ==
    [name : Names, script : {"inside", "outside"}, params : Seq(Parameter), mode : Modes,
     secret : SecretFields, template : Template]
UpdateHookPayload ==
    [name : Names \cup {"omitted"}, script : {"omitted", "inside", "outside"},
     mode : Modes \cup {"omitted"}, secret : SecretFields, template : Template]

ASSUME RegistryAssumption ==
    /\ IsFiniteSet(Workers)
    /\ "omitted" \notin Names
    /\ Creations \subseteq CreateHookPayload
    /\ Updates \subseteq UpdateHookPayload
    /\ Declarations \subseteq Parameter
    /\ Retention \in Int
    /\ LogRetention \in Int
    /\ MaxDay \in Nat
    /\ MaxOps \in Nat

-----------------------------------------------------------------------------
(* Jobs.  at is the next statement, row the hook as an update read it, pay    *)
(* what is left of the payload.                                               *)

Idle == [at |-> "idle", id |-> 0, row |-> NoRow, pay |-> <<>>]
At(w, p) == job[w].at = p
Hold(w, p, id, row, pay) ==
    job' = [job EXCEPT ![w] = [at |-> p, id |-> id, row |-> row, pay |-> pay]]
Finish(w) == job' = [job EXCEPT ![w] = Idle]

(* A request arrives, and what it does first leaves it waiting at p. *)
Begin(w) == At(w, "idle") /\ ops < MaxOps /\ ops' = ops + 1
Start(w, p, id, pay) == Hold(w, p, id, NoRow, pay)

Without(ids) == [i \in DOMAIN hooks \ ids |-> hooks[i]]

(* Rows of hook_parameters and executions go with their hook. *)
Remove(ids) ==
    /\ hooks' = Without(ids)
    /\ params' = [i \in Ids |-> IF i \in ids THEN <<>> ELSE params[i]]
    /\ runs' = [i \in Ids |-> IF i \in ids THEN {} ELSE runs[i]]

-----------------------------------------------------------------------------
(* Validation.                                                               *)

(* validate_script_path: absolute, no "..", lexically inside a root. *)
ScriptAccepted(script) == script \in {"omitted", "inside"}

(* A mutant: a secret may be cleared whatever the mode. *)
SecretAcceptedIfCleared(mode, sent, existing) ==
    sent = "omitted" => mode # "HMAC_ONLY" \/ existing # NoSecret

(* validate_and_seal_hmac_secret: the refusal, and what is stored. *)
SecretAccepted(mode, sent, existing) ==
    /\ sent = "clear" => mode # "HMAC_ONLY"
    /\ sent = "omitted" => mode # "HMAC_ONLY" \/ existing # NoSecret

SecretStored(sent, existing) ==
    CASE sent = "clear" -> NoSecret
      [] sent = "set" -> Seal("hook")
      [] sent = "omitted" -> existing

(* A mutant: a field the payload omits is written all the same. *)
EffectiveModeAsSent(p, row) == p.mode

EffectiveMode(p, row) == IF p.mode = "omitted" THEN row.mode ELSE p.mode
EffectiveTemplate(p, row) == IF p.template.given THEN p.template.is ELSE row.template

-----------------------------------------------------------------------------
(* POST /api/hooks.                                                          *)

(* Everything create_hook checks before its first write. *)
CreationAccepted(p) ==
    /\ ScriptAccepted(p.script)
    /\ SecretAccepted(p.mode, p.secret, NoSecret)
    /\ TemplateFits(p.template.is, KeysOf(p.params))

RowOf(p, deletedAt) ==
    [name |-> p.name, mode |-> p.mode, secret |-> SecretStored(p.secret, NoSecret),
     template |-> p.template.is, deletedAt |-> deletedAt]

(* The unique index on hook_id and param_key. *)
Distinct(rows) == \A m, n \in DOMAIN rows : rows[m].key = rows[n].key => m = n

(* A hook_parameters row is its declaration and the request that made it, the *)
(* two together standing for its id.                                          *)
Declare(d, n) == [key |-> d.key, default |-> d.default, required |-> d.required, by |-> n]
Declared(ds, n) == [i \in DOMAIN ds |-> Declare(ds[i], n)]

(* The INSERT of the hook row.  A name is held by live and trashed hooks.     *)
CreateHook(w, p) ==
    /\ Begin(w)
    /\ CreationAccepted(p)
    /\ \A i \in DOMAIN hooks : hooks[i].name # p.name
    /\ hooks' = [i \in DOMAIN hooks \cup {ops + 1} |->
                    IF i = ops + 1 THEN RowOf(p, Never) ELSE hooks[i]]
    /\ Start(w, "declare", ops + 1, Declared(p.params, ops + 1))
    /\ UNCHANGED <<params, runs, trail, day, stuck>>

(* One INSERT per declared parameter, then the creator's grant.  A key that   *)
(* is declared twice, or a hook that is gone, ends the request.               *)
DeclareNext(w) ==
    LET id == job[w].id
        left == job[w].pay
    IN  /\ At(w, "declare")
        /\ IF id \notin DOMAIN hooks \/ left = <<>> \/ Head(left).key \in KeysOf(params[id])
           THEN Finish(w) /\ UNCHANGED params
           ELSE /\ params' = [params EXCEPT ![id] = Append(@, Head(left))]
                /\ Hold(w, "declare", id, job[w].row, Tail(left))
        /\ UNCHANGED <<hooks, runs, trail, ops, day, stuck>>

-----------------------------------------------------------------------------
(* PUT /api/hooks/{identifier}.                                              *)

(* resolve_hook and the checks that need the row alone. *)
ReadForUpdate(w, p) ==
    \E id \in DOMAIN hooks :
        /\ Begin(w)
        /\ Live(id)
        /\ ScriptAccepted(p.script)
        /\ SecretAccepted(EffectiveMode(p, hooks[id]), p.secret, hooks[id].secret)
        /\ Hold(w, "fit", id, hooks[id], p)
        /\ UNCHANGED <<tables, trail, day, stuck>>

(* load_parameters, and the template against the keys declared by now. *)
FitTemplate(w) ==
    LET id == job[w].id
        fits == TemplateFits(EffectiveTemplate(job[w].pay, job[w].row), KeysOf(params[id]))
    IN  /\ At(w, "fit")
        /\ IF fits THEN Hold(w, "write", id, job[w].row, job[w].pay) ELSE Finish(w)
        /\ UNCHANGED <<tables, trail, ops, day, stuck>>

(* The columns of the payload, and hmac_secret always, from the row as read. *)
Updated(row, p, read) ==
    [row EXCEPT !.name = IF p.name = "omitted" THEN row.name ELSE p.name,
                !.mode = EffectiveMode(p, row),
                !.secret = SecretStored(p.secret, read.secret),
                !.template = EffectiveTemplate(p, row)]

(* The UPDATE, by id.  It finds a trashed row as well as a live one. *)
WriteUpdate(w) ==
    LET id == job[w].id
        p == job[w].pay
    IN  /\ At(w, "write")
        /\ hooks' = IF \/ id \notin DOMAIN hooks
                       \/ \E i \in DOMAIN hooks \ {id} : hooks[i].name = p.name
                    THEN hooks
                    ELSE [hooks EXCEPT ![id] = Updated(hooks[id], p, job[w].row)]
        /\ Finish(w)
        /\ UNCHANGED <<params, runs, trail, ops, day, stuck>>

-----------------------------------------------------------------------------
(* DELETE /api/hooks/{identifier}, with and without ?hard=true.               *)

ReadForDelete(w) ==
    \E id \in DOMAIN hooks :
        /\ Begin(w)
        /\ Live(id)
        /\ Start(w, "trash", id, <<>>)
        /\ UNCHANGED <<tables, trail, day, stuck>>

(* A mutant: the UPDATE is not conditional on the row being live. *)
TrashAnyway(w) ==
    LET id == job[w].id
    IN  /\ At(w, "trash")
        /\ IF id \in DOMAIN hooks
           THEN hooks' = [hooks EXCEPT ![id].deletedAt = day] /\ Start(w, "audit", id, <<>>)
           ELSE UNCHANGED hooks /\ Finish(w)
        /\ UNCHANGED <<params, runs, trail, ops, day, stuck>>

(* The UPDATE ... WHERE is_deleted = FALSE: of two requests one wins. *)
Trash(w) ==
    LET id == job[w].id
    IN  /\ At(w, "trash")
        /\ IF Live(id)
           THEN hooks' = [hooks EXCEPT ![id].deletedAt = day] /\ Start(w, "audit", id, <<>>)
           ELSE UNCHANGED hooks /\ Finish(w)
        /\ UNCHANGED <<params, runs, trail, ops, day, stuck>>

ReadForHardDelete(w) ==
    \E id \in DOMAIN hooks :
        /\ Begin(w)
        /\ Start(w, "drop", id, <<>>)
        /\ UNCHANGED <<tables, trail, day, stuck>>

Drop(w) ==
    LET id == job[w].id
    IN  /\ At(w, "drop")
        /\ Remove({id} \cap DOMAIN hooks)
        /\ Finish(w)
        /\ UNCHANGED <<trail, ops, day, stuck>>

-----------------------------------------------------------------------------
(* DELETE /api/keys/{id}: what its resolution map does to the trash.  Which    *)
(* hooks a subtree owns, and what becomes of the keys, is AccessControl's.  A  *)
(* map of several entries is several of these, that began on the same day.     *)

(* The inventory, which has trashed hooks as well, and the time that every     *)
(* deletion of the map will be given.                                          *)
ReadForResolve(w) ==
    \E id \in DOMAIN hooks :
        /\ Begin(w)
        /\ Start(w, "resolve", id, day)
        /\ UNCHANGED <<tables, trail, day, stuck>>

(* A hook that is gone is passed over, another is dated whatever its row says  *)
(* by now.  No HOOK_DELETE row follows.                                        *)
Resolve(w) ==
    LET id == job[w].id
    IN  /\ At(w, "resolve")
        /\ hooks' = IF id \in DOMAIN hooks
                     THEN [hooks EXCEPT ![id].deletedAt = job[w].pay] ELSE hooks
        /\ Finish(w)
        /\ UNCHANGED <<params, runs, trail, ops, day, stuck>>

-----------------------------------------------------------------------------
(* POST /api/hooks/{identifier}/restore.                                     *)

ReadForRestore(w) ==
    \E id \in DOMAIN hooks :
        /\ Begin(w)
        /\ Trashed(id)
        /\ Start(w, "restore", id, <<>>)
        /\ UNCHANGED <<tables, trail, day, stuck>>

(* The UPDATE, by id and whatever the row says by now. *)
Restore(w) ==
    LET id == job[w].id
    IN  /\ At(w, "restore")
        /\ hooks' = IF id \in DOMAIN hooks THEN [hooks EXCEPT ![id].deletedAt = Never] ELSE hooks
        /\ Finish(w)
        /\ UNCHANGED <<params, runs, trail, ops, day, stuck>>

-----------------------------------------------------------------------------
(* The parameter endpoints.  Each resolves a live hook first.                 *)

ReadForInsert(w, d) ==
    \E id \in DOMAIN hooks :
        /\ Begin(w)
        /\ Live(id)
        /\ Start(w, "insert", id, Declare(d, ops + 1))
        /\ UNCHANGED <<tables, trail, day, stuck>>

(* The other two then read the row of the parameter they name. *)
ReadForAmend(w, d) ==
    \E id \in DOMAIN hooks : \E n \in DOMAIN params[id] :
        /\ Begin(w)
        /\ Live(id)
        /\ d.key = params[id][n].key
        /\ Start(w, "amend", id, Declare(d, params[id][n].by))
        /\ UNCHANGED <<tables, trail, day, stuck>>

ReadForRemove(w) ==
    \E id \in DOMAIN hooks : \E n \in DOMAIN params[id] :
        /\ Begin(w)
        /\ Live(id)
        /\ Start(w, "remove", id, params[id][n])
        /\ UNCHANGED <<tables, trail, day, stuck>>

IsRow(d, e) == d.key = e.key /\ d.by = e.by

(* create_hook_parameter; the unique key and the foreign key may refuse it.   *)
InsertParameter(w) ==
    LET id == job[w].id
        p == job[w].pay
    IN  /\ At(w, "insert")
        /\ params' = IF id \in DOMAIN hooks /\ p.key \notin KeysOf(params[id])
                     THEN [params EXCEPT ![id] = Append(@, p)] ELSE params
        /\ Finish(w)
        /\ UNCHANGED <<hooks, runs, trail, ops, day, stuck>>

(* The columns a payload names are written, a default cannot be taken away. *)
Amended(row, p) ==
    [row EXCEPT !.default = IF p.default = "none" THEN row.default ELSE p.default,
                !.required = p.required]

(* update_hook_parameter: the row it read must still be there. *)
UpdateParameter(w) ==
    LET id == job[w].id
        p == job[w].pay
        rows == params[id]
    IN  /\ At(w, "amend")
        /\ params' = [params EXCEPT ![id] =
                         [n \in DOMAIN rows |->
                             IF IsRow(rows[n], p) THEN Amended(rows[n], p) ELSE rows[n]]]
        /\ Finish(w)
        /\ UNCHANGED <<hooks, runs, trail, ops, day, stuck>>

(* The rows but the one row p, if it is there. *)
Others(rows, p) ==
    IF \A n \in DOMAIN rows : ~IsRow(rows[n], p) THEN rows
    ELSE LET n == CHOOSE m \in DOMAIN rows : IsRow(rows[m], p)
         IN  SubSeq(rows, 1, n - 1) \o SubSeq(rows, n + 1, Len(rows))

(* delete_hook_parameter: deleting what is gone already is no error. *)
DeleteParameter(w) ==
    LET id == job[w].id
        rows == params[id]
    IN  /\ At(w, "remove")
        /\ params' = [params EXCEPT ![id] = Others(rows, job[w].pay)]
        /\ Finish(w)
        /\ UNCHANGED <<hooks, runs, trail, ops, day, stuck>>

-----------------------------------------------------------------------------
(* create_audit_log, the last write of a handler, here of delete_hook. *)
Audit(w) ==
    /\ At(w, "audit")
    /\ trail' = [trail EXCEPT ![job[w].id] = @ + 1]
    /\ Finish(w)
    /\ UNCHANGED <<tables, ops, day, stuck>>

(* The client leaves, or a statement fails: the handler goes no further. *)
Abandon(w) ==
    /\ ~At(w, "idle")
    /\ Finish(w)
    /\ UNCHANGED <<tables, trail, ops, day, stuck>>

-----------------------------------------------------------------------------
(* Retention.                                                                *)

(* A mutant: a hook goes on the day its retention ends. *)
ExpiredOnTheDay(days) ==
    IF days <= 0 THEN {} ELSE {i \in DOMAIN hooks : Trashed(i) /\ hooks[i].deletedAt <= day - days}

(* purge_expired_deleted_hooks: what it deletes; nothing for zero days. *)
Expired(days) ==
    IF days <= 0 THEN {} ELSE {i \in DOMAIN hooks : Trashed(i) /\ hooks[i].deletedAt < day - days}

(* purge_deleted_hooks, the master's own sweep with a window of its choice. *)
Purge(w) ==
    \E days \in 0..Retention :
        /\ Begin(w)
        /\ Remove(Expired(days))
        /\ UNCHANGED <<job, trail, day, stuck>>

(* purge_expired_executions. *)
OldRuns(id) == IF LogRetention <= 0 \/ stuck THEN {} ELSE {d \in runs[id] : d < day - LogRetention}

(* The two DELETEs of a tick; what is left of the tables. *)
Swept ==
    LET gone == Expired(Retention)
    IN  /\ hooks' = Without(gone)
        /\ params' = [i \in Ids |-> IF i \in gone THEN <<>> ELSE params[i]]
        /\ runs' = [i \in Ids |-> IF i \in gone THEN {} ELSE runs[i] \ OldRuns(i)]
        /\ UNCHANGED <<trail, job, ops, day, stuck>>

(* A mutant: the trash waits for the execution sweep to succeed. *)
SweepInOrder == ~stuck /\ Swept

(* One tick of run_retention_worker: first the executions, then the trash     *)
(* whether or not that went well.  Both in one step: the first touches only   *)
(* executions, which no request here reads or writes but by its hook.         *)
Sweep == Swept

NextDay ==
    /\ day < MaxDay
    /\ day' = day + 1
    /\ UNCHANGED <<tables, trail, job, ops, stuck>>

-----------------------------------------------------------------------------
(* History, read off each step. *)
Observe ==
    LET LiveNext(i) == i \in DOMAIN hooks' /\ hooks'[i].deletedAt = Never
        Moved(i) == Live(i) /\ i \in DOMAIN hooks' /\ ~LiveNext(i)
        Dated == {i \in DOMAIN hooks \cap DOMAIN hooks' : hooks'[i].deletedAt # hooks[i].deletedAt}
        Resolving == \E w \in Workers : At(w, "resolve") /\ job'[w] # job[w]
        Edited == {w \in Workers : At(w, "write") /\ job'[w] = Idle /\ hooks' # hooks}
        Same(w) == LET now == hooks[job[w].id]
                       then == job[w].row
                   IN  now.mode = then.mode /\ now.secret = then.secret
    IN  /\ liveOn' = [i \in Ids |-> IF LiveNext(i) THEN day' ELSE liveOn[i]]
        /\ trashings' = [i \in Ids |-> IF Moved(i) THEN trashings[i] + 1 ELSE trashings[i]]
        /\ cascaded' = [i \in Ids |-> IF Moved(i) /\ Resolving THEN cascaded[i] + 1 ELSE cascaded[i]]
        /\ late' = (late \ Dated) \cup {i \in Dated : Resolving /\ hooks'[i].deletedAt < day}
        /\ cut' = cut \cup {job[w].id : w \in {v \in Workers :
                              At(v, "audit") /\ job'[v] = Idle /\ trail' = trail}}
        /\ raced' = (raced \ {job[w].id : w \in Edited})
                       \cup {job[w].id : w \in {v \in Edited : ~Same(v)}}

(* Nothing yet, or what an accepted creation left behind, live or in the      *)
(* trash since day 0, with an execution of that day.                          *)
Init ==
    /\ day = 0
    /\ \/ hooks = [i \in {} |-> NoRow] /\ params = [i \in Ids |-> <<>>]
       \/ \E p \in Creations, d \in {Never, 0} :
             /\ CreationAccepted(p)
             /\ Distinct(p.params)
             /\ hooks = [i \in {0} |-> RowOf(p, d)]
             /\ params = [i \in Ids |-> IF i = 0 THEN Declared(p.params, 0) ELSE <<>>]
    /\ runs = [i \in Ids |-> IF i \in DOMAIN hooks THEN {0} ELSE {}]
    /\ trail = [i \in Ids |-> 0]
    /\ job = [w \in Workers |-> Idle]
    /\ ops = 0
    /\ stuck \in BOOLEAN
    /\ liveOn = [i \in Ids |-> 0]
    /\ trashings = [i \in Ids |-> IF Trashed(i) THEN 1 ELSE 0]
    /\ cascaded = [i \in Ids |-> 0]
    /\ late = {}
    /\ cut = {i \in Ids : Trashed(i)}
    /\ raced = {}

Handler(w) ==
    \/ \E p \in Creations : CreateHook(w, p)
    \/ DeclareNext(w)
    \/ \E p \in Updates : ReadForUpdate(w, p)
    \/ FitTemplate(w)
    \/ WriteUpdate(w)
    \/ ReadForDelete(w)
    \/ Trash(w)
    \/ ReadForHardDelete(w)
    \/ Drop(w)
    \/ ReadForResolve(w)
    \/ Resolve(w)
    \/ ReadForRestore(w)
    \/ Restore(w)
    \/ \E p \in Declarations : ReadForInsert(w, p)
    \/ InsertParameter(w)
    \/ \E p \in Declarations : ReadForAmend(w, p)
    \/ UpdateParameter(w)
    \/ ReadForRemove(w)
    \/ DeleteParameter(w)
    \/ Purge(w)
    \/ Audit(w)
    \/ Abandon(w)

SweepStep == Sweep /\ Observe

Next ==
    \/ \E w \in Workers : Handler(w) /\ Observe
    \/ SweepStep
    \/ NextDay /\ Observe

Spec == Init /\ [][Next]_vars

(* The interval of the retention worker keeps ticking, and its own DELETE on  *)
(* hooks does not fail for ever.  No request is assumed to finish.            *)
FairSpec == Spec /\ WF_vars(SweepStep)

-----------------------------------------------------------------------------
TypeOK ==
    /\ DOMAIN hooks \subseteq Ids
    /\ \A i \in DOMAIN hooks :
          /\ hooks[i].name \in Names
          /\ hooks[i].mode \in Modes
          /\ hooks[i].secret \in {NoSecret, Seal("hook")}
          /\ hooks[i].deletedAt \in 0..day \cup {Never}
    /\ DOMAIN params = Ids
    /\ \A i \in Ids : \A n \in DOMAIN params[i] : params[i][n].key \in ParamKeys
    /\ runs \in [Ids -> SUBSET Days]
    /\ trail \in [Ids -> 0..MaxOps]
    /\ \A w \in Workers : job[w].id \in Ids
    /\ ops \in 0..MaxOps
    /\ day \in Days
    /\ stuck \in BOOLEAN
    /\ liveOn \in [Ids -> Days]
    /\ trashings \in [Ids -> Nat]
    /\ cascaded \in [Ids -> Nat]
    /\ late \subseteq Ids
    /\ cut \subseteq Ids
    /\ raced \subseteq Ids

(* The plans of every hook there may be: CommandPlan's comparison, per user,   *)
(* template and list of parameters.                                           *)
Contract(rows) ==
    [n \in DOMAIN rows |->
        [key |-> rows[n].key, default |-> rows[n].default, required |-> rows[n].required]]
AllDeclarations == Declarations \cup UNION {{p.params[n] : n \in DOMAIN p.params} : p \in Creations}
AllAmended ==
    {c \in Parameter : \E d, e \in AllDeclarations :
        d.key = c.key /\ e.key = c.key /\ d.default = c.default /\ e.required = c.required}
Contracts ==
    {s \in UNION {[1..n -> AllAmended] : n \in 0..Cardinality(ParamKeys)} : Distinct(s)}
AllTemplates == {p.template.is : p \in Creations \cup Updates}
PlanTable ==
    {<<u, t, ds, DryRunAgrees(u, t, ds)>> : u \in Users, t \in AllTemplates, ds \in Contracts}

-----------------------------------------------------------------------------
(* Every move of a hook to the trash by delete_hook is told once: one          *)
(* HOOK_DELETE row per trashing, however many requests deleted at once, but    *)
(* for a request dropped between its two writes.  The moves that have no such  *)
(* row are exactly those a delete_api_key made.                                *)
DeletionsAudited ==
    \A id \in Ids :
       LET due == {w \in Workers : At(w, "audit") /\ job[w].id = id}
           told == trail[id] + Cardinality(due) + cascaded[id]
       IN  told <= trashings[id] /\ (id \notin cut => told = trashings[id])

(* A hook in HMAC_ONLY has a secret, as recover_hook_secret counts on, but for *)
(* an update_hook that overwrote a newer row with the secret it had read.      *)
SecretKept ==
    \A id \in DOMAIN hooks :
       hooks[id].mode = "HMAC_ONLY" /\ hooks[id].secret = NoSecret => id \in raced

(* Whatever hook the table holds, with whatever header, prefix and template:   *)
(* the invocation middleware admits exactly the entitled, names the network    *)
(* only to the identified, and refuses the others as it refuses an unknown     *)
(* key, but for a body it could not read (400) or a stored secret it could not *)
(* open (500), which it meets only once it has found the key.                  *)
InvocationsVetted ==
    \A id \in DOMAIN hooks : \A t \in {"none", "hook"} :
       /\ <<hooks[id].mode, t, TRUE>> \in KeyedTable
       /\ \A h \in {"default", "own"}, p \in {"sha256=", "own="} :
             <<[mode |-> hooks[id].mode, secret |-> hooks[id].secret,
                template |-> t, header |-> h, prefix |-> p], TRUE>> \in KeylessTable

(* Whatever template and parameters concurrent edits have left a hook with:    *)
(* test_hook and execute agree on whether it runs and on the command, and a    *)
(* command that runs holds no unresolved reference and no forbidden value.     *)
CommandsAgree ==
    \A id \in DOMAIN hooks : \A u \in Users :
       <<u, hooks[id].template, Contract(params[id]), TRUE>> \in PlanTable

(* The retention worker takes a hook only when it has not been live for longer *)
(* than the window, and an execution only past its own window or with its      *)
(* hook: a restore, or a second deletion, starts the clock again.  But for a   *)
(* hook that a delete_api_key dated with the time it had read before its loop. *)
NothingPurgedEarly ==
    [][/\ ops' = ops /\ job' = job =>
             \A id \in DOMAIN hooks \ DOMAIN hooks' :
                id \notin late => day - liveOn[id] > Retention
       /\ \A id \in DOMAIN hooks' \cap DOMAIN hooks : \A d \in runs[id] \ runs'[id] :
             LogRetention > 0 /\ day - d > LogRetention]_vars

(* A hook past its window does not stay in the trash, whatever becomes of the  *)
(* sweep of the executions table.                                              *)
Overdue(id) == Retention > 0 /\ Trashed(id) /\ hooks[id].deletedAt < day - Retention
TrashEmptied == \A id \in Ids : Overdue(id) ~> ~Overdue(id)
=============================================================================
