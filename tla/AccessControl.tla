---------------------------- MODULE AccessControl ----------------------------
(***************************************************************************)
(* The administrative API over keys, hooks and the permission rows between *)
(* them (api/keys.rs, api/hooks.rs, guarded by api/guards.rs): lineage,    *)
(* global scopes, ownership, per-hook verbs, privileged hooks, the trash,  *)
(* and the cascading deletion with its inventory and resolutions.          *)
(*                                                                         *)
(* A request authenticates on one read of its key's row and keeps that     *)
(* record.  Its guards read the tables later, and its writes come later    *)
(* still: other requests run in between.  The reads a handler makes        *)
(* between authentication and its first write are one step.  A request can *)
(* be dropped between any two steps.                                       *)
(*                                                                         *)
(* api_keys.parent_key_id and hooks.owner_key_id carry no foreign key, the *)
(* permission rows do.  Names, addresses, secrets' values and parameters   *)
(* are left out.                                                           *)
(***************************************************************************)
EXTENDS Integers, FiniteSets

CONSTANTS
    Keys,          \* ids a key can be minted with; never reused
    Master,        \* the pinned master key
    Parents,       \* keys the master minted with can_manage_keys before the start
    Hooks,         \* ids a hook can be created with; never reused
    Deployed,      \* hooks the master created, and granted to Parents, before the start
    Verbs,         \* the verbs of a permission row, "manage" among them
    Nobody,        \* NULL in parent_key_id and owner_key_id
    Workers,       \* requests that can be in flight at once
    MaxRequests    \* bound on requests

ASSUME AccessAssumption ==
    /\ Master \in Keys
    /\ Parents \subseteq Keys \ {Master}
    /\ Nobody \notin Keys \cup Hooks
    /\ Deployed \subseteq Hooks
    /\ "manage" \in Verbs
    /\ MaxRequests \in Nat

VARIABLES
    alive,       \* SUBSET Keys: rows of api_keys
    parent,      \* [Keys -> Keys \cup {Nobody}]: parent_key_id, Nobody until minted
    flags,       \* [Keys -> SUBSET Flags]: scopes and signing set-up
    line,        \* [Keys -> SUBSET Keys]: every ancestor, alive or not (history)
    hook,        \* [Hooks -> HookStates]
    owner,       \* [Hooks -> Keys \cup {Nobody}]: owner_key_id
    elevated,    \* SUBSET Hooks: hooks with a run_as_user
    author,      \* [Hooks -> Keys \cup {Nobody}]: who last wrote the dispatch
                 \* configuration (history)
    stamp,       \* [Hooks -> BOOLEAN]: flips whenever that is written (history)
    approved,    \* SUBSET Hooks: hooks whose script the master wrote, or found there
                 \* when it last assigned a run_as_user (history)
    rows,        \* SUBSET (Keys \X Hooks): permission rows
    rights,      \* [Keys -> [Hooks -> SUBSET Verbs]]: their verbs, {} without a row
    rooted,      \* [Hooks -> SUBSET Verbs]: verbs the master granted on the hook, or
                 \* its creator was provisioned with, the master aside (history)
    job,         \* [Workers -> Job]: the requests in flight
    served       \* requests begun

keyTable == <<alive, parent, flags, line>>
config == <<elevated, author, stamp, approved>>
hookTable == <<hook, owner, config>>
permTable == <<rows, rights, rooted>>
vars == <<keyTable, hookTable, permTable, job, served>>

(* can_manage_keys, can_manage_hooks, a signing secret, a custom canonical_template *)
Scopes == {"keys", "hooks"}
Flags == Scopes \cup {"secret", "template"}
HookStates == {"unborn", "live", "trash", "gone"}
Stored(h) == hook[h] \in {"live", "trash"}

(* What becomes of a hook the cascade finds: nothing, the trash, or a new owner. *)
Keep == "keep"
Fates == {Keep, "trash"} \cup Keys

(* What update_hook can be asked to change besides the owner: script_path   *)
(* or args_template, and run_as_user, set or cleared; together, the         *)
(* dispatch configuration.                                                  *)
Edits == {"script", "elevate", "lower"}
EditRequests == {put \in SUBSET Edits : ~({"elevate", "lower"} \subseteq put)}

PCs == {"idle", "in", "update", "permit", "revoke", "provision", "edit", "trash",
        "drop", "restore", "resolve"}

(* A request: its position, its key record, and what its guards let it write. *)
Job == [pc : PCs, who : Keys \cup {Nobody}, scopes : SUBSET Flags,
        key : Keys \cup {Nobody}, hook : Hooks \cup {Nobody},
        put : SUBSET (Flags \cup Verbs \cup Edits), cut : SUBSET Flags,
        doomed : SUBSET Keys, fate : [Hooks -> Fates]]

NoFate == [h \in Hooks |-> Keep]
Idle == [pc |-> "idle", who |-> Nobody, scopes |-> {}, key |-> Nobody, hook |-> Nobody,
         put |-> {}, cut |-> {}, doomed |-> {}, fate |-> NoFate]

TablesOK ==
    /\ alive \subseteq Keys
    /\ parent \in [Keys -> Keys \cup {Nobody}]
    /\ flags \in [Keys -> SUBSET Flags]
    /\ line \in [Keys -> SUBSET Keys]
    /\ hook \in [Hooks -> HookStates]
    /\ owner \in [Hooks -> Keys \cup {Nobody}]
    /\ author \in [Hooks -> Keys \cup {Nobody}]
    /\ elevated \subseteq Hooks
    /\ stamp \in [Hooks -> BOOLEAN]
    /\ approved \subseteq Hooks
    /\ rows \subseteq Keys \X Hooks
    /\ rights \in [Keys -> [Hooks -> SUBSET Verbs]]
    /\ rooted \in [Hooks -> SUBSET Verbs]
    /\ served \in 0..MaxRequests

TypeOK == TablesOK /\ job \in [Workers -> Job]

Finish(w) == job' = [job EXCEPT ![w] = Idle]

-----------------------------------------------------------------------------
(* Who may do what, on the tables as they are.                              *)

(* descendant_key_ids: the breadth-first walk over parent_key_id reaches    *)
(* the least set closed under "child of", through stored rows only.         *)
Descendants(k) ==
    {d \in alive : \A S \in SUBSET alive :
        (\A j \in alive : j # k /\ parent[j] \in S \cup {k} => j \in S) => d \in S}

(* collect_subtree_inventory: what a deletion of t takes along. *)
SubtreeWithoutDaughters(t) == {t}                                 \* mutant
Subtree(t) == Descendants(t) \cup {t}

(* key_visibility, full: the master, the key itself, its own subtree. *)
SeesSiblings(c, t) == c = Master \/ c = t \/ parent[t] = parent[c] \* mutant
SeesFully(c, t) == c = Master \/ c = t \/ t \in Descendants(c)

(* key_visibility, minimal: a row on a hook the caller manages. *)
Shares(c, t) == \E h \in Hooks : "manage" \in rights[c][h] /\ <<t, h>> \in rows

(* load_administrable_key and the guards that keep the master out of reach. *)
Administrable(c, t) == t \in alive \ {Master} /\ SeesFully(c, t)

(* The request's key record, as read at authentication. *)
IsMaster(w) == job[w].who = Master
KeyManager(w) == IsMaster(w) \/ "keys" \in job[w].scopes

(* guard_hook_manage_conjunction: R2, the recorded scope and a stored row.  *)
Manages(w, h) == "keys" \in job[w].scopes /\ "manage" \in rights[job[w].who][h]

(* has_permission_admin_standing. *)
Standing(w) == IsMaster(w) \/ \E h \in Hooks : Manages(w, h)

Owns(w, h) == owner[h] = job[w].who

(* guard_delegated_hook_grant, R1: each verb asked for is held by the caller. *)
HoldsAllButExecute(c, h, vs) == vs \ {"execute"} \subseteq rights[c][h] \* mutant
Holds(c, h, vs) == vs \subseteq rights[c][h]

(* guard_master_for_privileged_hook. *)
TouchableByManagers(w, h) == IsMaster(w) \/ Manages(w, h) \/ h \notin elevated \* mutant
Touchable(w, h) == IsMaster(w) \/ h \notin elevated

(* guard_manage, guard_dispatch_configuration and guard_lifecycle_authority. *)
MayManage(w, h) == IsMaster(w) \/ Owns(w, h) \/ Manages(w, h)
MayDispatchAsOwner(w, h) == MayManage(w, h)                        \* mutant
MayDispatch(w, h) == IsMaster(w) \/ Manages(w, h)
MayEnd(w, h) == IsMaster(w) \/ Owns(w, h)

(* guard_master_to_grant_scopes and guard_canonical_v1_for_key_management. *)
MayHandOut(w, put) == IsMaster(w) \/ put \cap Scopes = {}
Canonical(fs) == "keys" \in fs => "template" \notin fs

(* update_api_key: the flags the target ends up with; a field the payload   *)
(* omits keeps its value.                                                   *)
EffectiveFromPayload(t, put, cut) == put                          \* mutant
Effective(t, put, cut) == (flags[t] \ cut) \cup put

-----------------------------------------------------------------------------
(* The master, the parents it has minted, and the hooks it has created and  *)
(* granted to them with any verbs.                                          *)
Init ==
    /\ alive = Parents \cup {Master}
    /\ parent = [k \in Keys |-> IF k \in Parents THEN Master ELSE Nobody]
    /\ flags \in {f \in [Keys -> {{}, {"keys", "secret"}, {"keys", "hooks", "secret"}}] :
                    /\ \A k \in Keys : f[k] = {} <=> k \notin alive
                    /\ "hooks" \in f[Master]}
    /\ line = [k \in Keys |-> IF k \in Parents THEN {Master} ELSE {}]
    /\ hook = [h \in Hooks |-> IF h \in Deployed THEN "live" ELSE "unborn"]
    /\ owner = [h \in Hooks |-> IF h \in Deployed THEN Master ELSE Nobody]
    /\ author = owner
    /\ elevated = {}
    /\ stamp = [h \in Hooks |-> FALSE]
    /\ approved = Deployed
    /\ rows = alive \X Deployed
    /\ rights \in {r \in [Keys -> [Hooks -> SUBSET Verbs]] :
                    \A k \in Keys, h \in Hooks :
                        /\ <<k, h>> \notin rows => r[k][h] = {}
                        /\ k = Master /\ h \in Deployed => r[k][h] = Verbs}
    /\ rooted = [h \in Hooks |-> UNION {rights[k][h] : k \in Parents}]
    /\ job = [w \in Workers |-> Idle]
    /\ served = 0

(* auth_middleware: the key's row is read once.  A key manager other than   *)
(* the master must sign, which takes a signing secret.                      *)
Begin(w, c) ==
    /\ job[w].pc = "idle"
    /\ served < MaxRequests
    /\ c \in alive
    /\ c # Master /\ "keys" \in flags[c] => "secret" \in flags[c]
    /\ job' = [job EXCEPT ![w] = [Idle EXCEPT !.pc = "in", !.who = c, !.scopes = flags[c]]]
    /\ served' = served + 1
    /\ UNCHANGED <<keyTable, hookTable, permTable>>

(* A guard refuses, a statement fails, or the client goes away. *)
Abandon(w) ==
    /\ job[w].pc # "idle"
    /\ Finish(w)
    /\ UNCHANGED <<keyTable, hookTable, permTable, served>>

(* The guards have passed; the write is still to come. *)
Proceed(w, next) ==
    /\ job' = [job EXCEPT ![w] = next]
    /\ UNCHANGED <<keyTable, hookTable, permTable, served>>

-----------------------------------------------------------------------------
(* Keys                                                                     *)

(* create_api_key: no table is read, so guards and insert are one step.     *)
CreateKey(w, n, fs) ==
    LET c == job[w].who
    IN  /\ KeyManager(w)
        /\ MayHandOut(w, fs)
        /\ "keys" \in fs => "secret" \in fs
        /\ Canonical(fs)
        /\ n # Master /\ parent[n] = Nobody
        /\ alive' = alive \cup {n}
        /\ parent' = [parent EXCEPT ![n] = c]
        /\ flags' = [flags EXCEPT ![n] = fs]
        /\ line' = [line EXCEPT ![n] = line[c] \cup {c}]
        /\ Finish(w)
        /\ UNCHANGED <<hookTable, permTable, served>>

(* update_api_key up to its guards. *)
CheckUpdate(w, t, put, cut) ==
    /\ KeyManager(w)
    /\ Administrable(job[w].who, t)
    /\ MayHandOut(w, put)
    /\ Canonical(Effective(t, put, cut))
    /\ Proceed(w, [job[w] EXCEPT !.pc = "update", !.key = t, !.put = put, !.cut = cut])

(* rotate_api_key and regenerate_secret: a fresh signing pair. *)
CheckRotate(w, t) ==
    /\ KeyManager(w)
    /\ Administrable(job[w].who, t)
    /\ Proceed(w, [job[w] EXCEPT !.pc = "update", !.key = t, !.put = {"secret"}])

(* The update statement: only the columns that were set, if the row is still there. *)
UpdateKey(w) ==
    LET t == job[w].key
    IN  /\ job[w].pc = "update"
        /\ t \in alive
        /\ flags' = [flags EXCEPT ![t] = (@ \ job[w].cut) \cup (job[w].put \cap Flags)]
        /\ Finish(w)
        /\ UNCHANGED <<alive, parent, line, hookTable, permTable, served>>

(* delete_api_key up to its guards: the subtree, the inventory of the hooks *)
(* it owns, a resolution for every one of them and for nothing else, and    *)
(* new owners that exist outside the subtree.                               *)
CheckDelete(w, t, fate) ==
    LET doomed    == Subtree(t)
        inventory == {h \in Hooks : Stored(h) /\ owner[h] \in doomed}
    IN  /\ KeyManager(w)
        /\ t # job[w].who
        /\ Administrable(job[w].who, t)
        /\ \A h \in Hooks : IF h \in inventory
                            THEN fate[h] \in {"trash"} \cup (alive \ doomed)
                            ELSE fate[h] = Keep
        /\ Proceed(w, [job[w] EXCEPT !.pc = "resolve", !.doomed = doomed, !.fate = fate])

(* What a resolution does to its hook; one that has gone is skipped. *)
ApplyFallingThrough(h, fate) ==                                   \* mutant
    /\ hook' = IF Stored(h) /\ fate = "trash" THEN [hook EXCEPT ![h] = "trash"] ELSE hook
    /\ owner' = IF Stored(h) THEN [owner EXCEPT ![h] = fate] ELSE owner

Apply(h, fate) ==
    /\ hook' = IF Stored(h) /\ fate = "trash" THEN [hook EXCEPT ![h] = "trash"] ELSE hook
    /\ owner' = IF Stored(h) /\ fate \in Keys THEN [owner EXCEPT ![h] = fate] ELSE owner

(* The resolutions are applied one hook at a time. *)
Resolve(w, h) ==
    LET fate == job[w].fate[h]
        left == [job[w].fate EXCEPT ![h] = Keep]
    IN  /\ job[w].pc = "resolve"
        /\ fate # Keep
        /\ Apply(h, fate)
        /\ job' = [job EXCEPT ![w] = [job[w] EXCEPT !.fate = left]]
        /\ UNCHANGED <<keyTable, config, permTable, served>>

(* delete_many over the subtree collected earlier; permission rows cascade. *)
Cascade(w) ==
    LET doomed == job[w].doomed
    IN  /\ job[w].pc = "resolve"
        /\ job[w].fate = NoFate
        /\ alive' = alive \ doomed
        /\ rows' = {row \in rows : row[1] \notin doomed}
        /\ rights' = [k \in Keys |-> IF k \in doomed THEN [h \in Hooks |-> {}] ELSE rights[k]]
        /\ Finish(w)
        /\ UNCHANGED <<parent, flags, line, hookTable, rooted, served>>

-----------------------------------------------------------------------------
(* Permission rows                                                          *)

(* update_key_hook_permissions up to its guards: R6 for a reduction, R1 and *)
(* R2 for a grant, never to oneself, and the master alone on an elevated    *)
(* hook.                                                                    *)
CheckGrant(w, t, h, vs) ==
    LET c == job[w].who
        reduction == vs \subseteq rights[t][h]
    IN  /\ Standing(w)
        /\ t \in alive \ {Master}
        /\ SeesFully(c, t) \/ Shares(c, t)
        /\ hook[h] = "live"
        /\ \/ IsMaster(w)
           \/ Manages(w, h) /\ reduction
           \/ Manages(w, h) /\ t # c /\ Holds(c, h, vs)
        /\ Touchable(w, h)
        /\ Proceed(w, [job[w] EXCEPT !.pc = "permit", !.key = t, !.hook = h, !.put = vs])

(* The upsert; its foreign keys want the key and the hook stored. *)
Permit(w) ==
    LET t == job[w].key
        h == job[w].hook
        vs == job[w].put \cap Verbs
    IN  /\ job[w].pc = "permit"
        /\ t \in alive /\ Stored(h)
        /\ rows' = rows \cup {<<t, h>>}
        /\ rights' = [rights EXCEPT ![t] = [@ EXCEPT ![h] = vs]]
        /\ rooted' = IF IsMaster(w) THEN [rooted EXCEPT ![h] = @ \cup vs] ELSE rooted
        /\ Finish(w)
        /\ UNCHANGED <<keyTable, hookTable, served>>

(* revoke_key_hook_permission up to its guards: R6, scoped by R2. *)
CheckRevoke(w, t, h) ==
    /\ Standing(w)
    /\ hook[h] = "live"
    /\ MayDispatch(w, h)
    /\ Proceed(w, [job[w] EXCEPT !.pc = "revoke", !.key = t, !.hook = h])

Revoke(w) ==
    LET t == job[w].key
        h == job[w].hook
    IN  /\ job[w].pc = "revoke"
        /\ rows' = rows \ {<<t, h>>}
        /\ rights' = [rights EXCEPT ![t] = [@ EXCEPT ![h] = {}]]
        /\ Finish(w)
        /\ UNCHANGED <<keyTable, hookTable, rooted, served>>

-----------------------------------------------------------------------------
(* Hooks                                                                    *)

(* create_hook: no table is read before the insert.  run_as_user is the     *)
(* master's to assign.                                                      *)
CreateHook(w, h, runAs) ==
    LET c == job[w].who
    IN  /\ IsMaster(w) \/ "hooks" \in job[w].scopes
        /\ runAs => IsMaster(w)
        /\ hook[h] = "unborn"
        /\ hook' = [hook EXCEPT ![h] = "live"]
        /\ owner' = [owner EXCEPT ![h] = c]
        /\ author' = [author EXCEPT ![h] = c]
        /\ elevated' = IF runAs THEN elevated \cup {h} ELSE elevated
        /\ stamp' = [stamp EXCEPT ![h] = ~@]
        /\ approved' = IF IsMaster(w) THEN approved \cup {h} ELSE approved \ {h}
        /\ job' = [job EXCEPT ![w] = [@ EXCEPT !.pc = "provision", !.hook = h]]
        /\ UNCHANGED <<keyTable, permTable, served>>

(* grant_full_hook_permission: every verb, but a row that is already there  *)
(* keeps its can_view_execution.                                            *)
Provision(w) ==
    LET c == job[w].who
        h == job[w].hook
        vs == IF <<c, h>> \in rows THEN rights[c][h] \cup (Verbs \ {"view"}) ELSE Verbs
    IN  /\ job[w].pc = "provision"
        /\ c \in alive /\ Stored(h)
        /\ rows' = rows \cup {<<c, h>>}
        /\ rights' = [rights EXCEPT ![c] = [@ EXCEPT ![h] = vs]]
        /\ rooted' = IF IsMaster(w) THEN rooted ELSE [rooted EXCEPT ![h] = @ \cup vs]
        /\ Finish(w)
        /\ UNCHANGED <<keyTable, hookTable, served>>

(* update_hook up to its guards: dispatch configuration, run_as_user, and a *)
(* new owner, which only the master names and which must exist.             *)
CheckEdit(w, h, put, to) ==
    /\ hook[h] = "live"
    /\ MayManage(w, h)
    /\ put # {} => MayDispatch(w, h)
    /\ Touchable(w, h)
    /\ "elevate" \in put => IsMaster(w)
    /\ to # Nobody => IsMaster(w) /\ to \in alive
    /\ Proceed(w, [job[w] EXCEPT !.pc = "edit", !.hook = h, !.put = put, !.key = to])

Edit(w) ==
    LET h == job[w].hook
        put == job[w].put
        to == job[w].key
    IN  /\ job[w].pc = "edit"
        /\ Stored(h)
        /\ owner' = IF to = Nobody THEN owner ELSE [owner EXCEPT ![h] = to]
        /\ author' = IF put = {} THEN author ELSE [author EXCEPT ![h] = job[w].who]
        /\ stamp' = IF put = {} THEN stamp ELSE [stamp EXCEPT ![h] = ~@]
        /\ approved' = IF put \cap {"script", "elevate"} = {} THEN approved
                       ELSE IF IsMaster(w) THEN approved \cup {h}
                       ELSE approved \ {h}
        /\ elevated' = IF "elevate" \in put THEN elevated \cup {h}
                       ELSE IF "lower" \in put THEN elevated \ {h}
                       ELSE elevated
        /\ Finish(w)
        /\ UNCHANGED <<keyTable, hook, permTable, served>>

(* delete_hook up to its guards, to the trash or, for the master, for good. *)
CheckTrash(w, h) ==
    /\ hook[h] = "live"
    /\ MayManage(w, h)
    /\ MayEnd(w, h)
    /\ Touchable(w, h)
    /\ Proceed(w, [job[w] EXCEPT !.pc = "trash", !.hook = h])

CheckDrop(w, h) ==
    /\ Stored(h)
    /\ IsMaster(w)
    /\ Proceed(w, [job[w] EXCEPT !.pc = "drop", !.hook = h])

(* The conditional soft delete: a hook that is no longer live is a 404. *)
Trash(w) ==
    /\ job[w].pc = "trash"
    /\ hook[job[w].hook] = "live"
    /\ hook' = [hook EXCEPT ![job[w].hook] = "trash"]
    /\ Finish(w)
    /\ UNCHANGED <<keyTable, owner, config, permTable, served>>

(* The row goes, and its permission rows with it. *)
Erase(h) ==
    /\ Stored(h)
    /\ hook' = [hook EXCEPT ![h] = "gone"]
    /\ rows' = {row \in rows : row[2] # h}
    /\ rights' = [k \in Keys |-> [rights[k] EXCEPT ![h] = {}]]
    /\ UNCHANGED <<keyTable, owner, config, rooted, served>>

Drop(w) ==
    /\ job[w].pc = "drop"
    /\ Erase(job[w].hook)
    /\ Finish(w)

(* restore_hook: the update is not conditional on the row's state. *)
CheckRestore(w, h) ==
    /\ IsMaster(w)
    /\ hook[h] = "trash"
    /\ Proceed(w, [job[w] EXCEPT !.pc = "restore", !.hook = h])

Restore(w) ==
    /\ job[w].pc = "restore"
    /\ Stored(job[w].hook)
    /\ hook' = [hook EXCEPT ![job[w].hook] = "live"]
    /\ Finish(w)
    /\ UNCHANGED <<keyTable, owner, config, permTable, served>>

(* purge_expired_deleted_hooks: the trash old enough, from the retention    *)
(* worker or the master's request.                                          *)
Purge(h) ==
    /\ hook[h] = "trash"
    /\ Erase(h)
    /\ UNCHANGED job

-----------------------------------------------------------------------------
(* What an authenticated request may turn out to be. *)
KeyRequest(w) ==
    /\ job[w].pc = "in"
    /\ \/ \E n \in Keys, fs \in SUBSET Flags : CreateKey(w, n, fs)
       \/ \E t \in Keys :
             \/ \E put, cut \in SUBSET (Flags \ {"secret"}) :
                   put \cap cut = {} /\ CheckUpdate(w, t, put, cut)
             \/ CheckRotate(w, t)
             \/ \E fate \in [Hooks -> Fates] : CheckDelete(w, t, fate)

HookRequest(w) ==
    /\ job[w].pc = "in"
    /\ \E h \in Hooks :
          \/ \E runAs \in BOOLEAN : CreateHook(w, h, runAs)
          \/ \E t \in Keys :
                \/ \E vs \in SUBSET Verbs : CheckGrant(w, t, h, vs)
                \/ CheckRevoke(w, t, h)
          \/ \E put \in EditRequests, to \in Keys \cup {Nobody} : CheckEdit(w, h, put, to)
          \/ CheckTrash(w, h)
          \/ CheckDrop(w, h)
          \/ CheckRestore(w, h)

Next ==
    \/ \E w \in Workers :
          \/ \E c \in Keys : Begin(w, c)
          \/ KeyRequest(w)
          \/ HookRequest(w)
          \/ UpdateKey(w)
          \/ \E h \in Hooks : Resolve(w, h)
          \/ Cascade(w)
          \/ Permit(w)
          \/ Revoke(w)
          \/ Provision(w)
          \/ Edit(w)
          \/ Trash(w)
          \/ Drop(w)
          \/ Restore(w)
          \/ Abandon(w)
    \/ \E h \in Hooks : Purge(h)

Spec == Init /\ [][Next]_vars

-----------------------------------------------------------------------------
(* Non-amplification (R1, R4, R7) over any history of requests, in flight   *)
(* together or not: a key other than the master holds a verb on a hook only *)
(* if the master granted that verb on it, or a creator other than the       *)
(* master was provisioned with it.  Delegation, reductions written from     *)
(* stale rows and re-grants never bring in a verb that was withheld.        *)
RightsRooted ==
    \A k \in Keys \ {Master}, h \in Hooks : rights[k][h] \subseteq rooted[h]

(* A cascade started by a key other than the master removes keys below it   *)
(* only, and no cascade the master, even when its subtree was collected     *)
(* before other requests changed the tree.                                  *)
DeletionStaysBelow ==
    [][\A k \in alive \ alive' :
         /\ k # Master
         /\ \E w \in Workers : /\ job[w].pc = "resolve"
                               /\ IsMaster(w) \/ job[w].who \in line[k]]_vars

(* One request at a time, deleting a key takes its whole subtree: every key *)
(* but the master has a parent that exists (RBAC_MODEL.md, section 6).      *)
LineageKept == \A k \in alive \ {Master} : parent[k] \in alive

(* One request at a time, a key manager never has a canonical_template of   *)
(* its own ("the combination this function exists to make unreachable",     *)
(* guard_canonical_v1_for_key_management), whatever edits led there.        *)
ManagersSignStandard == \A k \in alive : Canonical(flags[k])

(* One request at a time, no hook runs as another user with a script that   *)
(* the master neither named nor had before it when it assigned that user    *)
(* (guard_master_for_privileged_hook): a manager's script may be elevated   *)
(* by the master, and only the master replaces it from then on.             *)
ElevatedVetted == \A h \in elevated : Stored(h) => h \in approved

(* One request at a time, revocation is containment                         *)
(* (guard_dispatch_configuration): every write to the dispatch              *)
(* configuration of a hook that exists, also by the key that wrote it last, *)
(* is by the master or by a key that has can_manage_keys and a manage row   *)
(* at that very moment, owner or not.                                       *)
DispatchContained ==
    [][\A h \in Hooks : (hook[h] # "unborn" /\ stamp'[h] # stamp[h])
         => LET c == author'[h]
            IN  c = Master \/ ("keys" \in flags[c] /\ "manage" \in rights[c][h])]_vars

(* middleware.rs:321-323: requiring a key manager to sign "can only ever    *)
(* demand what the key is already capable of presenting".                   *)
ManagersCanSign == \A k \in alive : "keys" \in flags[k] => "secret" \in flags[k]
=============================================================================
