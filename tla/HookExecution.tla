---------------------------- MODULE HookExecution ----------------------------
(***************************************************************************)
(* Invocations of one hook, from invocation_auth_middleware through        *)
(* run_hook_request and execute_hook to the executions row: what a request *)
(* read at one await and uses at a later one, the per-key semaphores of    *)
(* ConcurrencyLimiter, and the supervised process with the group it may    *)
(* leave behind.  Administrative handlers appear by their database write.  *)
(*                                                                         *)
(* A request is dropped at any await when its client disconnects.  The     *)
(* process, its group and the client are external.  A hook run as another  *)
(* user through sudo, or a script that uses sudo itself, has processes     *)
(* that a daemon which is not root may not signal: no kill reaches those.  *)
(* Signatures are the business of ReplayGuard: a request that fails to     *)
(* authenticate never leaves "idle" here.                                  *)
(***************************************************************************)
EXTENDS Integers, Sequences, FiniteSets

CONSTANTS
    Requests,        \* invocations, each of which runs once
    Keys,            \* API keys
    Masters,         \* the pinned master, exempt from guard_execute
    Keyless,         \* stands for a caller with no X-API-Key
    MaxLimit,        \* bound on max_concurrent_jobs
    MaxAdmin,        \* bound on administrative writes
    RequireSigned,   \* REQUIRE_SIGNED_REQUESTS
    Unprivileged     \* the daemon is not root: what runs as another user is out
                     \* of the reach of its signals

ASSUME ExecutionAssumption ==
    /\ Masters \subseteq Keys
    /\ Keyless \notin Keys
    /\ MaxLimit \in Nat \ {0}
    /\ MaxAdmin \in Nat
    /\ RequireSigned \in BOOLEAN
    /\ Unprivileged \in BOOLEAN

VARIABLES
    hook,       \* the hook row: live, in the trash, or gone
    mode,       \* its auth_mode: "keyed", "hmac" or "none"
    limit,      \* [Keys -> Nat]: max_concurrent_jobs, 0 once the key is deleted
    limits,     \* [Keys -> SUBSET Nat]: every value limit has had (history)
    may,        \* [Keys -> BOOLEAN]: can_execute on the hook
    permits,    \* [Keys -> Seq(Nat)]: size of each semaphore ever built, newest last
    free,       \* [Keys -> Seq(Nat)]: available permits of each
    pc,         \* [Requests -> PCs]
    who,        \* [Requests -> Keys \cup {Keyless}]: the authenticated caller
    want,       \* [Requests -> Nat]: max_concurrent_jobs of the key record it holds
    slot,       \* [Requests -> Nat]: which semaphore its Arc points to
    holds,      \* [Requests -> BOOLEAN]: it owns an OwnedSemaphorePermit
    sawLive,    \* [Requests -> BOOLEAN]: the hook was live during the request (history)
    sawRight,   \* [Requests -> BOOLEAN]: so was the caller's right to run it (history)
    child,      \* [Requests -> Child]: its direct sub-process
    stray,      \* [Requests -> BOOLEAN]: other members of the process group live
    spared,     \* [Requests -> SUBSET Parts]: what of the group a SIGKILL was refused
    status,     \* [Requests -> Status]: ExecutionOutcome.status
    answer,     \* [Requests -> Answer]
    rows,       \* the executions table: [req, key, status]
    admin       \* administrative writes so far

catalogue == <<hook, mode, limit, limits, may, admin>>
limiter == <<permits, free, slot, holds>>
process == <<child, stray, spared, status>>
witness == <<sawLive, sawRight>>
vars == <<catalogue, limiter, process, pc, who, want, witness, answer, rows>>

PCs == {"idle", "resolve", "guard", "prepare", "budget", "permit", "spawn",
        "wait", "kill", "drain", "insert", "done"}
Parts == {"child", "stray"}
Child == {"none", "running", "succeeded", "failed", "killed"}
Status == {"none", "SUCCESS", "FAILED", "TIMEOUT"}
Answer == {"none", "ok", "refused", "error", "dropped"}

InFlight(r) == pc[r] \notin {"idle", "done"}
Goto(r, p) == pc' = [pc EXCEPT ![r] = p]
Holders(k, i) == {r \in Requests : who[r] = k /\ slot[r] = i /\ holds[r]}

(* The client is gone, kill_on_drop was refused, and nobody watches.        *)
Abandoned(r) == answer[r] = "dropped" /\ "child" \in spared[r]
Running(k) == {r \in Requests : who[r] = k /\ child[r] = "running" /\ ~Abandoned(r)}

(* The caller's right, given the auth_mode and the can_execute column: an   *)
(* open hook for a keyless caller, can_execute for a key.                   *)
Right(k, m, p) == IF k = Keyless THEN m # "keyed" ELSE k \in Masters \/ p[k]

TypeOK ==
    /\ hook \in {"live", "trash", "gone"}
    /\ mode \in {"keyed", "hmac", "none"}
    /\ limit \in [Keys -> 0..MaxLimit]
    /\ limits \in [Keys -> SUBSET (1..MaxLimit)]
    /\ may \in [Keys -> BOOLEAN]
    /\ permits \in [Keys -> Seq(1..MaxLimit)]
    /\ free \in [Keys -> Seq(0..MaxLimit)]
    /\ pc \in [Requests -> PCs]
    /\ who \in [Requests -> Keys \cup {Keyless}]
    /\ want \in [Requests -> 0..MaxLimit]
    /\ slot \in [Requests -> Nat]
    /\ holds \in [Requests -> BOOLEAN]
    /\ sawLive \in [Requests -> BOOLEAN]
    /\ sawRight \in [Requests -> BOOLEAN]
    /\ child \in [Requests -> Child]
    /\ stray \in [Requests -> BOOLEAN]
    /\ spared \in [Requests -> SUBSET Parts]
    /\ status \in [Requests -> Status]
    /\ answer \in [Requests -> Answer]
    /\ rows \subseteq [req : Requests, key : Keys \cup {Keyless}, status : Status]
    /\ admin \in 0..MaxAdmin

(* _permit goes out of scope: the semaphore it came from gets it back. *)
Release(r) ==
    /\ free' = IF holds[r]
               THEN [free EXCEPT ![who[r]][slot[r]] = @ + 1]
               ELSE free
    /\ holds' = [holds EXCEPT ![r] = FALSE]
    /\ UNCHANGED <<permits, slot>>

(* The handler returns an error before anything was spawned. *)
Refuse(r) ==
    /\ Goto(r, "done")
    /\ answer' = [answer EXCEPT ![r] = "refused"]
    /\ Release(r)
    /\ UNCHANGED <<catalogue, process, who, want, witness, rows>>

(* What is alive of a process group. *)
Living(r) == {p \in Parts : IF p = "child" THEN child[r] = "running" ELSE stray[r]}

(* SIGKILL to the parts of the group in aim, refused (EPERM) for those in   *)
(* left, which belong to another user; a part spared once is spared again.  *)
Kill(r, aim, left) ==
    LET hit == (Living(r) \cap aim) \ left
    IN  /\ left \subseteq Living(r) \cap aim
        /\ left # {} => Unprivileged
        /\ spared[r] \cap Living(r) \cap aim \subseteq left
        /\ child' = [child EXCEPT ![r] = IF "child" \in hit THEN "killed" ELSE @]
        /\ stray' = [stray EXCEPT ![r] = @ /\ "stray" \notin hit]
        /\ spared' = [spared EXCEPT ![r] = @ \cup left]

(* The handler goes on with nothing changed but its position. *)
Proceed(r, p) ==
    /\ Goto(r, p)
    /\ UNCHANGED <<catalogue, limiter, process, who, want, witness, answer, rows>>

-----------------------------------------------------------------------------
(* Plausible bugs of the steps below; no specification takes them.          *)

(* resolve_hook_including_deleted where resolve_hook was meant. *)
ResolveTrashedHook(r) ==
    /\ pc[r] = "resolve"
    /\ IF hook # "gone" THEN Proceed(r, "guard") ELSE Refuse(r)

(* acquire with no look at what is available. *)
TakePermitUnchecked(r) ==
    /\ pc[r] = "permit"
    /\ free' = [free EXCEPT ![who[r]][slot[r]] = @ - 1]
    /\ holds' = [holds EXCEPT ![r] = TRUE]
    /\ Goto(r, "spawn")
    /\ UNCHANGED <<catalogue, permits, slot, process, who, want, witness, answer, rows>>

(* A budget that forgets to take the permit it found available. *)
TakePermitUncounted(r) ==
    /\ pc[r] = "permit"
    /\ IF free[who[r]][slot[r]] > 0
          THEN /\ Goto(r, "spawn")
               /\ holds' = [holds EXCEPT ![r] = TRUE]
               /\ UNCHANGED <<catalogue, permits, free, slot, process, who, want,
                              witness, answer, rows>>
          ELSE Refuse(r)

(* The permit scoped to the spawn instead of to the whole execution. *)
SpawnReleasingPermit(r) ==
    /\ pc[r] = "spawn"
    /\ child' = [child EXCEPT ![r] = "running"]
    /\ Goto(r, "wait")
    /\ Release(r)
    /\ UNCHANGED <<catalogue, stray, spared, status, who, want, witness, answer, rows>>

(* Child::kill on expiry, without killpg for the rest of the group. *)
TimeOutKillingChildOnly(r) ==
    /\ pc[r] = "wait"
    /\ \E left \in SUBSET Parts : Kill(r, {"child"}, left)
    /\ Goto(r, "kill")
    /\ UNCHANGED <<catalogue, limiter, status, who, want, witness, answer, rows>>

(* The readers joined with no READER_GRACE. *)
DrainUntilEof(r) ==
    /\ pc[r] = "drain"
    /\ ~stray[r]
    /\ Proceed(r, "insert")

(* Every process that ended on its own recorded as a success. *)
WaitIgnoringExitCode(r) ==
    /\ pc[r] = "wait"
    /\ child[r] # "running"
    /\ status' = [status EXCEPT ![r] = "SUCCESS"]
    /\ Goto(r, "drain")
    /\ UNCHANGED <<catalogue, limiter, child, stray, spared, who, want, witness, answer, rows>>

-----------------------------------------------------------------------------
Init ==
    /\ hook = "live"
    /\ mode \in {"keyed", "hmac", "none"}
    /\ limit \in [Keys -> 1..MaxLimit]
    /\ limits = [k \in Keys |-> {limit[k]}]
    /\ may \in [Keys -> BOOLEAN]
    /\ permits = [k \in Keys |-> <<>>]
    /\ free = [k \in Keys |-> <<>>]
    /\ pc = [r \in Requests |-> "idle"]
    /\ who = [r \in Requests |-> Keyless]
    /\ want = [r \in Requests |-> 0]
    /\ slot = [r \in Requests |-> 0]
    /\ holds = [r \in Requests |-> FALSE]
    /\ sawLive = [r \in Requests |-> FALSE]
    /\ sawRight = [r \in Requests |-> FALSE]
    /\ child = [r \in Requests |-> "none"]
    /\ stray = [r \in Requests |-> FALSE]
    /\ spared = [r \in Requests |-> {}]
    /\ status = [r \in Requests |-> "none"]
    /\ answer = [r \in Requests |-> "none"]
    /\ rows = {}
    /\ admin = 0

(* authenticate_bearer_key: the key row is read once and carried along. *)
Authenticate(r, k) ==
    /\ pc[r] = "idle"
    /\ limit[k] > 0
    /\ Goto(r, "resolve")
    /\ who' = [who EXCEPT ![r] = k]
    /\ want' = [want EXCEPT ![r] = limit[k]]
    /\ sawLive' = [sawLive EXCEPT ![r] = hook = "live"]
    /\ sawRight' = [sawRight EXCEPT ![r] = Right(k, mode, may)]
    /\ UNCHANGED <<catalogue, limiter, process, answer, rows>>

(* The keyless path: the hook's own auth_mode decides, on a row the handler *)
(* will not see.                                                            *)
AdmitKeyless(r) ==
    /\ pc[r] = "idle"
    /\ hook = "live"
    /\ mode = "hmac" \/ (mode = "none" /\ ~RequireSigned)
    /\ Goto(r, "resolve")
    /\ sawLive' = [sawLive EXCEPT ![r] = TRUE]
    /\ sawRight' = [sawRight EXCEPT ![r] = TRUE]
    /\ UNCHANGED <<catalogue, limiter, process, who, want, answer, rows>>

(* run_hook_request: resolve_hook, a trashed hook being a 404. *)
ResolveHook(r) ==
    /\ pc[r] = "resolve"
    /\ IF hook = "live" THEN Proceed(r, "guard") ELSE Refuse(r)

(* guard_execute, for a caller that has a key. *)
GuardExecute(r) ==
    /\ pc[r] = "guard"
    /\ IF who[r] = Keyless \/ who[r] \in Masters \/ may[who[r]]
          THEN Proceed(r, "prepare") ELSE Refuse(r)

(* Parameters and ensure_runnable, either of which may refuse. *)
Prepare(r) ==
    /\ pc[r] = "prepare"
    /\ \/ Proceed(r, IF who[r] = Keyless THEN "spawn" ELSE "budget")
       \/ Refuse(r)

(* try_acquire, under the lock: the key's semaphore, built on first use and *)
(* replaced when it was built for another limit.                            *)
PickBudget(r) ==
    LET k     == who[r]
        n     == Len(permits[k])
        fresh == n = 0 \/ permits[k][n] # want[r]
    IN  /\ pc[r] = "budget"
        /\ permits' = IF fresh THEN [permits EXCEPT ![k] = Append(@, want[r])] ELSE permits
        /\ free' = IF fresh THEN [free EXCEPT ![k] = Append(@, want[r])] ELSE free
        /\ slot' = [slot EXCEPT ![r] = IF fresh THEN n + 1 ELSE n]
        /\ Goto(r, "permit")
        /\ UNCHANGED <<catalogue, holds, process, who, want, witness, answer, rows>>

(* try_acquire_owned on the cloned Arc, outside the lock: a permit or 429.  *)
TakePermit(r) ==
    /\ pc[r] = "permit"
    /\ IF free[who[r]][slot[r]] > 0
          THEN /\ free' = [free EXCEPT ![who[r]][slot[r]] = @ - 1]
               /\ holds' = [holds EXCEPT ![r] = TRUE]
               /\ Goto(r, "spawn")
               /\ UNCHANGED <<catalogue, permits, slot, process, who, want, witness,
                              answer, rows>>
          ELSE Refuse(r)

(* build_command_plan and spawn: a bad template is a 400, a failed spawn a  *)
(* FAILED outcome, otherwise the child runs in a group of its own.          *)
Spawn(r) ==
    /\ pc[r] = "spawn"
    /\ \/ Refuse(r)
       \/ /\ status' = [status EXCEPT ![r] = "FAILED"]
          /\ Goto(r, "insert")
          /\ UNCHANGED <<catalogue, limiter, child, stray, spared, who, want, witness, answer, rows>>
       \/ /\ child' = [child EXCEPT ![r] = "running"]
          /\ Goto(r, "wait")
          /\ UNCHANGED <<catalogue, limiter, stray, spared, status, who, want, witness,
                         answer, rows>>

(* The script backgrounds work, ends, or its background work ends. *)
Fork(r) ==
    /\ child[r] = "running"
    /\ stray' = [stray EXCEPT ![r] = TRUE]
    /\ UNCHANGED <<catalogue, limiter, child, spared, status, pc, who, want, witness, answer, rows>>

Exit(r) ==
    /\ child[r] = "running"
    /\ \E e \in {"succeeded", "failed"} : child' = [child EXCEPT ![r] = e]
    /\ UNCHANGED <<catalogue, limiter, stray, spared, status, pc, who, want, witness, answer, rows>>

StrayExit(r) ==
    /\ stray[r]
    /\ stray' = [stray EXCEPT ![r] = FALSE]
    /\ UNCHANGED <<catalogue, limiter, child, spared, status, pc, who, want, witness, answer, rows>>

(* run_process: child.wait() returned before the deadline. *)
WaitReturns(r) ==
    /\ pc[r] = "wait"
    /\ child[r] # "running"
    /\ status' = [status EXCEPT ![r] = IF child[r] = "succeeded" THEN "SUCCESS" ELSE "FAILED"]
    /\ Goto(r, "drain")
    /\ UNCHANGED <<catalogue, limiter, child, stray, spared, who, want, witness, answer, rows>>

(* The deadline: killpg signals what it may of the group, and nobody looks  *)
(* at its result.  The child may just have ended without its exit having    *)
(* been noticed.                                                            *)
TimeOut(r) ==
    /\ pc[r] = "wait"
    /\ \E left \in SUBSET Parts : Kill(r, Parts, left)
    /\ Goto(r, "kill")
    /\ UNCHANGED <<catalogue, limiter, status, who, want, witness, answer, rows>>

(* child.kill() adds nothing to killpg: it fails, and is logged, on a child *)
(* that may not be signalled.  Either way child.wait() comes next, with no  *)
(* bound: it returns when the child has ended.                              *)
Reap(r) ==
    /\ pc[r] = "kill"
    /\ child[r] # "running"
    /\ status' = [status EXCEPT ![r] = "TIMEOUT"]
    /\ Goto(r, "drain")
    /\ UNCHANGED <<catalogue, limiter, child, stray, spared, who, want, witness, answer, rows>>

(* The readers reach EOF, or READER_GRACE runs out on a pipe a background   *)
(* process holds open.                                                      *)
Drain(r) ==
    /\ pc[r] = "drain"
    /\ Proceed(r, "insert")

(* record.insert: the foreign keys refuse a row for a hook or a key that    *)
(* has been deleted meanwhile, and the run goes unrecorded with a 500.      *)
Insert(r) ==
    LET accepted == hook # "gone" /\ (who[r] = Keyless \/ limit[who[r]] > 0)
    IN  /\ pc[r] = "insert"
        /\ rows' = IF accepted
                   THEN rows \cup {[req |-> r, key |-> who[r], status |-> status[r]]}
                   ELSE rows
        /\ answer' = [answer EXCEPT ![r] = IF accepted THEN "ok" ELSE "error"]
        /\ Goto(r, "done")
        /\ Release(r)
        /\ UNCHANGED <<catalogue, process, who, want, witness>>

(* The client goes away and axum drops the future: kill_on_drop signals the *)
(* direct child only, if it may, and the permit is released in either case. *)
Disconnect(r) ==
    /\ InFlight(r)
    /\ \E left \in SUBSET Parts : Kill(r, {"child"}, left)
    /\ answer' = [answer EXCEPT ![r] = "dropped"]
    /\ Goto(r, "done")
    /\ Release(r)
    /\ UNCHANGED <<catalogue, status, who, want, witness, rows>>

-----------------------------------------------------------------------------
(* Administrative writes, as the executions see them.                       *)

(* One more write; what each request in flight could have seen is noted.    *)
Write ==
    /\ admin < MaxAdmin
    /\ admin' = admin + 1
    /\ sawLive' = [r \in Requests |-> sawLive[r] \/ (InFlight(r) /\ hook' = "live")]
    /\ sawRight' = [r \in Requests |->
            sawRight[r] \/ (InFlight(r) /\ Right(who[r], mode', may'))]
    /\ UNCHANGED <<limiter, process, pc, who, want, answer>>

(* update_api_key changes max_concurrent_jobs; validate_concurrency bounds it. *)
EditLimit(k) ==
    /\ limit[k] > 0
    /\ \E n \in 1..MaxLimit \ {limit[k]} :
          /\ limit' = [limit EXCEPT ![k] = n]
          /\ limits' = [limits EXCEPT ![k] = @ \cup {n}]
    /\ UNCHANGED <<hook, mode, may, rows>>
    /\ Write

(* delete_api_key: permissions cascade, executions.api_key_id is set NULL.  *)
DeleteKey(k) ==
    /\ limit[k] > 0
    /\ k \notin Masters
    /\ limit' = [limit EXCEPT ![k] = 0]
    /\ may' = [may EXCEPT ![k] = FALSE]
    /\ rows' = {[row EXCEPT !.key = IF @ = k THEN Keyless ELSE @] : row \in rows}
    /\ UNCHANGED <<hook, mode, limits>>
    /\ Write

(* update_key_hook_permissions and revoke_key_hook_permission.  The hook    *)
(* was live when they resolved it; the foreign key only wants it to exist.  *)
SetPermission(k) ==
    /\ limit[k] > 0
    /\ hook # "gone"
    /\ may' = [may EXCEPT ![k] = ~@]
    /\ UNCHANGED <<hook, mode, limit, limits, rows>>
    /\ Write

(* update_hook changes the auth_mode of a hook that was live when resolved. *)
SetMode ==
    /\ hook # "gone"
    /\ mode' \in {"keyed", "hmac", "none"} \ {mode}
    /\ UNCHANGED <<hook, limit, limits, may, rows>>
    /\ Write

(* delete_hook, soft: the permissions stay. *)
Trash ==
    /\ hook = "live"
    /\ hook' = "trash"
    /\ UNCHANGED <<mode, limit, limits, may, rows>>
    /\ Write

(* restore_hook. *)
Restore ==
    /\ hook = "trash"
    /\ hook' = "live"
    /\ UNCHANGED <<mode, limit, limits, may, rows>>
    /\ Write

(* delete_hook with hard=true, purge_deleted_hooks or the retention sweep:  *)
(* permissions and executions cascade.  The row may be live or in the trash.*)
HardDelete ==
    /\ hook # "gone"
    /\ hook' = "gone"
    /\ may' = [k \in Keys |-> FALSE]
    /\ rows' = {}
    /\ UNCHANGED <<mode, limit, limits>>
    /\ Write

(* delete_execution, purge_executions or the retention sweep. *)
EraseRows ==
    /\ \E gone \in SUBSET rows \ {{}} : rows' = rows \ gone
    /\ UNCHANGED <<hook, mode, limit, limits, may>>
    /\ Write

-----------------------------------------------------------------------------
(* What the runtime keeps polling once a request is in. *)
ServerStep(r) ==
    \/ ResolveHook(r)
    \/ GuardExecute(r)
    \/ Prepare(r)
    \/ PickBudget(r)
    \/ TakePermit(r)
    \/ Spawn(r)
    \/ WaitReturns(r)
    \/ TimeOut(r)
    \/ Reap(r)
    \/ Drain(r)
    \/ Insert(r)

Next ==
    \/ \E r \in Requests :
          \/ \E k \in Keys : Authenticate(r, k)
          \/ AdmitKeyless(r)
          \/ ServerStep(r)
          \/ Fork(r)
          \/ Exit(r)
          \/ StrayExit(r)
          \/ Disconnect(r)
    \/ \E k \in Keys : EditLimit(k) \/ DeleteKey(k) \/ SetPermission(k)
    \/ SetMode
    \/ Trash
    \/ Restore
    \/ HardDelete
    \/ EraseRows

Spec == Init /\ [][Next]_vars

(* Tokio polls every task and fires every timer; scripts and clients owe    *)
(* nothing.                                                                 *)
FairSpec == Spec /\ \A r \in Requests : WF_vars(ServerStep(r))

-----------------------------------------------------------------------------
(* Every semaphore, retired ones included, has each of its permits either   *)
(* free or in the hands of one request: no path of execute_hook leaks one   *)
(* or returns it to the semaphore that replaced its own.                    *)
PermitsConserved ==
    \A k \in Keys : \A i \in DOMAIN permits[k] :
        free[k][i] + Cardinality(Holders(k, i)) = permits[k][i]

(* Unless max_concurrent_jobs was edited, a key never has more children     *)
(* running than it allows, whoever disconnects, times out or is refused     *)
(* (executor.rs:1127, "the permit is held until the sub-process has fully   *)
(* exited").  The one exception is a child whose client disconnected and    *)
(* that the daemon may not signal: its permit is back while it still runs.  *)
ConcurrencyRespected ==
    \A k \in Keys : Cardinality(limits[k]) = 1
                    => \A n \in limits[k] : Cardinality(Running(k)) <= n

(* A timed-out execution leaves nothing of its process group behind         *)
(* (executor.rs:13-14), except where the operating system forbids a part of *)
(* the kill: the direct child is gone in any case once TIMEOUT is recorded, *)
(* and a descendant survives only in a group of which killpg spared a part. *)
TimeoutLeavesNothing ==
    \A r \in Requests :
        status[r] = "TIMEOUT" => child[r] # "running" /\ (stray[r] => spared[r] # {})

(* A trashed hook does not start, and neither does a hook its caller has no *)
(* right to, however the writes fall between the reads of the middleware,   *)
(* resolve_hook and guard_execute: both the hook and the right were there   *)
(* at some instant of the very request that ran it.                         *)
SpawnEntitled ==
    \A r \in Requests : child[r] # "none" => sawLive[r] /\ sawRight[r]

(* The history tells the truth: at most one row per request, with the way   *)
(* its process really ended, a kill by the deadline included, and with the  *)
(* key that ran it unless that key is gone.                                 *)
HistoryFaithful ==
    /\ \A row \in rows :
          /\ row.key = who[row.req] \/ (row.key = Keyless /\ limit[who[row.req]] = 0)
          /\ row.status = "SUCCESS" => child[row.req] = "succeeded"
          /\ row.status = "FAILED" => child[row.req] \in {"none", "failed"}
          /\ row.status = "TIMEOUT" => child[row.req] # "none"
    /\ \A r \in Requests : Cardinality({row \in rows : row.req = r}) <= 1

(* A request always ends, its permit returned and its child dead, even when *)
(* the script never exits or its background work holds the pipes for ever:  *)
(* the timeout and READER_GRACE of run_process see to it.  They cannot for  *)
(* a child that runs for ever and may not be signalled: child.wait() after  *)
(* the kill has no bound of its own.                                        *)
RequestEnds ==
    \A r \in Requests :
        \/ <>[](child[r] = "running" /\ "child" \in spared[r])
        \/ InFlight(r) ~> (pc[r] = "done" /\ ~holds[r] /\ child[r] # "running")

(* executor.rs:869-871: permits of a replaced semaphore "simply stop being  *)
(* counted once their jobs finish".  The code stops counting them at once:  *)
(* the running jobs of a key can exceed every limit it ever had.            *)
CountedUntilFinished ==
    \A k \in Keys : \E n \in limits[k] : Cardinality(Running(k)) <= n
=============================================================================
