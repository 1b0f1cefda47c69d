# Verification of simply_hook_executor

TLA+ models of the parts of `simply_hook_executor` whose correctness depends on
interleavings, stale reads, clocks and long sequences of requests; TLC runs that
check them on small instances; and TLAPS proofs of the properties that matter
most, for every size. The reference is the Rust source under `src/src/`. Line
numbers below are those of this commit.

## 1. The system

The daemon runs shell scripts ("hooks") on request. An axum/tokio server
authenticates a caller, resolves a hook, takes a permit of the caller's
concurrency budget, runs the script in a process group of its own under a
deadline, and records the run. The rest is administration: keys, hooks,
permission rows between them, a trash, an audit trail, retention.

| Part | State | Operations | Talks to |
|---|---|---|---|
| Replay guard (`replay.rs`) | map signature → expiry, sweep schedule; two mutexes | `check_and_record`, `prune_if_due` | called by `authenticate_bearer_key` after the body is read |
| Request authentication (`middleware.rs`) | none of its own; the key row it read travels with the request | `auth_middleware`, `invocation_auth_middleware`, timestamp checks | replay guard, `api_keys`, `hooks` |
| Concurrency limiter (`executor.rs`) | map key → semaphore and the limit it was built for | `try_acquire`; release by drop | `execute_hook` |
| Process supervision (`executor.rs`) | child, its process group, reader tasks, deadline | `run_process`, `kill_process_group` | operating system, limiter, `executions` |
| Execution history (`api/executions.rs`) | `executions` rows | insert after each run, delete, purge, retention | foreign keys to `hooks` and `api_keys` |
| Keys and permissions (`api/keys.rs`, `api/guards.rs`) | `api_keys` (lineage, scopes, signing set-up), permission rows | create, update, rotate, delete with cascade, grant, revoke | hooks, every later authentication |
| Hooks and trash (`api/hooks.rs`) | `hooks` (owner, dispatch configuration, elevation, state) | create, edit, trash, restore, hard delete, purge | permission rows cascade |
| Retention (`retention.rs`) | a timer | sweeps of old executions and old trash | database |
| Master pin and boot (`master.rs`, `main.rs`, `db.rs`, the migrations) | the schema, the pinned master id | migrate, bootstrap, pin, serve, shut down | unique index on `master_marker`, other replicas |
| Trusted proxies (`config.rs`) | DNS cache with positive and negative TTL behind one lock | `resolved`, `prime`, `resolve_client_ip` | every request |
| Parameters and command plan (`executor.rs`) | none | `resolve_parameters`, `build_command_plan`, the pre-flight | `run_hook_request`, `test_hook` |
| Secrets at rest (`crypto.rs`) | the key of the process | seal, open, verify | `api_keys`, `hooks` |

What is hard here:

- **Handlers are sequences of statements without a transaction.** A request
  authenticates on one read of its key's row, guards read other rows later, and
  writes come later still. Other requests run in between, and the client can go
  away at any await, which drops the future where it stands.
- **Two locks and one clock sample** in the replay guard: four critical
  sections follow one reading of the clock.
- **Two clocks, two windows**: whole-second timestamps against a monotonic window.
- **Semaphores replaced while their permits are out** when a limit is edited.
- **A process group outside the program's control**, with a deadline that can
  fire in the instant the child exits, pipes that background work holds open, and
  processes of another user that refuse the daemon's signals.
- **Deletion of a key subtree** collected in one statement, resolved hook by
  hook, deleted in another.
- **Rows written back from a stale read**: `update_hook` rewrites `hmac_secret`
  from the row it read; trash, restore, hard delete, purge, the cascade of a deleted
  key and the retention sweep meet on one row.
- **Several processes on one database**, each migrating and minting at its start,
  and an operator who edits `is_master` by hand.
- **A cache whose entries expire one by one** under one lock that a disconnecting
  client may drop in the middle of a pass.

The properties each part owes: a signature is honoured once (as far as the code
keeps that), refusals are justified; permits are conserved and the budget holds;
a timeout leaves nothing running and every request ends, as far as the system
lets the daemon kill; nothing runs that was
not allowed during its request; the history is true; rights are never amplified;
a cascade stays inside the caller's subtree and is complete; what an elevated
hook runs the master wrote or elevated; a process knows one master for life and
prints no key but the stored one; nobody serves on half a schema; an address is
trusted only while its lookup is fresh, and a forwarding header moves the client's
address only in known ways; exactly the entitled are admitted and the others are
answered alike, with two known exceptions; the dry run tells the truth; deletions
are audited once and the trash is emptied, not early and not never.

## 2. Modules

| Module | Models |
|---|---|
| `SignatureLedger` | Abstract: a signature may be honoured again only when every earlier use is a window old |
| `ReplayGuard` | The signed path: pre-check, authoritative check, body read, sample, the four critical sections |
| `HookExecution` | One invocation per request from authentication to the `executions` row, limiter, process group, and the administrative writes that race with it |
| `AccessControl` | The administrative API over keys, hooks and permission rows |
| `RequestAuth` | Both authentication middlewares and the secrets they read, as operators on one request |
| `CommandPlan` | From a request body to the command that runs, for an execution and for its dry run, as operators |
| `HookRegistry` | The `hooks` table over its life, statement by statement, with the retention worker; composes `RequestAuth` and `CommandPlan` with the rows it reaches |
| `TrustedProxies` | The cache of resolved proxy names and the walk over forwarding headers |
| `MasterPin` | The start of replicas on one database, the migrations, the bootstrap and the pin |
| `MCReplayGuard`, `MCHookExecution`, `MCAccessControl`, `MCHookRegistry`, `MCTrustedProxies`, `MCMasterPin` | Instances for TLC: symmetry and constant values only |
| `ReplayGuard_proofs`, `HookExecution_proofs`, `HookLimiter_proofs`, `AccessControl_proofs`, `MasterPin_proofs`, `TrustedProxies_proofs`, `Invocation_proofs` (`RequestAuth` and `CommandPlan`), `HookRegistry_proofs` | TLAPS proofs |

`ReplayGuard` is shown to implement `SignatureLedger` (`ImplementsLedger`, through
`INSTANCE … WITH`).

Definitions named as plausible bugs (marked `mutant`, or grouped under "Plausible
bugs") are not part of any specification; each shows that a property notices the
bug it is meant to catch.

### ReplayGuard and SignatureLedger

`phase[w]` is where request `w` has got to; each action is the code between two
points where another request can run. `Prevalidate` is
`prevalidate_timestamp_header`, `Validate` the check after the key row is
fetched, `Sample` the arrival of the body and the clock read of
`check_and_record`; `ReadLength`, `Reschedule` and `Sweep` are the three
sections of `prune_if_due`, `Record` the final one. `Abandon` is every way a
request ends before it is recorded. `accepted` is a history variable: every use
of a signature that was honoured, with the times it was validated and sampled.
Time is in ticks, `TicksPerSecond` of them to a second, and timestamps are
truncated to seconds as `validate_timestamp` does. The wall clock and the
monotonic clock are one clock.

### HookExecution

`pc[r]` follows an invocation through `run_hook_request` and `execute_hook`. The
key record read at authentication stays with the request (`want`), and the hook
row of the middleware is not the one the handler resolves. `permits[k]` and
`free[k]` list every semaphore ever built for a key, because jobs keep permits of
replaced ones: `PickBudget` is the part of `try_acquire` under the lock,
`TakePermit` the part outside it. `child` and `stray` are the direct
sub-process and the other members of its group; `Fork`, `Exit` and `StrayExit`
are the script's doing. `TimeOut` is the deadline with `killpg`, `Reap` the end of
the `child.wait()` after it, `Drain` the readers' end or their grace period.
`Disconnect` drops the future at any await, with `kill_on_drop` for the child.
A signal can be refused: where the daemon is `Unprivileged` (not root), any part of
a group may belong to another user, because the hook has a `run_as_user` or its
script uses sudo. `Kill` then spares that part for good, whichever of the three
kills it is, and `spared` remembers it; nothing in the code looks at the refusal,
so `TimeOut` goes on to a wait without bound and `Disconnect` releases the permit. `Insert` obeys the foreign keys.
Administrative handlers appear by the write they make.

### AccessControl

A request is a record in `job[w]`: its caller and the scopes read at
authentication, and, once its guards have passed, what it is about to write.
`Begin` is `auth_middleware`; each `Check…` action is all the reads and guards of
one handler up to its first write, and the action of the same family without
`Check` is the write. `create_api_key` and `create_hook` read no table before
they insert, so they are one step, and the auto-provisioned row of `create_hook`
is a second (`Provision`). `Resolve` applies one resolution of a cascade,
`Cascade` is `delete_many`. `Abandon` is any refusal, error or lost client.
Guards keep their names in comments and are one operator each: `Manages` (R2),
`Holds` (R1), `MayManage`, `MayDispatch`, `MayEnd`, `Touchable`, `MayHandOut`,
`Canonical`. `Descendants` is the least set closed under "child of", which is
what the breadth-first walk of `descendant_key_ids` computes.

`line` (every ancestor a key ever had), `rooted` (verbs the master granted on a
hook, or a creator other than the master was provisioned with), `author` and `stamp`
(who wrote the dispatch configuration last, and a bit that every write of it flips)
and `approved` (hooks whose script the master wrote, or elevated as it stood) are
history variables. The dispatch configuration is `script_path`, `args_template` and
`run_as_user`, which `guard_dispatch_configuration` guards together; an edit names
which of "script" (the first two), "elevate" and "lower" it holds.

### HookRegistry, RequestAuth and CommandPlan

`job[w]` is a handler of `api/hooks.rs` between two of its statements, with the
row it read; each statement is a step and `Abandon` drops the handler between two.
`CreateHook` is the insert and `DeclareNext` one parameter of the loop after it.
`ReadForUpdate`, `FitTemplate` and `WriteUpdate` are the three statements of
`update_hook`; the last writes `secret` from the row of the first. `Trash` is the
conditional UPDATE, `Audit` the row after it, `Restore` the unconditional UPDATE,
`Drop` and `Purge` the deletions, and three pairs of actions the parameter
endpoints. `ReadForResolve` and `Resolve` are one resolution "delete" of a
`delete_api_key` (keys.rs:953-1046): the inventory and the clock are read first,
and the hook, live or in the trash, is dated with that time later, without a
condition and without a HOOK_DELETE row; a map with several entries is several such
requests. `Sweep` is one tick of `run_retention_worker`, `stuck` says that its
statement on `executions` keeps failing. `liveOn` (the last day a hook was live),
`trashings`, `cascaded` (those of them a `delete_api_key` made), `late` (hooks it
gave a date gone by), `cut` (a request was dropped before its audit row) and `raced`
(an update wrote over a newer mode or secret) are history variables.

`RequestAuth` has the checks in the order of the code: `AuthenticateBearerKey`,
`CheckSignature` and `CheckNetwork` for a presented key, `KeylessVerdict` and
`CheckHookSignature` without one, `AdminVerdict` and `InvocationVerdict` for the
two middlewares. A signature is a record of who made it over what; a secret at
rest is absent, plain, sealed under some key, or damaged. `KeyedEntitled` and
`KeylessEntitled` say without any order what a caller must have shown; the two are
compared over every combination of headers, key row, hook row and setting.
`KeyedSound` also holds every answer to a caller that is not identified to the answer
an unknown key gets; `Faulted` names the requests where the code answers otherwise.
`CommandPlan` does the same for `Execute` and `TestHook`, which run the same
checks in different orders (the dry run resolves the template before it looks at
the file system). TLC evaluates both comparisons once, as constant tables, and
`InvocationsVetted` and `CommandsAgree` look up every hook that a sequence of
concurrent edits can leave in the table.

### TrustedProxies

A request consults the cache under the read lock (`Consult`), queues for the write
lock (`queued`), looks again once it has it (`Lock`) and resolves the stale names
one after the other with the lock held (`Resolved`, one name each; the last one
rebuilds `merged` and releases the lock). `Leave` drops the future of a request
that waits or looks up. `Boot` primes every name and, if one failed, once more
after the grace period; with no names to prime it has nothing to do. `said` is the resolver's last answer for each name.
`ResolveClientIp` is the walk over `X-Forwarded-For` from the right with its two
fallbacks, on sets of addresses in place of networks. A header is a sequence of
lines, each text or not: `Read` takes the first line, and nothing if `to_str` fails
on it (config.rs:433). `Appended` and `Added` are the two ways a chain of hops
reports what it saw, on the line that is there or on lines of its own.

### MasterPin

`pc[r]` is how far the `main` of replica `r` has got, `next[r]` the next migration
on the list it computed once. Replicas share `applied`, `marker` and `index` (the
two statements of `m20230106_090000_master_key_uniqueness`, which is not a
transaction on every engine: `Die` keeps or rolls back the first) and the rows.
`Insert` and `Banner` are the two halves of the bootstrap, `CheckIndex` and
`PinAtBoot` those of `pin_at_boot`, `Authenticate` a request with a key whose row
says `is_master`. `Promote`, `Demote`, `DeleteRow` and `DropIndex` are direct
writes to the database. Only what `main` refuses before it opens anything is kept
of the environment: the proxies, the initial key, the cipher key.

## 3. Runs

| Run | Checks | Result |
|---|---|---|
| `replay_guard` | `TypeOK`, `ReplayNeedsStraggler`, `ImplementsLedger`, `RefusalJustified` | hold |
| `single_use` | `SingleUse` | violated: finding 1 |
| `hook_execution` | `TypeOK`, `PermitsConserved`, `SpawnEntitled`, `HistoryFaithful` | hold |
| `request_ends` | `ConcurrencyRespected`, `TimeoutLeavesNothing`, `RequestEnds`, where kills may be refused | hold |
| `budget` | `CountedUntilFinished` | violated: finding 2 |
| `access` | `TypeOK`, `RightsRooted`, `LineageKept`, `ManagersSignStandard`, `ElevatedVetted`, `DeletionStaysBelow`, `DispatchContained` | hold, one request at a time |
| `access_races` | `RightsRooted`, `DeletionStaysBelow` | hold, two requests in flight |
| `signing` | `ManagersCanSign` | violated: finding 3 |
| `orphans` | `LineageKept`, two requests in flight | violated: finding 4 |
| `proxies` | `TypeOK`, `ViewCurrent`, `ClientFound`, `TrustRecent`, `NoStorm`, `WaitersServed` | hold |
| `boot` | `TypeOK`, `OneActsAsMaster`, `AnnouncedIsMaster`, `ServesMigrated`, `PinSettled`, `BootEnds` | hold |
| `hooks` | `TypeOK`, `DeletionsAudited`, `SecretKept`, `InvocationsVetted`, `CommandsAgree`, `NothingPurgedEarly`, `TrashEmptied` | hold |

**Bounds.** `replay_guard`: one signature, two requests at a time, a window of one
second in half-second ticks, time up to five ticks. That is long enough for a use, its
expiry, a sweep by a request with an older sample and a second use; the ceiling
of one entry makes every record reach capacity. `hook_execution`: two
invocations of one key (or of none), limits one and two, two administrative
writes. Two requests are what a race over one permit takes, and two writes what
it takes to change something and change it back under a request in flight.
`budget` has three requests: one under the old semaphore, two under the new.
`request_ends` is a daemon that is not root, two requests of one key with a limit
of one; it has no administrative writes, which can only make requests end earlier,
and `ConcurrencyRespected` says nothing of a key whose limit was edited. The other
two runs are of a daemon that is root, as the refused kills touch none of their
properties. `access`: the master, a parent key, a third key to be minted, one hook
and two verbs, four requests. Four is what the longest interesting sequence takes
(create a hook, grant, mint, delegate). `access_races` starts with a deployed hook and
any verbs on the parent's row, and interleaves three requests two at a time.
`proxies`: two names, so that a pass can be dropped half-way and names can expire
apart; two requests beside the boot task, so that one queues behind another;
lifetimes of two and one ticks and a clock of three, so that a positive and a
negative entry expire and are asked again. `boot`: two replicas, three starts (one
of them a restart), two edits (enough to demote the master and promote another
under a running process), databases of every earlier state with none or two old
rows. The thirteen migrations are three, the uniqueness migration the second and
the consolidation the third: one before the pair of statements, one after, is what
the races can tell apart. `hooks`: three requests, two in flight, over three days
with a retention of one, the cascades of deleted keys among the requests, from an
empty table or one that holds a hook; two
parameter keys that differ in case only, templates that fit, that do not, and that
are never closed.
`CHECK_DEADLOCK FALSE` in every configuration but `hooks`, whose retention worker
never stops: requests are finite in number and the system may come to rest.

**Fairness.** `FairSpec` of `HookExecution` is weak fairness of `ServerStep(r)`, the steps tokio takes by itself once they are enabled (polling a
ready task, firing a timer, the group kill, the reader grace period). `Reap` is
enabled only once the child has ended, so that fairness does not end a child that
refused its kill. Nothing is assumed of scripts, which may run for ever or hold
pipes open, nor of clients.
Only started requests are promised an end. `TrustedProxies` has weak fairness of
`Progress(t)`: tokio's lock is handed on in the order of the queue and a lookup
ends by itself, with an error if nothing else. `MasterPin` has weak fairness of
`BootStep(r)`: `main` awaits one step of the start after the other, and each of
them ends. `HookRegistry` has weak fairness of `SweepStep`: the interval keeps
ticking for the life of the process, and a tick that fails is followed by another.
In none of them is anything assumed of clients, operators or the clock.

## 4. Findings

1. **A signature can be accepted twice inside its window** (`single_use`).
   README.md:92-95 promises "exactly once". The entry expires one window after
   the *use*, while the timestamp is valid for one window either side of a whole
   second. `ReplayNeedsStraggler` is what does hold: a signature first used a
   second or more after its timestamp is replayed only by a request validated
   before the entry expired whose body arrived afterwards.
2. **Jobs of a replaced semaphore stop being counted while they run** (`budget`),
   where executor.rs:869-871 says they stop once they finish.
   `ConcurrencyRespected` is what does hold.
3. **A promoted bearer-only key cannot sign** (`signing`): `update_api_key`
   grants `can_manage_keys` without looking at `signing_secret`, and the
   middleware then refuses the key everywhere.
4. **A cascade can leave an orphan** (`orphans`): a daughter minted between the
   collection of the subtree and `delete_many` survives its parent.

Observed while modelling, and reproduced by giving the `access` properties two
workers: `ManagersSignStandard`, `ElevatedVetted` and `DispatchContained` hold one
request at a time only, since their guards read rows that another request can
change before the write. Also reachable in the models, or plain from the source,
and not forbidden by any property:

- Keys and runs. A hook trashed by a cascade keeps the id of its deleted owner when
  it is restored; `revoke_key_hook_permission` lets a manager revoke on an elevated
  hook where the equivalent all-false grant is refused; a completed run goes
  unrecorded when its hook or key is hard-deleted meanwhile, or its client leaves.
- Kills. The comment at executor.rs:1023-1025 says that a child whose client
  disconnects "is killed rather than left running unattended", and 1127 that the
  permit is held "until the sub-process has fully exited". Neither is so for a child
  the daemon may not signal: it runs on, uncounted (`ConcurrencyRespected` excepts
  it). On the timeout path the result of `killpg` is ignored (974-976) and a failed
  `child.kill()` only logged (1091-1093); the `child.wait()` after it then lasts as
  long as the child, with the request and its permit (`RequestEnds`), and
  descendants may survive a recorded TIMEOUT (`TimeoutLeavesNothing`), where
  executor.rs:13-14 says that the whole group is killed.
- Cascades. A hook trashed by `delete_api_key` has no HOOK_DELETE row, only a number
  in the text of KEY_DELETE, and none at all if the request ends before line 1057.
  A hook in the trash already is dated again, which restarts its retention. The date
  is read before the loop (keys.rs:1019): a hook resolved late is purged that much
  earlier.
- Hooks. Two updates in flight can leave a hook in `HMAC_ONLY` without a secret,
  which middleware.rs:186-190 calls unreachable (`SecretKept` names the only way);
  every invocation is then a 500. An update in flight can edit a hook that has been
  trashed meanwhile, against retention.rs:63, and a restore in flight can undo a
  later deletion. A repeated `param_key` in a creation leaves the hook with the
  parameters before it.
- Commands. Keys that differ in case only share one `HOOK_PARAM_*` variable and the
  later wins. `${}` and an unclosed `${` pass the checks of a definition and fail at
  every execution. A default with a NUL byte is accepted at declaration.
  `{"parameters": null}` is taken for a parameter named `parameters`.
- Authentication. A signature header that is no text is ignored rather than
  refused wherever a signature is not required. The stored secret is opened and the
  body read before the signature is compared: a caller that has proved nothing gets
  500 for a key whose secret does not open and 400 for an oversized body, where an
  unknown key gets 401 (middleware.rs:354-359). middleware.rs:231-233 and 598-601
  want a key that exists and one that does not to be refused alike;
  `uniformize_keyed_auth_failure` (239-245) passes answers other than 401 on purpose.
- Boot. On an engine that does not roll a migration back, a process killed between
  the two statements of the uniqueness migration leaves a database that no later
  start migrates: ADD COLUMN fails each time. A process killed between insert and
  banner leaves a master whose key nobody was told. A process given an
  `INITIAL_MASTER_KEY` whose row was demoted by hand cannot bootstrap, as the hash
  is taken.
- Proxies. One byte in a client's X-Forwarded-For that is not visible ASCII makes
  the whole line unreadable, with what trusted hops appended to it, and the address
  is then that of X-Real-IP or of the peer. Where hops add lines of their own
  instead of appending, the client's line is the only one read. A client that leaves during a lookup drops the pass, and the next
  request asks the resolver again: `NoStorm` counts completed lookups only.

## 5. Proofs

Every invariant and every action property of the passing runs is also a theorem:
it holds for every value of the constants that satisfies the named assumption of
the module (`GuardAssumption`, `ExecutionAssumption`, `AccessAssumption`,
`BootAssumption`, `ProxiesAssumption`, `AuthAssumption`, `PlanAssumption`,
`RegistryAssumption`): sets contain what they must, bounds are naturals, divisors
are not zero, the consolidation comes after the uniqueness migration, payloads have
the types deserialization gives them, and the requests in flight in `HookRegistry`
are finite in number. Four theorems about `AccessControl` have the hypothesis
`OneAtATime` besides.

**ReplayGuard** — `TypeCorrect`, `GuardImplementsLedger`, `StragglerOnly`,
`RefusalsJustified`. The inductive invariant is `TypeOK`, `LocalsOK` and `UsesOK`
(a request's sample is not before its validation, and no use is in the future),
`Remembered` (a use whose window has not passed at the current time still has an
entry at least that long), `EntriesFromUses` (every entry comes from a use) and
`Spaced` (two uses of one signature are a window apart). `Remembered` is what an
older sample could break: a sweep removes only what has expired at a sample that
is not after the clock. The refinement maps `Record` to `Honour`, `Tick` to
`Tick` and everything else to a stutter.

**HookExecution** — `SpawnsEntitled`, `TimeoutsLeaveNothing`, from `Shape`,
`ProcessOK` (where a request is tells what is left of its process group, and what
is left after a kill was spared by it) and `WitnessOK` (a request past a check has
seen what the check wants). One lemma, `KillKeeps`, says what each of the three
kills leaves; it needs no assumption on who may be signalled.

**HookLimiter** (the counting half of `HookExecution`) — `TypeCorrect`,
`PermitsAreConserved`, `ConcurrencyIsRespected`, `HistoryIsFaithful`. The requests
that hold a permit of a semaphore are a finite set even where `Requests` is not,
and that must be part of the invariant: `Counted` says that the set is finite and
that its cardinality and the free permits add up to the size. `Custody` ties the
permit to the positions between `try_acquire` and the end of `execute_hook`,
`Admitted` ties the limit a request carries to one its key has had, and
`Semaphores` says that neighbours in the list of semaphores differ in size:
`ConcurrencyIsRespected` needs it, since a key whose limit was never edited then
has one semaphore, and every running child holds a permit of it unless it was
spared when its client left. `HistoryInv` adds
`Outcome` (which status goes with which end of the process) and `Table`.

**AccessControl** — `TypeCorrect` from `TypeInv`, which adds that a request in
flight has a caller and one past its guards the hook they resolved.
`RightsStayRooted` from `GrantsRooted`: what a grant in flight is about to write
is already rooted, because a reduction writes what the target held and a
delegation what the caller held when the guards looked, and `rooted` never
shrinks. `DeletionsStayBelow` from `LineFollowsParents` (a key's line is its
parent's line and its parent, fixed when it is minted), `CallersMinted` and
`DoomedBelow` (the collected subtree lies below the caller and still will when it
is deleted); the heart is `DescendantsBelow`, which instantiates the closed set in
`Descendants` with the keys that have the root in their line.

`LineageIsKept`, `ManagersAlwaysSignStandard`, `ElevatedIsVetted` and
`DispatchIsContained` assume `OneAtATime`: `Workers` has one member at most, so
that requests do not overlap, while each may still be dropped between any two
steps and the retention worker purges in the middle of it. Finding 4 and the
remarks after it show that the hypothesis cannot go. The invariant says that what
the guards saw is still so at the write: `Served` (the key record is the stored
one), `Enclosed` (the collected subtree has every child of its members, from
`SubtreeClosed`), `UpdateSound`, `EditSound`, and `Born` (an elevated hook has been
created, so that no creation finds its id elevated). `EditSound` needs that a purge
takes only what is in the trash, and so never the hook an edit is about to write.

**MasterPin** — `TypeCorrect`, `OneIdentity`, `Announcements`,
`ServesComplete`, `PinsSettle`, from one inductive invariant. The properties speak
of processes that serve; the invariant adds what the steps before that establish.
`Lists`: a list of pending migrations is never ahead of `applied`, and between the
two statements of the uniqueness migration it stands exactly at it. `Alone`: only
one replica is between them, because the column is there for the others. `Schema`:
without the column the migration is not recorded, and past the consolidation no
row is in the retired mode. `Reached`: past the migrations the schema is complete,
and a pin is set exactly from `bind` on. `Unedited`: as long as nobody edits, a
minted key stays the master, the index stays where it was seen, and every pin is
the one master. `Alone` is needed for `Lists`: with two replicas in between, the
first to finish would move `applied` under the other. One lemma per action; the
cardinality theorems enter where a singleton of masters is a pin.

**TrustedProxies** — `TypeCorrect`, `ViewIsCurrent`, `TrustIsRecent`,
`NoLookupStorm`, `ClientIsFound`, from `Locking` (the lock belongs to the task that
is looking up), `Answered` (the cache is what the resolver said), `View` (with the
lock free, the view is the merged cache or some name is stale) and `Passing` (a
pass stands at a stale name, and what it has passed was fresh after the request
came). `View` is where a dropped pass could do harm: it has replaced some entries
and not the view, and it stands at a name that is still stale, so that nobody
answers from the view. `NearestStranger` is about `resolve_client_ip` alone: for
headers and routes of every length it finds the nearest untrusted hop of a first
line that is text and that the hops append to, and it says what is answered in the
other two cases; `LineRead` is what config.rs:433 sees of the lines. The walk is
over the greatest position with a property, found by the well-foundedness of `<`.

**Invocation** — `KeyedAlwaysSound` and `KeylessAlwaysSound`: the ordered checks of
the two middlewares against the unordered entitlement, for every hook row.
`RefusedAlike` compares a caller that is not identified with an unknown key, check by
check up to the first that refuses; the requests of `Faulted` are where they part.
`DryRunAlwaysAgrees`: `Execute` against `TestHook` for every user, template and
contract, of any length, and every body and machine the assumption admits; the
argument goes by the first check that fails in each order.

**HookRegistry** — `TypeCorrect`, `DeletionsAreAudited`, `SecretsAreKept`,
`PurgesAreLate`, `InvocationsAreVetted`, `CommandsAlwaysAgree`. The invariant adds
`Rows`, `Lists` (a list of parameters has each key once and holds only rows that
declarations and amendments can make), `Jobs` (a request past its first statement
carries what that statement accepted), `Counted` (audit rows and requests in flight
are no more than the requests begun) and `Trashing` (a hook in the trash was not
live after the day it is dated, unless a cascade dated it late), which makes the
purge late enough. `DeletionsAudited` is part of it and is kept as a balance: each
step adds the same number to the trashings and to audit rows, rows due and cascades
together, or drops a request that is then in `cut`. `Rows` and `Lists`
put every hook of the table in the domain of the `Invocation` theorems, which is
all that the last two need.

**Model-checked only.** Liveness (`RequestEnds`, `WaitersServed`, `BootEnds`,
`TrashEmptied`), which is out of the prover's reach. The four violated properties
have counterexamples, not proofs. That `Descendants` is what a breadth-first walk
computes is a modelling step, neither checked nor proved.

## 6. Abstractions

- Poisoned mutexes, I/O errors of `child.wait()` and database errors other than a
  foreign key or an abandoned request are left out. A refused kill is not: but a part
  of a process group is refused or reached as a whole, and stays what it was found to
  be. Platforms without process groups (executor.rs:979-983) are left out.
- Reads and guards of one administrative handler are one step up to its first
  write. Splitting them further would add staleness of the same kind as the gap
  before the write.
- Character classes, CIDR arithmetic and paths are reduced to what they decide
  (accepted or refused, inside or outside); captured output and exit codes beyond
  success and failure are not represented. In `AccessControl` an edit of a hook
  that touches none of dispatch configuration, `run_as_user` and owner changes
  nothing; what such an edit writes is in `HookRegistry`, where every caller may do
  what it asks.
- HMAC and the cipher are symbolic: a signature verifies under the secret and over
  the string it was made with, a sealed secret opens under its own key.
- Audit rows other than those of `delete_hook` are left out (of `delete_api_key`
  only that it writes no HOOK_DELETE row is kept): every handler writes
  its row last, outside a transaction, and only the listing reads it.
- The two deletions of a retention tick are one step. The first touches executions
  only, which no request of `HookRegistry` reads or writes except with their hook.
- A migration other than the uniqueness migration is one statement, and one that
  another replica has applied fails when it is repeated.
- In `HookRegistry` any hook may be in the inventory of a deleted key: whose it is
  is in `AccessControl`, which has the whole of `delete_api_key`. Reassignments
  change an owner only and are there too.
- Ids are never reused, as UUIDs are not.
- Not modelled: probes, settings and listings, which change no state; extractors
  and error rendering; the routing tables; the dashboard, a browser client. Of the
  configuration only the refusals of the start are; the lenient overrides fall back
  to defaults and are constants of the models. `PROJECT.json` gives the reason for
  each.

## 7. Plan

Every part of the daemon that changes state is in a module, and every safety
property of the runs is proved. What is left:

1. `AccessControl`: what survives of the sequential properties when requests
   overlap, stated with the racing request named, as `SecretKept` does for hooks.
2. `HookExecution`: the budget of a key whose limit was edited, as the sum over
   its semaphores.
3. `ReplayGuard`: the bound on the size of the map that the capacity backoff keeps.
