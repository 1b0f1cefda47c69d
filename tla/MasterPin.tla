------------------------------ MODULE MasterPin ------------------------------
(* The start of a daemon process and what it decides there for its whole      *)
(* life: who the Master is.  Replicas start, crash and restart against one    *)
(* database, whose schema they migrate and in which one of them mints the     *)
(* master key; someone with direct access to the database edits is_master     *)
(* behind their backs.  Source: main.rs, master.rs, db.rs, the migrations,    *)
(* SecretCipher::from_env and the start-up half of config.rs.                 *)
EXTENDS Integers, FiniteSets

CONSTANTS
    Replicas,
    OldKeys,           \* rows an upgraded database may already hold
    MaxKey,            \* bound on the ids of rows
    Envs,              \* the environments a process may be started with
    Migrations,        \* how many migrations Migrator lists
    Uniqueness,        \* the position of m20230106_090000_master_key_uniqueness
    Consolidation,     \* the position of m20260819_141730_consolidate_hmac_modes
    MaxBoots,          \* bound on process starts
    MaxEdits           \* bound on direct edits of the database

NoKey == 0
Keys == 1..MaxKey

(* What INITIAL_MASTER_KEY may hold, as validate_initial_master_key sees it. *)
RawMasterKeys == {"unset", "empty", "nonhex", "short", "hex"}

NoEnv == [proxies |-> TRUE, initial |-> "unset", cipher |-> TRUE]

ASSUME BootAssumption ==
    /\ MaxKey \in Nat
    /\ \E n \in 0..MaxKey : OldKeys = 1..n
    /\ Envs \subseteq [proxies : BOOLEAN, initial : RawMasterKeys, cipher : BOOLEAN]
    /\ Migrations \in Nat
    /\ Uniqueness \in 1..Migrations
    /\ Consolidation \in (Uniqueness + 1)..Migrations
    /\ MaxBoots \in Nat
    /\ MaxEdits \in Nat

VARIABLES
    applied,           \* the migrations seaql_migrations records, as a count
    marker,            \* the column master_marker exists
    index,             \* its unique index exists
    rows,              \* the rows of api_keys
    masters,           \* those with is_master
    legacy,            \* those whose hmac_mode is still BODY_ONLY
    fixed,             \* those minted from the value of INITIAL_MASTER_KEY
    nextId,            \* the next fresh row id
    pc,                \* how far each process has got
    env,               \* what it was started with
    next,              \* the next migration on the list it computed
    minted,            \* the row it inserted
    pin,               \* MasterPin.cell
    acting,            \* history: the keys it has treated as Master
    announced,         \* history: the rows whose key was printed or handed over
    lost,              \* history: a process died between minting and printing
    boots, edits       \* bounded counters

database == <<applied, marker, index, rows, masters, legacy, fixed, nextId>>
process == <<env, next, minted, pin, acting>>
history == <<announced, lost, boots, edits>>
vars == <<database, pc, process, history>>

Booting == {"connect", "pending", "migrate", "index", "cipher", "select",
            "insert", "banner", "check", "resolve", "bind"}

(* A malformed TRUSTED_PROXIES or INITIAL_MASTER_KEY is refused first of all. *)
InitialAccepted(raw) == raw \in {"unset", "hex"}
ConfigAccepted(e) == e.proxies /\ InitialAccepted(e.initial)

-----------------------------------------------------------------------------
(* A database of any earlier release, or none.  Before the uniqueness         *)
(* migration it may hold several masters, before the consolidation BODY_ONLY  *)
(* keys.                                                                      *)
Init ==
    /\ applied \in 0..Migrations
    /\ rows \in (IF applied = 0 THEN {{}} ELSE {{}, OldKeys})
    /\ masters \in SUBSET rows
    /\ applied >= Uniqueness => Cardinality(masters) <= 1
    /\ legacy \in (IF applied < Consolidation THEN SUBSET (rows \ masters) ELSE {{}})
    /\ marker = (applied >= Uniqueness)
    /\ index = (applied >= Uniqueness)
    /\ fixed = {}
    /\ nextId = Cardinality(OldKeys) + 1
    /\ pc = [r \in Replicas |-> "down"]
    /\ env = [r \in Replicas |-> NoEnv]
    /\ next = [r \in Replicas |-> 0]
    /\ minted = [r \in Replicas |-> NoKey]
    /\ pin = [r \in Replicas |-> NoKey]
    /\ acting = [r \in Replicas |-> {}]
    /\ announced = masters
    /\ lost = FALSE
    /\ boots = 0
    /\ edits = 0

Advance(r, to) == pc' = [pc EXCEPT ![r] = to]

(* The process ends: main returns an error, or exits. *)
End(r) ==
    /\ pc' = [pc EXCEPT ![r] = "down"]
    /\ env' = [env EXCEPT ![r] = NoEnv]
    /\ next' = [next EXCEPT ![r] = 0]
    /\ pin' = [pin EXCEPT ![r] = NoKey]
    /\ minted' = [minted EXCEPT ![r] = NoKey]
    /\ acting' = [acting EXCEPT ![r] = {}]

(* RuntimeConfig::from_env and validate_initial_master_key, before anything   *)
(* is opened.                                                                 *)
Start(r, e) ==
    /\ pc[r] = "down"
    /\ boots < MaxBoots
    /\ boots' = boots + 1
    /\ IF ConfigAccepted(e)
       THEN /\ Advance(r, "connect")
            /\ env' = [env EXCEPT ![r] = e]
            /\ UNCHANGED <<next, minted, pin, acting>>
       ELSE End(r)
    /\ UNCHANGED <<database, announced, lost, edits>>

(* db::connect, and the pragmas, which are never fatal. *)
Connect(r) ==
    /\ pc[r] = "connect"
    /\ Advance(r, "pending")
    /\ UNCHANGED <<database, process, history>>

(* Migrator::up computes the list of pending migrations once. *)
Pending(r) ==
    /\ pc[r] = "pending"
    /\ Advance(r, "migrate")
    /\ next' = [next EXCEPT ![r] = applied + 1]
    /\ UNCHANGED <<database, env, minted, pin, acting, history>>

(* mutant: the last migration is taken for an end marker *)
MigratedButOne(r) ==
    /\ pc[r] = "migrate"
    /\ next[r] >= Migrations
    /\ Advance(r, "cipher")
    /\ UNCHANGED <<database, process, history>>

Migrated(r) ==
    /\ pc[r] = "migrate"
    /\ next[r] > Migrations
    /\ Advance(r, "cipher")
    /\ next' = [next EXCEPT ![r] = 0]
    /\ UNCHANGED <<database, env, minted, pin, acting, history>>

(* mutant: a replica waits for the other's migration instead of failing *)
MigrateOrWait(r) ==
    /\ pc[r] = "migrate"
    /\ next[r] <= Migrations
    /\ next[r] # Uniqueness
    /\ applied + 1 = next[r]
    /\ applied' = next[r]
    /\ legacy' = IF next[r] = Consolidation THEN {} ELSE legacy
    /\ Advance(r, "migrate")
    /\ next' = [next EXCEPT ![r] = @ + 1]
    /\ UNCHANGED <<env, minted, pin, acting, marker, index, rows, masters, fixed, nextId, history>>

(* mutant: the list is walked one past its end *)
MigratePastEnd(r) ==
    /\ pc[r] = "migrate"
    /\ next[r] <= Migrations + 1
    /\ next[r] # Uniqueness
    /\ applied + 1 = next[r]
    /\ applied' = next[r]
    /\ legacy' = IF next[r] = Consolidation THEN {} ELSE legacy
    /\ Advance(r, "migrate")
    /\ next' = [next EXCEPT ![r] = @ + 1]
    /\ UNCHANGED <<env, minted, pin, acting, marker, index, rows, masters, fixed, nextId, history>>

(* The other migrations, each one statement here.  A replica whose list is    *)
(* out of date repeats what another has done, and the engine refuses it.      *)
Migrate(r) ==
    /\ pc[r] = "migrate"
    /\ next[r] <= Migrations
    /\ next[r] # Uniqueness
    /\ IF applied + 1 = next[r]
       THEN /\ applied' = next[r]
            /\ legacy' = IF next[r] = Consolidation THEN {} ELSE legacy
            /\ Advance(r, "migrate")
            /\ next' = [next EXCEPT ![r] = @ + 1]
            /\ UNCHANGED <<env, minted, pin, acting>>
       ELSE /\ End(r)
            /\ UNCHANGED <<applied, legacy>>
    /\ UNCHANGED <<marker, index, rows, masters, fixed, nextId, history>>

(* The uniqueness migration's first statement: the derived marker column. *)
AddMarker(r) ==
    /\ pc[r] = "migrate"
    /\ next[r] = Uniqueness
    /\ IF marker
       THEN End(r) /\ UNCHANGED marker
       ELSE /\ marker' = TRUE
            /\ Advance(r, "index")
            /\ UNCHANGED <<env, next, minted, pin, acting>>
    /\ UNCHANGED <<applied, index, rows, masters, legacy, fixed, nextId, history>>

(* Its second: the unique index, which a database with two masters refuses. *)
CreateIndex(r) ==
    /\ pc[r] = "index"
    /\ IF index \/ Cardinality(masters) > 1
       THEN End(r) /\ UNCHANGED <<applied, index>>
       ELSE /\ index' = TRUE
            /\ applied' = next[r]
            /\ Advance(r, "migrate")
            /\ next' = [next EXCEPT ![r] = @ + 1]
            /\ UNCHANGED <<env, minted, pin, acting>>
    /\ UNCHANGED <<marker, rows, masters, legacy, fixed, nextId, history>>

(* SecretCipher::from_env: a malformed SIGNING_SECRET_KEY stops the boot. *)
BuildCipher(r) ==
    /\ pc[r] = "cipher"
    /\ IF env[r].cipher
       THEN Advance(r, "select") /\ UNCHANGED process
       ELSE End(r)
    /\ UNCHANGED <<database, history>>

(* bootstrap_master_key: is there a row with is_master? *)
SelectMaster(r) ==
    /\ pc[r] = "select"
    /\ Advance(r, IF masters = {} THEN "insert" ELSE "check")
    /\ UNCHANGED <<database, process, history>>

(* The unique columns of api_keys: master_marker, and key_hash, where two     *)
(* processes given one INITIAL_MASTER_KEY collide.                            *)
Conflict(r) ==
    \/ index /\ masters # {}
    \/ env[r].initial = "hex" /\ fixed # {}

(* mutant: a refused insert is taken for somebody else's success *)
InsertOrIgnore(r) ==
    /\ pc[r] = "insert"
    /\ nextId <= MaxKey
    /\ rows' = IF Conflict(r) THEN rows ELSE rows \cup {nextId}
    /\ masters' = IF Conflict(r) THEN masters ELSE masters \cup {nextId}
    /\ fixed' = IF env[r].initial = "hex" /\ ~Conflict(r) THEN fixed \cup {nextId} ELSE fixed
    /\ nextId' = nextId + 1
    /\ minted' = [minted EXCEPT ![r] = nextId]
    /\ Advance(r, "banner")
    /\ UNCHANGED <<env, next, pin, acting, applied, marker, index, legacy, history>>

Insert(r) ==
    /\ pc[r] = "insert"
    /\ IF Conflict(r)
       THEN /\ End(r)
            /\ UNCHANGED <<rows, masters, fixed, nextId>>
       ELSE /\ nextId <= MaxKey
            /\ rows' = rows \cup {nextId}
            /\ masters' = masters \cup {nextId}
            /\ fixed' = IF env[r].initial = "hex" THEN fixed \cup {nextId} ELSE fixed
            /\ nextId' = nextId + 1
            /\ minted' = [minted EXCEPT ![r] = nextId]
            /\ Advance(r, "banner")
            /\ UNCHANGED <<env, next, pin, acting>>
    /\ UNCHANGED <<applied, marker, index, legacy, history>>

(* The key is shown once, after the row is stored. *)
Banner(r) ==
    /\ pc[r] = "banner"
    /\ announced' = announced \cup {minted[r]}
    /\ minted' = [minted EXCEPT ![r] = NoKey]
    /\ Advance(r, "check")
    /\ UNCHANGED <<database, env, next, pin, acting, lost, boots, edits>>

(* pin_at_boot: first the index, by name. *)
CheckIndex(r) ==
    /\ pc[r] = "check"
    /\ IF index
       THEN Advance(r, "resolve") /\ UNCHANGED process
       ELSE End(r)
    /\ UNCHANGED <<database, history>>

(* resolve_inner: the sole master, or none. *)
SoleMaster == IF Cardinality(masters) = 1 THEN CHOOSE k \in masters : TRUE ELSE NoKey

PinAtBoot(r) ==
    /\ pc[r] = "resolve"
    /\ IF SoleMaster # NoKey
       THEN /\ pin' = [pin EXCEPT ![r] = SoleMaster]
            /\ Advance(r, "bind")
            /\ UNCHANGED <<env, next, minted, acting>>
       ELSE End(r)
    /\ UNCHANGED <<database, history>>

(* The retention worker is spawned and the listener bound. *)
Bind(r) ==
    /\ pc[r] = "bind"
    /\ Advance(r, "serving")
    /\ UNCHANGED <<database, process, history>>

(* A statement fails, the address is taken, or the process is killed.  Half   *)
(* of the uniqueness migration may stay or be rolled back with the process.   *)
Die(r, rolledBack) ==
    /\ pc[r] # "down"
    /\ End(r)
    /\ marker' = (marker /\ ~(rolledBack /\ pc[r] = "index"))
    /\ lost' = (lost \/ pc[r] = "banner")
    /\ UNCHANGED <<applied, index, rows, masters, legacy, fixed, nextId,
                   announced, boots, edits>>

(* SIGTERM or Ctrl-C: the server drains and the retention worker is joined. *)
ShutDown(r) ==
    /\ pc[r] = "serving"
    /\ End(r)
    /\ UNCHANGED <<database, history>>

(* MasterPin::resolve: the cell once it is set, the sole master until then. *)
Pinned(r) == IF pin[r] # NoKey THEN pin[r] ELSE SoleMaster

(* mutant: is_master of the row is believed *)
AuthenticateByRow(r, k) ==
    /\ pc[r] = "serving"
    /\ k \in masters
    /\ pin' = [pin EXCEPT ![r] = Pinned(r)]
    /\ acting' = [acting EXCEPT ![r] = @ \cup {k}]
    /\ UNCHANGED <<database, pc, env, next, minted, history>>

(* mutant: the master is resolved again for every request *)
AuthenticateFresh(r, k) ==
    /\ pc[r] = "serving"
    /\ k \in masters
    /\ pin' = [pin EXCEPT ![r] = IF SoleMaster # NoKey THEN SoleMaster ELSE @]
    /\ acting' = [acting EXCEPT ![r] = IF pin'[r] = k THEN @ \cup {k} ELSE @]
    /\ UNCHANGED <<database, pc, env, next, minted, history>>

(* A request presents a key whose row says is_master: it acts as Master only  *)
(* if it is the pinned one, and is an ordinary key otherwise.                 *)
Authenticate(r, k) ==
    /\ pc[r] = "serving"
    /\ k \in masters
    /\ pin' = [pin EXCEPT ![r] = Pinned(r)]
    /\ acting' = [acting EXCEPT ![r] = IF Pinned(r) = k THEN @ \cup {k} ELSE @]
    /\ UNCHANGED <<database, pc, env, next, minted, history>>

-----------------------------------------------------------------------------
(* Whoever holds the database can write what no endpoint can.  The unique     *)
(* index binds them too, until they drop it.                                  *)
Edit(kept, flagged, indexed) ==
    /\ edits < MaxEdits
    /\ edits' = edits + 1
    /\ index' = indexed
    /\ indexed => Cardinality(flagged) <= 1
    /\ rows' = kept
    /\ masters' = flagged
    /\ legacy' = legacy \cap kept
    /\ fixed' = fixed \cap kept
    /\ UNCHANGED <<applied, marker, nextId, pc, process, announced, lost, boots>>

Promote(k) == k \in rows \ masters /\ Edit(rows, masters \cup {k}, index)
Demote(k) == k \in masters /\ Edit(rows, masters \ {k}, index)
DeleteRow(k) == k \in masters /\ Edit(rows \ {k}, masters \ {k}, index)
DropIndex == index /\ Edit(rows, masters, FALSE)

BootStep(r) ==
    \/ Connect(r) \/ Pending(r) \/ Migrated(r) \/ Migrate(r) \/ AddMarker(r)
    \/ CreateIndex(r) \/ BuildCipher(r) \/ SelectMaster(r) \/ Insert(r)
    \/ Banner(r) \/ CheckIndex(r) \/ PinAtBoot(r) \/ Bind(r)

Next ==
    \/ \E r \in Replicas :
        \/ \E e \in Envs : Start(r, e)
        \/ BootStep(r)
        \/ ShutDown(r)
        \/ \E b \in BOOLEAN : Die(r, b)
        \/ \E k \in Keys : Authenticate(r, k)
    \/ \E k \in Keys : Promote(k) \/ Demote(k) \/ DeleteRow(k)
    \/ DropIndex

Spec == Init /\ [][Next]_vars

(* A process that has started runs its start-up code: main awaits one thing   *)
(* after another, and nothing else of it runs before it serves.               *)
FairSpec == Spec /\ \A r \in Replicas : WF_vars(BootStep(r))

-----------------------------------------------------------------------------
TypeOK ==
    /\ applied \in 0..Migrations
    /\ marker \in BOOLEAN
    /\ index \in BOOLEAN
    /\ rows \subseteq Keys
    /\ masters \subseteq rows
    /\ legacy \subseteq rows
    /\ fixed \subseteq rows
    /\ nextId \in 1..(MaxKey + 1)
    /\ pc \in [Replicas -> Booting \cup {"down", "serving"}]
    /\ env \in [Replicas -> Envs \cup {NoEnv}]
    /\ next \in [Replicas -> 0..(Migrations + 1)]
    /\ minted \in [Replicas -> Keys \cup {NoKey}]
    /\ pin \in [Replicas -> Keys \cup {NoKey}]
    /\ acting \in [Replicas -> SUBSET Keys]
    /\ announced \subseteq Keys
    /\ lost \in BOOLEAN
    /\ boots \in 0..MaxBoots
    /\ edits \in 0..MaxEdits

(* Through promotions, demotions and deletions under its feet, a process      *)
(* never treats two different keys as Master in its lifetime.  Two processes  *)
(* disagree on who it is only if somebody edited the database.                *)
OneActsAsMaster ==
    /\ \A r \in Replicas : acting[r] \subseteq {pin[r]}
    /\ edits = 0 => \A r, s \in Replicas : acting[r] # {} /\ acting[s] # {} => acting[r] = acting[s]

(* What a process prints as the master key is a stored master, unless it was  *)
(* edited since; and the master is a key somebody was told, unless a process  *)
(* died after storing it and before printing it.                              *)
AnnouncedIsMaster ==
    edits = 0 =>
        /\ announced \subseteq masters
        /\ ~lost => masters \subseteq announced \cup {minted[r] : r \in {s \in Replicas : pc[s] = "banner"}}

(* A process serves requests only on the complete schema, with a pin, and     *)
(* with no key left in the retired mode its release cannot read.              *)
ServesMigrated ==
    \A r \in Replicas :
        pc[r] = "serving" => applied = Migrations /\ legacy = {} /\ pin[r] # NoKey

(* The Master of a process is settled once: no request and no edit moves it.  *)
PinSettled ==
    [][\A r \in Replicas :
        pin[r] # NoKey /\ pin'[r] # pin[r] => pc'[r] = "down"]_vars

(* Every start comes to an end: the process serves or is gone, also when two  *)
(* of them migrate and mint at once.                                          *)
BootEnds == \A r \in Replicas : pc[r] = "connect" ~> pc[r] \in {"serving", "down"}
=============================================================================
