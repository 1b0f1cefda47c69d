-------------------------- MODULE MasterPin_proofs --------------------------
(* The safety of MasterPin for every number of replicas, migrations, rows,    *)
(* starts and edits: type correctness, one identity per process, what is      *)
(* announced, and what is served.                                             *)
EXTENDS MasterPin, FiniteSetTheorems, TLAPS

-----------------------------------------------------------------------------
(* The inductive invariant.  The properties talk about processes that serve;  *)
(* it adds what the steps before that have established.                       *)

(* A list of pending migrations is never ahead of the table it was read from, *)
(* and between its two statements the uniqueness migration is the next one.   *)
Lists ==
    \A r \in Replicas :
        /\ pc[r] \in {"migrate", "index"} => next[r] \in 1..(applied + 1)
        /\ pc[r] = "index" => next[r] = Uniqueness /\ marker /\ applied = Uniqueness - 1

(* Only one replica is between those statements, as the column is there.      *)
Alone == \A r, s \in Replicas : pc[r] = "index" /\ pc[s] = "index" => r = s

Schema ==
    /\ ~marker => applied < Uniqueness
    /\ applied >= Consolidation => legacy = {}

AfterMigrations == {"cipher", "select", "insert", "banner", "check", "resolve", "bind", "serving"}

(* How far a process has got tells what holds. *)
Reached ==
    \A r \in Replicas :
        /\ pc[r] \in AfterMigrations => applied = Migrations
        /\ pc[r] = "banner" => minted[r] \in Keys
        /\ pin[r] # NoKey <=> pc[r] \in {"bind", "serving"}
        /\ acting[r] \subseteq {pin[r]}

(* As long as nobody edits the database, a minted key stays the master, the   *)
(* index stays where it was seen, and every pin is the one master.            *)
Unedited ==
    edits = 0 =>
        \A r \in Replicas :
            /\ pc[r] = "banner" => minted[r] \in masters
            /\ pc[r] = "resolve" => index
            /\ pin[r] # NoKey => index /\ masters = {pin[r]}

IInv ==
    /\ TypeOK
    /\ Lists
    /\ Alone
    /\ Schema
    /\ Reached
    /\ Unedited
    /\ AnnouncedIsMaster

-----------------------------------------------------------------------------
(* Facts about the constants, rows and sets of masters.                       *)

LEMMA Bounds ==
    /\ MaxKey \in Nat
    /\ Migrations \in Nat
    /\ Uniqueness \in 1..Migrations
    /\ Consolidation \in (Uniqueness + 1)..Migrations
    /\ MaxBoots \in Nat
    /\ MaxEdits \in Nat
BY BootAssumption

LEMMA KeysTyped == NoKey \notin Keys /\ (\A n \in Nat : n \in Keys <=> n \in 1..MaxKey)
BY Bounds DEF Keys, NoKey

LEMMA MastersFinite ==
    ASSUME TypeOK
    PROVE  IsFiniteSet(masters) /\ Cardinality(masters) \in Nat
<1>1. masters \subseteq Keys
  BY DEF TypeOK
<1>2. IsFiniteSet(Keys)
  BY Bounds, FS_Interval DEF Keys
<1>3. IsFiniteSet(masters)
  BY <1>1, <1>2, FS_Subset
<1> QED
  BY <1>3, FS_CardinalityType

(* What resolve_inner finds is the only master. *)
LEMMA SoleMasterType ==
    ASSUME TypeOK
    PROVE  /\ SoleMaster \in Keys \cup {NoKey}
           /\ SoleMaster # NoKey => masters = {SoleMaster}
<1>1. CASE Cardinality(masters) = 1
  <2>1. masters \subseteq Keys
    BY DEF TypeOK
  <2>2. PICK k : masters = {k}
    BY <1>1, MastersFinite, FS_Singleton
  <2> QED
    BY <1>1, <2>1, <2>2 DEF SoleMaster
<1>2. CASE Cardinality(masters) # 1
  BY <1>2 DEF SoleMaster
<1> QED
  BY <1>1, <1>2

-----------------------------------------------------------------------------
(* The boot, step by step.                                                    *)

(* A process starts, or its environment is refused. *)
LEMMA StartKeeps ==
    ASSUME IInv, NEW r \in Replicas, NEW e \in Envs, Start(r, e)
    PROVE  IInv'
<1>1. TypeOK'
  BY Bounds, KeysTyped DEF IInv, TypeOK, Booting, Lists, Reached, Start, Advance, End, database, process, history
<1>2. Lists'
  BY Bounds, KeysTyped DEF IInv, TypeOK, Lists, Alone, Schema, Start, Advance, End, database, process, history
<1>3. Alone'
  BY Bounds, KeysTyped DEF IInv, TypeOK, Alone, Lists, Start, Advance, End, database, process, history
<1>4. Schema'
  BY Bounds, KeysTyped DEF IInv, TypeOK, Schema, Lists, Start, Advance, End, database, process, history
<1>5. Reached'
  BY Bounds, KeysTyped DEF IInv, TypeOK, Reached, Lists, AfterMigrations, Start, Advance, End, database, process, history
<1>6. Unedited'
  BY Bounds, KeysTyped DEF IInv, TypeOK, Unedited, Reached, AfterMigrations, Start, Advance, End, database, process, history
<1>7. AnnouncedIsMaster'
  BY Bounds, KeysTyped DEF IInv, TypeOK, Unedited, AnnouncedIsMaster, Start, Advance, End, database, process, history
<1> QED
  BY <1>1, <1>2, <1>3, <1>4, <1>5, <1>6, <1>7 DEF IInv

(* The database is opened. *)
LEMMA ConnectKeeps ==
    ASSUME IInv, NEW r \in Replicas, Connect(r)
    PROVE  IInv'
<1>1. TypeOK'
  BY Bounds, KeysTyped DEF IInv, TypeOK, Booting, Lists, Reached, Connect, Advance, End, database, process, history
<1>2. Lists'
  BY Bounds, KeysTyped DEF IInv, TypeOK, Lists, Alone, Schema, Connect, Advance, End, database, process, history
<1>3. Alone'
  BY Bounds, KeysTyped DEF IInv, TypeOK, Alone, Lists, Connect, Advance, End, database, process, history
<1>4. Schema'
  BY Bounds, KeysTyped DEF IInv, TypeOK, Schema, Lists, Connect, Advance, End, database, process, history
<1>5. Reached'
  BY Bounds, KeysTyped DEF IInv, TypeOK, Reached, Lists, AfterMigrations, Connect, Advance, End, database, process, history
<1>6. Unedited'
  BY Bounds, KeysTyped DEF IInv, TypeOK, Unedited, Reached, AfterMigrations, Connect, Advance, End, database, process, history
<1>7. AnnouncedIsMaster'
  BY Bounds, KeysTyped DEF IInv, TypeOK, Unedited, AnnouncedIsMaster, Connect, Advance, End, database, process, history
<1> QED
  BY <1>1, <1>2, <1>3, <1>4, <1>5, <1>6, <1>7 DEF IInv

(* The list of pending migrations is computed. *)
LEMMA PendingKeeps ==
    ASSUME IInv, NEW r \in Replicas, Pending(r)
    PROVE  IInv'
<1>1. TypeOK'
  BY Bounds, KeysTyped DEF IInv, TypeOK, Booting, Lists, Reached, Pending, Advance, End, database, process, history
<1>2. Lists'
  BY Bounds, KeysTyped DEF IInv, TypeOK, Lists, Alone, Schema, Pending, Advance, End, database, process, history
<1>3. Alone'
  BY Bounds, KeysTyped DEF IInv, TypeOK, Alone, Lists, Pending, Advance, End, database, process, history
<1>4. Schema'
  BY Bounds, KeysTyped DEF IInv, TypeOK, Schema, Lists, Pending, Advance, End, database, process, history
<1>5. Reached'
  BY Bounds, KeysTyped DEF IInv, TypeOK, Reached, Lists, AfterMigrations, Pending, Advance, End, database, process, history
<1>6. Unedited'
  BY Bounds, KeysTyped DEF IInv, TypeOK, Unedited, Reached, AfterMigrations, Pending, Advance, End, database, process, history
<1>7. AnnouncedIsMaster'
  BY Bounds, KeysTyped DEF IInv, TypeOK, Unedited, AnnouncedIsMaster, Pending, Advance, End, database, process, history
<1> QED
  BY <1>1, <1>2, <1>3, <1>4, <1>5, <1>6, <1>7 DEF IInv

(* The list is done. *)
LEMMA MigratedKeeps ==
    ASSUME IInv, NEW r \in Replicas, Migrated(r)
    PROVE  IInv'
<1>1. TypeOK'
  BY Bounds, KeysTyped DEF IInv, TypeOK, Booting, Lists, Reached, Migrated, Advance, End, database, process, history
<1>2. Lists'
  BY Bounds, KeysTyped DEF IInv, TypeOK, Lists, Alone, Schema, Migrated, Advance, End, database, process, history
<1>3. Alone'
  BY Bounds, KeysTyped DEF IInv, TypeOK, Alone, Lists, Migrated, Advance, End, database, process, history
<1>4. Schema'
  BY Bounds, KeysTyped DEF IInv, TypeOK, Schema, Lists, Migrated, Advance, End, database, process, history
<1>5. Reached'
  BY Bounds, KeysTyped DEF IInv, TypeOK, Reached, Lists, AfterMigrations, Migrated, Advance, End, database, process, history
<1>6. Unedited'
  BY Bounds, KeysTyped DEF IInv, TypeOK, Unedited, Reached, AfterMigrations, Migrated, Advance, End, database, process, history
<1>7. AnnouncedIsMaster'
  BY Bounds, KeysTyped DEF IInv, TypeOK, Unedited, AnnouncedIsMaster, Migrated, Advance, End, database, process, history
<1> QED
  BY <1>1, <1>2, <1>3, <1>4, <1>5, <1>6, <1>7 DEF IInv

(* One of the ordinary migrations. *)
LEMMA MigrateKeeps ==
    ASSUME IInv, NEW r \in Replicas, Migrate(r)
    PROVE  IInv'
<1>1. TypeOK'
  BY Bounds, KeysTyped DEF IInv, TypeOK, Booting, Lists, Reached, Migrate, Advance, End, database, process, history
<1>2. Lists'
  BY Bounds, KeysTyped DEF IInv, TypeOK, Lists, Alone, Schema, Migrate, Advance, End, database, process, history
<1>3. Alone'
  BY Bounds, KeysTyped DEF IInv, TypeOK, Alone, Lists, Migrate, Advance, End, database, process, history
<1>4. Schema'
  BY Bounds, KeysTyped DEF IInv, TypeOK, Schema, Lists, Migrate, Advance, End, database, process, history
<1>5. Reached'
  BY Bounds, KeysTyped DEF IInv, TypeOK, Reached, Lists, AfterMigrations, Migrate, Advance, End, database, process, history
<1>6. Unedited'
  BY Bounds, KeysTyped DEF IInv, TypeOK, Unedited, Reached, AfterMigrations, Migrate, Advance, End, database, process, history
<1>7. AnnouncedIsMaster'
  BY Bounds, KeysTyped DEF IInv, TypeOK, Unedited, AnnouncedIsMaster, Migrate, Advance, End, database, process, history
<1> QED
  BY <1>1, <1>2, <1>3, <1>4, <1>5, <1>6, <1>7 DEF IInv

(* The first statement of the uniqueness migration. *)
LEMMA AddMarkerKeeps ==
    ASSUME IInv, NEW r \in Replicas, AddMarker(r)
    PROVE  IInv'
<1>1. TypeOK'
  <2>1. CASE marker
    BY <2>1, Bounds, KeysTyped DEF IInv, TypeOK, Booting, Lists, Reached, AddMarker, Advance, End, database, process, history
  <2>2. CASE ~(marker)
    BY <2>2, Bounds, KeysTyped DEF IInv, TypeOK, Booting, Lists, Reached, AddMarker, Advance, End, database, process, history
  <2> QED
    BY <2>1, <2>2
<1>2. Lists'
  BY Bounds, KeysTyped DEF IInv, TypeOK, Lists, Alone, Schema, AddMarker, Advance, End, database, process, history
<1>3. Alone'
  BY Bounds, KeysTyped DEF IInv, TypeOK, Alone, Lists, AddMarker, Advance, End, database, process, history
<1>4. Schema'
  BY Bounds, KeysTyped DEF IInv, TypeOK, Schema, Lists, AddMarker, Advance, End, database, process, history
<1>5. Reached'
  BY Bounds, KeysTyped DEF IInv, TypeOK, Reached, Lists, AfterMigrations, AddMarker, Advance, End, database, process, history
<1>6. Unedited'
  BY Bounds, KeysTyped DEF IInv, TypeOK, Unedited, Reached, AfterMigrations, AddMarker, Advance, End, database, process, history
<1>7. AnnouncedIsMaster'
  BY Bounds, KeysTyped DEF IInv, TypeOK, Unedited, AnnouncedIsMaster, AddMarker, Advance, End, database, process, history
<1> QED
  BY <1>1, <1>2, <1>3, <1>4, <1>5, <1>6, <1>7 DEF IInv

(* Its second statement. *)
LEMMA CreateIndexKeeps ==
    ASSUME IInv, NEW r \in Replicas, CreateIndex(r)
    PROVE  IInv'
<1>1. TypeOK'
  <2>1. CASE index \/ Cardinality(masters) > 1
    BY <2>1, Bounds, KeysTyped DEF IInv, TypeOK, Booting, Lists, Reached, CreateIndex, Advance, End, database, process, history
  <2>2. CASE ~(index \/ Cardinality(masters) > 1)
    BY <2>2, Bounds, KeysTyped DEF IInv, TypeOK, Booting, Lists, Reached, CreateIndex, Advance, End, database, process, history
  <2> QED
    BY <2>1, <2>2
<1>2. Lists'
  <2>1. CASE index \/ Cardinality(masters) > 1
    BY <2>1, Bounds, KeysTyped DEF IInv, TypeOK, Lists, Alone, CreateIndex, Advance, End, database, process, history
  <2>2. CASE ~(index \/ Cardinality(masters) > 1)
    BY <2>2, Bounds, KeysTyped DEF IInv, TypeOK, Lists, Alone, CreateIndex, Advance, End, database, process, history
  <2> QED
    BY <2>1, <2>2
<1>3. Alone'
  BY Bounds, KeysTyped DEF IInv, TypeOK, Alone, Lists, CreateIndex, Advance, End, database, process, history
<1>4. Schema'
  <2>1. CASE index \/ Cardinality(masters) > 1
    BY <2>1, Bounds, KeysTyped DEF IInv, TypeOK, Lists, Schema, CreateIndex, Advance, End, database, process, history
  <2>2. CASE ~(index \/ Cardinality(masters) > 1)
    BY <2>2, Bounds, KeysTyped DEF IInv, TypeOK, Lists, Schema, CreateIndex, Advance, End, database, process, history
  <2> QED
    BY <2>1, <2>2
<1>5. Reached'
  BY Bounds, KeysTyped DEF IInv, TypeOK, Reached, Lists, AfterMigrations, CreateIndex, Advance, End, database, process, history
<1>6. Unedited'
  BY Bounds, KeysTyped DEF IInv, TypeOK, Unedited, Reached, AfterMigrations, CreateIndex, Advance, End, database, process, history
<1>7. AnnouncedIsMaster'
  BY Bounds, KeysTyped DEF IInv, TypeOK, Unedited, AnnouncedIsMaster, CreateIndex, Advance, End, database, process, history
<1> QED
  BY <1>1, <1>2, <1>3, <1>4, <1>5, <1>6, <1>7 DEF IInv

(* The cipher is built. *)
LEMMA BuildCipherKeeps ==
    ASSUME IInv, NEW r \in Replicas, BuildCipher(r)
    PROVE  IInv'
<1>1. TypeOK'
  BY Bounds, KeysTyped DEF IInv, TypeOK, Booting, Lists, Reached, BuildCipher, Advance, End, database, process, history
<1>2. Lists'
  BY Bounds, KeysTyped DEF IInv, TypeOK, Lists, Alone, Schema, BuildCipher, Advance, End, database, process, history
<1>3. Alone'
  BY Bounds, KeysTyped DEF IInv, TypeOK, Alone, Lists, BuildCipher, Advance, End, database, process, history
<1>4. Schema'
  BY Bounds, KeysTyped DEF IInv, TypeOK, Schema, Lists, BuildCipher, Advance, End, database, process, history
<1>5. Reached'
  BY Bounds, KeysTyped DEF IInv, TypeOK, Reached, Lists, AfterMigrations, BuildCipher, Advance, End, database, process, history
<1>6. Unedited'
  BY Bounds, KeysTyped DEF IInv, TypeOK, Unedited, Reached, AfterMigrations, BuildCipher, Advance, End, database, process, history
<1>7. AnnouncedIsMaster'
  BY Bounds, KeysTyped DEF IInv, TypeOK, Unedited, AnnouncedIsMaster, BuildCipher, Advance, End, database, process, history
<1> QED
  BY <1>1, <1>2, <1>3, <1>4, <1>5, <1>6, <1>7 DEF IInv

(* bootstrap_master_key looks for a master. *)
LEMMA SelectMasterKeeps ==
    ASSUME IInv, NEW r \in Replicas, SelectMaster(r)
    PROVE  IInv'
<1>1. TypeOK'
  BY Bounds, KeysTyped DEF IInv, TypeOK, Booting, Lists, Reached, SelectMaster, Advance, End, database, process, history
<1>2. Lists'
  BY Bounds, KeysTyped DEF IInv, TypeOK, Lists, Alone, Schema, SelectMaster, Advance, End, database, process, history
<1>3. Alone'
  BY Bounds, KeysTyped DEF IInv, TypeOK, Alone, Lists, SelectMaster, Advance, End, database, process, history
<1>4. Schema'
  BY Bounds, KeysTyped DEF IInv, TypeOK, Schema, Lists, SelectMaster, Advance, End, database, process, history
<1>5. Reached'
  BY Bounds, KeysTyped DEF IInv, TypeOK, Reached, Lists, AfterMigrations, SelectMaster, Advance, End, database, process, history
<1>6. Unedited'
  BY Bounds, KeysTyped DEF IInv, TypeOK, Unedited, Reached, AfterMigrations, SelectMaster, Advance, End, database, process, history
<1>7. AnnouncedIsMaster'
  BY Bounds, KeysTyped DEF IInv, TypeOK, Unedited, AnnouncedIsMaster, SelectMaster, Advance, End, database, process, history
<1> QED
  BY <1>1, <1>2, <1>3, <1>4, <1>5, <1>6, <1>7 DEF IInv

(* It mints one, unless a unique column refuses. *)
LEMMA InsertKeeps ==
    ASSUME IInv, NEW r \in Replicas, Insert(r)
    PROVE  IInv'
<1>1. TypeOK'
  BY Bounds, KeysTyped DEF IInv, TypeOK, Booting, Lists, Reached, Insert, Advance, End, database, process, history, Conflict
<1>2. Lists'
  BY Bounds, KeysTyped DEF IInv, TypeOK, Lists, Alone, Schema, Insert, Advance, End, database, process, history, Conflict
<1>3. Alone'
  BY Bounds, KeysTyped DEF IInv, TypeOK, Alone, Lists, Insert, Advance, End, database, process, history, Conflict
<1>4. Schema'
  BY Bounds, KeysTyped DEF IInv, TypeOK, Schema, Lists, Insert, Advance, End, database, process, history, Conflict
<1>5. Reached'
  BY Bounds, KeysTyped DEF IInv, TypeOK, Reached, Lists, AfterMigrations, Insert, Advance, End, database, process, history, Conflict
<1>6. Unedited'
  BY Bounds, KeysTyped DEF IInv, TypeOK, Unedited, Reached, AfterMigrations, Insert, Advance, End, database, process, history, Conflict
<1>7. AnnouncedIsMaster'
  BY Bounds, KeysTyped DEF IInv, TypeOK, Unedited, AnnouncedIsMaster, Insert, Advance, End, database, process, history, Conflict
<1> QED
  BY <1>1, <1>2, <1>3, <1>4, <1>5, <1>6, <1>7 DEF IInv

(* The key is shown. *)
LEMMA BannerKeeps ==
    ASSUME IInv, NEW r \in Replicas, Banner(r)
    PROVE  IInv'
<1>1. TypeOK'
  BY Bounds, KeysTyped DEF IInv, TypeOK, Booting, Lists, Reached, Banner, Advance, End, database, process, history
<1>2. Lists'
  BY Bounds, KeysTyped DEF IInv, TypeOK, Lists, Alone, Schema, Banner, Advance, End, database, process, history
<1>3. Alone'
  BY Bounds, KeysTyped DEF IInv, TypeOK, Alone, Lists, Banner, Advance, End, database, process, history
<1>4. Schema'
  BY Bounds, KeysTyped DEF IInv, TypeOK, Schema, Lists, Banner, Advance, End, database, process, history
<1>5. Reached'
  BY Bounds, KeysTyped DEF IInv, TypeOK, Reached, Lists, AfterMigrations, Banner, Advance, End, database, process, history
<1>6. Unedited'
  BY Bounds, KeysTyped DEF IInv, TypeOK, Unedited, Reached, AfterMigrations, Banner, Advance, End, database, process, history
<1>7. AnnouncedIsMaster'
  BY Bounds, KeysTyped DEF IInv, TypeOK, Unedited, AnnouncedIsMaster, Banner, Advance, End, database, process, history
<1> QED
  BY <1>1, <1>2, <1>3, <1>4, <1>5, <1>6, <1>7 DEF IInv

(* pin_at_boot finds the index. *)
LEMMA CheckIndexKeeps ==
    ASSUME IInv, NEW r \in Replicas, CheckIndex(r)
    PROVE  IInv'
<1>1. TypeOK'
  BY Bounds, KeysTyped DEF IInv, TypeOK, Booting, Lists, Reached, CheckIndex, Advance, End, database, process, history
<1>2. Lists'
  BY Bounds, KeysTyped DEF IInv, TypeOK, Lists, Alone, Schema, CheckIndex, Advance, End, database, process, history
<1>3. Alone'
  BY Bounds, KeysTyped DEF IInv, TypeOK, Alone, Lists, CheckIndex, Advance, End, database, process, history
<1>4. Schema'
  BY Bounds, KeysTyped DEF IInv, TypeOK, Schema, Lists, CheckIndex, Advance, End, database, process, history
<1>5. Reached'
  BY Bounds, KeysTyped DEF IInv, TypeOK, Reached, Lists, AfterMigrations, CheckIndex, Advance, End, database, process, history
<1>6. Unedited'
  BY Bounds, KeysTyped DEF IInv, TypeOK, Unedited, Reached, AfterMigrations, CheckIndex, Advance, End, database, process, history
<1>7. AnnouncedIsMaster'
  BY Bounds, KeysTyped DEF IInv, TypeOK, Unedited, AnnouncedIsMaster, CheckIndex, Advance, End, database, process, history
<1> QED
  BY <1>1, <1>2, <1>3, <1>4, <1>5, <1>6, <1>7 DEF IInv

(* It pins the sole master. *)
LEMMA PinAtBootKeeps ==
    ASSUME IInv, NEW r \in Replicas, PinAtBoot(r)
    PROVE  IInv'
<1>1. TypeOK'
  BY Bounds, KeysTyped, SoleMasterType DEF IInv, TypeOK, Booting, Lists, Reached, PinAtBoot, Advance, End, database, process, history
<1>2. Lists'
  BY Bounds, KeysTyped, SoleMasterType DEF IInv, TypeOK, Lists, Alone, Schema, PinAtBoot, Advance, End, database, process, history
<1>3. Alone'
  BY Bounds, KeysTyped, SoleMasterType DEF IInv, TypeOK, Alone, Lists, PinAtBoot, Advance, End, database, process, history
<1>4. Schema'
  BY Bounds, KeysTyped, SoleMasterType DEF IInv, TypeOK, Schema, Lists, PinAtBoot, Advance, End, database, process, history
<1>5. Reached'
  BY Bounds, KeysTyped, SoleMasterType DEF IInv, TypeOK, Reached, Lists, AfterMigrations, PinAtBoot, Advance, End, database, process, history
<1>6. Unedited'
  BY Bounds, KeysTyped, SoleMasterType DEF IInv, TypeOK, Unedited, Reached, AfterMigrations, PinAtBoot, Advance, End, database, process, history
<1>7. AnnouncedIsMaster'
  BY Bounds, KeysTyped, SoleMasterType DEF IInv, TypeOK, Unedited, AnnouncedIsMaster, PinAtBoot, Advance, End, database, process, history
<1> QED
  BY <1>1, <1>2, <1>3, <1>4, <1>5, <1>6, <1>7 DEF IInv

(* The listener is bound. *)
LEMMA BindKeeps ==
    ASSUME IInv, NEW r \in Replicas, Bind(r)
    PROVE  IInv'
<1>1. TypeOK'
  BY Bounds, KeysTyped DEF IInv, TypeOK, Booting, Lists, Reached, Bind, Advance, End, database, process, history
<1>2. Lists'
  BY Bounds, KeysTyped DEF IInv, TypeOK, Lists, Alone, Schema, Bind, Advance, End, database, process, history
<1>3. Alone'
  BY Bounds, KeysTyped DEF IInv, TypeOK, Alone, Lists, Bind, Advance, End, database, process, history
<1>4. Schema'
  BY Bounds, KeysTyped DEF IInv, TypeOK, Schema, Lists, Bind, Advance, End, database, process, history
<1>5. Reached'
  BY Bounds, KeysTyped DEF IInv, TypeOK, Reached, Lists, AfterMigrations, Bind, Advance, End, database, process, history
<1>6. Unedited'
  BY Bounds, KeysTyped DEF IInv, TypeOK, Unedited, Reached, AfterMigrations, Bind, Advance, End, database, process, history
<1>7. AnnouncedIsMaster'
  BY Bounds, KeysTyped DEF IInv, TypeOK, Unedited, AnnouncedIsMaster, Bind, Advance, End, database, process, history
<1> QED
  BY <1>1, <1>2, <1>3, <1>4, <1>5, <1>6, <1>7 DEF IInv

(* The process is told to stop. *)
LEMMA ShutDownKeeps ==
    ASSUME IInv, NEW r \in Replicas, ShutDown(r)
    PROVE  IInv'
<1>1. TypeOK'
  BY Bounds, KeysTyped DEF IInv, TypeOK, Booting, Lists, Reached, ShutDown, Advance, End, database, process, history
<1>2. Lists'
  BY Bounds, KeysTyped DEF IInv, TypeOK, Lists, Alone, Schema, ShutDown, Advance, End, database, process, history
<1>3. Alone'
  BY Bounds, KeysTyped DEF IInv, TypeOK, Alone, Lists, ShutDown, Advance, End, database, process, history
<1>4. Schema'
  BY Bounds, KeysTyped DEF IInv, TypeOK, Schema, Lists, ShutDown, Advance, End, database, process, history
<1>5. Reached'
  BY Bounds, KeysTyped DEF IInv, TypeOK, Reached, Lists, AfterMigrations, ShutDown, Advance, End, database, process, history
<1>6. Unedited'
  BY Bounds, KeysTyped DEF IInv, TypeOK, Unedited, Reached, AfterMigrations, ShutDown, Advance, End, database, process, history
<1>7. AnnouncedIsMaster'
  BY Bounds, KeysTyped DEF IInv, TypeOK, Unedited, AnnouncedIsMaster, ShutDown, Advance, End, database, process, history
<1> QED
  BY <1>1, <1>2, <1>3, <1>4, <1>5, <1>6, <1>7 DEF IInv

(* The process dies, with half a migration or without. *)
LEMMA DieKeeps ==
    ASSUME IInv, NEW r \in Replicas, NEW b \in BOOLEAN, Die(r, b)
    PROVE  IInv'
<1>1. TypeOK'
  BY Bounds, KeysTyped DEF IInv, TypeOK, Booting, Lists, Reached, Die, Advance, End, database, process, history
<1>2. Lists'
  BY Bounds, KeysTyped DEF IInv, TypeOK, Lists, Alone, Schema, Die, Advance, End, database, process, history
<1>3. Alone'
  BY Bounds, KeysTyped DEF IInv, TypeOK, Alone, Lists, Die, Advance, End, database, process, history
<1>4. Schema'
  BY Bounds, KeysTyped DEF IInv, TypeOK, Schema, Lists, Die, Advance, End, database, process, history
<1>5. Reached'
  BY Bounds, KeysTyped DEF IInv, TypeOK, Reached, Lists, AfterMigrations, Die, Advance, End, database, process, history
<1>6. Unedited'
  BY Bounds, KeysTyped DEF IInv, TypeOK, Unedited, Reached, AfterMigrations, Die, Advance, End, database, process, history
<1>7. AnnouncedIsMaster'
  BY Bounds, KeysTyped DEF IInv, TypeOK, Unedited, AnnouncedIsMaster, Die, Advance, End, database, process, history
<1> QED
  BY <1>1, <1>2, <1>3, <1>4, <1>5, <1>6, <1>7 DEF IInv

-----------------------------------------------------------------------------
(* Requests, and direct writes to the database.                               *)

(* A request presents a key whose row says is_master. *)
LEMMA AuthenticateKeeps ==
    ASSUME IInv, NEW r \in Replicas, NEW k \in Keys, Authenticate(r, k)
    PROVE  IInv'
<1>1. TypeOK'
  BY Bounds, KeysTyped DEF IInv, TypeOK, Booting, Lists, Reached, Authenticate, Pinned, Advance, End, database, process, history
<1>2. Lists'
  BY Bounds, KeysTyped DEF IInv, TypeOK, Lists, Alone, Schema, Authenticate, Pinned, Advance, End, database, process, history
<1>3. Alone'
  BY Bounds, KeysTyped DEF IInv, TypeOK, Alone, Lists, Authenticate, Pinned, Advance, End, database, process, history
<1>4. Schema'
  BY Bounds, KeysTyped DEF IInv, TypeOK, Schema, Lists, Authenticate, Pinned, Advance, End, database, process, history
<1>5. Reached'
  BY Bounds, KeysTyped DEF IInv, TypeOK, Reached, Lists, AfterMigrations, Authenticate, Pinned, Advance, End, database, process, history
<1>6. Unedited'
  BY Bounds, KeysTyped DEF IInv, TypeOK, Unedited, Reached, AfterMigrations, Authenticate, Pinned, Advance, End, database, process, history
<1>7. AnnouncedIsMaster'
  BY Bounds, KeysTyped DEF IInv, TypeOK, Unedited, AnnouncedIsMaster, Authenticate, Pinned, Advance, End, database, process, history
<1> QED
  BY <1>1, <1>2, <1>3, <1>4, <1>5, <1>6, <1>7 DEF IInv

(* Somebody with the database writes to api_keys, within its index. *)
LEMMA EditKeeps ==
    ASSUME IInv, NEW kept \in SUBSET rows, NEW flagged \in SUBSET kept, NEW indexed \in BOOLEAN, Edit(kept, flagged, indexed)
    PROVE  IInv'
<1>1. TypeOK'
  BY Bounds, KeysTyped DEF IInv, TypeOK, Booting, Lists, Reached, Edit, Advance, End, database, process, history
<1>2. Lists'
  BY Bounds, KeysTyped DEF IInv, TypeOK, Lists, Alone, Schema, Edit, Advance, End, database, process, history
<1>3. Alone'
  BY Bounds, KeysTyped DEF IInv, TypeOK, Alone, Lists, Edit, Advance, End, database, process, history
<1>4. Schema'
  BY Bounds, KeysTyped DEF IInv, TypeOK, Schema, Lists, Edit, Advance, End, database, process, history
<1>5. Reached'
  BY Bounds, KeysTyped DEF IInv, TypeOK, Reached, Lists, AfterMigrations, Edit, Advance, End, database, process, history
<1>6. Unedited'
  BY Bounds, KeysTyped DEF IInv, TypeOK, Unedited, Reached, AfterMigrations, Edit, Advance, End, database, process, history
<1>7. AnnouncedIsMaster'
  BY Bounds, KeysTyped DEF IInv, TypeOK, Unedited, AnnouncedIsMaster, Edit, Advance, End, database, process, history
<1> QED
  BY <1>1, <1>2, <1>3, <1>4, <1>5, <1>6, <1>7 DEF IInv

LEMMA DirectWritesKeep ==
    ASSUME IInv, NEW k \in Keys, Promote(k) \/ Demote(k) \/ DeleteRow(k)
    PROVE  IInv'
<1>1. masters \subseteq rows /\ index \in BOOLEAN
  BY DEF IInv, TypeOK
<1>2. CASE Promote(k)
  BY <1>1, <1>2, EditKeeps DEF Promote
<1>3. CASE Demote(k)
  BY <1>1, <1>3, EditKeeps DEF Demote
<1>4. CASE DeleteRow(k)
  BY <1>1, <1>4, EditKeeps DEF DeleteRow
<1> QED
  BY <1>2, <1>3, <1>4

LEMMA DropIndexKeeps ==
    ASSUME IInv, DropIndex
    PROVE  IInv'
<1>1. masters \subseteq rows
  BY DEF IInv, TypeOK
<1> QED
  BY <1>1, EditKeeps DEF DropIndex

-----------------------------------------------------------------------------
(* Together.                                                                  *)

LEMMA InitEstablishes == Init => IInv
<1> SUFFICES ASSUME Init
             PROVE  IInv
  OBVIOUS
<1>1. PICK n \in 0..MaxKey : OldKeys = 1..n
  BY BootAssumption
<1>2. Cardinality(OldKeys) = n /\ OldKeys \subseteq Keys
  BY <1>1, Bounds, FS_Interval DEF Keys
<1>3. rows \subseteq Keys /\ masters \subseteq rows /\ legacy \subseteq rows
  BY <1>2 DEF Init
<1>t. marker \in BOOLEAN /\ index \in BOOLEAN /\ (marker <=> applied >= Uniqueness)
  <2>1. marker = (applied >= Uniqueness) /\ index = (applied >= Uniqueness)
    BY DEF Init
  <2>2. applied \in Int /\ Uniqueness \in Int
    BY Bounds DEF Init
  <2>3. (applied >= Uniqueness) \in BOOLEAN
    BY <2>2
  <2> QED
    BY <2>1, <2>3, Zenon
<1>4. TypeOK
  <2>1. nextId \in 1..(MaxKey + 1)
    BY <1>2, Bounds DEF Init
  <2>2. applied \in 0..Migrations /\ boots \in 0..MaxBoots /\ edits \in 0..MaxEdits
    BY Bounds DEF Init
  <2>3. /\ pc \in [Replicas -> Booting \cup {"down", "serving"}]
        /\ env \in [Replicas -> Envs \cup {NoEnv}]
        /\ next \in [Replicas -> 0..(Migrations + 1)]
        /\ minted \in [Replicas -> Keys \cup {NoKey}]
        /\ pin \in [Replicas -> Keys \cup {NoKey}]
        /\ acting \in [Replicas -> SUBSET Keys]
    BY Bounds DEF Init
  <2>4. fixed \subseteq rows /\ announced \subseteq Keys
    BY <1>3 DEF Init
  <2>5. lost \in BOOLEAN
    BY DEF Init
  <2> QED
    BY <1>3, <1>t, <2>1, <2>2, <2>3, <2>4, <2>5 DEF TypeOK
<1>5. Lists /\ Alone
  BY DEF Init, Lists, Alone
<1>6. Schema
  <2>1. ~marker => applied < Uniqueness
    BY <1>t, Bounds DEF Init
  <2>2. applied >= Consolidation => legacy = {}
    <3>1. applied \in Nat /\ Consolidation \in Nat
      BY Bounds DEF Init
    <3> QED
      BY <3>1 DEF Init
  <2> QED
    BY <2>1, <2>2 DEF Schema
<1>7. Reached /\ Unedited
  BY DEF Init, Reached, Unedited, AfterMigrations
<1>8. AnnouncedIsMaster
  BY DEF Init, AnnouncedIsMaster
<1> QED
  BY <1>4, <1>5, <1>6, <1>7, <1>8 DEF IInv

LEMMA StutterKeeps ==
    ASSUME IInv, UNCHANGED vars
    PROVE  IInv'
BY DEF IInv, TypeOK, Lists, Alone, Schema, Reached, Unedited, AnnouncedIsMaster,
       vars, database, process, history

LEMMA NextKeeps == IInv /\ [Next]_vars => IInv'
<1> SUFFICES ASSUME IInv, [Next]_vars
             PROVE  IInv'
  OBVIOUS
<1>1. ASSUME NEW r \in Replicas, BootStep(r)
      PROVE  IInv'
  BY <1>1, ConnectKeeps, PendingKeeps, MigratedKeeps, MigrateKeeps, AddMarkerKeeps, CreateIndexKeeps,
     BuildCipherKeeps, SelectMasterKeeps, InsertKeeps, BannerKeeps, CheckIndexKeeps, PinAtBootKeeps,
     BindKeeps DEF BootStep
<1>2. ASSUME NEW r \in Replicas, NEW e \in Envs, Start(r, e)
      PROVE  IInv'
  BY <1>2, StartKeeps
<1>3. ASSUME NEW r \in Replicas, NEW b \in BOOLEAN, Die(r, b)
      PROVE  IInv'
  BY <1>3, DieKeeps
<1>4. ASSUME NEW r \in Replicas, NEW k \in Keys, Authenticate(r, k)
      PROVE  IInv'
  BY <1>4, AuthenticateKeeps
<1>5. ASSUME NEW r \in Replicas, ShutDown(r)
      PROVE  IInv'
  BY <1>5, ShutDownKeeps
<1> QED
  BY <1>1, <1>2, <1>3, <1>4, <1>5, DirectWritesKeep, DropIndexKeeps, StutterKeeps DEF Next

(* The inductive invariant holds of every reachable state. *)
THEOREM Invariance == Spec => []IInv
BY InitEstablishes, NextKeeps, PTL DEF Spec

(* The tables, the processes and their histories stay well typed: no list of  *)
(* migrations is walked past its end and no pin names anything but a row id.  *)
THEOREM TypeCorrect == Spec => []TypeOK
<1>1. IInv => TypeOK
  BY DEF IInv
<1> QED
  BY <1>1, Invariance, PTL

(* A process treats one key as Master in its lifetime, and without edits of   *)
(* the database all processes treat the same one so.                          *)
THEOREM OneIdentity == Spec => []OneActsAsMaster
<1>1. IInv => OneActsAsMaster
  <2> SUFFICES ASSUME IInv
               PROVE  OneActsAsMaster
    OBVIOUS
  <2>1. \A r \in Replicas : acting[r] \subseteq {pin[r]}
    BY DEF IInv, Reached
  <2>2. ASSUME edits = 0, NEW r \in Replicas, NEW s \in Replicas, acting[r] # {}, acting[s] # {}
        PROVE  acting[r] = acting[s]
    <3>1. acting[r] = {pin[r]} /\ acting[s] = {pin[s]}
      BY <2>1, <2>2
    <3>2. pin[r] # NoKey /\ pin[s] # NoKey
      BY <3>1, KeysTyped DEF IInv, TypeOK
    <3>3. masters = {pin[r]} /\ masters = {pin[s]}
      BY <2>2, <3>2 DEF IInv, Unedited
    <3> QED
      BY <3>1, <3>3
  <2> QED
    BY <2>1, <2>2 DEF OneActsAsMaster
<1> QED
  BY <1>1, Invariance, PTL

(* Without edits of the database, what was printed as the master key is the   *)
(* stored one, and the stored one was printed unless a process died first.    *)
THEOREM Announcements == Spec => []AnnouncedIsMaster
<1>1. IInv => AnnouncedIsMaster
  BY DEF IInv
<1> QED
  BY <1>1, Invariance, PTL

(* No process serves before every migration of its list is applied, by itself *)
(* or by another, and before it has a pin.                                    *)
THEOREM ServesComplete == Spec => []ServesMigrated
<1>1. IInv => ServesMigrated
  BY Bounds DEF IInv, ServesMigrated, Reached, Schema, AfterMigrations
<1> QED
  BY <1>1, Invariance, PTL

(* Nothing a request or an edit does moves a pin that is set. *)
THEOREM PinsSettle == Spec => PinSettled
<1>1. ASSUME IInv, [Next]_vars, NEW r \in Replicas, pin[r] # NoKey, pin'[r] # pin[r]
      PROVE  pc'[r] = "down"
  <2>1. pc[r] \in {"bind", "serving"}
    BY <1>1 DEF IInv, Reached
  <2>2. ASSUME NEW q \in Replicas, NEW e \in Envs, Start(q, e)
        PROVE  pc'[r] = "down"
    BY <1>1, <2>1, <2>2 DEF IInv, TypeOK, Start, End
  <2>3. ASSUME NEW q \in Replicas, BootStep(q)
        PROVE  pc'[r] = "down"
    BY <1>1, <2>1, <2>3 DEF IInv, TypeOK, BootStep, Connect, Pending, Migrated, Migrate, AddMarker,
       CreateIndex, BuildCipher, SelectMaster, Insert, Banner, CheckIndex, PinAtBoot, Bind, End, process
  <2>4. ASSUME NEW q \in Replicas, ShutDown(q) \/ (\E b \in BOOLEAN : Die(q, b))
        PROVE  pc'[r] = "down"
    BY <1>1, <2>4 DEF IInv, TypeOK, ShutDown, Die, End
  <2>5. ASSUME NEW q \in Replicas, NEW k \in Keys, Authenticate(q, k)
        PROVE  FALSE
    BY <1>1, <2>5 DEF IInv, TypeOK, Authenticate, Pinned
  <2>6. ASSUME NEW k \in Keys, Promote(k) \/ Demote(k) \/ DeleteRow(k) \/ DropIndex
        PROVE  FALSE
    BY <1>1, <2>6 DEF Promote, Demote, DeleteRow, DropIndex, Edit, process
  <2>7. ASSUME DropIndex
        PROVE  FALSE
    BY <1>1, <2>7 DEF DropIndex, Edit, process
  <2>8. ~UNCHANGED vars
    BY <1>1 DEF vars, process
  <2> QED
    BY <1>1, <2>2, <2>3, <2>4, <2>5, <2>6, <2>7, <2>8 DEF Next
<1>2. IInv /\ [Next]_vars => [\A r \in Replicas :
         pin[r] # NoKey /\ pin'[r] # pin[r] => pc'[r] = "down"]_vars
  BY <1>1
<1> QED
  BY <1>2, Invariance, PTL DEF Spec, PinSettled
=============================================================================
