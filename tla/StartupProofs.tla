---------------------------- MODULE StartupProofs ----------------------------
(***************************************************************************)
(* Proofs about a device through its starts: it keeps its id, it is        *)
(* announced only when it can serve, what it shows as its name is what it  *)
(* has stored, unless that failed, and, unless calls overlap or fail, what *)
(* it announces, and its history can be read as long as the keychain       *)
(* answers.                                                                *)
(***************************************************************************)
EXTENDS Startup, DeviceNameProofs, FiniteSetTheorems, TLAPS

(* The inductive invariant *)

IsConfig(c) == c = Config(c.id, c.name)

\* What the variables may be that the properties are about.
Kinds ==
  /\ config \in {Absent, Torn} \/ IsConfig(config)
  /\ IsConfig(mem)
  /\ identity \in Contents /\ keyFile \in Contents
  /\ keychain \in {Absent, NoKeychain} \cup Nat
  /\ db = Absent \/ db \in Databases
  /\ backup = Absent \/ backup \in Databases
  /\ self \in Nat /\ key \in Nat /\ starts \in Nat /\ refusals \in Nat /\ ranAs \in Nat
  /\ stored \subseteq Nat /\ IsFiniteSet(stored)

\* The key pair on disk is the one in use from when it was made or loaded, and the one
\* the program ran with before; no other is made once it has run.
IdInv ==
  /\ ranAs # 0 => identity = ranAs
  /\ pc = "generate" => identity = Torn
  /\ pc \in {"sync", "resave", "await", "running"} => identity = self
  /\ pc \in {"resave", "await", "running"} => mem.id = self

\* Once it has been loaded or created, the file has the configuration, unless it is being
\* written or that has failed.
ConfigInv ==
  /\ pc \notin {"off", "load", "create", "resave"} /\ ~Saving => config = mem \/ unsaved
  /\ pc \notin {"await", "running"} => ~unsaved

\* What runs has its port and its database, under its key, and only then is it called.
ServeInv ==
  /\ services # {} => pc = "running"
  /\ \A c \in Callers : call[c].at # "idle" => pc = "running"
  /\ pc = "running" => server = "ok" /\ storage = "ok"
  /\ storage = "ok" => db \in Databases /\ db.key = key

\* k is the key that the next start finds, if the keychain answers.
Holds(k) == IF keychain \in Nat THEN keychain = k
            ELSE keyFile # Absent /\ KeyIn(keyFile) = k

Records(file) == IF file = Absent THEN {} ELSE file.records

\* The place of the key: it is in the keychain or in the file; a new one is made only
\* when none is found, and what opens the database is what was found or has been kept.
PlaceInv ==
  /\ keyFile # Absent => keychain \notin Nat
  /\ storage \in {"file", "save"} => keychain \notin Nat
  /\ storage = "save" => keyFile = Absent
  /\ storage = "fill" => keyFile = Torn /\ keychain \notin Nat
  /\ storage \in {"open", "rename", "ok"} => Holds(key)
  /\ storage = "rename" => db # Absent /\ db.key # key

\* The place of the records, while the keychain has not refused.
HistoryInv ==
  refusals = 0 =>
    /\ PlaceInv
    /\ stored \subseteq Records(db)
    /\ stored # {} => Holds(db.key) /\ storage \notin {"save", "fill"}

Stages == {"idle", "saving", "saved", "renaming"}

\* The names: those in memory, on disk and in the calls can be encoded and read again.
NameTypes ==
  /\ mem.id \in Nat /\ mem.name \in Plain
  /\ config \notin {Absent, Torn} => config.id \in Nat /\ config.name \in Plain
  /\ call \in [Callers -> [at : Stages, name : Plain]]
  /\ broadcast \in Seq(Chars) /\ \A s \in services : s \in Seq(Chars)

\* What is announced follows the name that is shown: from the start, and, while no call
\* has overlapped with another, by the one call there is.
AllIdle == \A c \in Callers : call[c] = Idle

Alone(c) == /\ call[c].name = mem.name /\ mem.name # <<>>
            /\ \A d \in Callers \ {c} : call[d] = Idle

NamesInv ==
  /\ mdns # "none" => pc \in {"await", "running"}
  /\ pc = "await" => mdns # "dead"
  /\ pc = "running" => mdns \in {"ok", "dead"}
  /\ pc = "await" /\ mdns = "ok" => broadcast = Encode(DisplayName)
  /\ \A c \in Callers : call[c].at = "idle" => call[c] = Idle
  /\ ~raced /\ pc = "running" =>
       /\ \A c \in Callers : call[c] # Idle => Alone(c)
       /\ faults = 0 =>
            /\ services \subseteq {broadcast}
            /\ Renaming => services = {}
            /\ AllIdle => /\ broadcast = Encode(DisplayName)
                          /\ Announceable => services # {}

\* The places of the program and of its tasks, and the counters.
Places ==
  /\ pc \in {"off", "load", "create", "identity", "generate", "sync", "resave", "await",
             "running"}
  /\ mdns \in {"none", "run", "ok", "failed", "dead"}
  /\ server \in {"none", "run", "ok", "failed"}
  /\ storage \in {"none", "keychain", "file", "save", "fill", "open", "rename", "ok",
                  "failed"}
  /\ faults \in Nat /\ changes \in Nat
  /\ raced \in BOOLEAN /\ unsaved \in BOOLEAN
  /\ exit \in {"none", "config", "identity", "mdns", "port", "storage", "register"}

StartInv == IdInv /\ ConfigInv /\ ServeInv /\ HistoryInv
-----------------------------------------------------------------------------
(* The database                                                            *)

\* A new database is empty, and has the key.
LEMMA NewDatabase ==
  ASSUME Kinds
  PROVE  /\ Database(key, {}) \in Databases /\ Database(key, {}) # Absent
         /\ Database(key, {}).key = key /\ Database(key, {}).records = {}
<1>1. Database(key, {}) \in Databases BY DEF Kinds, Database, Databases
<1> QED BY <1>1, FileAssumption DEF Database

\* What opening changes.
LEMMA OpenView ==
  ASSUME Kinds, OpenDb
  PROVE  /\ db' \in Databases /\ db'.key = key /\ db' # Absent
         /\ db # Absent => db' = db /\ db.key = key
         /\ db = Absent => Records(db') = {}
<1>1. db' = IF db = Absent THEN Database(key, {}) ELSE db BY DEF OpenDb
<1>2. db # Absent => db \in Databases /\ db.key = key BY DEF OpenDb, Kinds
<1> QED BY <1>1, <1>2, NewDatabase DEF Records

\* A record that is stored is in the database, which keeps its key and the others.
LEMMA RecordView ==
  ASSUME Kinds, db \in Databases, StoreRecord
  PROVE  /\ db' \in Databases /\ db'.key = db.key /\ db' # Absent
         /\ \E r \in Nat : /\ stored' = stored \cup {r}
                           /\ db'.records = db.records \cup {r}
<1> DEFINE r == Cardinality(stored) + 1
<1>1. r \in Nat BY FS_CardinalityType DEF Kinds
<1>2. db' = [db EXCEPT !.records = db.records \cup {r}] /\ stored' = stored \cup {r}
  BY DEF StoreRecord
<1> HIDE DEF r
<1>3. /\ db' \in Databases /\ db'.key = db.key
      /\ db'.records = db.records \cup {r}
  BY <1>1, <1>2 DEF Databases
<1> QED BY <1>1, <1>2, <1>3, FileAssumption

-----------------------------------------------------------------------------
(* Each part is kept                                                       *)

\* The kinds of values.
LEMMA KindsStep == Kinds /\ IdInv /\ ServeInv /\ [Next]_vars => Kinds'
<1> SUFFICES ASSUME Kinds, IdInv, ServeInv, [Next]_vars PROVE Kinds'
  OBVIOUS
<1>1. CASE Start
  BY <1>1, FileAssumption DEF Start, files, tasks, Kinds, Contents, Config, IsConfig
<1>2. CASE Stop
  BY <1>2, FileAssumption DEF Stop, Forget, files, bounds, Kinds, Contents, Config,
     IsConfig, EmptyKey
<1>3. CASE LoadConfig
  BY <1>3, FileAssumption DEF LoadConfig, files, tasks, bounds, ghosts, Kinds, Contents,
     Config, IsConfig
<1>4. CASE RejectConfig
  BY <1>4, FileAssumption DEF RejectConfig, Exit, Forget, files, bounds, Kinds,
     Contents, Config, IsConfig, EmptyKey
<1>5. CASE CreateConfig
  BY <1>5, FileAssumption DEF CreateConfig, Exit, Forget, Fault, EmptyKey, tasks, Kinds,
     Contents, Config, IsConfig
<1>6. CASE FillConfig
  BY <1>6, FileAssumption DEF FillConfig, Exit, Forget, Fault, tasks, Kinds, Contents,
     Config, IsConfig, EmptyKey
<1>7. CASE LoadIdentity
  BY <1>7, FileAssumption DEF LoadIdentity, files, tasks, bounds, ghosts, Kinds,
     Contents, Config, IsConfig
<1>8. CASE RejectIdentity
  BY <1>8, FileAssumption DEF RejectIdentity, Exit, Forget, files, bounds, Kinds,
     Contents, Config, IsConfig, EmptyKey
<1>9. CASE GenerateIdentity
  BY <1>9, FileAssumption DEF GenerateIdentity, Exit, Forget, Fault, EmptyKey, tasks,
     Kinds, Contents, Config, IsConfig
<1>10. CASE FillIdentity
  BY <1>10, FileAssumption DEF FillIdentity, Exit, Forget, Fault, tasks, Kinds,
     Contents, Config, IsConfig, EmptyKey
<1>11. CASE SyncId
  BY <1>11, FileAssumption DEF SyncId, Spawned, SaveFails, Fault, Kinds, Contents,
     Config, IsConfig
<1>12. CASE ResaveConfig
  BY <1>12, FileAssumption DEF ResaveConfig, Spawned, SaveFails, Fault, Kinds,
     Contents, Config, IsConfig
<1>13. CASE AwaitFailed
  BY <1>13, FileAssumption DEF AwaitFailed, Exit, Forget, files, bounds, Kinds,
     Contents, Config, IsConfig, EmptyKey
<1>14. CASE Register
  BY <1>14, FileAssumption DEF Register, Exit, Forget, Fault, files, tasks, Kinds,
     Contents, Config, IsConfig, IdInv, EmptyKey
<1>15. CASE LoadKey
  BY <1>15, FileAssumption DEF LoadKey, Refusal, Storage, files, ghosts, Kinds,
     Contents, Config, IsConfig
<1>16. CASE ReadKeyFile
  BY <1>16, FileAssumption DEF ReadKeyFile, Fault, Storage, files, ghosts, Kinds, Contents,
     Config, IsConfig, FreshKey, KeyIn, EmptyKey
<1>17. CASE SaveKey
  BY <1>17, FileAssumption DEF SaveKey, Storage, ghosts, Kinds, Contents, Config,
     IsConfig
<1>18. CASE KeyNotSaved
  BY <1>18, FileAssumption DEF KeyNotSaved, Fault, Refusal, Storage, ghosts, Kinds, Contents,
     Config, IsConfig
<1>19. CASE FillKeyFile
  BY <1>19, FileAssumption DEF FillKeyFile, Fault, Storage, ghosts, Kinds, Contents,
     Config, IsConfig
<1>20. CASE OpenDb
  <2>1. db' = Absent \/ db' \in Databases BY <1>20, OpenView
  <2> QED BY <1>20, <2>1 DEF OpenDb, Storage, bounds, ghosts, names, Kinds
<1>21. CASE BackUpDb
  BY <1>21, FileAssumption DEF BackUpDb, Storage, ghosts, Kinds, Contents, Config,
     IsConfig
<1>22. CASE StoreRecord
  <2>1. db \in Databases BY <1>22 DEF StoreRecord, ServeInv
  <2>2. PICK r \in Nat : stored' = stored \cup {r} BY <1>22, <2>1, RecordView
  <2>3. stored' \subseteq Nat /\ IsFiniteSet(stored') BY <2>2, FS_AddElement DEF Kinds
  <2>4. db' \in Databases BY <1>22, <2>1, RecordView
  <2> QED BY <1>22, <2>3, <2>4 DEF StoreRecord, memory, tasks, bounds, Kinds
<1>23. ASSUME NEW c \in Callers, SetName(c) PROVE Kinds'
  BY <1>23, FileAssumption DEF SetName, SaveFails, Fault, tasks, Kinds, Contents, Config,
     IsConfig
<1>24. ASSUME NEW c \in Callers, SaveName(c) PROVE Kinds'
  BY <1>24, FileAssumption DEF SaveName, SaveFails, Fault, tasks, Kinds, Contents, Config,
     IsConfig
<1>25. ASSUME \/ InitMdns \/ Bind \/ ForeignDb \/ EmptyKeyRefused
              \/ UNCHANGED vars
              \/ \E c \in Callers : Withdraw(c) \/ Announce(c)
       PROVE  UNCHANGED <<config, mem, identity, keyFile, keychain, db, backup, self,
                          key, starts, refusals, ranAs, stored>>
  BY <1>25 DEF InitMdns, Bind, ForeignDb, EmptyKeyRefused, Withdraw, Announce, vars, Storage,
     files, ghosts, tasks, bounds, memory
<1>26. ASSUME UNCHANGED <<config, mem, identity, keyFile, keychain, db, backup, self,
                          key, starts, refusals, ranAs, stored>>
       PROVE  Kinds'
  BY <1>26, FileAssumption DEF Kinds, Contents, Config, IsConfig
<1> QED BY <1>1, <1>2, <1>3, <1>4, <1>5, <1>6, <1>7, <1>8, <1>9, <1>10, <1>11, <1>12,
           <1>13, <1>14, <1>15, <1>16, <1>17, <1>18, <1>19, <1>20, <1>21, <1>22, <1>23,
           <1>24, <1>25, <1>26 DEF Next, Main, StorageTask, Call

\* The id is kept, wherever a start is cut short.
LEMMA IdStep == Kinds /\ IdInv /\ [Next]_vars => IdInv'
<1> SUFFICES ASSUME Kinds, IdInv, [Next]_vars PROVE IdInv'
  OBVIOUS
<1>1. CASE Start
  BY <1>1, FileAssumption DEF Start, files, Kinds, IdInv, Contents, Config, IsConfig
<1>2. CASE Stop
  BY <1>2, FileAssumption DEF Stop, Forget, files, Kinds, IdInv, Contents, Config,
     IsConfig
<1>3. CASE LoadConfig
  BY <1>3, FileAssumption DEF LoadConfig, files, ghosts, Kinds, IdInv, Contents, Config,
     IsConfig
<1>4. CASE RejectConfig
  BY <1>4, FileAssumption DEF RejectConfig, Exit, Forget, files, Kinds, IdInv, Contents,
     Config, IsConfig
<1>5. CASE CreateConfig
  BY <1>5, FileAssumption DEF CreateConfig, Exit, Forget, Fault, Kinds, IdInv, Contents, Config,
     IsConfig
<1>6. CASE FillConfig
  BY <1>6, FileAssumption DEF FillConfig, Exit, Forget, Fault, Kinds, IdInv, Contents,
     Config, IsConfig
<1>7. CASE LoadIdentity
  BY <1>7, FileAssumption DEF LoadIdentity, files, ghosts, Kinds, IdInv, Contents,
     Config, IsConfig
<1>8. CASE RejectIdentity
  BY <1>8, FileAssumption DEF RejectIdentity, Exit, Forget, files, Kinds, IdInv,
     Contents, Config, IsConfig
<1>9. CASE GenerateIdentity
  BY <1>9, FileAssumption DEF GenerateIdentity, Exit, Forget, Fault, Kinds, IdInv,
     Contents, Config, IsConfig
<1>10. CASE FillIdentity
  BY <1>10, FileAssumption DEF FillIdentity, Exit, Forget, Fault, Kinds, IdInv,
     Contents, Config, IsConfig
<1>11. CASE SyncId
  BY <1>11, FileAssumption DEF SyncId, Spawned, SaveFails, Kinds, IdInv, Contents, Config,
     IsConfig
<1>12. CASE ResaveConfig
  BY <1>12, FileAssumption DEF ResaveConfig, Spawned, SaveFails, Kinds, IdInv,
     Contents, Config, IsConfig
<1>13. CASE AwaitFailed
  BY <1>13, FileAssumption DEF AwaitFailed, Exit, Forget, files, Kinds, IdInv, Contents,
     Config, IsConfig
<1>14. CASE Register
  BY <1>14, FileAssumption DEF Register, Exit, Forget, Fault, files, Kinds, IdInv,
     Contents, Config, IsConfig
<1>15. ASSUME NEW c \in Callers, SetName(c) PROVE IdInv'
  BY <1>15, FileAssumption DEF SetName, Kinds, IdInv, Contents, Config, IsConfig
<1>16. ASSUME \/ InitMdns \/ Bind \/ LoadKey \/ ReadKeyFile \/ SaveKey
              \/ KeyNotSaved \/ FillKeyFile \/ OpenDb \/ ForeignDb
              \/ EmptyKeyRefused \/ BackUpDb \/ StoreRecord \/ UNCHANGED vars
              \/ \E c \in Callers : SaveName(c) \/ Withdraw(c) \/ Announce(c)
       PROVE  UNCHANGED <<identity, pc, self, mem, ranAs>>
  BY <1>16 DEF InitMdns, Bind, LoadKey, ReadKeyFile, SaveKey, KeyNotSaved, FillKeyFile,
     OpenDb, ForeignDb, EmptyKeyRefused, BackUpDb, StoreRecord, SaveName, Withdraw, Announce,
     vars, Storage, files, ghosts, memory
<1>17. UNCHANGED <<identity, pc, self, mem, ranAs>> => IdInv'
  BY FileAssumption DEF Kinds, IdInv, Contents, Config, IsConfig
<1> QED BY <1>1, <1>2, <1>3, <1>4, <1>5, <1>6, <1>7, <1>8, <1>9, <1>10, <1>11, <1>12,
           <1>13, <1>14, <1>15, <1>16, <1>17 DEF Next, Main, StorageTask, Call

\* The file follows the configuration in memory.
LEMMA ConfigStep ==
  Kinds /\ NameTypes /\ ServeInv /\ ConfigInv /\ [Next]_vars => ConfigInv'
<1> SUFFICES ASSUME Kinds, NameTypes, ServeInv, ConfigInv, [Next]_vars PROVE ConfigInv'
  OBVIOUS
<1>f. Forget => ConfigInv' BY DEF Forget, ConfigInv
<1>1. CASE Start
  BY <1>1 DEF Start, ConfigInv
<1>2. CASE Stop
  BY <1>2, <1>f DEF Stop
<1>3. CASE LoadConfig
  BY <1>3 DEF LoadConfig, files, ghosts, ConfigInv
<1>4. CASE RejectConfig
  BY <1>4, <1>f DEF RejectConfig, Exit
<1>5. CASE CreateConfig
  BY <1>5, <1>f DEF CreateConfig, Exit, ConfigInv
<1>6. CASE FillConfig
  BY <1>6, <1>f DEF FillConfig, Exit, ConfigInv
<1>7. CASE LoadIdentity
  BY <1>7 DEF LoadIdentity, files, ghosts, ConfigInv, Saving
<1>8. CASE RejectIdentity
  BY <1>8, <1>f DEF RejectIdentity, Exit
<1>9. CASE GenerateIdentity
  BY <1>9, <1>f DEF GenerateIdentity, Exit, ConfigInv, Saving
<1>10. CASE FillIdentity
  BY <1>10, <1>f DEF FillIdentity, Exit, ConfigInv, Saving
<1>11. CASE SyncId
  <2>1. mem.id = self => mem' = mem BY <1>11 DEF SyncId, Kinds, IsConfig, Config
  <2>2. pc = "sync" /\ call' = call /\ ~unsaved BY <1>11 DEF SyncId, ConfigInv
  <2>3. CASE mem.id = self /\ Spawned /\ UNCHANGED <<config, unsaved>>
    BY <2>1, <2>2, <2>3 DEF Spawned, ConfigInv, Saving
  <2>4. CASE Spawned /\ SaveFails BY <2>4 DEF Spawned, SaveFails, ConfigInv
  <2>5. CASE pc' = "resave" /\ UNCHANGED unsaved BY <2>2, <2>5 DEF ConfigInv
  <2> QED BY <1>11, <2>3, <2>4, <2>5 DEF SyncId
<1>12. CASE ResaveConfig
  BY <1>12 DEF ResaveConfig, Spawned, SaveFails, ConfigInv
<1>13. CASE AwaitFailed
  BY <1>13, <1>f DEF AwaitFailed, Exit
<1>14. CASE Register
  BY <1>14, <1>f DEF Register, Exit, files, ConfigInv, Saving
<1>15. ASSUME NEW c \in Callers, SetName(c) PROVE ConfigInv'
  <2>1. pc = "running" /\ pc' = pc BY <1>15 DEF SetName
  <2>2. CASE SaveFails BY <2>1, <2>2 DEF SaveFails, ConfigInv
  <2>3. ASSUME NEW n, call' = [call EXCEPT ![c] = [at |-> "saving", name |-> n]]
        PROVE  ConfigInv'
    <3>1. call'[c].at = "saving" BY <2>3 DEF NameTypes
    <3> QED BY <2>1, <3>1 DEF ConfigInv, Saving
  <2> QED BY <1>15, <2>2, <2>3 DEF SetName
<1>16. ASSUME NEW c \in Callers, SaveName(c) PROVE ConfigInv'
  <2>1. pc' = pc /\ mem' = mem BY <1>16 DEF SaveName
  <2>2. config' = mem \/ unsaved' = TRUE BY <1>16 DEF SaveName, SaveFails
  <2>3. pc = "running" BY <1>16 DEF SaveName, ServeInv
  <2> QED BY <2>1, <2>2, <2>3 DEF ConfigInv
<1>17. ASSUME \/ InitMdns \/ Bind \/ LoadKey \/ ReadKeyFile \/ SaveKey
              \/ KeyNotSaved \/ FillKeyFile \/ OpenDb \/ ForeignDb
              \/ EmptyKeyRefused \/ BackUpDb \/ StoreRecord \/ UNCHANGED vars
       PROVE  UNCHANGED <<config, pc, mem, unsaved, call>>
  BY <1>17 DEF InitMdns, Bind, LoadKey, ReadKeyFile, SaveKey, KeyNotSaved, FillKeyFile,
     OpenDb, ForeignDb, EmptyKeyRefused, BackUpDb, StoreRecord, vars, Storage,
     files, memory, names, ghosts
<1>18. UNCHANGED <<config, pc, mem, unsaved, call>> => ConfigInv'
  BY DEF ConfigInv, Saving
<1>19. ASSUME NEW c \in Callers, Withdraw(c) \/ Announce(c) PROVE ConfigInv'
  <2>1. UNCHANGED <<config, pc, mem, unsaved>>
    BY <1>19 DEF Withdraw, Announce, files, ghosts
  <2>2. \A d \in Callers : call[d].at = "saving" => call'[d].at = "saving"
    BY <1>19 DEF Withdraw, Announce, NameTypes
  <2> QED BY <2>1, <2>2 DEF ConfigInv, Saving
<1> QED BY <1>1, <1>2, <1>3, <1>4, <1>5, <1>6, <1>7, <1>8, <1>9, <1>10, <1>11, <1>12,
           <1>13, <1>14, <1>15, <1>16, <1>17, <1>18, <1>19
    DEF Next, Main, StorageTask, Call

\* What runs has its port and its database.
LEMMA ServeStep == Kinds /\ ServeInv /\ [Next]_vars => ServeInv'
<1> SUFFICES ASSUME Kinds, ServeInv, [Next]_vars PROVE ServeInv'
  OBVIOUS
<1>1. CASE Start
  BY <1>1 DEF Start, files, tasks, names, ServeInv
<1>2. CASE Stop
  BY <1>2 DEF Stop, Forget, files, ServeInv, Idle
<1>3. CASE LoadConfig
  BY <1>3 DEF LoadConfig, files, tasks, names, ServeInv
<1>4. CASE RejectConfig
  BY <1>4 DEF RejectConfig, Exit, Forget, files, ServeInv, Idle
<1>5. CASE CreateConfig
  BY <1>5 DEF CreateConfig, Exit, Forget, Fault, tasks, names, ServeInv, Idle
<1>6. CASE FillConfig
  BY <1>6 DEF FillConfig, Exit, Forget, Fault, tasks, names, ServeInv, Idle
<1>7. CASE LoadIdentity
  BY <1>7 DEF LoadIdentity, files, tasks, names, ServeInv
<1>8. CASE RejectIdentity
  BY <1>8 DEF RejectIdentity, Exit, Forget, files, ServeInv, Idle
<1>9. CASE GenerateIdentity
  BY <1>9 DEF GenerateIdentity, Exit, Forget, Fault, tasks, names, ServeInv, Idle
<1>10. CASE FillIdentity
  BY <1>10 DEF FillIdentity, Exit, Forget, Fault, tasks, names, ServeInv, Idle
<1>11. CASE SyncId
  BY <1>11 DEF SyncId, Spawned, SaveFails, names, ServeInv
<1>12. CASE ResaveConfig
  BY <1>12 DEF ResaveConfig, Spawned, SaveFails, names, ServeInv
<1>13. CASE AwaitFailed
  BY <1>13 DEF AwaitFailed, Exit, Forget, files, ServeInv, Idle
<1>14. CASE Register
  BY <1>14 DEF Register, Registered, Exit, Forget, Fault, files, ServeInv, Idle
<1>15. CASE Bind
  BY <1>15 DEF Bind, Fault, files, names, ServeInv
<1>16. CASE LoadKey
  BY <1>16 DEF LoadKey, Refusal, Storage, files, names, ServeInv
<1>17. CASE ReadKeyFile
  BY <1>17 DEF ReadKeyFile, Fault, Storage, files, names, ServeInv
<1>18. CASE SaveKey
  BY <1>18 DEF SaveKey, Storage, names, ServeInv
<1>19. CASE KeyNotSaved
  BY <1>19 DEF KeyNotSaved, Fault, Refusal, Storage, names, ServeInv
<1>20. CASE FillKeyFile
  BY <1>20 DEF FillKeyFile, Fault, Storage, names, ServeInv
<1>21. CASE OpenDb
  BY <1>21, OpenView DEF OpenDb, Storage, ServeInv, names
<1>22. CASE ForeignDb
  BY <1>22 DEF ForeignDb, Storage, files, names, ServeInv
<1>23. CASE EmptyKeyRefused
  BY <1>23 DEF EmptyKeyRefused, Storage, files, names, ServeInv
<1>24. CASE BackUpDb
  BY <1>24 DEF BackUpDb, Storage, names, ServeInv
<1>25. CASE StoreRecord
  <2>1. db \in Databases /\ db.key = key BY <1>25 DEF StoreRecord, ServeInv
  <2>2. UNCHANGED <<pc, server, storage, key, services, call>>
    BY <1>25 DEF StoreRecord, memory, tasks, names
  <2>3. db' \in Databases /\ db'.key = db.key BY <1>25, <2>1, RecordView
  <2> QED BY <2>1, <2>2, <2>3 DEF ServeInv
<1>26. ASSUME NEW c \in Callers, SetName(c) PROVE ServeInv'
  BY <1>26 DEF SetName, SaveFails, tasks, names, ServeInv, Idle
<1>27. ASSUME NEW c \in Callers, SaveName(c) PROVE ServeInv'
  BY <1>27 DEF SaveName, SaveFails, tasks, names, ServeInv
<1>28. ASSUME NEW c \in Callers, Withdraw(c) \/ Announce(c) PROVE ServeInv'
  BY <1>28 DEF Withdraw, Announce, Registered, Fault, files, tasks, ServeInv
<1>29. ASSUME \/ InitMdns \/ UNCHANGED vars
       PROVE  UNCHANGED <<pc, server, storage, key, services, db, call>>
  BY <1>29 DEF InitMdns, vars, files, tasks, names, memory
<1>30. UNCHANGED <<pc, server, storage, key, services, db, call>> => ServeInv'
  BY DEF ServeInv
<1> QED BY <1>1, <1>2, <1>3, <1>4, <1>5, <1>6, <1>7, <1>8, <1>9, <1>10, <1>11, <1>12,
           <1>13, <1>14, <1>15, <1>16, <1>17, <1>18, <1>19, <1>20, <1>21, <1>22, <1>23,
           <1>24, <1>25, <1>26, <1>27, <1>28, <1>29, <1>30 DEF Next, Main, StorageTask,
           Call

\* Steps that leave files, keys and records alone, and the storage's task at its start
\* or at its end.
LEMMA HistoryFramed ==
  ASSUME HistoryInv, storage' \in {"none", "keychain", "failed"},
         UNCHANGED <<refusals, keychain, keyFile, db, backup, stored>>
  PROVE  HistoryInv'
BY DEF HistoryInv, PlaceInv, Holds, KeyIn, Records

\* The records stay in the database, and their key in its place, until the keychain
\* refuses.
LEMMA HistoryStep == Kinds /\ ServeInv /\ HistoryInv /\ [Next]_vars => HistoryInv'
<1> SUFFICES ASSUME Kinds, ServeInv, HistoryInv, [Next]_vars PROVE HistoryInv'
  OBVIOUS
<1>1. CASE Stop
  BY <1>1, HistoryFramed DEF Stop, Forget, files, bounds
<1>2. CASE RejectConfig
  BY <1>2, HistoryFramed DEF RejectConfig, Exit, Forget, files, bounds
<1>3. CASE FillConfig
  <2>1. UNCHANGED <<refusals, keychain, keyFile, db, backup, stored>>
    BY <1>3 DEF FillConfig, Exit, Forget, Fault, tasks
  <2>2. storage' \in {"none", "keychain"} \/ UNCHANGED <<storage, key>>
    BY <1>3 DEF FillConfig, Exit, Forget, Fault, tasks
  <2>3. UNCHANGED <<storage, key>> => HistoryInv'
    BY <2>1 DEF HistoryInv, PlaceInv, Holds, KeyIn, Records
  <2> QED BY <2>1, <2>2, <2>3, HistoryFramed
<1>22. ASSUME CreateConfig \/ GenerateIdentity PROVE HistoryInv'
  <2>1. UNCHANGED <<refusals, keychain, keyFile, db, backup, stored>>
    BY <1>22 DEF CreateConfig, GenerateIdentity, Exit, Forget, Fault
  <2>2. storage' = "none" \/ UNCHANGED <<storage, key>>
    BY <1>22 DEF CreateConfig, GenerateIdentity, Exit, Forget, tasks
  <2>3. UNCHANGED <<storage, key>> => HistoryInv'
    BY <2>1 DEF HistoryInv, PlaceInv, Holds, KeyIn, Records
  <2> QED BY <2>1, <2>2, <2>3, HistoryFramed
<1>4. CASE RejectIdentity
  BY <1>4, HistoryFramed DEF RejectIdentity, Exit, Forget, files, bounds
<1>5. CASE FillIdentity
  <2>1. UNCHANGED <<refusals, keychain, keyFile, db, backup, stored>>
    BY <1>5 DEF FillIdentity, Exit, Forget, Fault, tasks
  <2>2. storage' \in {"none", "keychain"} \/ UNCHANGED <<storage, key>>
    BY <1>5 DEF FillIdentity, Exit, Forget, Fault, tasks
  <2>3. UNCHANGED <<storage, key>> => HistoryInv'
    BY <2>1 DEF HistoryInv, PlaceInv, Holds, KeyIn, Records
  <2> QED BY <2>1, <2>2, <2>3, HistoryFramed
<1>6. CASE SyncId
  <2>1. UNCHANGED <<refusals, keychain, keyFile, db, backup, stored>>
    BY <1>6 DEF SyncId, Spawned, SaveFails
  <2>2. storage' \in {"none", "keychain"} \/ UNCHANGED <<storage, key>>
    BY <1>6 DEF SyncId, Spawned, SaveFails
  <2>3. UNCHANGED <<storage, key>> => HistoryInv'
    BY <2>1 DEF HistoryInv, PlaceInv, Holds, KeyIn, Records
  <2> QED BY <2>1, <2>2, <2>3, HistoryFramed
<1>7. CASE ResaveConfig
  <2>1. UNCHANGED <<refusals, keychain, keyFile, db, backup, stored>>
    BY <1>7 DEF ResaveConfig, Spawned, SaveFails
  <2>2. storage' \in {"none", "keychain"} \/ UNCHANGED <<storage, key>>
    BY <1>7 DEF ResaveConfig, Spawned, SaveFails
  <2>3. UNCHANGED <<storage, key>> => HistoryInv'
    BY <2>1 DEF HistoryInv, PlaceInv, Holds, KeyIn, Records
  <2> QED BY <2>1, <2>2, <2>3, HistoryFramed
<1>8. CASE AwaitFailed
  BY <1>8, HistoryFramed DEF AwaitFailed, Exit, Forget, files, bounds
<1>9. CASE Register
  <2>1. UNCHANGED <<refusals, keychain, keyFile, db, backup, stored>>
    BY <1>9 DEF Register, Exit, Forget, Fault, files
  <2>2. storage' \in {"none", "keychain"} \/ UNCHANGED <<storage, key>>
    BY <1>9 DEF Register, Exit, Forget, Fault, files
  <2>3. UNCHANGED <<storage, key>> => HistoryInv'
    BY <2>1 DEF HistoryInv, PlaceInv, Holds, KeyIn, Records
  <2> QED BY <2>1, <2>2, <2>3, HistoryFramed
<1>10. CASE LoadKey
  BY <1>10, FileAssumption DEF Kinds, LoadKey, Refusal, Storage, files, ghosts, HistoryInv,
     PlaceInv, Holds, KeyIn, Records
<1>11. CASE ReadKeyFile
  BY <1>11, FileAssumption DEF ReadKeyFile, Fault, Storage, files, ghosts, HistoryInv,
     PlaceInv, Holds, KeyIn, Records
<1>12. CASE SaveKey
  BY <1>12, FileAssumption
     DEF Kinds, SaveKey, Storage, ghosts, HistoryInv, PlaceInv,
     Holds, KeyIn, Records
<1>13. CASE KeyNotSaved
  BY <1>13, FileAssumption DEF Kinds, KeyNotSaved, Fault, Refusal, Storage, ghosts, HistoryInv,
     PlaceInv, Holds, KeyIn, Records
<1>14. CASE FillKeyFile
  BY <1>14, FileAssumption DEF Kinds, FillKeyFile, Fault, Storage, ghosts, HistoryInv,
     PlaceInv, Holds, KeyIn, Records
<1>15. CASE OpenDb
  <2>1. /\ storage = "open" /\ storage' = "ok"
        /\ UNCHANGED <<refusals, keychain, keyFile, key, backup, stored>>
    BY <1>15 DEF OpenDb, Storage, ghosts
  <2>2. /\ db' # Absent /\ db'.key = key /\ (db # Absent => db' = db /\ db.key = key)
        /\ (db = Absent => Records(db') = {})
    BY <1>15, OpenView
  <2>3. refusals = 0 => PlaceInv' BY <2>1, <2>2 DEF HistoryInv, PlaceInv, Holds, KeyIn
  <2>4. CASE db # Absent
    BY <2>1, <2>2, <2>3, <2>4 DEF HistoryInv, PlaceInv, Holds, KeyIn, Records
  <2>5. CASE db = Absent
    <3>1. Records(db) = {} BY <2>5 DEF Records
    <3> QED BY <2>1, <2>2, <2>3, <2>5, <3>1
          DEF HistoryInv, PlaceInv, Holds, KeyIn
  <2> QED BY <2>4, <2>5
<1>16. CASE ForeignDb
  BY <1>16, FileAssumption DEF ForeignDb, Storage, files, ghosts, HistoryInv, PlaceInv,
     Holds, KeyIn, Records
<1>17. CASE EmptyKeyRefused
  BY <1>17, HistoryFramed DEF EmptyKeyRefused, Storage, files, ghosts
<1>18. CASE BackUpDb
  <2>1. /\ storage = "rename" /\ storage' = "open" /\ db' = Absent
        /\ UNCHANGED <<refusals, keychain, keyFile, key, stored>>
    BY <1>18 DEF BackUpDb, Storage, ghosts
  <2> SUFFICES ASSUME refusals = 0 PROVE HistoryInv'
    BY <2>1 DEF HistoryInv
  <2>2. db # Absent /\ db.key # key /\ Holds(key) /\ PlaceInv
    BY <2>1 DEF HistoryInv, PlaceInv
  <2>3. ~Holds(db.key) BY <2>2 DEF Holds
  <2>4. stored = {} BY <2>3 DEF HistoryInv
  <2>5. PlaceInv' BY <2>1, <2>2 DEF PlaceInv, Holds, KeyIn
  <2> QED BY <2>1, <2>4, <2>5 DEF HistoryInv
<1>19. CASE StoreRecord
  <2>1. storage = "ok" /\ db \in Databases /\ db.key = key
    BY <1>19 DEF StoreRecord, ServeInv
  <2>2. UNCHANGED <<refusals, keychain, keyFile, storage, key, backup>>
    BY <1>19 DEF StoreRecord, memory, tasks, bounds
  <2>3. db' # Absent /\ db'.key = db.key BY <1>19, <2>1, RecordView
  <2>4. PICK r \in Nat : stored' = stored \cup {r} /\ db'.records = db.records \cup {r}
    BY <1>19, <2>1, RecordView
  <2>5. Records(db)' = Records(db) \cup {r}
    BY <2>1, <2>2, <2>3, <2>4, FileAssumption DEF Records
  <2> SUFFICES ASSUME refusals = 0 PROVE HistoryInv'
    BY <2>2 DEF HistoryInv
  <2>6. Holds(key) /\ PlaceInv BY <2>1 DEF HistoryInv, PlaceInv
  <2>7. PlaceInv' BY <2>1, <2>2, <2>6 DEF PlaceInv, Holds, KeyIn
  <2>8. Holds(db.key)' BY <2>1, <2>2, <2>3, <2>6 DEF Holds, KeyIn
  <2>9. stored \subseteq Records(db) => stored' \subseteq Records(db)'
    BY <2>4, <2>5
  <2> QED BY <2>1, <2>2, <2>7, <2>8, <2>9 DEF HistoryInv
<1>20. ASSUME \/ Start \/ LoadConfig \/ LoadIdentity \/ InitMdns \/ Bind \/ UNCHANGED vars
              \/ \E c \in Callers : \/ SetName(c) \/ SaveName(c)
                                    \/ Withdraw(c) \/ Announce(c)
       PROVE  UNCHANGED <<refusals, keychain, keyFile, storage, key, db, backup, stored>>
  BY <1>20 DEF Start, LoadConfig, LoadIdentity,
     InitMdns, Bind, SetName, SaveName, Withdraw, Announce, vars, files, tasks, bounds, ghosts,
     memory
<1>21. UNCHANGED <<refusals, keychain, keyFile, storage, key, db, backup, stored>>
         => HistoryInv'
  BY FileAssumption DEF HistoryInv, PlaceInv, Holds, KeyIn, Records
<1> QED BY <1>1, <1>2, <1>3, <1>4, <1>5, <1>6, <1>7, <1>8, <1>9, <1>10, <1>11, <1>12,
           <1>13, <1>14, <1>15, <1>16, <1>17, <1>18, <1>19, <1>20, <1>21, <1>22 DEF Next, Main,
           StorageTask, Call
-----------------------------------------------------------------------------
(* The names                                                               *)

\* What a program that has ended keeps of its names: none.
LEMMA NoNames == <<>> \in Plain /\ <<>> \in Seq(Chars) /\ Idle.at = "idle" /\ Idle.name = <<>>
BY DEF Plain, Idle

LEMMA ForgetNames ==
  ASSUME Forget, config' = config \/ config' \in {Absent, Torn}, NameTypes
  PROVE  NameTypes' /\ NamesInv'
<1>1. /\ pc' = "off" /\ mem' = Config(0, <<>>) /\ mdns' = "none"
      /\ broadcast' = <<>> /\ services' = {} /\ call' = [c \in Callers |-> Idle]
  BY DEF Forget
<1>2. NameTypes' BY <1>1, NoNames DEF NameTypes, Config, Idle, Stages
<1>3. NamesInv' BY <1>1 DEF NamesInv
<1> QED BY <1>2, <1>3

\* The names keep their types.
LEMMA NameTypesStep == Kinds /\ NameTypes /\ [Next]_vars => NameTypes'
<1> SUFFICES ASSUME Kinds, NameTypes, [Next]_vars PROVE NameTypes'
  OBVIOUS
<1>1. CASE Stop BY <1>1, ForgetNames DEF Stop, files
<1>2. CASE RejectConfig BY <1>2, ForgetNames DEF RejectConfig, Exit, files
<1>3. CASE RejectIdentity
  <2>1. Forget /\ UNCHANGED config BY <1>3 DEF RejectIdentity, Exit, files
  <2> QED BY <2>1, ForgetNames
<1>4. CASE AwaitFailed
  <2>1. Forget /\ UNCHANGED config BY <1>4 DEF AwaitFailed, Exit, files
  <2> QED BY <2>1, ForgetNames
<1>5. CASE LoadConfig
  BY <1>5 DEF LoadConfig, files, names, NameTypes
<1>6. CASE CreateConfig
  <2>1. CASE Exit("config") /\ UNCHANGED config BY <2>1, ForgetNames DEF Exit
  <2>2. CASE mem' = Config(0, <<>>) /\ config' = Torn /\ UNCHANGED <<names, call>>
    BY <2>2, NoNames DEF names, NameTypes, Config
  <2> QED BY <1>6, <2>1, <2>2 DEF CreateConfig
<1>7. CASE FillConfig
  <2>1. CASE Exit("config") /\ UNCHANGED config BY <2>1, ForgetNames DEF Exit
  <2>2. CASE config' = mem /\ UNCHANGED <<mem, names, call>>
    BY <2>2 DEF NameTypes, names
  <2> QED BY <1>7, <2>1, <2>2 DEF FillConfig
<1>8. CASE FillIdentity
  <2>1. CASE Exit("identity") BY <1>8, <2>1, ForgetNames DEF FillIdentity, Exit
  <2>2. CASE UNCHANGED <<mem, names, call>>
    BY <1>8, <2>2 DEF FillIdentity, NameTypes, names
  <2> QED BY <1>8, <2>1, <2>2 DEF FillIdentity
<1>9. CASE SyncId
  <2>1. mem' = [mem EXCEPT !.id = self] /\ config' \in {config, Torn}
        /\ UNCHANGED <<names, call>>
    BY <1>9 DEF SyncId, SaveFails
  <2>2. mem'.id \in Nat /\ mem'.name = mem.name
    BY <2>1 DEF Kinds, IsConfig, Config
  <2> QED BY <2>1, <2>2 DEF NameTypes, names
<1>10. CASE ResaveConfig
  BY <1>10 DEF ResaveConfig, SaveFails, names, NameTypes
<1>11. CASE InitMdns
  <2>1. DisplayName \in Plain BY NameAssumption DEF DisplayName, NameTypes, Plain
  <2>2. Encode(DisplayName) \in Seq(Chars) BY <2>1, PlainIsName, EncodeType
  <2> QED BY <1>11, <2>2 DEF InitMdns, files, NameTypes
<1>12. CASE Register
  <2>1. CASE Exit("register") BY <1>12, <2>1, ForgetNames DEF Register, Exit, files
  <2>2. CASE Registered(broadcast) /\ UNCHANGED <<mem, broadcast, call>>
    BY <1>12, <2>2 DEF Register, Registered, files, NameTypes
  <2> QED BY <1>12, <2>1, <2>2 DEF Register
<1>13. ASSUME NEW c \in Callers, SetName(c) PROVE NameTypes'
  <2>1. PICK n \in Inputs :
          /\ ValidName(n)
          /\ mem' = [mem EXCEPT !.name = Trim(n)]
          /\ \/ call' = [call EXCEPT ![c] = [at |-> "saving", name |-> Trim(n)]]
             \/ UNCHANGED call
    BY <1>13 DEF SetName
  <2>2. Trim(n) \in Plain BY <2>1, NameAssumption, ValidIsPlain
  <2>3. mem'.id = mem.id /\ mem'.name \in Plain
    BY <2>1, <2>2 DEF Kinds, IsConfig, Config
  <2>4. config' \in {config, Torn} /\ UNCHANGED names BY <1>13 DEF SetName, SaveFails
  <2>5. call' \in [Callers -> [at : Stages, name : Plain]]
    <3> DEFINE R == [at : Stages, name : Plain]
               r == [at |-> "saving", name |-> Trim(n)]
    <3>1. r \in R BY <2>2 DEF Stages
    <3>2. call \in [Callers -> R] /\ (call' = [call EXCEPT ![c] = r] \/ call' = call)
      BY <2>1 DEF NameTypes
    <3> HIDE DEF R, r
    <3>3. call' \in [Callers -> R] BY <3>1, <3>2
    <3> QED BY <3>3 DEF R
  <2> QED BY <2>3, <2>4, <2>5 DEF NameTypes, names
<1>14. ASSUME NEW c \in Callers, NEW next \in {"saved", "renaming"},
              \/ call' = [call EXCEPT ![c].at = next]
              \/ call' = [call EXCEPT ![c] = Idle]
       PROVE  call' \in [Callers -> [at : Stages, name : Plain]]
  <2> DEFINE R == [at : Stages, name : Plain]
             r == [call[c] EXCEPT !.at = next]
  <2>1. call \in [Callers -> R] BY DEF NameTypes
  <2>2. r \in R BY <2>1 DEF Stages
  <2>3. Idle \in R BY NoNames DEF Idle, Stages
  <2>4. call' = [call EXCEPT ![c] = r] \/ call' = [call EXCEPT ![c] = Idle] BY <1>14
  <2> HIDE DEF R, r
  <2>5. call' \in [Callers -> R] BY <2>1, <2>2, <2>3, <2>4
  <2> QED BY <2>5 DEF R
<1>15. ASSUME NEW c \in Callers, SaveName(c) PROVE NameTypes'
  <2>1. config' \in {mem, config} /\ UNCHANGED <<mem, names>>
    BY <1>15 DEF SaveName, SaveFails
  <2>2. \/ call' = [call EXCEPT ![c].at = "saved"]
        \/ call' = [call EXCEPT ![c] = Idle]
    BY <1>15 DEF SaveName
  <2>3. call' \in [Callers -> [at : Stages, name : Plain]] BY <1>14, <2>2
  <2> QED BY <2>1, <2>3 DEF NameTypes, names
<1>16. ASSUME NEW c \in Callers, Withdraw(c) PROVE NameTypes'
  <2>1. /\ UNCHANGED <<config, mem, broadcast>> /\ services' \subseteq services
        /\ call' = [call EXCEPT ![c].at = "renaming"]
    BY <1>16 DEF Withdraw, files
  <2>2. call' \in [Callers -> [at : Stages, name : Plain]] BY <1>14, <2>1
  <2> QED BY <2>1, <2>2 DEF NameTypes
<1>17. ASSUME NEW c \in Callers, Announce(c) PROVE NameTypes'
  <2>1. call[c].name \in Plain BY DEF NameTypes
  <2>2. Encode(call[c].name) \in Seq(Chars) BY <2>1, PlainIsName, EncodeType
  <2>3. /\ broadcast' = Encode(call[c].name)
        /\ services' \subseteq services \cup {broadcast'}
        /\ call' = [call EXCEPT ![c] = Idle]
        /\ UNCHANGED <<config, mem>>
    BY <1>17 DEF Announce, Registered, files
  <2>4. call' \in [Callers -> [at : Stages, name : Plain]] BY <1>14, <2>3
  <2> QED BY <2>2, <2>3, <2>4 DEF NameTypes
<1>18. CASE GenerateIdentity
  <2>1. CASE Exit("identity") BY <1>18, <2>1, ForgetNames DEF GenerateIdentity, Exit
  <2>2. CASE UNCHANGED <<mem, names, call>>
    BY <1>18, <2>2 DEF GenerateIdentity, NameTypes, names
  <2> QED BY <1>18, <2>1, <2>2 DEF GenerateIdentity
<1>19. ASSUME \/ Start \/ LoadIdentity \/ Bind \/ LoadKey \/ ReadKeyFile
              \/ SaveKey \/ KeyNotSaved \/ FillKeyFile \/ OpenDb \/ ForeignDb
              \/ EmptyKeyRefused \/ BackUpDb \/ StoreRecord \/ UNCHANGED vars
       PROVE  UNCHANGED <<config, mem, broadcast, services, call>>
  BY <1>19 DEF Start, LoadIdentity, Bind, LoadKey, ReadKeyFile, SaveKey,
     KeyNotSaved, FillKeyFile, OpenDb, ForeignDb, EmptyKeyRefused, BackUpDb, StoreRecord,
     vars, Storage, files, names, memory
<1>20. UNCHANGED <<config, mem, broadcast, services, call>> => NameTypes'
  BY DEF NameTypes
<1> QED BY <1>1, <1>2, <1>3, <1>4, <1>5, <1>6, <1>7, <1>8, <1>9, <1>10, <1>11, <1>12,
           <1>13, <1>15, <1>16, <1>17, <1>18, <1>19, <1>20
    DEF Next, Main, StorageTask, Call

\* What is announced follows the name that is shown.
LEMMA NamesStep ==
  Kinds /\ ServeInv /\ NameTypes /\ Places /\ NamesInv /\ [Next]_vars => NamesInv'
<1> SUFFICES ASSUME Kinds, ServeInv, NameTypes, Places, NamesInv, [Next]_vars PROVE NamesInv'
  OBVIOUS
<1>1. CASE Stop BY <1>1, ForgetNames DEF Stop, files
<1>2. CASE RejectConfig BY <1>2, ForgetNames DEF RejectConfig, Exit, files
<1>3. CASE RejectIdentity
  <2>1. Forget /\ UNCHANGED config BY <1>3 DEF RejectIdentity, Exit, files
  <2> QED BY <2>1, ForgetNames
<1>4. CASE AwaitFailed
  <2>1. Forget /\ UNCHANGED config BY <1>4 DEF AwaitFailed, Exit, files
  <2> QED BY <2>1, ForgetNames
<1>5. ASSUME Start \/ LoadConfig \/ CreateConfig \/ LoadIdentity \/ GenerateIdentity
      PROVE  NamesInv'
  <2>1. CASE Forget /\ UNCHANGED config BY <2>1, ForgetNames
  <2>2. CASE /\ pc \notin {"await", "running"} /\ pc' \notin {"await", "running"}
             /\ UNCHANGED <<mdns, call>>
    BY <2>2 DEF NamesInv
  <2>3. \/ Forget /\ UNCHANGED config
        \/ /\ pc \notin {"await", "running"} /\ pc' \notin {"await", "running"}
           /\ UNCHANGED <<mdns, call>>
    BY <1>5 DEF Start, LoadConfig, CreateConfig, LoadIdentity, GenerateIdentity, Exit, tasks
  <2> QED BY <2>1, <2>2, <2>3
<1>6. CASE FillConfig
  <2>1. CASE Exit("config") /\ UNCHANGED config BY <2>1, ForgetNames DEF Exit
  <2>2. CASE pc' = "identity" /\ UNCHANGED <<tasks, call>>
    BY <1>6, <2>2 DEF FillConfig, NamesInv, tasks
  <2> QED BY <1>6, <2>1, <2>2 DEF FillConfig
<1>7. CASE FillIdentity
  <2>1. CASE Exit("identity") BY <1>7, <2>1, ForgetNames DEF FillIdentity, Exit
  <2>2. CASE pc' = "sync" /\ UNCHANGED <<tasks, call>>
    BY <1>7, <2>2 DEF FillIdentity, NamesInv, tasks
  <2> QED BY <1>7, <2>1, <2>2 DEF FillIdentity
<1>8. ASSUME SyncId \/ ResaveConfig PROVE NamesInv'
  <2>1. /\ pc \notin {"await", "running"} /\ pc' \in {"await", "resave"} /\ call' = call
        /\ (mdns' = "run" /\ pc' = "await") \/ (mdns' = mdns /\ pc' = "resave")
    BY <1>8 DEF SyncId, ResaveConfig, Spawned
  <2> QED BY <2>1 DEF NamesInv
<1>9. CASE InitMdns
  <2>1. pc = "await"
    BY <1>9 DEF InitMdns, NamesInv
  <2>2. UNCHANGED <<pc, call, mem>> /\ mdns' \in {"ok", "failed"}
        /\ (mdns' = "ok" => broadcast' = Encode(DisplayName))
    BY <1>9 DEF InitMdns
  <2>3. DisplayName' = DisplayName BY <2>2 DEF DisplayName
  <2> QED BY <2>1, <2>2, <2>3 DEF NamesInv
<1>10. CASE Register
  <2>1. CASE Exit("register") BY <1>10, <2>1, ForgetNames DEF Register, Exit, files
  <2>2. CASE /\ Registered(broadcast) /\ pc' = "running"
             /\ UNCHANGED <<mem, broadcast, call, faults, raced>>
    <3>1. pc = "await" /\ mdns = "ok" /\ services = {} BY <1>10 DEF Register, ServeInv
    <3>2. AllIdle BY <3>1 DEF ServeInv, NamesInv, AllIdle
    <3>3. AllIdle' /\ ~Renaming' BY <2>2, <3>2 DEF AllIdle, Renaming, Idle
    <3>4. DisplayName' = DisplayName BY <2>2 DEF DisplayName
    <3>5. broadcast' = Encode(DisplayName)' BY <2>2, <3>1, <3>4 DEF NamesInv
    <3>6. services' \subseteq {broadcast'} /\ mdns' \in {"ok", "dead"}
      BY <2>2, <3>1 DEF Registered
    <3>7. Len(broadcast) \in Nat /\ MaxLabel \in Nat
      BY LenProperties, LabelAssumption DEF NameTypes
    <3>8. broadcast = Encode(DisplayName)' BY <2>2, <3>5
    <3>9. Announceable' => services' # {}
      BY <2>2, <3>1, <3>7, <3>8 DEF Registered, Announceable
    <3> QED BY <2>2, <3>3, <3>5, <3>6, <3>9 DEF NamesInv, AllIdle
  <2> QED BY <1>10, <2>1, <2>2 DEF Register
<1>11. ASSUME NEW c \in Callers, SetName(c) PROVE NamesInv'
  <2>1. PICK n \in Inputs :
          /\ ValidName(n)
          /\ mem' = [mem EXCEPT !.name = Trim(n)]
          /\ \/ /\ call' = [call EXCEPT ![c] = [at |-> "saving", name |-> Trim(n)]]
                /\ faults' = faults
             \/ call' = call /\ faults' = faults + 1
    BY <1>11 DEF SetName, SaveFails, Fault
  <2>2. /\ pc = "running" /\ pc' = pc /\ call[c] = Idle
        /\ UNCHANGED <<mdns, broadcast, services>>
        /\ raced' = (raced \/ \E d \in Callers : call[d] # Idle)
    BY <1>11 DEF SetName, tasks, names
  <2>3. ~raced' => ~raced /\ \A d \in Callers : call[d] = Idle BY <2>2
  <2>4. CASE call' = call /\ faults' = faults + 1
    <3>1. faults' # 0 BY <2>4 DEF Places
    <3>2. ~raced' => \A d \in Callers : call'[d] # Idle => Alone(d)' BY <2>3, <2>4
    <3> QED BY <2>2, <2>4, <3>1, <3>2 DEF NamesInv
  <2>5. CASE /\ call' = [call EXCEPT ![c] = [at |-> "saving", name |-> Trim(n)]]
             /\ faults' = faults
    <3>1. Trim(n) # <<>> BY <2>1, NameAssumption, ValidIsPlain
    <3>2. mem'.name = Trim(n) BY <2>1 DEF Kinds, IsConfig, Config
    <3>3. /\ call'[c] = [at |-> "saving", name |-> Trim(n)]
          /\ \A d \in Callers \ {c} : call'[d] = call[d]
      BY <2>5 DEF NameTypes
    <3>4. call'[c] # Idle /\ ~AllIdle' BY <3>3 DEF Idle, AllIdle
    <3>5. \A d \in Callers : call'[d].at = "idle" => call'[d] = Idle
      BY <3>3 DEF NamesInv
    <3>6. ~raced' => \A d \in Callers : call'[d] # Idle => Alone(d)'
      BY <2>3, <3>1, <3>2, <3>3 DEF Alone
    <3>7. Renaming' => Renaming BY <3>3 DEF Renaming
    <3>8. ~raced' /\ faults' = 0 =>
            services' \subseteq {broadcast'} /\ (Renaming' => services' = {})
      BY <2>2, <2>3, <2>5, <3>7 DEF NamesInv
    <3> QED BY <2>2, <3>4, <3>5, <3>6, <3>8 DEF NamesInv
  <2> QED BY <2>1, <2>4, <2>5
<1>12. ASSUME NEW c \in Callers, SaveName(c) PROVE NamesInv'
  <2>1. UNCHANGED <<pc, mem, mdns, broadcast, services, raced>>
    BY <1>12 DEF SaveName, tasks, names, ghosts
  <2>2. call[c].at = "saving" /\ pc = "running" BY <1>12 DEF SaveName, ServeInv
  <2>3. /\ \A d \in Callers \ {c} : call'[d] = call[d]
        /\ \/ call'[c] = [call[c] EXCEPT !.at = "saved"] /\ faults' = faults
           \/ call'[c] = Idle /\ faults' = faults + 1
    BY <1>12 DEF SaveName, SaveFails, Fault, NameTypes
  <2>4. call[c] # Idle BY <2>2 DEF Idle
  <2>5. call[c] \in [at : Stages, name : Plain] BY DEF NameTypes
  <2>6. CASE call'[c] = [call[c] EXCEPT !.at = "saved"] /\ faults' = faults
    <3>1. call'[c].at = "saved" /\ call'[c].name = call[c].name BY <2>5, <2>6
    <3>2. call'[c] # Idle BY <3>1 DEF Idle
    <3>3. ~AllIdle' BY <3>2 DEF AllIdle
    <3>4. \A d \in Callers : call'[d].at = "idle" => call'[d] = Idle
      BY <2>3, <3>1 DEF NamesInv
    <3>5. ~raced => \A d \in Callers : call'[d] # Idle => Alone(d)'
      BY <2>1, <2>2, <2>3, <2>4, <3>1, <3>2 DEF NamesInv, Alone
    <3>6. Renaming' => Renaming BY <2>3, <3>1 DEF Renaming
    <3>7. ~raced' /\ faults' = 0 =>
            services' \subseteq {broadcast'} /\ (Renaming' => services' = {})
      BY <2>1, <2>2, <2>6, <3>6 DEF NamesInv
    <3> QED BY <2>1, <2>2, <3>3, <3>4, <3>5, <3>7 DEF NamesInv
  <2>7. CASE call'[c] = Idle /\ faults' = faults + 1
    <3>1. faults' # 0 BY <2>7 DEF Places
    <3>2. \A d \in Callers : call'[d].at = "idle" => call'[d] = Idle
      BY <2>3, <2>7 DEF NamesInv
    <3>3. ~raced => \A d \in Callers : call'[d] # Idle => Alone(d)'
      BY <2>1, <2>2, <2>3, <2>4, <2>7 DEF NamesInv, Alone
    <3> QED BY <2>1, <2>2, <3>1, <3>2, <3>3 DEF NamesInv
  <2> QED BY <2>3, <2>6, <2>7
<1>13. ASSUME NEW c \in Callers, Withdraw(c) PROVE NamesInv'
  <2>1. UNCHANGED <<pc, mem, mdns, broadcast, raced>>
    BY <1>13 DEF Withdraw, tasks, ghosts
  <2>2. call[c].at = "saved" /\ pc = "running" BY <1>13 DEF Withdraw, ServeInv
  <2>3. /\ \A d \in Callers \ {c} : call'[d] = call[d]
        /\ call'[c] = [call[c] EXCEPT !.at = "renaming"]
    BY <1>13 DEF Withdraw, NameTypes
  <2>4. call[c] # Idle BY <2>2 DEF Idle
  <2>5. call[c] \in [at : Stages, name : Plain] BY DEF NameTypes
  <2>6. call'[c].at = "renaming" /\ call'[c].name = call[c].name BY <2>3, <2>5
  <2>7. call'[c] # Idle BY <2>6 DEF Idle
  <2>8. ~AllIdle' BY <2>7 DEF AllIdle
  <2>9. \A d \in Callers : call'[d].at = "idle" => call'[d] = Idle
    BY <2>3, <2>6 DEF NamesInv
  <2>10. ~raced => \A d \in Callers : call'[d] # Idle => Alone(d)'
    BY <2>1, <2>2, <2>3, <2>4, <2>6, <2>7 DEF NamesInv, Alone
  <2>11. ~raced' /\ faults' = 0 =>
            services' \subseteq {broadcast'} /\ (Renaming' => services' = {})
    <3>1. /\ \/ services' = services \ {broadcast} /\ faults' = faults
             \/ faults' = faults + 1
      BY <1>13 DEF Withdraw, Fault
    <3>2. faults' = 0 => faults = 0 /\ services' = services \ {broadcast}
      BY <3>1 DEF Places
    <3> QED BY <2>1, <2>2, <3>2 DEF NamesInv
  <2> QED BY <2>1, <2>2, <2>8, <2>9, <2>10, <2>11 DEF NamesInv
<1>14. ASSUME NEW c \in Callers, Announce(c) PROVE NamesInv'
  <2>1. UNCHANGED <<pc, mem, raced>> BY <1>14 DEF Announce, ghosts
  <2>2. call[c].at = "renaming" /\ pc = "running" BY <1>14 DEF Announce, ServeInv
  <2>3. \A d \in Callers \ {c} : call'[d] = call[d] BY <1>14 DEF Announce, NameTypes
  <2>4. call'[c] = Idle BY <1>14 DEF Announce, NameTypes
  <2>5. call[c] # Idle BY <2>2 DEF Idle
  <2>6. /\ broadcast' = Encode(call[c].name)
        /\ \/ Registered(broadcast') /\ faults' = faults
           \/ mdns = "dead" /\ UNCHANGED <<services, mdns, faults>>
           \/ faults' = faults + 1 /\ mdns' = mdns
    BY <1>14 DEF Announce, Fault
  <2>7. \A d \in Callers : call'[d].at = "idle" => call'[d] = Idle
    BY <2>3, <2>4 DEF NamesInv
  <2>8. mdns' \in {"ok", "dead"} BY <2>2, <2>6 DEF NamesInv, Registered
  <2>9. ASSUME ~raced
        PROVE  /\ \A d \in Callers : call'[d] # Idle => Alone(d)'
               /\ faults' = 0 =>
                    /\ services' \subseteq {broadcast'}
                    /\ Renaming' => services' = {}
                    /\ broadcast' = Encode(DisplayName)'
                    /\ Announceable' => services' # {}
    <3>1. Alone(c) BY <2>2, <2>5, <2>9 DEF NamesInv
    <3>2. \A d \in Callers : call'[d] = Idle BY <2>3, <2>4, <3>1 DEF Alone
    <3>3. ~Renaming' BY <3>2 DEF Renaming, Idle
    <3>4. DisplayName' = call[c].name BY <2>1, <3>1 DEF Alone, DisplayName
    <3>5. broadcast' = Encode(DisplayName)' BY <2>6, <3>4
    <3>6. Len(broadcast') \in Nat /\ MaxLabel \in Nat
      BY <3>5, <2>6, PlainIsName, EncodeType, LenProperties, LabelAssumption DEF NameTypes
    <3>7. ASSUME faults' = 0
          PROVE  services' \subseteq {broadcast'} /\ (Announceable' => services' # {})
      <4>1. faults = 0 /\ faults' # faults + 1 BY <2>6, <3>7 DEF Places
      <4>2. Renaming BY <2>2 DEF Renaming
      <4>3. services = {} BY <2>2, <2>9, <4>1, <4>2 DEF NamesInv
      <4>4. CASE Registered(broadcast')
        BY <3>5, <3>6, <4>3, <4>4 DEF Registered, Announceable
      <4>5. CASE mdns = "dead" /\ UNCHANGED <<services, mdns>>
        BY <4>3, <4>5 DEF Announceable
      <4> QED BY <2>6, <4>1, <4>4, <4>5
    <3> QED BY <3>2, <3>3, <3>5, <3>7
  <2> QED BY <2>1, <2>2, <2>7, <2>8, <2>9 DEF NamesInv
<1>15. ASSUME \/ Bind \/ LoadKey \/ ReadKeyFile
              \/ SaveKey \/ KeyNotSaved \/ FillKeyFile \/ OpenDb \/ ForeignDb
              \/ EmptyKeyRefused \/ BackUpDb \/ StoreRecord \/ UNCHANGED vars
       PROVE  /\ UNCHANGED <<pc, mem, mdns, broadcast, services, call, raced>>
              /\ faults' = faults \/ faults' = faults + 1
  BY <1>15 DEF Bind, LoadKey, ReadKeyFile, SaveKey, KeyNotSaved, FillKeyFile, OpenDb,
     ForeignDb, EmptyKeyRefused, BackUpDb, StoreRecord, Fault, vars, Storage, files, names,
     tasks, memory, bounds, ghosts
<1>16. ASSUME UNCHANGED <<pc, mem, mdns, broadcast, services, call, raced>>,
              faults' = faults \/ faults' = faults + 1
       PROVE  NamesInv'
  <2>1. faults' = 0 => faults = 0 BY <1>16 DEF Places
  <2>2. DisplayName' = DisplayName BY <1>16 DEF DisplayName
  <2>3. Announceable' = Announceable BY <1>16, <2>2 DEF Announceable
  <2>4. Renaming' = Renaming /\ AllIdle' = AllIdle BY <1>16 DEF Renaming, AllIdle
  <2> QED BY <1>16, <2>1, <2>2, <2>3, <2>4 DEF NamesInv, Alone
<1> QED BY <1>1, <1>2, <1>3, <1>4, <1>5, <1>6, <1>7, <1>8, <1>9, <1>10, <1>11, <1>12,
           <1>13, <1>14, <1>15, <1>16 DEF Next, Main, StorageTask, Call

\* The places, and the counters.
LEMMA PlacesStep == Places /\ [Next]_vars => Places'
<1> SUFFICES ASSUME Places, [Next]_vars PROVE Places'
  OBVIOUS
<1>1. ASSUME Forget,
             exit' \in {exit, "config", "identity", "mdns", "port", "storage", "register"},
             faults' = faults \/ faults' = faults + 1, changes' = changes
      PROVE  Places'
  <2>1. /\ pc' = "off" /\ mdns' = "none" /\ server' = "none" /\ storage' = "none"
        /\ raced' = FALSE /\ unsaved' = FALSE
    BY <1>1 DEF Forget
  <2>2. faults' \in Nat /\ changes' \in Nat BY <1>1 DEF Places
  <2>3. exit' \in {"none", "config", "identity", "mdns", "port", "storage", "register"}
    BY <1>1 DEF Places
  <2> QED BY <2>1, <2>2, <2>3 DEF Places
<1>2. CASE Start BY <1>2 DEF Start, tasks, Places
<1>3. CASE Stop BY <1>1, <1>3 DEF Stop, bounds
<1>4. CASE LoadConfig \/ LoadIdentity
  BY <1>4 DEF LoadConfig, LoadIdentity, tasks, bounds, ghosts, Places
<1>5. CASE RejectConfig \/ RejectIdentity \/ AwaitFailed
  <2>1. Forget /\ UNCHANGED bounds
    BY <1>5 DEF RejectConfig, RejectIdentity, AwaitFailed, Exit
  <2>2. exit' \in {"config", "identity", "mdns", "port", "storage"}
    BY <1>5 DEF RejectConfig, RejectIdentity, AwaitFailed, Exit
  <2> QED BY <1>1, <2>1, <2>2 DEF bounds
<1>6. CASE CreateConfig \/ FillConfig
  <2>1. CASE Fault /\ Exit("config") /\ changes' = changes
    BY <1>1, <2>1 DEF Exit, Fault
  <2>2. CASE /\ pc' \in {"create", "identity"}
             /\ UNCHANGED <<tasks, faults, changes, raced, unsaved, exit>>
    BY <2>2 DEF tasks, Places
  <2> QED BY <1>6, <2>1, <2>2 DEF CreateConfig, FillConfig
<1>7. CASE GenerateIdentity \/ FillIdentity
  <2>1. CASE Fault /\ Exit("identity") /\ changes' = changes
    BY <1>1, <2>1 DEF Exit, Fault
  <2>2. CASE /\ pc' \in {"generate", "sync"}
             /\ UNCHANGED <<tasks, faults, changes, raced, unsaved, exit>>
    BY <2>2 DEF tasks, Places
  <2> QED BY <1>7, <2>1, <2>2 DEF GenerateIdentity, FillIdentity
<1>8. CASE SyncId \/ ResaveConfig
  <2>1. /\ pc' \in {"await", "resave"} /\ changes' = changes
        /\ \/ UNCHANGED <<mdns, server, storage>>
           \/ mdns' = "run" /\ server' = "run" /\ storage' = "keychain"
    BY <1>8 DEF SyncId, ResaveConfig, Spawned
  <2>2. /\ UNCHANGED <<raced, exit>>
        /\ UNCHANGED <<faults, unsaved>> \/ (faults' = faults + 1 /\ unsaved' = TRUE)
    BY <1>8 DEF SyncId, ResaveConfig, SaveFails, Fault
  <2>3. /\ mdns' \in {mdns, "run"} /\ server' \in {server, "run"}
        /\ storage' \in {storage, "keychain"} /\ unsaved' \in {unsaved, TRUE}
    BY <2>1, <2>2
  <2>4. faults' \in Nat /\ changes' \in Nat BY <2>1, <2>2 DEF Places
  <2> QED BY <2>1, <2>2, <2>3, <2>4 DEF Places
<1>9. CASE Register
  <2>1. CASE Exit("register") BY <1>1, <1>9, <2>1 DEF Register, Exit, Fault
  <2>2. CASE /\ Registered(broadcast) /\ pc' = "running"
             /\ UNCHANGED <<server, storage, faults, raced, unsaved, exit>>
    BY <1>9, <2>2 DEF Register, Registered, Places
  <2> QED BY <1>9, <2>1, <2>2 DEF Register
<1>10. CASE InitMdns \/ Bind
  BY <1>10 DEF InitMdns, Bind, Fault, ghosts, Places
<1>11. CASE StorageTask
  BY <1>11 DEF StorageTask, LoadKey, ReadKeyFile, SaveKey, KeyNotSaved, FillKeyFile, OpenDb,
     ForeignDb, EmptyKeyRefused, BackUpDb, Storage, Fault, ghosts, Places
<1>12. CASE StoreRecord \/ UNCHANGED vars
  BY <1>12 DEF StoreRecord, vars, memory, tasks, bounds, ghosts, Places
<1>13. ASSUME NEW c \in Callers, SetName(c) \/ SaveName(c) PROVE Places'
  <2>1. UNCHANGED <<pc, tasks, exit>> BY <1>13 DEF SetName, SaveName
  <2>2. raced' \in BOOLEAN /\ unsaved' \in BOOLEAN
    <3>1. CASE SetName(c) BY <3>1 DEF SetName, SaveFails, Places
    <3>2. CASE SaveName(c) BY <3>2 DEF SaveName, SaveFails, Places
    <3> QED BY <1>13, <3>1, <3>2
  <2>3. faults' \in Nat /\ changes' \in Nat
    BY <1>13 DEF SetName, SaveName, SaveFails, Fault, Places
  <2> QED BY <2>1, <2>2, <2>3 DEF Places, tasks
<1>14. ASSUME NEW c \in Callers, Withdraw(c) \/ Announce(c) PROVE Places'
  <2>1. UNCHANGED <<pc, server, storage, exit, raced, unsaved>>
    BY <1>14 DEF Withdraw, Announce, tasks, ghosts
  <2>2. mdns' \in {mdns, "dead"}
    BY <1>14 DEF Withdraw, Announce, Registered, tasks
  <2>3. faults' \in Nat /\ changes' \in Nat
    BY <1>14 DEF Withdraw, Announce, Fault, Places
  <2> QED BY <2>1, <2>2, <2>3 DEF Places
<1> QED BY <1>2, <1>3, <1>4, <1>5, <1>6, <1>7, <1>8, <1>9, <1>10, <1>11, <1>12, <1>13,
           <1>14
    DEF Next, Main, Call
-----------------------------------------------------------------------------
(* The theorems                                                            *)

LEMMA StartInit == Init => Kinds /\ NameTypes /\ StartInv
<1> SUFFICES ASSUME Init PROVE Kinds /\ NameTypes /\ StartInv
  OBVIOUS
<1>1. Legacy \in Databases BY DEF Legacy, Database, Databases, EmptyKey
<1>2. Kinds
  BY <1>1, FS_EmptySet DEF Init, Kinds, Contents, Config, IsConfig, EmptyKey
<1>3. NameTypes BY NoNames DEF Init, NameTypes, Config, Idle, Stages
<1>4. IdInv /\ ConfigInv BY DEF Init, IdInv, ConfigInv
<1>5. ServeInv BY DEF Init, ServeInv, Idle
<1>6. HistoryInv BY FileAssumption DEF Init, HistoryInv, PlaceInv
<1> QED BY <1>2, <1>3, <1>4, <1>5, <1>6 DEF StartInv

LEMMA StartStep ==
  Kinds /\ NameTypes /\ StartInv /\ [Next]_vars => (Kinds /\ NameTypes /\ StartInv)'
BY KindsStep, NameTypesStep, IdStep, ConfigStep, ServeStep, HistoryStep DEF StartInv

\* The inductive invariant of a device and its files (main.rs; app.rs, App::new; config.rs,
\* identity.rs, storage.rs).
THEOREM StartInvariant == Spec => [](Kinds /\ NameTypes /\ StartInv)
BY StartInit, StartStep, PTL DEF Spec

\* A device keeps its id for good once it has run, whatever starts are cut short
\* (IdentityManager::new; App::new).
THEOREM IdIsKept == Spec => []IdKept
<1>1. StartInv => IdKept BY DEF StartInv, IdInv, IdKept
<1> QED BY <1>1, StartInvariant, PTL

\* A device is announced only when its port is bound and its database open (App::new,
\* register).
THEOREM AdvertisedDevicesServe == Spec => []AdvertisedServes
<1>1. StartInv => AdvertisedServes BY DEF StartInv, ServeInv, AdvertisedServes
<1> QED BY <1>1, StartInvariant, PTL

\* What is shown as the device's name is what the next start will show, unless the last
\* write of the file has failed, at opening it or at filling it (set_custom_device_name,
\* AppConfig::save).
THEOREM ShownNameIsStored == Spec => []ShownIsStored
<1>1. StartInv => ShownIsStored BY DEF StartInv, ConfigInv, ShownIsStored
<1> QED BY <1>1, StartInvariant, PTL

\* As long as the keychain answers, a program that runs again has every record it stored
\* (KeyManager::new, HistoryStorage::new).
THEOREM HistoryIsKept == Spec => []HistoryKept
<1>1. StartInv => HistoryKept
  <2> SUFFICES ASSUME StartInv, refusals = 0, pc = "running"
               PROVE  stored \subseteq db.records
    BY DEF HistoryKept
  <2>1. db \in Databases BY DEF StartInv, ServeInv
  <2>2. stored \subseteq Records(db) BY DEF StartInv, HistoryInv
  <2> QED BY <2>1, <2>2, FileAssumption DEF Records
<1> QED BY <1>1, StartInvariant, PTL

\* Until the keychain has refused, the next start can read every record, at whichever moment
\* this one is cut short: they are in the database, and the key that is found is the one
\* they are encrypted under (KeyManager::new, HistoryStorage::new).
THEOREM HistoryIsReadable == Spec => []HistoryReadable
<1>1. StartInv => HistoryReadable
  <2> SUFFICES ASSUME StartInv, refusals = 0, stored # {}
               PROVE  db # Absent /\ stored \subseteq db.records /\ db.key = NextKey
    BY DEF HistoryReadable
  <2>1. stored \subseteq Records(db) /\ Holds(db.key) BY DEF StartInv, HistoryInv
  <2>2. db # Absent BY <2>1 DEF Records
  <2> QED BY <2>1, <2>2 DEF Records, Holds, NextKey
<1> QED BY <1>1, StartInvariant, PTL

LEMMA NamesInit == Init => Places /\ NamesInv
<1> SUFFICES ASSUME Init PROVE Places /\ NamesInv
  OBVIOUS
<1>1. Places BY DEF Init, Places
<1>2. NamesInv BY DEF Init, NamesInv
<1> QED BY <1>1, <1>2

\* What is announced follows the name that is shown, on top of the invariant of the files
\* (MdnsService::new, register; set_device_name, update_device_name).
THEOREM NamesFollow == Spec => [](Places /\ NamesInv)
<1>1. Kinds /\ NameTypes /\ StartInv /\ (Places /\ NamesInv) /\ [Next]_vars
        => (Places /\ NamesInv)'
  BY PlacesStep, NamesStep DEF StartInv
<1> QED BY <1>1, NamesInit, StartInvariant, PTL DEF Spec

\* Every variable has its type.
THEOREM Types == Spec => []TypeOK
<1>1. Kinds /\ NameTypes /\ Places => TypeOK
  <2> SUFFICES ASSUME Kinds, NameTypes, Places PROVE TypeOK
    OBVIOUS
  <2>1. Plain \subseteq Seq(Chars) BY PlainIsName
  <2>2. mem \in [id : Ids, name : Seq(Chars)]
    BY <2>1 DEF Kinds, IsConfig, Config, NameTypes, Ids
  <2>3. config \notin {Absent, Torn} => config \in [id : Ids, name : Seq(Chars)]
    BY <2>1 DEF Kinds, IsConfig, Config, NameTypes, Ids
  <2>4. call \in [Callers -> [at : {"idle", "saving", "saved", "renaming"},
                              name : Seq(Chars)]]
    BY <2>1 DEF NameTypes, Stages
  <2>5. /\ {self, key, starts, faults, refusals, changes, ranAs} \subseteq Nat
        /\ {identity, keyFile} \subseteq Contents
    BY DEF Kinds, Places
  <2> QED BY <2>2, <2>3, <2>4, <2>5 DEF TypeOK, Kinds, NameTypes, Places
<1> QED BY <1>1, StartInvariant, NamesFollow, PTL

\* Between calls that did not overlap or fail, the name that others read from mDNS and from
\* the UDP broadcasts is the one the device shows, and mDNS has one if the name, encoded,
\* fits a label of DNS (set_device_name, update_device_name, encode_mdns_name,
\* decode_mdns_name).
THEOREM AnnouncedNamesAgree == Spec => []NamesAgree
<1>1. NameTypes /\ NamesInv => NamesAgree
  <2> SUFFICES ASSUME NameTypes, NamesInv, Quiet, ~raced, faults = 0 PROVE Agree
    BY DEF NamesAgree
  <2>1. /\ services \subseteq {broadcast} /\ broadcast = Encode(DisplayName)
        /\ Announceable => services # {}
    BY DEF Quiet, NamesInv, AllIdle
  <2>2. DisplayName \in Plain BY NameAssumption DEF DisplayName, NameTypes, Plain
  <2>3. Decode(broadcast) = Shown(DisplayName) BY <2>1, <2>2, RoundTrip
  <2> QED BY <2>1, <2>3 DEF Agree
<1> QED BY <1>1, StartInvariant, NamesFollow, PTL
=============================================================================
