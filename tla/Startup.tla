------------------------------ MODULE Startup ------------------------------
(***************************************************************************)
(* One device through its starts: what it keeps in ~/.paseboard and in the *)
(* keychain (config.toml, identity.pem, db.key, history.db), how main.rs   *)
(* and App::new build the program from it, and what set_device_name        *)
(* changes while the program runs.  The program may be stopped between any *)
(* two steps, and a file is written in two: it is opened, which empties    *)
(* it, then filled (std::fs::write).  When it cannot be opened it stays as *)
(* it was; when it cannot be filled, or the program is stopped, it is Torn.*)
(*                                                                         *)
(* App::new waits for three tasks that run at once: the mDNS service, the  *)
(* server, which binds its port, and the storage, which finds its key and  *)
(* opens the database.                                                     *)
(***************************************************************************)
EXTENDS DeviceName, FiniteSets

CONSTANTS
  Absent, Torn,  \* what a file may be instead of having its content
  NoKeychain,    \* the keychain of a platform that has none
  HostName,      \* the name of the computer
  Inputs,        \* the names the user may type
  Callers,       \* the calls of set_device_name that may overlap
  MaxStarts,     \* bound: how often the program is started
  MaxRecords,    \* bound: how many records are stored
  MaxChanges,    \* bound: how often the name is changed
  MaxFaults,     \* bound: failing reads, writes, registrations and ports
  MaxRefusals,   \* bound: how often the keychain refuses
  MaxLabel       \* the longest label of a DNS name: 63 (RFC 1035)

\* history.db: its key, and the records in it
Databases == [key : Nat, records : SUBSET Nat]

ASSUME FileAssumption ==
  /\ Absent # Torn /\ Absent \notin Databases
  /\ {Absent, Torn, NoKeychain} \cap Nat = {}
  /\ NoKeychain \notin {Absent, Torn}

\* Host names have letters, digits and hyphens (RFC 1123), at least no percent sign: nothing
\* in the code checks it (create_default).  A name that is typed may have anything.
ASSUME LabelAssumption == MaxLabel \in Nat
ASSUME NameAssumption == HostName \in Seq(Chars \ {"%"}) /\ Inputs \subseteq Seq(Chars)

VARIABLES
  \* on disk:
  config,    \* config.toml
  identity,  \* identity.pem: the key pair, by its number
  keyFile,   \* db.key: the key of the database, by its number
  keychain,  \* the system's keychain
  db,        \* history.db
  backup,    \* history.db.bak
  \* in memory:
  pc,        \* where the start-up is, or "off"
  mem,       \* the configuration
  self,      \* the key pair in use, from which the device id is derived
  mdns, server, storage,  \* the three tasks; mdns may be "dead" later
  key,       \* the storage's key
  broadcast, \* the name, encoded, that the mDNS service has and UDP broadcasts
  services,  \* the names registered with mDNS, encoded
  call,      \* the calls of set_device_name
  \* bounds:
  starts, faults, refusals, changes,
  \* history variables, in no guard:
  stored,    \* the records that were stored
  ranAs,     \* the device id the program first ran under, or 0
  raced,     \* two calls of this run have overlapped
  unsaved,   \* the last write of the configuration in this run has failed
  exit       \* what made the program exit, or "none"

files  == <<config, identity, keyFile, keychain, db, backup>>
tasks  == <<mdns, server, storage, key>>
names  == <<broadcast, services>>
memory == <<pc, mem, self, tasks, names, call>>
bounds == <<starts, faults, refusals, changes>>
ghosts == <<stored, ranAs, raced, unsaved, exit>>
vars   == <<files, memory, bounds, ghosts>>

-----------------------------------------------------------------------------
\* Device ids: 0 is the UUID of a new configuration, others are key pairs.  name is
\* the custom name, <<>> if there is none.
Ids == Nat
Config(id, name) == [id |-> id, name |-> name]
DisplayName == IF mem.name = <<>> THEN HostName ELSE mem.name

\* Keys of the database: the file is taken as it is, and an empty one for the empty key,
\* under which the database is not encrypted.
EmptyKey == 0
FreshKey == starts          \* generate_key: at most one in each start
\* Mutant of KeyIn: a file without content is not told from one with a key.
KeyInUnread(file) == file

KeyIn(file) == IF file = Torn THEN EmptyKey ELSE file

Database(k, records) == [key |-> k, records |-> records]
Legacy == Database(EmptyKey, {})   \* left by a version that did not encrypt

Idle == [at |-> "idle", name |-> <<>>]

Init ==
  /\ config = Absent /\ identity = Absent /\ keyFile = Absent /\ backup = Absent
  /\ keychain \in {Absent, NoKeychain}
  /\ db \in {Absent, Legacy}
  /\ pc = "off" /\ mem = Config(0, <<>>) /\ self = 0
  /\ mdns = "none" /\ server = "none" /\ storage = "none" /\ key = EmptyKey
  /\ broadcast = <<>> /\ services = {}
  /\ call = [c \in Callers |-> Idle]
  /\ starts = 0 /\ faults = 0 /\ refusals = 0 /\ changes = 0
  /\ stored = {} /\ ranAs = 0 /\ raced = FALSE /\ unsaved = FALSE /\ exit = "none"

\* What ends with the process
Forget ==
  /\ pc' = "off" /\ mem' = Config(0, <<>>) /\ self' = 0
  /\ mdns' = "none" /\ server' = "none" /\ storage' = "none" /\ key' = EmptyKey
  /\ broadcast' = <<>> /\ services' = {}
  /\ call' = [c \in Callers |-> Idle]
  /\ raced' = FALSE /\ unsaved' = FALSE

Exit(cause) == Forget /\ exit' = cause

Fault == faults < MaxFaults /\ faults' = faults + 1

-----------------------------------------------------------------------------
(* main and App::new up to the three tasks                                 *)

Start ==
  /\ pc = "off" /\ starts < MaxStarts
  /\ pc' = "load" /\ starts' = starts + 1 /\ exit' = "none"
  /\ UNCHANGED <<files, mem, self, tasks, names, call, faults, refusals, changes,
                 stored, ranAs, raced, unsaved>>

LoadConfig ==
  /\ pc = "load" /\ config \notin {Absent, Torn}
  /\ mem' = config /\ pc' = "identity"
  /\ UNCHANGED <<files, self, tasks, names, call, bounds, ghosts>>

RejectConfig ==
  /\ pc = "load" /\ config = Torn
  /\ Exit("config")
  /\ UNCHANGED <<files, bounds, stored, ranAs>>

CreateConfig ==
  /\ pc = "load" /\ config = Absent
  /\ \/ mem' = Config(0, <<>>) /\ config' = Torn /\ pc' = "create"
        /\ UNCHANGED <<self, tasks, names, call, faults, raced, unsaved, exit>>
     \/ Fault /\ Exit("config") /\ UNCHANGED config
  /\ UNCHANGED <<identity, keyFile, keychain, db, backup, starts, refusals, changes,
                 stored, ranAs>>

FillConfig ==
  /\ pc = "create"
  /\ \/ config' = mem /\ pc' = "identity"
        /\ UNCHANGED <<mem, self, tasks, names, call, faults, raced, unsaved, exit>>
     \/ Fault /\ Exit("config") /\ UNCHANGED config
  /\ UNCHANGED <<identity, keyFile, keychain, db, backup, starts, refusals, changes,
                 stored, ranAs>>

LoadIdentity ==
  /\ pc = "identity" /\ identity \notin {Absent, Torn}
  /\ self' = identity /\ pc' = "sync"
  /\ UNCHANGED <<files, mem, tasks, names, call, bounds, ghosts>>

RejectIdentity ==
  /\ pc = "identity" /\ identity = Torn
  /\ Exit("identity")
  /\ UNCHANGED <<files, bounds, stored, ranAs>>

GenerateIdentity ==
  /\ pc = "identity" /\ identity = Absent
  /\ \/ self' = starts /\ identity' = Torn /\ pc' = "generate"
        /\ UNCHANGED <<mem, tasks, names, call, faults, raced, unsaved, exit>>
     \/ Fault /\ Exit("identity") /\ UNCHANGED identity
  /\ UNCHANGED <<config, keyFile, keychain, db, backup, starts, refusals, changes,
                 stored, ranAs>>

FillIdentity ==
  /\ pc = "generate"
  /\ \/ identity' = self /\ pc' = "sync"
        /\ UNCHANGED <<mem, self, tasks, names, call, faults, raced, unsaved, exit>>
     \/ Fault /\ Exit("identity") /\ UNCHANGED identity
  /\ UNCHANGED <<config, keyFile, keychain, db, backup, starts, refusals, changes,
                 stored, ranAs>>

Spawned ==
  /\ pc' = "await"
  /\ mdns' = "run" /\ server' = "run" /\ storage' = "keychain"

\* Mutant of SyncId: the id is changed in a copy that is saved, not in what is used.
SyncIdOfCopy ==
  /\ pc = "sync"
  /\ IF mem.id = self THEN UNCHANGED config ELSE config' = [mem EXCEPT !.id = self]
  /\ Spawned
  /\ UNCHANGED <<identity, keyFile, keychain, db, backup, mem, self, key, names, call,
                 bounds, ghosts>>

\* A failure to save the configuration at the start is only logged.
SaveFails == Fault /\ unsaved' = TRUE /\ UNCHANGED config

\* The device id of the configuration becomes the one of the key pair
SyncId ==
  /\ pc = "sync"
  /\ mem' = [mem EXCEPT !.id = self]
  /\ \/ mem.id = self /\ Spawned /\ UNCHANGED <<config, faults, unsaved>>
     \/ mem.id # self /\ Spawned /\ SaveFails
     \/ /\ mem.id # self /\ config' = Torn /\ pc' = "resave"
        /\ UNCHANGED <<mdns, server, storage, faults, unsaved>>
  /\ UNCHANGED <<identity, keyFile, keychain, db, backup, self, key, names, call,
                 starts, refusals, changes, stored, ranAs, raced, exit>>

ResaveConfig ==
  /\ pc = "resave"
  /\ \/ config' = mem /\ UNCHANGED <<faults, unsaved>>
     \/ SaveFails
  /\ Spawned
  /\ UNCHANGED <<identity, keyFile, keychain, db, backup, mem, self, key, names,
                 call, starts, refusals, changes, stored, ranAs, raced, exit>>

-----------------------------------------------------------------------------
(* The three tasks                                                         *)

\* MdnsService::new
InitMdns ==
  /\ mdns = "run"
  /\ \/ mdns' = "ok" /\ broadcast' = Encode(DisplayName) /\ UNCHANGED faults
     \/ mdns' = "failed" /\ Fault /\ UNCHANGED broadcast
  /\ UNCHANGED <<files, pc, mem, self, server, storage, key, services, call, starts,
                 refusals, changes, ghosts>>

\* WebSocketServer::new: there is one port, and another program may have it
Bind ==
  /\ server = "run"
  /\ \/ server' = "ok" /\ UNCHANGED faults
     \/ server' = "failed" /\ Fault
  /\ UNCHANGED <<files, pc, mem, self, mdns, storage, key, names, call, starts,
                 refusals, changes, ghosts>>

Refusal == refusals < MaxRefusals /\ refusals' = refusals + 1

Storage(from) == storage = from /\ UNCHANGED <<pc, mem, self, mdns, server, names,
                                               call, starts, changes, ghosts>>

\* KeyManager::new, load_from_keychain
LoadKey ==
  /\ Storage("keychain")
  /\ \/ keychain \in Nat /\ key' = keychain /\ storage' = "open" /\ UNCHANGED refusals
     \/ keychain \notin Nat /\ storage' = "file" /\ UNCHANGED <<key, refusals>>
     \/ keychain \in Nat /\ Refusal /\ storage' = "file" /\ UNCHANGED key
  /\ UNCHANGED <<files, faults>>

\* Mutant of ReadKeyFile: a key that is in the file is not looked for.
ReadKeyFileNever ==
  /\ Storage("file")
  /\ key' = FreshKey /\ storage' = "save"
  /\ UNCHANGED <<files, faults, refusals>>

ReadKeyFile ==
  /\ Storage("file")
  /\ \/ /\ keyFile = Absent /\ key' = FreshKey /\ storage' = "save"
        /\ UNCHANGED faults
     \/ /\ keyFile # Absent /\ key' = KeyIn(keyFile) /\ storage' = "open"
        /\ UNCHANGED faults
     \/ keyFile # Absent /\ Fault /\ storage' = "failed" /\ UNCHANGED key
  /\ UNCHANGED <<files, refusals>>

\* save_to_keychain replaces what the keychain held
SaveKey ==
  /\ Storage("save") /\ keychain # NoKeychain
  /\ keychain' = key /\ storage' = "open"
  /\ UNCHANGED <<config, identity, keyFile, db, backup, key, faults, refusals>>

\* Mutant of KeyNotSaved: there is no file to fall back on.
KeyNotKept ==
  /\ Storage("save")
  /\ keychain = NoKeychain \/ Refusal
  /\ storage' = "open"
  /\ UNCHANGED <<files, key, faults, refusals>>

KeyNotSaved ==
  /\ Storage("save")
  /\ \/ keychain = NoKeychain /\ UNCHANGED refusals
     \/ keychain # NoKeychain /\ Refusal
  /\ \/ keyFile' = Torn /\ storage' = "fill" /\ UNCHANGED faults
     \/ Fault /\ storage' = "failed" /\ UNCHANGED keyFile
  /\ UNCHANGED <<config, identity, keychain, db, backup, key>>

FillKeyFile ==
  /\ Storage("fill")
  /\ \/ keyFile' = key /\ storage' = "open" /\ UNCHANGED faults
     \/ Fault /\ storage' = "failed" /\ UNCHANGED keyFile
  /\ UNCHANGED <<config, identity, keychain, db, backup, key, refusals>>

\* open_with_key and init_database: a new file is created under the key
OpenDb ==
  /\ Storage("open")
  /\ db # Absent => db.key = key
  /\ db' = IF db = Absent THEN Database(key, {}) ELSE db
  /\ storage' = "ok"
  /\ UNCHANGED <<config, identity, keyFile, keychain, backup, key, faults, refusals>>

\* "file is not a database": the file is taken for one of an older version
ForeignDb ==
  /\ Storage("open")
  /\ db # Absent /\ db.key # key
  /\ storage' = "rename"
  /\ UNCHANGED <<files, key, faults, refusals>>

\* Versions of SQLCipher differ on the empty key: some refuse it
EmptyKeyRefused ==
  /\ Storage("open") /\ key = EmptyKey
  /\ storage' = "failed"
  /\ UNCHANGED <<files, key, faults, refusals>>

\* std::fs::rename replaces an older backup
BackUpDb ==
  /\ Storage("rename")
  /\ backup' = db /\ db' = Absent /\ storage' = "open"
  /\ UNCHANGED <<config, identity, keyFile, keychain, key, faults, refusals>>

-----------------------------------------------------------------------------
(* App::new after the three tasks, and the running program                 *)

\* Mutant of AwaitFailed: the result of the storage's task is not looked at.
AwaitNotStorage ==
  /\ pc = "await"
  /\ \/ mdns = "failed" /\ Exit("mdns")
     \/ mdns = "ok" /\ server = "failed" /\ Exit("port")
  /\ UNCHANGED <<files, bounds, stored, ranAs>>

AwaitFailed ==
  /\ pc = "await"
  /\ \/ mdns = "failed" /\ Exit("mdns")
     \/ mdns = "ok" /\ server = "failed" /\ Exit("port")
     \/ mdns = "ok" /\ server = "ok" /\ storage = "failed" /\ Exit("storage")
  /\ UNCHANGED <<files, bounds, stored, ranAs>>

\* Mutant of Register: registered before the storage's task has ended.
RegisterEarly ==
  /\ pc = "await" /\ mdns = "ok" /\ server = "ok"
  /\ services' = {broadcast} /\ pc' = IF storage = "ok" THEN "running" ELSE pc
  /\ UNCHANGED <<files, mem, self, tasks, broadcast, call, bounds, ghosts>>

\* The daemon is told to register n (mdns_sd, ServiceDaemon::register).  A name that is no
\* label of DNS is not announced, which the caller is not told, and may end the daemon.
Registered(n) ==
  \/ /\ mdns = "ok" /\ Len(n) <= MaxLabel
     /\ services' = services \cup {n} /\ UNCHANGED mdns
  \/ /\ mdns = "ok" /\ Len(n) > MaxLabel
     /\ \/ UNCHANGED <<services, mdns>>
        \/ services' = {} /\ mdns' = "dead"

\* MdnsService::register; then the window may call
Register ==
  /\ pc = "await" /\ mdns = "ok" /\ server = "ok" /\ storage = "ok"
  /\ \/ /\ Registered(broadcast) /\ pc' = "running"
        /\ ranAs' = IF ranAs = 0 THEN mem.id ELSE ranAs
        /\ UNCHANGED <<mem, self, server, storage, key, broadcast, call, faults, raced,
                       unsaved, exit>>
     \/ Fault /\ Exit("register") /\ UNCHANGED ranAs
  /\ UNCHANGED <<files, starts, refusals, changes, stored>>

\* The storage thread inserts a record: the rest of its work is in HistoryStore
StoreRecord ==
  /\ pc = "running" /\ Cardinality(stored) < MaxRecords
  /\ LET r == Cardinality(stored) + 1
     IN  /\ db' = [db EXCEPT !.records = @ \cup {r}]
         /\ stored' = stored \cup {r}
  /\ UNCHANGED <<config, identity, keyFile, keychain, backup, memory, bounds, ranAs,
                 raced, unsaved, exit>>

Saving   == \E c \in Callers : call[c].at = "saving"
Renaming == \E c \in Callers : call[c].at = "renaming"

\* set_device_name, and set_custom_device_name with the lock on the configuration, which
\* has the name in memory before it is saved; a name that is not valid changes nothing
SetName(c) ==
  /\ pc = "running" /\ call[c] = Idle /\ ~Saving /\ changes < MaxChanges
  /\ \E n \in Inputs :
       /\ ValidName(n)
       /\ mem' = [mem EXCEPT !.name = Trim(n)]
       /\ \/ /\ call' = [call EXCEPT ![c] = [at |-> "saving", name |-> Trim(n)]]
             /\ config' = Torn
             /\ UNCHANGED <<faults, unsaved>>
          \/ SaveFails /\ UNCHANGED call
  /\ changes' = changes + 1
  /\ raced' = (raced \/ \E d \in Callers : call[d] # Idle)
  /\ UNCHANGED <<identity, keyFile, keychain, db, backup, pc, self, tasks, names,
                 starts, refusals, stored, ranAs, exit>>

\* Mutant of SaveName: the custom name is not among the fields that are saved.
SaveIdOnly(c) ==
  /\ call[c].at = "saving"
  /\ config' = Config(mem.id, <<>>) /\ unsaved' = FALSE
  /\ call' = [call EXCEPT ![c].at = "saved"]
  /\ UNCHANGED <<identity, keyFile, keychain, db, backup, pc, mem, self, tasks,
                 names, bounds, stored, ranAs, raced, exit>>

SaveName(c) ==
  /\ call[c].at = "saving"
  /\ \/ /\ config' = mem /\ unsaved' = FALSE
        /\ call' = [call EXCEPT ![c].at = "saved"]
        /\ UNCHANGED faults
     \/ SaveFails /\ call' = [call EXCEPT ![c] = Idle]
  /\ UNCHANGED <<identity, keyFile, keychain, db, backup, pc, mem, self, tasks,
                 names, starts, refusals, changes, stored, ranAs, raced, exit>>

\* update_device_name has the lock on the mDNS service, and unregisters the name that
\* it has; a failure is only logged
Withdraw(c) ==
  /\ call[c].at = "saved" /\ ~Renaming
  /\ call' = [call EXCEPT ![c].at = "renaming"]
  /\ \/ services' = services \ {broadcast} /\ UNCHANGED faults
     \/ Fault /\ UNCHANGED services
  /\ UNCHANGED <<files, pc, mem, self, tasks, broadcast, starts, refusals, changes,
                 ghosts>>

\* Mutant of Announce: UDP goes on broadcasting the name of the start.
AnnounceByMdns(c) ==
  /\ call[c].at = "renaming"
  /\ Registered(Encode(call[c].name))
  /\ call' = [call EXCEPT ![c] = Idle]
  /\ UNCHANGED <<files, pc, mem, self, server, storage, key, broadcast, bounds, ghosts>>

\* It broadcasts the new name from then on, registers it, and lets the lock go.  The
\* registration may fail, as it does when the daemon has ended.
Announce(c) ==
  /\ call[c].at = "renaming"
  /\ broadcast' = Encode(call[c].name)
  /\ \/ Registered(broadcast') /\ UNCHANGED faults
     \/ mdns = "dead" /\ UNCHANGED <<services, mdns, faults>>
     \/ Fault /\ UNCHANGED <<services, mdns>>
  /\ call' = [call EXCEPT ![c] = Idle]
  /\ UNCHANGED <<files, pc, mem, self, server, storage, key, starts, refusals, changes,
                 ghosts>>

\* The program is ended, or the computer is switched off
Stop ==
  /\ pc # "off" /\ Forget
  /\ UNCHANGED <<files, bounds, stored, ranAs, exit>>

-----------------------------------------------------------------------------
Main ==
  \/ LoadConfig \/ RejectConfig \/ CreateConfig \/ FillConfig
  \/ LoadIdentity \/ RejectIdentity \/ GenerateIdentity \/ FillIdentity
  \/ SyncId \/ ResaveConfig \/ AwaitFailed \/ Register

StorageTask ==
  \/ LoadKey \/ ReadKeyFile \/ SaveKey \/ KeyNotSaved \/ FillKeyFile
  \/ OpenDb \/ ForeignDb \/ EmptyKeyRefused \/ BackUpDb

Call(c) == SaveName(c) \/ Withdraw(c) \/ Announce(c)

Next ==
  \/ Start \/ Stop \/ Main
  \/ InitMdns \/ Bind \/ StorageTask
  \/ StoreRecord
  \/ \E c \in Callers : SetName(c) \/ Call(c)

Spec == Init /\ [][Next]_vars

\* The program's own steps are taken; when it is started, stopped and called is not
\* its choice.
FairSpec ==
  /\ Spec
  /\ WF_vars(Main) /\ WF_vars(InitMdns) /\ WF_vars(Bind) /\ WF_vars(StorageTask)

-----------------------------------------------------------------------------
(* Properties                                                              *)

Contents == {Absent, Torn} \cup Nat

\* Every variable has its type.
TypeOK ==
  /\ config \notin {Absent, Torn} => config \in [id : Ids, name : Seq(Chars)]
  /\ {identity, keyFile} \subseteq Contents
  /\ keychain \in {Absent, NoKeychain} \cup Nat
  /\ db # Absent => db \in Databases
  /\ backup # Absent => backup \in Databases
  /\ pc \in {"off", "load", "create", "identity", "generate", "sync", "resave",
             "await", "running"}
  /\ mem \in [id : Ids, name : Seq(Chars)]
  /\ {self, key, starts, faults, refusals, changes, ranAs} \subseteq Nat
  /\ mdns \in {"none", "run", "ok", "failed", "dead"}
  /\ server \in {"none", "run", "ok", "failed"}
  /\ storage \in {"none", "keychain", "file", "save", "fill", "open", "rename", "ok",
                  "failed"}
  /\ broadcast \in Seq(Chars)
  /\ \A s \in services : s \in Seq(Chars)
  /\ call \in [Callers -> [at : {"idle", "saving", "saved", "renaming"},
                           name : Seq(Chars)]]
  /\ stored \subseteq Nat
  /\ raced \in BOOLEAN /\ unsaved \in BOOLEAN
  /\ exit \in {"none", "config", "identity", "mdns", "port", "storage", "register"}

\* A device keeps its id for good once it has run, wherever earlier and later starts
\* were cut short, and everything that runs uses the id of the key pair on disk
\* (IdentityManager::new; the id of the configuration, app.rs, App::new).
IdKept ==
  /\ ranAs # 0 => identity = ranAs
  /\ pc \in {"await", "running"} => identity = self /\ mem.id = self

\* Nothing is registered with mDNS before the port is bound and the database open:
\* other devices connect as soon as they hear of it (App::new, register).
AdvertisedServes ==
  services # {} => pc = "running" /\ server = "ok" /\ storage = "ok" /\ db.key = key

\* As long as the keychain answers, a program that runs again has every record it
\* stored, whatever start was cut short, failed, or found a database of an older
\* version (KeyManager::new, HistoryStorage::new).
HistoryKept == refusals = 0 /\ pc = "running" => stored \subseteq db.records

\* The key that the next start finds, if the keychain answers
NextKey == IF keychain \in Nat THEN keychain ELSE KeyIn(keyFile)

\* Until the keychain has refused, the next start can read every record, at whichever
\* moment this one is cut short: the records are in the database, not in a backup, and
\* the key that is found is the one they are encrypted under.
HistoryReadable ==
  refusals = 0 /\ stored # {} =>
    db # Absent /\ stored \subseteq db.records /\ db.key = NextKey

\* What get_device_name shows is what the next start will show, unless the last write of
\* the file failed, which the caller is told (set_custom_device_name, AppConfig::save).
ShownIsStored == pc = "running" /\ ~Saving => config = mem \/ unsaved

Quiet == pc = "running" /\ \A c \in Callers : call[c] = Idle

Announceable == mdns # "dead" /\ Len(Encode(DisplayName)) <= MaxLabel

\* Whoever reads a name from mDNS or from the UDP broadcasts reads the one that the device
\* shows; mDNS has one, if it can be announced.
Agree ==
  /\ \A s \in services \cup {broadcast} : Decode(s) = Shown(DisplayName)
  /\ Announceable => services # {}

\* ... between calls that did not overlap or fail (set_device_name, update_device_name,
\* encode_mdns_name, decode_mdns_name).
NamesAgree == Quiet /\ ~raced /\ faults = 0 => Agree

\* A start is not left hanging: it comes to the running program or to its end, with
\* three tasks of which each may fail (App::new).
StartSettles == pc = "load" ~> pc \in {"running", "off"}

-----------------------------------------------------------------------------
(* What the documentation promises and the code does not do                *)

\* "When the configuration file is damaged, the system falls back on the host name"
\* (custom-device-name/spec.md): the program does not exit over it.
DamagedConfigFallsBack == ~(exit = "config" /\ config = Torn)

\* After the name was changed, others read the name that is shown, though two calls
\* overlapped.
OverlappingNamesAgree == Quiet /\ faults = 0 => Agree

\* A name that is accepted is announced: 30 bytes may take 90 when they are escaped.
ValidNamesAnnounced == Quiet /\ ~raced /\ faults = 0 => services # {}

\* The history is restored after a restart.
HistoryRestored == pc = "running" => stored \subseteq db.records
=============================================================================
