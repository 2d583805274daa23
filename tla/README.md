# PaseBoard in TLA+

PaseBoard synchronises the clipboard of the computers on a local network. Every
device runs the same program (`src-tauri/src`): it discovers the others, connects
to them over WebSocket, sends what its user copies, writes what it receives to its
own clipboard, and keeps an encrypted history. This directory holds TLA+ models of
its concurrent core, the configurations that check them with TLC, and proofs for
TLAPS. Paths below are relative to `src-tauri/src` unless they say otherwise.

## 1. The system

| Component | Code | State it keeps | Operations |
|---|---|---|---|
| Clipboard monitor | `clipboard/monitor.rs` | `last_hash` | poll every 500 ms, read, report a change |
| Deduplication | `clipboard/dedup.rs` | two FIFO caches of 1000: UUIDs, hashes | `should_process_message`, `should_send_message`, `mark_*` |
| Clipboard writer | `clipboard/writer.rs` | its own FIFO cache of UUIDs | `write`: check, up to 3 attempts 100 ms apart, remember |
| Push task | `app.rs` `handle_clipboard_changes_task` | the change in hand | check, broadcast, send, mark, record |
| Receiving tasks | `app.rs` `handle_incoming_messages_task`; one task per outbound connection in `connect_to_device` | the message in hand | check the pairing, check for duplicates, write, mark, record |
| WebSocket server | `network/websocket_server.rs` | `clients`, `connected_device_ids`, `last_heartbeat`s | accept, handle one connection, broadcast, heartbeat |
| WebSocket client | `network/websocket_client.rs` | `ConnectionState`, `internal_send_tx`, `last_heartbeat`, the disconnect watch | connect with retries, send, read, write, heartbeat |
| Connection management | `app.rs` `handle_device_discovery_task`, `connect_to_device` | the map `clients` | dial every 5 s, ask to pair, clean up |
| Storage thread | `app.rs` `handle_storage_requests` | four channels, `pending_requests` | one branch of `select!` at a time |
| History storage | `clipboard/storage.rs` | tables `clipboard_history`, `paired_devices` | insert, capacity limit, list, clear, pairing operations |
| Pairing | `app.rs`, `main.rs`, `ui/index.html` | the prompt, the waiting requests | ask, approve, reject, time out, respond, remove |
| Discovery | `network/mdns.rs` | the device list, the registered and the broadcast name | mDNS events, UDP broadcasts, heartbeat, offline sweep |
| Configuration, device name | `config.rs`, `main.rs` | `config.toml`, the name in memory and in mDNS | load, create, save, rename, encode |
| Message codec | `network/message.rs`, `network/websocket_common.rs` | none | encode, decode, heartbeat timeout |
| Identity, cryptography | `network/identity.rs`, `network/crypto.rs`, `clipboard/storage.rs` `KeyManager` | `identity.pem`, `db.key`, the keychain | generate, load, derive, encrypt |
| Start-up | `main.rs`, `app.rs` `App::new` | the three tasks it waits for | load, synchronise the device id, bind, open, register |
| IPC, window | `main.rs`, `ui/index.html` | the page | commands, display |
| Errors, logging | `utils/` | none | formatting |

How they interact: the monitor feeds the push task by a channel; the push task and
all receiving tasks share the deduplication service, the writer and the clipboard
(each lock is taken for one operation only, so tasks interleave at every `.await`);
the server hands messages to one task of the application, each outbound connection
to a task of its own; push and receiving tasks send records to the storage thread
without waiting for it, and pairing operations with a reply channel they do wait
for; IPC commands use the same channels. The discovery task goes round the device list
every 5 seconds, keeps the connected devices in it and dials the others; the mDNS
listener, the UDP listener and the sweep write the same list from threads of their own.
Nothing but the database, the key files and the configuration survives the program.

What is hard:

- *Interleaving.* Check, write and mark are separate awaits; the monitor polls in
  between; two receiving tasks may hold the same message.
- *Echo.* What is written is seen by the monitor like a copy of the user.
- *Order.* `broadcast` spawns a task per client and message; insertions and
  clearings use different channels; the disconnect watch has a late subscriber.
- *One at a time.* The accept loop awaits `handle_connection`; the server's message
  task awaits the user.
- *Time.* Heartbeat timeouts that close nothing; answers after the 60 seconds; a
  history ordered by a clock that may be set back; a sweep and a heartbeat with timers
  of their own on one list; a computer that sleeps.
- *Partial failure.* Writes that fail three times; room made for a record that is
  not added; a table that refuses an insertion; a keychain that refuses once.
- *Crashes.* Restarts that forget all caches; a start that is cut short while a file
  is written, or a key is on its way to where it is kept.

What makes each component correct:

- Deduplication: no content circulates; a device neither pushes nor writes one
  content twice within the window of its cache.
- Push and receive: every pushed message is dealt with; writes keep the order of
  pushes where the transport does.
- Connections: the maps describe the connections there are; a lost connection is
  noticed and replaced.
- History: a bounded log of distinct contents; the oldest leave first.
- Pairing: nobody is added without the user's approval, nor told before it is added;
  what a removed device pushes is not written; the task that waits for the user goes on.
- Discovery: who is gone leaves the list, who is linked stays, who runs is listed
  under its name; one device's removal is not another's.
- Start-up: a device keeps its id and its history, and the key to read it; it is announced
  only when it can serve; the names in the file, in memory, in mDNS and in broadcasts agree.

## 2. Modules

| Module | What it is |
|---|---|
| `FifoCache` | the bounded FIFO memory of `dedup.rs` and `writer.rs` |
| `ClipboardSync` | monitor, push task, receiving tasks, deduplication and writer of all devices, and the channels between them |
| `Connection` | discovery loop, connect task, client and server side of connections |
| `HistoryLog` | abstract: what the history promises |
| `HistoryStore` | the table and the storage thread; implements `HistoryLog` |
| `Pairing` | requests, the user's answer, the table of paired devices, and the check of every clipboard message against it |
| `Discovery` | the device list, the threads that write it and the discovery task |
| `DeviceName` | which names are valid, and how mDNS encodes and decodes them |
| `Startup` | one device through its starts: files, keychain, `App::new`, `set_device_name`; uses `DeviceName` |
| `MC...` | the small instances for TLC: topologies, inputs and symmetry sets |
| `ClipboardSyncProofs`, `SyncSpacingProofs`, `ConnectionProofs`, `HistoryProofs`, `PairingProofs`, `DiscoveryProofs`, `DeviceNameProofs`, `StartupProofs` | theorems and proofs |

Definitions named `Mutant of ...` in the comments are changed forms of the definition
they precede: each breaks a property, which shows that the property can fail. No
specification uses them.

### ClipboardSync

A content stands for its SHA-256 hash; a UUID is `<<device, n>>`, the n-th message of
a device. `Tasks` are the receiving tasks: `<<d, d>>` of the server, `<<c, s>>` of a
connection. `push` and `rx` hold the place of a task between two awaits:

| Action | Code |
|---|---|
| `UserCopy`, `Poll` | the user; `monitor.rs` `check_clipboard` (`is_from_network` is always false) |
| `TakeChange`, `Send`, `MarkSent` | `app.rs` 919-960: check and create, broadcast and send, mark and record |
| `ReceiveOnServer`, `ReceiveOnClient` | `app.rs` 1089-1110, 848-869: pairing check and first half of `should_process_message` |
| `CheckHash`, `CheckWriter` | its second half, under another lock; `writer.rs` 54-59 |
| `WriteOk`, `WriteFails` | `writer.rs` 72-146: an attempt |
| `RememberWrite`, `MarkUuid`, `MarkProcessed` | the writer's cache, `mark_message_processed` (two locks), record |
| `LinkDown`, `LinkRestored`, `Restart` | what is in flight is lost; all but clipboard and history is forgotten |

From client to server messages stay in order; from server to client they do not. The
variables called history variables in the module are in no guard. The pairing check
is a constant relation here; `Pairing` has the tasks with a table that changes.
A new connection of a client has a receiving task of its own (`app.rs` 738), which may
still be at work on a message of the old one; the model lets a connection come back only
after its task has finished (`LinkRestored`, a bound).

### Connection

A slot is a `WebSocketClient` with its TCP connection. `client[i].task` is the
place of the connect task (`connect`, the pairing request, `disconnect_receiver`,
`changed`, the clean-up), `io`, `reading`, `writing`, `beating` are the tasks that
`spawn_websocket_tasks` and `spawn_heartbeat_task` start, `serving[s]` is the connection
in `handle_connection`, `inHand[s]` a client's first message between the two locks of its
receiving task. `Accept` needs `serving[s] = None`: `run` awaits the connection before it
accepts the next. A connection in the backlog is made as far as TCP goes, and `connect`
waits for its handshake without a timeout.

| Action | Code |
|---|---|
| `Dial`, `OpenTcp`, `Refused`, `TryFails`, `Retry`, `Connected` | `app.rs` 565-688, `websocket_client.rs` 99-165 |
| `Announce`, `Subscribe`, `Notice`, `Clean` | `app.rs` 702-728: the connect task after `connect` |
| `SetSender`, `StartTasks`, `ForwardRequest` | `websocket_client.rs` 182-214, 309-356 |
| `ClientReads`, `ReadEnds`, `WriteEnds`, `ConnectionEnds` | `websocket_client.rs` 201-305 |
| `ClientTick`, `ServerTick` | `websocket_client.rs` 359-397, `websocket_server.rs` 350-401: the heartbeats |
| `Accept`, `ServerReads`, `InsertId`, `ServerEnds` | `websocket_server.rs` 97-320 |
| `Break`, `Silence`, `Restart` | the network, a computer that sleeps, the program |

What a client sends is a queue (`toServer`). Its spawned task sets `internal_send_tx`, lets
go of the lock, and only then queues the first heartbeat, so the pairing request may be the
first message: it tells the server the device id as a heartbeat would, but does not
renew `last_heartbeat`. Time is abstracted to `late` and `stale` (`is_heartbeat_timeout`
would answer yes), which `Silence` sets wherever the tasks are; so `ServerTick` may remove a
client while its id is on the way into `connected_device_ids` (`InsertId`). `cut` is a
history variable: the servers to which that has happened. A heartbeat is only sent when it
can matter (`Due`): the others would be acked and change nothing.

### HistoryStore and HistoryLog

`rows` is the table; `clock` gives the timestamps, in seconds, so that equal ones occur.
`Insert` is `insert` as a whole: blank and repeated contents return first
(`SkipInsert`), then room is made, then `INSERT OR IGNORE` meets the unique index, and uses
up an id either way. `InsertFails`, `QueryFails` and `ClearFails` are errors of the
statements: the first is logged, the others are the answer. `select!` takes
any ready branch, so the three channels are served in any order. `SetBack` sets the clock
back. The refinement maps the table to the log without the history field; `steady` of
the log is "the clock has never been set back".

The unique index makes a content that is copied again keep its old place in the
history (the tests of `storage.rs` expect that).

### Pairing

`serving[d]` is the client of d's server, one at a time, as `Connection` has it: `Connect`
waits until there is no other, and `Disconnect` loses what has not arrived, while the
server's task and the user go on with what has. An answer goes to whoever is the client by
then. Only clients send requests, so the request branch of the client's receiving task
(`app.rs` 764-845) is unreachable and not modelled. `turn` numbers the requests a server
task has taken; a reply sender in `pending` is good for its turn only. `window` is the
prompt of the page, which a later request replaces. `CheckCooldown` and
`SetCooldown` are sent by nobody and are not modelled.

Clipboard messages are in the same queues and tasks: `Push` sends one to everybody,
`TakeClip` and `TakeServerClip` take one and queue the check of its sender, `WriteClip`
stands for what `ClipboardSync` does with it in detail, whatever comes of it. This is
where the two meet: the relation `Paired` of `ClipboardSync` changes here while messages
wait. `CheckFails`, `AddFails` and `RemoveFails` are statements on the table that fail:
the check then counts as no, the server's task goes on as after an insertion that
succeeded, and the user is told that nothing was removed.

| Action | Code |
|---|---|
| `Connect`, `Disconnect`, `TakeAnswer` | `app.rs` 697-713, `websocket_server.rs` 308-320, `app.rs` 739-761: the client |
| `TakeRequest`, `Ask`, `TimeOut`, `StartAdd`, `Respond` | `app.rs` 981-1062: the server's task, from one await to the next |
| `TakeClip`, `TakeServerClip`, `WriteClip` | `app.rs` 1088-1138, 848-899 |
| `Approve`, `Reject`, `Load`, `Remove` | `ui/index.html` 1832-1892, `main.rs` 231-268 |
| `Handle...`, `...Fails` | `app.rs` 370-436, one operation of `pairing_rx` |

### Discovery

Time passes in ticks of 5 seconds, the interval of the broadcasts and of the discovery
task; what is due at a tick is done before the next. An entry of `list` has its age,
`now - last_seen`, so that setting the clock changes ages by `Jumps`. An age that
is negative is what the unsigned subtraction of `is_offline` wraps to a huge number (a
release build sweeps the entry), or what it panics on (a debug build poisons the lock,
`poisoned`): the model has both.

| Action | Code |
|---|---|
| `Appear`, `Leave`, `Rename` | a remote, seen from outside |
| `Resolve`, `Expire` | the mDNS daemon, which may lose anything |
| `HandleResolved`, `HandleRemoved` | `mdns.rs` 240-287: its events, in order |
| `Hear` | `mdns.rs` 511-660: a broadcast is received, or lost; never heard of a remote in `mute` |
| `Sweep` | `mdns.rs` 295-302 |
| `Round`, `Dial` | `app.rs` 577-690: the heartbeats and a snapshot, then its devices one by one |
| `Accepted`, `Dropped` | the other end dials; a connection ends |
| `Tick`, `SetClock` | the clocks |

`Round` is one step although the code takes the lock once for each heartbeat: between
them it waits for nothing but locks. A broadcast is handled when it arrives. `mute` are the
remotes whose sender, or for whom our listener, could not have its socket: those threads
return at once (`mdns.rs` 520-531, 566-579), and mDNS is all there is. `by` in a
removal, `shared`, `away`, `beaten` and `clock` are history.

### Startup and DeviceName

`std::fs::write` empties a file before it fills it, so every file that is written has
two steps (`CreateConfig` and `FillConfig`, `GenerateIdentity` and `FillIdentity`, ...)
and `Stop`, which may come between any two steps, leaves it `Torn`. When the file cannot be
opened it stays whole, when it cannot be filled it is torn; either way `set_device_name`
has the new name in memory by then (`SaveFails`, `unsaved`). What a torn file is
for the next start differs: `config.toml` and `identity.pem` cannot be read and make the
program exit; a torn `db.key` is read as the empty key. A key file that cannot be read
ends the start; that `exists()` answers no for a file it may not examine is left out. Keys
and key pairs are numbers of the start they were made in; a device id is the number of its
key pair. A new key replaces the old one in the keychain, which keeps it nowhere else.

| Action | Code |
|---|---|
| `LoadConfig`, `RejectConfig`, `CreateConfig`, `FillConfig` | `config.rs` 32-85 |
| `LoadIdentity`, `RejectIdentity`, `GenerateIdentity`, `FillIdentity` | `identity.rs` 71-145 |
| `SyncId`, `ResaveConfig` | `app.rs` 228-243 |
| `InitMdns`, `Bind` | `mdns.rs` 108-131, `websocket_server.rs` 68-94 |
| `LoadKey`, `ReadKeyFile`, `SaveKey`, `KeyNotSaved`, `FillKeyFile` | `storage.rs` 31-122: the keychain, else the file, else a new key |
| `OpenDb`, `ForeignDb`, `EmptyKeyRefused`, `BackUpDb` | `storage.rs` 160-219 |
| `AwaitFailed`, `Register` | `app.rs` 279-288: all three tasks have ended, one has failed, or none |
| `StoreRecord` | an insertion of the storage thread |
| `SetName`, `SaveName` | `main.rs` 309-321, `app.rs` 193-198, `config.rs` 81-85, 112-115: under the lock on the configuration |
| `Withdraw`, `Announce` | `app.rs` 200-209, `mdns.rs` 391-413: under the lock on mDNS |

`DeviceName` has names as sequences of characters, of which only the number of bytes
matters (`Wide`, of three bytes, is any that is not ASCII): `ValidName` counts bytes,
`Encode` makes hyphens of spaces and three escapes, nine characters, of a wide
character, `Decode` undoes the escapes; `Encoded` and `Decoded` are their loops, as
recursive functions. A DNS label has 63 bytes at most, and 30 bytes of a name may take
90: the library `mdns_sd`, which is not part of this repository, accepts such a service,
announces nothing and may end its thread, which `Registered` has as a choice
(`MaxLabel`). `set_device_name` accepts no percent sign, but nothing checks the host
name that a new configuration takes: `NameAssumption` says that it has none. A host name
with the bytes of an escape in it would be shown by others as another name.

## 3. What is checked

Twelve runs; each of the first eight passes, each of the others is a disagreement of
the code with its documentation (`PROJECT.json`, findings, quotes the line).

| Run | Bounds | Shows |
|---|---|---|
| `SyncFaults` | 2 devices, 2 contents, caches of 1, 2 copies by one user, 3 pushes by it and 1 by the other, which only echoes, 1 disconnection or restart | `SpacingInv` (proved inductive), `PushSpacing`, `WriteSpacing`, `InOrderWrites` |
| `SyncStar` | 3 devices, 2 contents and an oversize one, 2 attempts, 1 push each, one pair unpaired | `NoneSkipped`, `EveryPushSettles` |
| `ConnPair` | 2 devices, one of which sees the other, 2 connections, 1 retry, 2 breaks, refused connects or restarts, 2 silences | `MapOwner`, `IdsTracked` |
| `ConnReconnect` | 2 devices that see each other, 2 connections, 2 breaks, refused connects or restarts, fair | `MapOwner`, `IdsTracked`, `Reconnects`, `GoneIsNoticed` |
| `HistLog` | capacity 3, batch 2, 5 insertions, clock 0..1, set back once, 1 clearing, 1 error | `ImplementsLog`, `TableBounded`, `OldestLeaveFirst` |
| `PairCrossed` | 3 devices, 3 links (two of them crossed), 2 devices whose users copy, 2 connections with a request each, which may end at any time, 3 events in all (requests, removals, pushes, loadings, failures) | `PairingInv` (proved inductive), `NothingWithoutApproval`, `AddedWithApproval`, `StoredBeforeTold`, `RemovedIsNotWritten`, `NoLostReply`, `ServerTaskReturns` |
| `StartStops` | 4 starts, 2 records, 2 changes of the name, 1 fault, 1 refusal of the keychain, 2 callers, names of up to 5 bytes, a label of 10 | `IdKept`, `AdvertisedServes`, `HistoryKept`, `HistoryReadable`, `ShownIsStored`, `NamesAgree`, `StartSettles` |
| `DiscRemotes` | 2 remotes, one with mDNS and one of another version, 2 names, a timeout of 2 ticks and a sweep every 2, 1 mDNS event under way, 2 changes | `GoneLeaves`, `OnlineIsRecent`, `LinkedStays`, `RemovedIsOwn`, `NameFollows` |
| `ConnLost` | violation | a connection that ends before the watch is subscribed is never cleaned up |
| `ConnServed` | violation | of two devices that connect to a third, the second is never accepted |
| `HistClear` | violation | a record requested before a clearing is stored after it |
| `StartDamaged` | violation | a start that is stopped while it writes `config.toml` keeps every later one from running |

Why the bounds are enough. A cache of one entry makes every second mark an eviction, so
the window is crossed within two contents; a longer cache only needs more of them, and
the proofs cover every size. Two connection slots let an old and a new connection to one
device, or one in each direction, exist at once, which is all that the maps (one entry
per device) can confuse. Silences on connections in both directions are too many states
for `ConnPair`; the theorems have them. Two breaks in `ConnReconnect` are one for each
direction. What `Reconnects` excuses is what the code does not recover from: a loss that
was announced before anyone had subscribed (`Missed`; two of them, one in each
direction, keep two devices apart for good), an id left behind (`LeftBehind`), and a
server held by a connection that one end has given up while the other has not noticed
(`Held`). The last two need a silence (`ConnSilent`). Every direction must be barred in
one of these ways for the excuse to count. Capacity 3 with batches of 2 makes the limit
strike twice within 5 insertions. Two requests in three links let a late answer meet a
later request of the same device, or reach another one that has become the client; the
third event is then a removal, a clipboard message or a failure, and a request, a
removal and a clipboard message are all that it takes to let a removed device through.
`Loaders` bounds which windows open meanwhile. Four starts are one to make everything,
one to lose the key, one to take the old database for an older version's, and one that
would take the backup's place. A wide character takes 9 of the 10 bytes of a label, so
that a valid name of a wide character, a space and a letter, of 5 bytes, has an escaped
form that is too long. With two ticks for the timeout and two for the sweep an entry can
be swept at the first chance and at the last; two changes are enough for a remote to
leave and return, or to take another's name and go. `CHECK_DEADLOCK FALSE` stands in
every configuration because the bounds on users and faults, and users who do nothing,
stop every instance sooner or later. Symmetry is used in safety runs only, over
contents.

Fairness. `ClipboardSync`: weak fairness of the monitor and of every step of a task (the
tokio scheduler starves no ready task); none of users, faults, or reconnection.
`Connection`: also of the dialling loop and the heartbeats, which tick for ever; none of
breaks, silences, restarts. `Pairing`: of the servers' tasks, with their 60-second
timer, and of the storage thread of these devices; none of the user or of the clients.
`Startup`: of the start-up and its tasks; none of starting, stopping or renaming.
`Discovery`: of the clock, the sweep, the discovery task, the mDNS listener, and of a
broadcast that is due being heard or lost, where only so many are lost as `MaxChanges`
allows: the remotes repeat it every 5 seconds, and some get through; none of what the
remotes, the mDNS daemon or the connections do. `HistoryStore` states no liveness.

Further configurations can be run by hand (the prefix of the name says the module). Three
pass: `SyncPair` (both users copy; `PushSpacing`, `WriteSpacing`), `DiscMdns` (mDNS gets
through to both remotes, three names; all of `DiscRemotes` but the liveness) and
`ConnSilent` (three slots and a silence; `Reconnects`, six minutes). Each of the
others has one property, and the code violates it:

| Configuration | Property | Shows |
|---|---|---|
| `SyncTwice` | `MessageWrittenOnce` | devices linked in both directions write one message twice |
| `SyncRecopy` | `DifferentContentPushed` | a content copied again after another is not pushed |
| `ConnRequest` | `RequestSent` | the pairing request is dropped while `internal_send_tx` is not set |
| `ConnLeak` | `NoIdLeft` | the heartbeat timeout removes a client whose id is inserted afterwards: the id stays |
| `ConnZombie` | `TimeoutCloses` | a client that timed out at the server keeps its connection |
| `HistEvict` | `EvictionAddsRecord` | at the capacity, a content that is already stored deletes a batch and adds nothing |
| `SyncEcho` | `NetworkContentNotPushed` | a device pushes back what it received (poll between write and mark) |
| `PairOthers` | `OnlyTheRequesterIsTold` | a device asks and is disconnected, another becomes the client, and the user's acceptance of the first is told to the second |
| `PairLate` | `ApprovedIsStored` | an approval given after the 60 seconds stores nothing |
| `PairCooldown` | `RejectedIsRefused` | a device that was just rejected makes the prompt appear again |
| `PairUntold` | `ToldIsStored` | an insertion fails, and the other device is told that it is accepted |
| `StartRace` | `OverlappingNamesAgree` | two overlapping changes of the name: one is the last to save, the other the last to announce |
| `StartRefused` | `HistoryRestored` | the keychain refuses once: the history is in the backup only, and its key has been replaced |
| `StartLong` | `ValidNamesAnnounced` | a valid name does not fit a label once it is escaped, and is never announced |
| `DiscSameName` | `RemovedIsExact` | of two devices with one name, one that goes takes the other's entry along |
| `DiscBuilds` | `AlwaysFollows` | the clock is set back in a debug build: the list is dead |
| `DiscSlept` | `LinkedNeverSwept` | after the computer has slept the sweep comes before the heartbeat |

## 4. What is proved

For any devices, links, contents, cache size and number of faults, from the
assumptions in `ClipboardSync` (the cache size and the number of attempts are positive,
links join different devices, `NoContent` is no content):

- `TypeCorrect`: `Spec => []TypeOK` (`ClipboardSyncProofs`).
- `SpacingInvariant`: `Spec => []SpacingInv`, and from it `PushSpacingHolds` and
  `WriteSpacingHolds` (`SyncSpacingProofs`).
- `OrderInvariant`: `Spec => []OrderInv`, and from it `WritesInOrder` (`InOrderWrites`;
  `SyncSpacingProofs`).
- `ArrivalInvariant`: `Spec => []ArrivalInv`, and from it `NoMessageSkipped` (`NoneSkipped`,
  the safety half of `EveryPushSettles`; `SyncSpacingProofs`).

The argument. `PushSpacing` is not inductive: that a content was pushed long ago must
be visible in what the next check reads, the hash cache. So `HashWindow` says that the cache
is exactly the window of the last `CacheSize` marks (`AddKeepsWindow`: `Add` keeps a
window; what is not in the window is older than `CacheSize` marks). `PushMarked` says that
every push of this run is marked since it was made, or is the one the push task still
has in hand; it needs that the task handles one change at a time. A content that passes
`ShouldSend` is therefore further away than the window. `WriteMarked` says the same of
writes and their tasks; between its hash check and its write a task has only
`WriteCleared`: nothing it wrote within the window has the content it holds, and marks by
others only increase the distance. The proofs first reduce every action to what it does
to the few variables the invariant reads (`PushViews`, `RxViews`, `WrittenViews`), then
treat each conjunct.

For the order, `OrderInv` follows the messages of one sender through the pipeline: the
numbers that have been written are below the one in the receiving task's hand, that one is
below those in the channel, which increase, and the sender's next number is above all of
them. A disconnection empties the channel and a restart the task, neither of which the
chain minds.

`NoneSkipped` says that a message which has left its place is dealt with, and a message
leaves its place for reasons that other tasks made: its UUID is in a cache because another
task wrote it, its content is in the hash cache because somebody pushed it. `ArrivalInv`
therefore says what a cache entry stands for. `Genuine`: whatever is on a connection or in a
task's hand is what its sender pushed under that UUID. `Remembered`: a UUID in the cache of
the deduplicator or of the writer belongs to a content that is marked, or to a message in the
hand of a task that has written it and is about to mark it (`Known`). A task that drops a
known message leaves it marked or with the other task; one that drops a known hash leaves it
marked, by `HashWindow`; one that gives up has recorded the failure (`HandFates`). Pushes
reach both directions of a connection, because without faults every connection is up
(`AllUp`). `SyncStar` has one connection between any two devices; that two tasks of one
device hold the same message, on devices that are connected both ways, is in the theorem.

For pairing, for any devices and links and any bounds, from the assumptions in `Pairing`
(links join different devices, `None` is no device and no task, `PairingProofs`):

- `PairingTypeCorrect`: `Spec => []TypeOK`.
- `PairingInvariant`: `Spec => [](TypeOK /\ PairingInv)`, and from it `ApprovedFirst`
  (`AddedWithApproval`), `StoredFirst` (`StoredBeforeTold`), `ConsentFirst`
  (`NothingWithoutApproval`), `RemovedStaysOut` (`RemovedIsNotWritten`) and
  `RepliesAreNotLost` (`NoLostReply`).
- `PairsConsent`: `Spec => []ConsentBetween`.

The argument. None of the five properties is inductive. `HandleAdd` lets the task that
asked go on, so `Awaited` says that a task that waits for the storage thread has one
operation in the channel, in its own device's and about its own peer; type correctness
needs it too, because a task without a peer would queue an operation without a device.
An approval reaches the server task through a reply sender that may be older than the
request it waits on, so `CurrentTurn` says that a reply sender is from an earlier turn
or is for the peer of this one. `Approvals` then follows the user's consent from the
click to the table, `Told` the table's entry to the answer, and `Untouched` says that
before the first approval nothing is on its way to any table. The proofs reduce a step
to what it does to one task (`TaskSteps`), to the channel (`OpSteps`), the table and the
reply senders (`TableSteps`) and the answers (`AnswerSteps`); each conjunct follows from
these.

`RemovedStaysOut` (`RemovedIsNotWritten`) adds the order of the channel. `Out(d, e, i)`
says that e is out of d's table once the operations before the i-th are done: either it
is out now and nothing before i adds it, or a removal before i is followed by no
insertion. `OutOfTable` says this of a removed device for the end of the channel, and of
the check of a clipboard message that was taken after the removal for the check's own
place. Operations are only added at the end and only taken from the front (`BarSteps`), so
`Out` is kept (`OutKept`, `OutDone`), and when the check is at the front it says that
the device is not in the table.

`RepliesAreNotLost` is about the reply senders. One that is dropped from
`pending_requests` while its task waits would have the request refused at once, with the
prompt still on the screen (`_ =>` in the `match` on the timeout takes a closed channel
for a timeout). That none is dropped follows from `OneSender`: the reply sender of a
turn is in one place, it is not there before the user is asked, and its operation leaves
the channel while the task still waits on that turn. So when a second request of the
same device overwrites the entry (`HandlePending`), what it overwrites is from an
earlier turn. The server's task takes one request at a time, which this rests on.

`PairsConsent` bounds a weakness. `OnlyTheRequesterIsTold` fails (`PairOthers`) because
a server's answer goes to whoever is its client by then, and a client that hears it adds the
server without anybody's consent. `ConsentBetween` says that this is the only way: two devices
neither of which ever has another client are in each other's tables, and write what the other
pushes, only after the user of one has approved the other, whatever the rest of the network
does. `AgreedInv` follows the approval through the tasks, the channel and the answers
between the two; `PeersAreClients` says that a server's request comes from a client of
its own. It was model-checked on two devices and on a ring of three before it was proved;
no configuration here checks it.

The connections (`ConnectionProofs`, any devices, slots and bounds): type correctness,
`MapHoldsItsOwn` (`MapOwner`), `IdsNameClients` (`IdsTracked`). The inductive invariant
`ConnInv` adds three parts: `SlotInv`, which places the tasks of a slot can be in
together; `OneInbound`, that a server's table of clients has no connection but the one
it handles, through timeouts and restarts; and `ServerInv`, what is registered of that
connection and when: a message in hand belongs to a registered client, or the timeout
has struck in between and `cut` says so. That is what makes `IdsTracked` exact: an id
nobody has is left in one way only.

The history (`HistoryProofs`, any capacity, batch, contents and clock): type correctness,
`TableIsBounded`, `OldestRecordsLeaveFirst`, and `HistoryImplementsLog`: every step of the
table is a step of `HistoryLog` or a stutter. `TableInv` says that the table is finite,
ordered by distinct ids below the next one, with distinct contents and, as long as the clock
was never set back, timestamps that are not in the future; the refinement needs it for
the record that an insertion compares with to be the last one.

Discovery (`DiscoveryProofs`, any remotes, names, timeout and pause): type correctness,
`GoneLeave`, `OnlineAreRecent`, `LinkedDevicesStay` and `RemovalsAreOwn`. `AgeInv` relates
three clocks: an entry is at least as old as its remote has been missed, nobody listed has
been missed for longer than the timeout and the time since the last sweep (`Ages`), and a
linked remote that has had a heartbeat has had the last one (`Beats`). `OutInv` says that
while all names differ, no entry of a remote that a removal is not about will have the
removed name by the time the removal is handled, and none at the end of the queue has a
name that the mDNS daemon no longer holds for it.

Start-up (`StartupProofs`, any number of starts, faults, changes and callers): `Types`
(type correctness), `IdIsKept`, `AdvertisedDevicesServe`, `ShownNameIsStored`,
`AnnouncedNamesAgree` (`NamesAgree`), `HistoryIsKept` and `HistoryIsReadable`.
`StartInv` says what the files have at every place of the start: `IdInv` and `ConfigInv` for
the two files the id is in (and that the configuration in memory is the one in the file
unless a call is saving or the last write has failed), `ServeInv` for the port and the
database, and `HistoryInv` for the key: as long as the keychain has not refused, the next
start will find the key the database has (`PlaceInv`), and the records are in the database.
Nothing of the kind holds after a refusal, because the new key replaces the old one: the
records are then in a backup that nobody can read.

For the names, `NamesInv` says that mDNS starts with the encoding of the name the device
shows and that the names agree again between calls, that mDNS has one then if it fits a label
and the library's thread lives (`Announceable`), that there is at most one call as long as
none has overlapped another, and that such a call, between its two locks, carries the name it
has put in memory (`Alone`). `NameTypes` says that every name a device may come to show is free
of percent signs: one that was typed has passed `ValidName`, one in a file was shown before.
What others decode is then the shown name by `RoundTrip`.

Names (`DeviceNameProofs`): `RoundTrip`, for every name without a percent sign and of any
length `Decode(Encode(n)) = Shown(n)`. To the provers a recursive function is a `CHOOSE`; that
`Encoded` and `Decoded` satisfy their equations (`EncodedEquation`, `DecodedEquation`), and
what they compute, is proved by induction over the length: the numbers for which it
holds are a set, and `SetInduction`, from the well-foundedness of the natural numbers,
says that the set has all of them. An encoded name is cut into pieces (`Pieces`), each an
escape or one character that is no percent sign; `EncodedPieces` says that they stand for
what is to be shown, `DecodePieces` that reading a sequence of pieces, from its end, gives
what they stand for. The alphabet is the model's, with one character of three bytes for all
that are not ASCII.

Only model-checked: the liveness properties (`EveryPushSettles`, `Reconnects`,
`GoneIsNoticed`, `ServerTaskReturns`, `StartSettles`, `NameFollows`).
Liveness under fairness is beyond the prover.

## 5. Not modelled

- Signing, ECDH, AES-GCM, the encryption of the database: library calls. The code never
  establishes a session, so messages travel as they are and nothing depends on it.
- JSON encoding and the limit on the size of a frame; the size limit of the monitor is
  modelled (`Oversize`).
- The addresses, ports and keys in an entry of the device list and how they are found
  (`detect_local_ipv4`); `find_available_port`, which nothing calls.
- The device name in a pairing request, which is shown and stored and decides nothing.
- What the monitor cannot see: of several copies between two polls only the last counts
  (`UserCopy` may overwrite before `Poll`).
- Display, tray, window commands, logging, errors.
- A handshake that never ends (`accept_async` and `connect_async` have no timeout): no
  client of this program does that.
- What `mdns_sd` does with the locks, threads and packets of its own: `Registered`,
  `Resolve` and `Expire` are what its callers see.

## 6. Limits and further work

- `Connection` takes the device list as the constant `Sees`, and `Discovery` takes
  connections as events that may happen to any dialled or listed device. A product of the
  two has too many states for two devices and a clock.
- `Pairing` writes what `ClipboardSync` would deduplicate, and `ClipboardSync` has a fixed
  relation `Paired`. The two share the tasks and their awaits, not the caches: a theorem
  that a step of the product is a step of each would join them.
- `Startup` has one process at a time. Two instances of the program that run at once on one
  computer share its files; nothing in the code keeps them apart but the port.
