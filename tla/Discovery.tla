----------------------------- MODULE Discovery -----------------------------
(***************************************************************************)
(* The list of the other devices that one device keeps (mdns.rs, devices), *)
(* the threads that write it: the mDNS listener, the listener to UDP       *)
(* broadcasts, the sweep that removes devices not heard of for long; and   *)
(* the discovery task of app.rs, which keeps connected devices in the list *)
(* and dials the others.                                                   *)
(*                                                                         *)
(* Time passes in ticks of 5 seconds, the interval of the broadcasts and   *)
(* of the discovery task.  What is due at a tick is done before the next   *)
(* one.  An entry has the age now - last_seen instead of last_seen: it     *)
(* grows with time, and jumps when the system's clock is set.              *)
(***************************************************************************)
EXTENDS Integers, Sequences, FiniteSets

CONSTANTS
  Remotes,      \* the other devices
  Names,        \* names of devices, as mDNS and the broadcasts have them
  FirstName,    \* the name of each remote at first
  None,         \* no entry, no name, no datagram
  Multicast,    \* the remotes whose mDNS gets through: not so on every system
  Incompatible, \* the remotes of another CRYPTO_VERSION
  Timeout,      \* HEARTBEAT_TIMEOUT_SECS, in ticks: 6
  SweepEvery,   \* the pause of the sweep, in ticks: 2
  Jumps,        \* by how much the clock may be set, in ticks
  MaxEvents,    \* bound: mDNS events under way
  MaxChanges    \* bound: how often something happens that nothing is due to: a
                \* remote appears, leaves, is renamed or connects, a connection or
                \* a broadcast is lost, the clock is set

ASSUME RemoteAssumption ==
  /\ None \notin Names /\ Multicast \cup Incompatible \subseteq Remotes
  /\ FirstName \in [Remotes -> Names]
ASSUME TimeAssumption ==
  /\ Timeout \in Nat \ {0} /\ SweepEvery \in Nat \ {0} /\ Jumps \subseteq Int

VARIABLES
  \* the network:
  up, name,   \* whether a remote runs, and the name it has registered
  owed,       \* the remotes whose broadcast is due
  mute,       \* those whose broadcasts never come: the sender of the remote, or the
              \* listener of the device, had no socket when it started, and has ended
  cache,      \* <<d, n>>: the mDNS daemon has resolved name n to remote d
  events,     \* ServiceResolved and ServiceRemoved, in order, to the listener
  \* the device:
  list,       \* devices: the entry of each remote, or None
  clients,    \* the clients of app.rs: the remotes dialled, connected or not yet
  inbound,    \* server_connected_device_ids
  todo,       \* the devices of its snapshot that it has not come to
  roundDue,   \* its ticker has ticked
  sweepIn,    \* ticks till the next sweep
  poisoned,   \* the sweep has panicked with the lock on the list
  changes,    \* bound
  \* history variables, in no guard:
  away,       \* ticks since the remote last ran, was linked or had an event
  beaten,     \* the linked remotes that have had a heartbeat since
  shared,     \* two remotes had the same name
  clock       \* "right", or set "forward", or, if ever, set "back"

mdns   == <<cache, events>>
network == <<up, name, owed, mute, mdns>>
linked == <<clients, inbound>>
task   == <<todo, roundDue>>
local  == <<linked, task, sweepIn, poisoned>>
ghosts == <<away, beaten, shared, clock>>
vars   == <<network, list, local, changes, ghosts>>

-----------------------------------------------------------------------------
\* Mutant of Entry: the full_name is taken for the name.
EntryFull(age, n, full) == [age |-> age, name |-> full, full |-> full]

Entry(age, n, full) == [age |-> age, name |-> n, full |-> full]

Resolved(d, n) == [what |-> "resolved", device |-> d, name |-> n]
\* by: the remotes whose registration of n has ended, for RemovedIsOwn
Removed(n, by) == [what |-> "removed", by |-> by, name |-> n]

Listed == {d \in Remotes : list[d] # None}
Linked(d) == d \in clients \cup inbound

\* whom the daemon has resolved n to; who else is registered under n
Holders(n)   == {d \in Remotes : <<d, n>> \in cache}
Others(d, n) == {e \in Remotes \ {d} : up[e] /\ name[e] = n}
Shares(d, n) == Others(d, n) # {}

\* The longest that a remote is missed: away counts no further (bound).
LongAway == Timeout + SweepEvery + 1

Init ==
  /\ up = [d \in Remotes |-> TRUE] /\ name = FirstName
  /\ owed = Remotes /\ mute \in SUBSET Remotes /\ cache = {} /\ events = <<>>
  /\ list = [d \in Remotes |-> None]
  /\ clients = {} /\ inbound = {}
  /\ todo = {} /\ roundDue = TRUE
  /\ sweepIn = SweepEvery /\ poisoned = FALSE
  /\ changes = 0
  /\ away = [d \in Remotes |-> 0] /\ beaten = {}
  /\ shared = (\E d \in Remotes : Shares(d, name[d])) /\ clock = "right"

Change == changes < MaxChanges /\ changes' = changes + 1

Here(d) == away' = [away EXCEPT ![d] = 0]

-----------------------------------------------------------------------------
(* The other devices, and mDNS, which may lose what it is told             *)

\* A remote starts; it broadcasts at once.
Appear(d) ==
  /\ ~up[d] /\ Change
  /\ up' = [up EXCEPT ![d] = TRUE]
  /\ owed' = owed \cup {d}
  /\ shared' = (shared \/ Shares(d, name[d]))
  /\ Here(d)
  /\ UNCHANGED <<name, mute, mdns, list, local, beaten, clock>>

\* It ends without a word to mDNS.
Leave(d) ==
  /\ up[d] /\ Change
  /\ up' = [up EXCEPT ![d] = FALSE]
  /\ owed' = owed \ {d}
  /\ UNCHANGED <<name, mute, mdns, list, local, ghosts>>

\* update_device_name of the remote: the old name is unregistered, which takes it from
\* the caches of all that hear of it, though another may have it, the new one registered.
Rename(d) ==
  /\ up[d] /\ Change
  /\ \E n \in Names \ {name[d]} :
       /\ name' = [name EXCEPT ![d] = n]
       /\ shared' = (shared \/ Shares(d, n))
  /\ \/ UNCHANGED mdns
     \/ /\ <<d, name[d]>> \in cache /\ Len(events) < MaxEvents
        /\ cache' = {p \in cache : p[2] # name[d]}
        /\ events' = Append(events,
                            Removed(name[d], Holders(name[d]) \ Others(d, name[d])))
  /\ UNCHANGED <<up, owed, mute, list, local, away, beaten, clock>>

\* The daemon has all records of a registration.
Resolve(d) ==
  /\ d \in Multicast /\ up[d] /\ <<d, name[d]>> \notin cache /\ Len(events) < MaxEvents
  /\ cache' = cache \cup {<<d, name[d]>>}
  /\ events' = Append(events, Resolved(d, name[d]))
  /\ UNCHANGED <<up, name, owed, mute, list, local, changes, ghosts>>

\* The records of a name that nobody answers for any more expire.
Expire(n) ==
  /\ Holders(n) # {} /\ ~\E d \in Remotes : up[d] /\ name[d] = n
  /\ Len(events) < MaxEvents
  /\ cache' = {p \in cache : p[2] # n}
  /\ events' = Append(events, Removed(n, Holders(n)))
  /\ UNCHANGED <<up, name, owed, mute, list, local, changes, ghosts>>

-----------------------------------------------------------------------------
(* The threads of MdnsService                                              *)

\* A thread that takes the lock after the panic panics itself: it has no effect.
Write(entries) == list' = IF poisoned THEN list ELSE entries

Insert(d, n, full) == Write([list EXCEPT ![d] = Entry(0, n, full)])
Delete(gone) == Write([d \in Remotes |-> IF d \in gone THEN None ELSE list[d]])

Event(what) == events # <<>> /\ Head(events).what = what

\* listen, ServiceResolved
HandleResolved ==
  /\ Event("resolved")
  /\ LET e == Head(events) IN Insert(e.device, e.name, e.name) /\ Here(e.device)
  /\ events' = Tail(events)
  /\ UNCHANGED <<up, name, owed, mute, cache, local, changes, beaten, shared, clock>>

\* Mutant of HandleRemoved: the entry is looked up by the name of the device.
HandleRemovedByName ==
  /\ Event("removed")
  /\ Delete({d \in Listed : list[d].name = Head(events).name})
  /\ events' = Tail(events)
  /\ UNCHANGED <<up, name, owed, mute, cache, local, changes, ghosts>>

\* listen, ServiceRemoved
HandleRemoved ==
  /\ Event("removed")
  /\ Delete({d \in Listed : list[d].full = Head(events).name})
  /\ events' = Tail(events)
  /\ UNCHANGED <<up, name, owed, mute, cache, local, changes, ghosts>>

\* Mutant of Hear: a device that is listed is not inserted again.
HearNewOnly(d) ==
  /\ d \in owed /\ owed' = owed \ {d}
  /\ IF d \notin mute /\ list[d] = None THEN Insert(d, name[d], None)
                                        ELSE UNCHANGED list
  /\ UNCHANGED <<up, name, mute, mdns, local, changes, ghosts>>

\* The broadcast of a remote (udp_broadcast_sender_loop) is lost, or heard
\* (udp_broadcast_listener_loop): its entry is replaced by one without a full_name.
Hear(d) ==
  /\ d \in owed /\ owed' = owed \ {d}
  /\ \/ d \notin mute /\ Insert(d, name[d], None) /\ UNCHANGED changes
     \/ d \notin mute /\ Change /\ UNCHANGED list
     \/ d \in mute /\ UNCHANGED <<list, changes>>
  /\ UNCHANGED <<up, name, mute, mdns, local, ghosts>>

FromFuture == {d \in Listed : list[d].age < 0}
Offline    == {d \in Listed : list[d].age > Timeout}

\* Mutant of Sweep: only what mDNS has resolved is removed.
SweepResolved ==
  /\ sweepIn = 0 /\ sweepIn' = SweepEvery
  /\ Delete({d \in Offline : list[d].full # None})
  /\ UNCHANGED <<network, linked, task, poisoned, changes, ghosts>>

\* The third thread: it removes the devices that are offline.  If an entry is from the
\* future, the difference of two u64 wraps, which makes the device offline, or panics
\* in a build that checks for overflow.
Sweep ==
  /\ sweepIn = 0 /\ sweepIn' = SweepEvery
  /\ \/ Delete(FromFuture \cup Offline) /\ UNCHANGED poisoned
     \/ FromFuture # {} /\ poisoned' = TRUE /\ UNCHANGED list
  /\ UNCHANGED <<network, linked, task, changes, ghosts>>

-----------------------------------------------------------------------------
(* handle_device_discovery_task                                            *)

\* Mutant of Kept: every device is kept in the list.
KeptAll == Remotes

\* Mutant of Kept: only the devices that were dialled are kept in the list.
KeptClients == clients

\* The devices that have a heartbeat each round
Kept == clients \cup inbound

\* A round of the task: update_device_heartbeat for each of the clients and of the
\* server's connections, then get_devices.  It waits for nothing but locks.  A round
\* that follows the panic of the sweep ends the task.
Round ==
  /\ roundDue /\ todo = {} /\ ~poisoned
  /\ roundDue' = FALSE
  /\ list' = [d \in Remotes |-> IF d \in Kept \cap Listed
                                THEN [list[d] EXCEPT !.age = 0] ELSE list[d]]
  /\ todo' = Listed
  /\ beaten' = clients \cup inbound
  /\ UNCHANGED <<network, linked, sweepIn, poisoned, changes, away, shared, clock>>

\* The next device of the snapshot; connect_to_device if it is compatible and not
\* connected: the new client is in the map before it connects.
Dial(d) ==
  /\ d \in todo /\ todo' = todo \ {d}
  /\ clients' = IF d \in Incompatible \/ Linked(d) THEN clients ELSE clients \cup {d}
  /\ UNCHANGED <<network, list, inbound, roundDue, sweepIn, poisoned, changes, ghosts>>

-----------------------------------------------------------------------------
(* Connections, whose steps are those of module Connection                 *)

\* The remote connects to the device's server: it has its own list.
Accepted(d) ==
  /\ up[d] /\ d \notin inbound /\ Change
  /\ inbound' = inbound \cup {d}
  /\ UNCHANGED <<network, list, clients, task, sweepIn, poisoned, ghosts>>

\* A connection was lost or could not be made.
Dropped(d) ==
  /\ Linked(d) /\ Change
  /\ \/ d \in clients /\ clients' = clients \ {d} /\ UNCHANGED inbound
     \/ d \in inbound /\ inbound' = inbound \ {d} /\ UNCHANGED clients
  /\ beaten' = IF d \in clients' \cup inbound' THEN beaten ELSE beaten \ {d}
  /\ Here(d)
  /\ UNCHANGED <<network, list, task, sweepIn, poisoned, shared, clock>>

-----------------------------------------------------------------------------
(* Time                                                                    *)

GrowOlder(by) ==
  Write([d \in Remotes |-> IF d \in Listed THEN [list[d] EXCEPT !.age = @ + by]
                           ELSE None])

\* Five seconds pass.
Tick ==
  /\ owed = {} /\ events = <<>>
  /\ sweepIn > 0 /\ sweepIn' = sweepIn - 1
  /\ poisoned \/ (todo = {} /\ ~roundDue)
  /\ roundDue' = TRUE
  /\ owed' = {d \in Remotes : up[d]}
  /\ GrowOlder(1)
  /\ away' = [d \in Remotes |-> IF up[d] \/ Linked(d) THEN 0
                                ELSE IF away[d] < LongAway THEN away[d] + 1
                                ELSE away[d]]
  /\ UNCHANGED <<up, name, mute, mdns, linked, todo, poisoned, changes, beaten,
                 shared, clock>>

\* The system's clock is set, or the computer has slept, which the timers do not notice.
SetClock ==
  /\ Change
  /\ \E j \in Jumps :
       /\ GrowOlder(j)
       /\ clock' = IF j < 0 \/ clock = "back" THEN "back" ELSE "forward"
  /\ UNCHANGED <<network, local, away, beaten, shared>>

-----------------------------------------------------------------------------
Discover == Round \/ \E d \in Remotes : Dial(d)

Next ==
  \/ \E d \in Remotes : Appear(d) \/ Leave(d) \/ Rename(d) \/ Resolve(d)
  \/ \E n \in Names : Expire(n)
  \/ \E d \in Remotes : Hear(d)
  \/ HandleResolved \/ HandleRemoved
  \/ Sweep
  \/ Discover
  \/ \E d \in Remotes : Accepted(d) \/ Dropped(d)
  \/ Tick \/ SetClock

Spec == Init /\ [][Next]_vars

\* Time passes, and the threads, the task and the remotes do what is due.
FairSpec ==
  /\ Spec
  /\ WF_vars(Tick) /\ WF_vars(Sweep) /\ WF_vars(Discover)
  /\ WF_vars(HandleResolved \/ HandleRemoved)
  /\ \A d \in Remotes : WF_vars(Hear(d))

-----------------------------------------------------------------------------
(* Properties                                                              *)

Entries == [age : Int, name : Names, full : Names \cup {None}]
Events  == [what : {"resolved"}, device : Remotes, name : Names]
             \cup [what : {"removed"}, by : SUBSET Remotes, name : Names]

\* Every variable has its type.
TypeOK ==
  /\ up \in [Remotes -> BOOLEAN] /\ name \in [Remotes -> Names]
  /\ owed \subseteq Remotes /\ mute \subseteq Remotes /\ cache \subseteq Remotes \X Names
  /\ events \in Seq(Events)
  /\ list \in [Remotes -> Entries \cup {None}]
  /\ clients \subseteq Remotes /\ inbound \subseteq Remotes
  /\ todo \subseteq Remotes /\ roundDue \in BOOLEAN
  /\ sweepIn \in 0 .. SweepEvery /\ poisoned \in BOOLEAN
  /\ changes \in Nat
  /\ away \in [Remotes -> 0 .. LongAway]
  /\ beaten \subseteq Remotes /\ shared \in BOOLEAN
  /\ clock \in {"right", "forward", "back"}

\* Unless the clock is set back, a device that is gone, and not linked, leaves the
\* list after 30 seconds and one pause of the sweep (is_offline, listen).
GoneLeaves ==
  clock # "back" => \A d \in Remotes : away[d] >= LongAway => list[d] = None

\* What get_devices tells the window of d
Online(d) == d \in Listed \ Offline

\* ... and is not shown as online after the 30 seconds (DeviceSnapshot::is_offline).
OnlineIsRecent ==
  clock # "back" => \A d \in Remotes : Online(d) => away[d] <= Timeout

\* While the clock is not set, a device that has stayed linked since a heartbeat is
\* not swept from the list (handle_device_discovery_task, listen).
LinkedStays ==
  [][clock = "right" /\ sweepIn = 0 /\ sweepIn' = SweepEvery =>
       \A d \in beaten : list[d] # None => list'[d] # None]_vars

\* ServiceRemoved removes the entry of the remote that it is about, and no entry that
\* is newer or another's, as long as no two remotes had the same name (listen).
RemovedIsOwn ==
  [][Event("removed") /\ events' = Tail(events) /\ ~shared =>
       \A d \in Remotes \ Head(events).by : list'[d] = list[d]]_vars

Follows(d, n) == list[d] # None /\ list[d].name = n

\* A device that runs is listed under its name after a while, whatever mDNS loses,
\* if both ends have a socket and unless the sweep has panicked
\* (udp_broadcast_sender_loop and -listener_loop).
NameFollows ==
  \A d \in Remotes, n \in Names :
    up[d] /\ name[d] = n /\ d \notin mute ~> \/ Follows(d, n) \/ poisoned
                                             \/ ~up[d] \/ name[d] # n

-----------------------------------------------------------------------------
(* What does not hold without those conditions                             *)

\* As RemovedIsOwn, whatever the names are.
RemovedIsExact ==
  [][Event("removed") /\ events' = Tail(events) =>
       \A d \in Remotes \ Head(events).by : list'[d] = list[d]]_vars

\* As NameFollows, in every build.
AlwaysFollows ==
  \A d \in Remotes, n \in Names :
    up[d] /\ name[d] = n /\ d \notin mute ~> Follows(d, n) \/ ~up[d] \/ name[d] # n

\* As LinkedStays, though the computer has slept.
LinkedNeverSwept ==
  [][sweepIn = 0 /\ sweepIn' = SweepEvery =>
       \A d \in beaten : list[d] # None => list'[d] # None]_vars
=============================================================================
