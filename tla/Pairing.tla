------------------------------ MODULE Pairing ------------------------------
(***************************************************************************)
(* Pairing: a device that has connected to another one asks it to pair;    *)
(* the other's user, or its table of paired devices, answers.  On each     *)
(* device: the server's message task (app.rs,                              *)
(* handle_incoming_messages_task), which stands still while the user is    *)
(* asked; one message task per outbound connection (connect_to_device);    *)
(* the storage thread, which owns the table and the waiting requests; the  *)
(* window with its prompt.  The clipboard messages of other devices pass   *)
(* through the same tasks, which ask the storage thread about their sender *)
(* as well.  A server has one client at a time (Connection); clients come  *)
(* and go.                                                                 *)
(*                                                                         *)
(* Only clients send requests, so the branch for requests of the client's  *)
(* message task is never taken and not modelled.                           *)
(***************************************************************************)
EXTENDS Naturals, Sequences, FiniteSets

CONSTANTS
  Devices,      \* the devices on the network
  None,         \* no device, no task
  Links,        \* <<client, server>>: the client connects to the server now and then
  Loaders,      \* bound: the devices whose window opens meanwhile; others' is open
  Pushers,      \* bound: the devices whose users copy something
  MaxRequests,  \* bound: how often clients connect, and ask
  MaxEvents     \* bound: connections, removals, pushes, loadings and failing
                \* statements together

ASSUME LinksAssumption == Links \subseteq Devices \X Devices
ASSUME NoSelfLink == \A l \in Links : l[1] # l[2]
ASSUME LoadersAssumption == Loaders \subseteq Devices /\ Pushers \subseteq Devices
ASSUME NoneAssumption == None \notin Devices /\ None \notin Devices \X Devices
ASSUME BoundsAssumption ==  MaxRequests \in Nat /\ MaxEvents \in Nat

VARIABLES
  paired,    \* the table paired_devices of each device
  pending,   \* pending_requests: the turn whose reply sender is kept for a device, or 0
  ops,       \* the channel pairing_tx to the storage thread
  rx,        \* the message tasks
  prompt,    \* the device named in the pairing window of each device, or None
  loading,   \* the devices whose window has yet to ask for waiting requests
  serving,   \* the client of each server, or None: there is one at a time
  up,        \* messages <<sender, kind>> on their way to each server or in the channel
             \* to its message task, in order
  down,      \* answers to each client, in any order
  inbox,     \* number of clipboard messages to each client, in any order
  requests,  \* number of connections made (bound)
  events,    \* number of connections, removals, pushes, loadings and failures (bound)
  \* history variables, in no guard:
  approved,            \* <<d, e>>: the user of d has approved e
  rejected,            \* <<d, e>>: the storage thread of d has the rejection of e
  accepted,            \* <<d, e>>: d has added e to its table on a request of e
  removed,             \* <<d, e>>: the user of d has removed e
  barred,              \* <<d, e>>: that was the last word on e at d
  late,                \* tasks whose clipboard message was taken after the removal
  unstored,            \* <<d, e>>: an insertion of e into the table of d has failed
  written              \* <<d, e>>: d has written what e pushed

window == <<prompt, loading>>
net    == <<serving, up, down, inbox>>
bounds == <<requests, events>>
consent == <<approved, rejected, accepted, removed>>
clipLog == <<barred, late, unstored, written>>
ghosts == <<consent, clipLog>>
vars   == <<paired, pending, ops, rx, window, net, bounds, ghosts>>

-----------------------------------------------------------------------------
\* The message tasks, as in ClipboardSync: <<d, d>> is the server's.
Tasks == Links \cup {<<d, d>> : d \in Devices}
Server(d) == <<d, d>>
Servers == {l[2] : l \in Links}

\* "check", "clip", "adding", "noting": the task waits for the storage thread; "wait":
\* for the user.  In the places Apart a task has no pairing request in hand.
Apart == {"idle", "clip", "write"}
Places == {"idle", "check", "ask", "wait", "add", "adding", "accept", "refuse", "noting",
           "clip", "write"}
Kinds == {"Check", "Add", "Remove", "Pending", "Approve", "Reject", "List"}

\* device: whom the operation is about; task: who waits for the reply; turn: for which
\* request the task waits.
Op(kind, device, task, turn) ==
  [kind |-> kind, device |-> device, task |-> task, turn |-> turn]

Init ==
  /\ paired   = [d \in Devices |-> {}]
  /\ pending  = [d \in Devices |-> [e \in Devices |-> 0]]
  /\ ops      = [d \in Devices |-> <<>>]
  /\ rx       = [t \in Tasks |-> [at |-> "idle", peer |-> None, turn |-> 0]]
  /\ prompt   = [d \in Devices |-> None]
  /\ loading  = Loaders
  /\ serving  = [d \in Devices |-> None]
  /\ up       = [d \in Devices |-> <<>>]
  /\ down     = [l \in Links |-> {}]
  /\ inbox    = [l \in Links |-> 0]
  /\ requests = 0 /\ events = 0
  /\ approved = {} /\ rejected = {} /\ accepted = {} /\ removed = {}
  /\ barred = {} /\ late = {} /\ unstored = {} /\ written = {}

\* pairing_tx.send
Queue(d, op) == ops' = [ops EXCEPT ![d] = Append(@, op)]
Become(t, place) == rx' = [rx EXCEPT ![t].at = place]
Finish(t) == rx' = [rx EXCEPT ![t].at = "idle", ![t].peer = None]

\* One of the events that are bounded together; asked: whether it is a request.
Event(asked) ==
  /\ events < MaxEvents
  /\ events' = events + 1
  /\ requests' = requests + asked

\* History: an insertion of e at d comes after any removal before it.
Unbar(d, e) == barred' = barred \ {<<d, e>>}

-----------------------------------------------------------------------------
(* The message tasks *)

\* The client l[1] becomes the server's one client, once there is no other and what an
\* earlier connection has brought it is done with (bound).  It asks to pair; the request
\* may be dropped before the connection's tasks are ready.  Heartbeats are left out.
Connect(l) ==
  /\ requests < MaxRequests
  /\ serving[l[2]] = None
  /\ rx[l].at = "idle" /\ down[l] = {} /\ inbox[l] = 0
  /\ Event(1)
  /\ serving' = [serving EXCEPT ![l[2]] = l[1]]
  /\ \/ up' = [up EXCEPT ![l[2]] = Append(@, <<l[1], "request">>)]
     \/ UNCHANGED up
  /\ UNCHANGED <<paired, pending, ops, rx, window, down, inbox, ghosts>>

\* The connection breaks, or times out.  What has not reached the server's channel or
\* the client is lost; what has is still taken.
Disconnect(l) ==
  LET d == l[2] IN
  /\ serving[d] = l[1]
  /\ serving' = [serving EXCEPT ![d] = None]
  /\ \E n \in 0..Len(up[d]) :
       /\ \A i \in 1..Len(up[d]) : n < i => up[d][i][1] = l[1]
       /\ up' = [up EXCEPT ![d] = SubSeq(@, 1, n)]
  /\ \E arrived \in SUBSET down[l] : down' = [down EXCEPT ![l] = arrived]
  /\ \E n \in 0..inbox[l] : inbox' = [inbox EXCEPT ![l] = n]
  /\ UNCHANGED <<paired, pending, ops, rx, window, bounds, ghosts>>

\* The push task of d: to its client and to the servers it is connected to, paired or
\* not.
Push(d) ==
  /\ Event(0)
  /\ inbox' = [l \in Links |-> IF l = <<serving[d], d>> THEN inbox[l] + 1 ELSE inbox[l]]
  /\ up' = [e \in Devices |->
       IF serving[e] = d THEN Append(up[e], <<d, "clip">>) ELSE up[e]]
  /\ UNCHANGED <<paired, pending, ops, rx, window, serving, down, ghosts>>

\* The server's task takes a request: is the sender paired?
TakeRequest(l) ==
  LET d == l[2] IN
  /\ rx[Server(d)].at = "idle"
  /\ up[d] # <<>> /\ Head(up[d]) = <<l[1], "request">>
  /\ up' = [up EXCEPT ![d] = Tail(@)]
  /\ rx' = [rx EXCEPT ![Server(d)] =
       [at |-> "check", peer |-> l[1], turn |-> @.turn + 1]]
  /\ Queue(d, Op("Check", l[1], Server(d), rx[Server(d)].turn + 1))
  /\ UNCHANGED <<paired, pending, window, serving, down, inbox, bounds, ghosts>>

\* Mutant of CheckClip: the check overtakes what the storage thread has yet to do.
CheckClipFirst(t, e) ==
  /\ rx[t].at = "idle"
  /\ rx' = [rx EXCEPT ![t].at = "clip", ![t].peer = e]
  /\ ops' = [ops EXCEPT ![t[1]] = <<Op("Check", e, t, 0)>> \o @]
  /\ late' = IF <<t[1], e>> \in barred THEN late \cup {t} ELSE late \ {t}

\* A task takes a clipboard message of e: is the sender paired?
CheckClip(t, e) ==
  /\ rx[t].at = "idle"
  /\ rx' = [rx EXCEPT ![t].at = "clip", ![t].peer = e]
  /\ Queue(t[1], Op("Check", e, t, 0))
  /\ late' = IF <<t[1], e>> \in barred THEN late \cup {t} ELSE late \ {t}

\* The server's task takes one of the client ...
TakeClip(l) ==
  /\ up[l[2]] # <<>> /\ Head(up[l[2]]) = <<l[1], "clip">>
  /\ up' = [up EXCEPT ![l[2]] = Tail(@)]
  /\ CheckClip(Server(l[2]), l[1])
  /\ UNCHANGED <<paired, pending, window, serving, down, inbox, bounds, consent, barred,
                 unstored, written>>

\* ... and the task of the client one of the server.
TakeServerClip(l) ==
  /\ inbox[l] > 0
  /\ inbox' = [inbox EXCEPT ![l] = @ - 1]
  /\ CheckClip(l, l[2])
  /\ UNCHANGED <<paired, pending, window, serving, up, down, bounds, consent, barred,
                 unstored, written>>

\* The sender is paired: deduplication, the clipboard and the history, as in
\* ClipboardSync, whatever comes of them.
WriteClip(t) ==
  /\ rx[t].at = "write"
  /\ written' = written \cup {<<t[1], rx[t].peer>>}
  /\ Finish(t)
  /\ UNCHANGED <<paired, pending, ops, window, net, bounds, consent, barred, late,
                 unstored>>

\* It is not: the window is told, whatever it shows, and the reply sender queued.
Ask(d) ==
  LET t == Server(d) IN
  /\ rx[t].at = "ask"
  /\ prompt' = [prompt EXCEPT ![d] = rx[t].peer]
  /\ Queue(d, Op("Pending", rx[t].peer, t, rx[t].turn))
  /\ Become(t, "wait")
  /\ UNCHANGED <<paired, pending, loading, net, bounds, ghosts>>

\* Mutants of TimeOut: it never happens; the user's silence counts as consent.
TimeOutNever(d) == FALSE /\ UNCHANGED vars
TimeOutAccepts(d) ==
  /\ rx[Server(d)].at = "wait"
  /\ \A i \in 1..Len(ops[d]) : ops[d][i].kind # "Pending"
  /\ Become(Server(d), "add")
  /\ UNCHANGED <<paired, pending, ops, window, net, bounds, ghosts>>

\* 60 seconds have passed, long after the storage thread got the reply sender, which
\* stays in pending_requests.  The window keeps its prompt.
TimeOut(d) ==
  /\ rx[Server(d)].at = "wait"
  /\ \A i \in 1..Len(ops[d]) : ops[d][i].kind # "Pending"
  /\ Become(Server(d), "refuse")
  /\ UNCHANGED <<paired, pending, ops, window, net, bounds, ghosts>>

\* Mutant of StartAdd: the reply of the storage thread is not waited for.
StartAddUnawaited(d) ==
  LET t == Server(d) IN
  /\ rx[t].at = "add"
  /\ Queue(d, Op("Add", rx[t].peer, None, 0))
  /\ Become(t, "accept")
  /\ Unbar(d, rx[t].peer)
  /\ UNCHANGED <<paired, pending, window, net, bounds, consent, late, unstored, written>>

\* Approved: the sender of the request is added to the table first ...
StartAdd(d) ==
  LET t == Server(d) IN
  /\ rx[t].at = "add"
  /\ Queue(d, Op("Add", rx[t].peer, t, 0))
  /\ Become(t, "adding")
  /\ Unbar(d, rx[t].peer)
  /\ UNCHANGED <<paired, pending, window, net, bounds, consent, late, unstored, written>>

\* ... then the answer is broadcast to the clients of d, of which there is one at most,
\* whoever it is by now.  for, n: history fields.
Respond(d) ==
  LET t == Server(d)
      answer == [ok |-> rx[t].at = "accept", for |-> rx[t].peer, n |-> rx[t].turn]
  IN
  /\ rx[t].at \in {"accept", "refuse"}
  /\ down' = [l \in Links |->
       IF l = <<serving[d], d>> THEN down[l] \cup {answer} ELSE down[l]]
  /\ Finish(t)
  /\ UNCHANGED <<paired, pending, ops, window, serving, up, inbox, bounds, ghosts>>

\* The task of a client takes an answer, whomever it was for: when it is positive the
\* server is added to the table.
TakeAnswer(l, m) ==
  /\ rx[l].at = "idle"
  /\ m \in down[l]
  /\ down' = [down EXCEPT ![l] = @ \ {m}]
  /\ IF m.ok
     THEN /\ rx' = [rx EXCEPT ![l].at = "noting", ![l].peer = l[2]]
          /\ Queue(l[1], Op("Add", l[2], l, 0))
          /\ Unbar(l[1], l[2])
     ELSE UNCHANGED <<rx, ops, barred>>
  /\ UNCHANGED <<paired, pending, window, serving, up, inbox, bounds, consent, late,
                 unstored, written>>

-----------------------------------------------------------------------------
(* The window *)

\* Mutant of Approve: the prompt is cleared before its device is read.
ApproveCleared(d) ==
  /\ prompt[d] # None
  /\ prompt' = [prompt EXCEPT ![d] = None]
  /\ Queue(d, Op("Approve", prompt'[d], None, 0))
  /\ approved' = approved \cup {<<d, prompt[d]>>}
  /\ UNCHANGED <<paired, pending, rx, loading, net, bounds, rejected, accepted, removed,
                 clipLog>>

Approve(d) ==
  /\ prompt[d] # None
  /\ Queue(d, Op("Approve", prompt[d], None, 0))
  /\ prompt' = [prompt EXCEPT ![d] = None]
  /\ approved' = approved \cup {<<d, prompt[d]>>}
  /\ UNCHANGED <<paired, pending, rx, loading, net, bounds, rejected, accepted, removed,
                 clipLog>>

Reject(d) ==
  /\ prompt[d] # None
  /\ Queue(d, Op("Reject", prompt[d], None, 0))
  /\ prompt' = [prompt EXCEPT ![d] = None]
  /\ UNCHANGED <<paired, pending, rx, loading, net, bounds, ghosts>>

\* checkPendingPairingRequests, once the page is loaded.
Load(d) ==
  /\ d \in loading
  /\ Event(0)
  /\ loading' = loading \ {d}
  /\ Queue(d, Op("List", None, None, 0))
  /\ UNCHANGED <<paired, pending, rx, prompt, net, ghosts>>

\* remove_pairing
Remove(d, e) ==
  /\ Event(0)
  /\ e \in paired[d]
  /\ Queue(d, Op("Remove", e, None, 0))
  /\ removed' = removed \cup {<<d, e>>}
  /\ barred' = barred \cup {<<d, e>>}
  /\ UNCHANGED <<paired, pending, rx, window, net, approved, rejected, accepted,
                 late, unstored, written>>

-----------------------------------------------------------------------------
(* The storage thread: one operation of pairing_tx after another.  A statement *)
(* on the table may fail: the thread reports it and goes on.                  *)

Take(d, kind) ==
  /\ ops[d] # <<>> /\ Head(ops[d]).kind = kind
  /\ ops' = [ops EXCEPT ![d] = Tail(@)]

\* What the task does with the reply.
Checked(t, yes) ==
  \/ rx[t].at = "check" /\ Become(t, IF yes THEN "accept" ELSE "ask")
  \/ rx[t].at = "clip" /\ yes /\ Become(t, "write")
  \/ rx[t].at = "clip" /\ ~yes /\ Finish(t)

HandleCheck(d) ==
  LET op == Head(ops[d]) IN
  /\ Take(d, "Check")
  /\ Checked(op.task, op.device \in paired[d])
  /\ UNCHANGED <<paired, pending, window, net, bounds, ghosts>>

\* unwrap_or(false): who cannot be found is not paired.
CheckFails(d) ==
  /\ Take(d, "Check")
  /\ Event(0)
  /\ Checked(Head(ops[d]).task, FALSE)
  /\ UNCHANGED <<paired, pending, window, net, ghosts>>

\* The task that asked for an insertion goes on, whatever came of it (there is always
\* one, see Awaited).
Added(t) ==
  IF t = None THEN UNCHANGED rx
  ELSE IF rx[t].at = "adding" THEN Become(t, "accept") ELSE Finish(t)

\* add_paired_device
HandleAdd(d) ==
  LET op == Head(ops[d]) IN
  /\ Take(d, "Add")
  /\ paired' = [paired EXCEPT ![d] = @ \cup {op.device}]
  /\ Added(op.task)
  /\ accepted' = IF op.task # None /\ rx[op.task].at = "adding"
                 THEN accepted \cup {<<d, op.device>>} ELSE accepted
  /\ UNCHANGED <<pending, window, net, bounds, approved, rejected, removed, clipLog>>

\* The server's task discards the result: it tells the other device that it is accepted.
AddFails(d) ==
  LET op == Head(ops[d]) IN
  /\ Take(d, "Add")
  /\ Event(0)
  /\ Added(op.task)
  /\ unstored' = unstored \cup {<<d, op.device>>}
  /\ UNCHANGED <<paired, pending, window, net, consent, barred, late, written>>

HandleRemove(d) ==
  /\ Take(d, "Remove")
  /\ paired' = [paired EXCEPT ![d] = @ \ {Head(ops[d]).device}]
  /\ UNCHANGED <<pending, rx, window, net, bounds, ghosts>>

\* The user is told that nothing was removed.
RemoveFails(d) ==
  LET e == Head(ops[d]).device IN
  /\ Take(d, "Remove")
  /\ Event(0)
  /\ Unbar(d, e)
  /\ late' = {t \in late : t[1] # d \/ rx[t].peer # e}
  /\ UNCHANGED <<paired, pending, rx, window, net, consent, unstored, written>>

\* Mutant of HandlePending: what was kept for the device before is kept.
HandlePendingOnce(d) ==
  LET op == Head(ops[d]) IN
  /\ Take(d, "Pending")
  /\ pending' = [pending EXCEPT ![d][op.device] = IF @ = 0 THEN op.turn ELSE @]
  /\ UNCHANGED <<paired, rx, window, net, bounds, ghosts>>

\* pending_requests.insert: what was kept for the device before is dropped.
HandlePending(d) ==
  LET op == Head(ops[d]) IN
  /\ Take(d, "Pending")
  /\ pending' = [pending EXCEPT ![d][op.device] = op.turn]
  /\ UNCHANGED <<paired, rx, window, net, bounds, ghosts>>

\* Mutant of Reply: an answer that comes too late is taken for the next request.
ReplyToAnyTurn(d, place) ==
  LET op == Head(ops[d]) IN
  /\ pending' = [pending EXCEPT ![d][op.device] = 0]
  /\ IF pending[d][op.device] # 0 /\ rx[Server(d)].at = "wait"
     THEN Become(Server(d), place)
     ELSE UNCHANGED rx

\* The reply sender kept for the device is used up; it has an effect only if its task
\* still waits on that turn.
Reply(d, place) ==
  LET op == Head(ops[d]) IN
  /\ pending' = [pending EXCEPT ![d][op.device] = 0]
  /\ IF /\ pending[d][op.device] # 0
        /\ rx[Server(d)].at = "wait" /\ rx[Server(d)].turn = pending[d][op.device]
     THEN Become(Server(d), place)
     ELSE UNCHANGED rx

HandleApprove(d) ==
  /\ Take(d, "Approve")
  /\ Reply(d, "add")
  /\ UNCHANGED <<paired, window, net, bounds, ghosts>>

HandleReject(d) ==
  /\ Take(d, "Reject")
  /\ Reply(d, "refuse")
  /\ rejected' = rejected \cup {<<d, Head(ops[d]).device>>}
  /\ UNCHANGED <<paired, window, net, bounds, approved, accepted, removed, clipLog>>

\* ListPending, and the window's answer to it: it shows one of the devices.
HandleList(d) ==
  LET waiting == {e \in Devices : pending[d][e] # 0} IN
  /\ Take(d, "List")
  /\ IF waiting = {}
     THEN UNCHANGED prompt
     ELSE \E e \in waiting : prompt' = [prompt EXCEPT ![d] = e]
  /\ UNCHANGED <<paired, pending, rx, loading, net, bounds, ghosts>>

-----------------------------------------------------------------------------
Storage(d) ==
  \/ HandleCheck(d) \/ CheckFails(d)
  \/ HandleAdd(d) \/ AddFails(d)
  \/ HandleRemove(d) \/ RemoveFails(d)
  \/ HandlePending(d)
  \/ HandleApprove(d)
  \/ HandleReject(d)
  \/ HandleList(d)

ServerTask(d) ==
  \/ \E l \in Links : l[2] = d /\ (TakeRequest(l) \/ TakeClip(l))
  \/ Ask(d)
  \/ StartAdd(d)
  \/ Respond(d)
  \/ WriteClip(Server(d))

ClientTask(l) ==
  \/ \E m \in down[l] : TakeAnswer(l, m)
  \/ TakeServerClip(l)
  \/ WriteClip(l)

Window(d) ==
  \/ Approve(d)
  \/ Reject(d)
  \/ Load(d)
  \/ \E e \in Devices : Remove(d, e)

Next ==
  \/ \E l \in Links : Connect(l) \/ Disconnect(l) \/ ClientTask(l)
  \/ \E d \in Pushers : Push(d)
  \/ \E d \in Devices : ServerTask(d) \/ TimeOut(d) \/ Storage(d) \/ Window(d)

Spec == Init /\ [][Next]_vars

\* A server's task and the storage threads do not starve, and a timer that has been
\* started expires.  The user need not do anything, nor do the clients' tasks.
Fairness ==
  /\ \A d \in Servers : WF_vars(ServerTask(d) \/ TimeOut(d))
  /\ \A d \in Servers : WF_vars(Storage(d))

FairSpec == Spec /\ Fairness

-----------------------------------------------------------------------------
(* Properties *)

Answers == [ok : BOOLEAN, for : Devices, n : Nat]

\* Types; every operation but the listing names a device.
TypeOK ==
  /\ paired \in [Devices -> SUBSET Devices]
  /\ pending \in [Devices -> [Devices -> Nat]]
  /\ ops \in [Devices -> Seq([kind : Kinds, device : Devices \cup {None},
                              task : Tasks \cup {None}, turn : Nat])]
  /\ \A d \in Devices : \A i \in 1..Len(ops[d]) :
       ops[d][i].device = None => ops[d][i].kind = "List"
  /\ rx \in [Tasks -> [at : Places, peer : Devices \cup {None}, turn : Nat]]
  /\ prompt \in [Devices -> Devices \cup {None}]
  /\ loading \subseteq Devices
  /\ serving \in [Devices -> Devices \cup {None}]
  /\ up \in [Devices -> Seq(Devices \X {"request", "clip"})]
  /\ inbox \in [Links -> Nat]
  /\ down \in [Links -> SUBSET Answers]
  /\ requests \in 0..MaxRequests
  /\ events \in 0..MaxEvents
  /\ approved \subseteq Devices \X Devices /\ rejected \subseteq Devices \X Devices
  /\ accepted \subseteq Devices \X Devices /\ removed \subseteq Devices \X Devices
  /\ barred \subseteq Devices \X Devices /\ unstored \subseteq Devices \X Devices
  /\ written \subseteq Devices \X Devices
  /\ late \subseteq Tasks

\* Nobody is paired, and nothing that another device pushed reaches a clipboard, before
\* some user has approved a request: neither a timeout, nor a late or superseded answer,
\* nor a broadcast response starts a pairing by itself.
NothingWithoutApproval ==
  approved = {} => written = {} /\ \A d \in Devices : paired[d] = {}

\* A device that adds the sender of a request to its table has its user's approval of
\* that very device, through stale reply senders and prompts that replace each other.
AddedWithApproval == accepted \subseteq approved

\* Why e may be missing in the table of d although it was to be added to it.
Excused(d, e) == <<d, e>> \in removed \cup unstored

\* Who is told that it is accepted is in the table of the device that says so, unless
\* the user there has removed it or the table refused it: the answer never overtakes
\* the table.
StoredBeforeTold ==
  \A l \in Links : \A m \in down[l] :
    m.ok => m.for \in paired[l[2]] \/ Excused(l[2], m.for)

\* Once the user has removed a device, no clipboard message of it that a task takes from
\* then on is written, unless a pairing with it goes on: the removal and the check of
\* the sender are in one channel, with the insertions.
RemovedIsNotWritten == \A t \in late : rx[t].at # "write"

\* The inductive strengthening of the safety properties.  A task that is not idle has
\* a peer, and one that waits for the storage thread has one operation there, about that
\* peer ...
AwaitedAt(op) ==
  IF op.kind = "Check" THEN {"check", "clip"} ELSE {"adding", "noting"}

IsAwaited(op) == op.kind \in {"Check", "Add"}

Waiting == {"check", "clip", "adding", "noting"}
HasAsked(t) ==
  \E i \in 1..Len(ops[t[1]]) : IsAwaited(ops[t[1]][i]) /\ ops[t[1]][i].task = t

Awaited ==
  /\ \A t \in Tasks : rx[t].at # "idle" => rx[t].peer \in Devices
  /\ \A t \in Tasks : rx[t].at \in Waiting => HasAsked(t)
  /\ \A d \in Devices : \A i \in 1..Len(ops[d]) :
       LET op == ops[d][i] IN
       IsAwaited(op) =>
         /\ op.task \in Tasks /\ op.task[1] = d
         /\ rx[op.task].at \in AwaitedAt(op) /\ rx[op.task].peer = op.device
         /\ \A j \in 1..Len(ops[d]) :
              IsAwaited(ops[d][j]) /\ ops[d][j].task = op.task => i = j

\* ... a reply sender is from an earlier turn or belongs to the peer of this one ...
OfTurn(t, turn, e) ==
  /\ turn <= rx[t].turn
  /\ turn = rx[t].turn /\ turn # 0 /\ rx[t].at \notin Apart => rx[t].peer = e

CurrentTurn ==
  \A d \in Devices :
    /\ \A e \in Devices : OfTurn(Server(d), pending[d][e], e)
    /\ \A i \in 1..Len(ops[d]) :
         ops[d][i].kind = "Pending" => OfTurn(Server(d), ops[d][i].turn, ops[d][i].device)

\* ... only the user's approval leads to an insertion by the server ...
Approvals ==
  /\ AddedWithApproval
  /\ \A t \in Tasks :
       rx[t].at \in {"add", "adding"} => <<t[1], rx[t].peer>> \in approved
  /\ \A d \in Devices : \A i \in 1..Len(ops[d]) :
       ops[d][i].kind = "Approve" => <<d, ops[d][i].device>> \in approved

\* ... who is about to be told is in the table or excused ...
Told ==
  /\ StoredBeforeTold
  /\ \A t \in Tasks :
       rx[t].at = "accept" => rx[t].peer \in paired[t[1]] \/ Excused(t[1], rx[t].peer)
  /\ \A d \in Devices : \A i \in 1..Len(ops[d]) :
       ops[d][i].kind = "Remove" => <<d, ops[d][i].device>> \in removed

\* ... and before the first approval nothing is on its way to a table.
Untouched ==
  approved = {} =>
    /\ NothingWithoutApproval
    /\ \A t \in Tasks : rx[t].at \notin {"add", "adding", "accept", "noting", "write"}
    /\ \A l \in Links : \A m \in down[l] : ~m.ok
    /\ \A d \in Devices : \A i \in 1..Len(ops[d]) :
         ops[d][i].kind \notin {"Add", "Approve"}

\* The operations of d before the i-th leave e out of the table.
IsOp(op, kind, e) == op.kind = kind /\ op.device = e

NotAdded(d, e, from, to) ==
  \A k \in 1..Len(ops[d]) : from < k /\ k < to => ~IsOp(ops[d][k], "Add", e)

Out(d, e, i) ==
  \/ e \notin paired[d] /\ NotAdded(d, e, 0, i)
  \/ \E j \in 1..Len(ops[d]) :
       j < i /\ IsOp(ops[d][j], "Remove", e) /\ NotAdded(d, e, j, i)

\* Whom the user has removed is out when all is done, and when the check of a late
\* clipboard message is answered.
OutOfTable ==
  /\ RemovedIsNotWritten
  /\ \A d, e \in Devices : <<d, e>> \in barred => Out(d, e, Len(ops[d]) + 1)
  /\ \A d \in Devices : \A i \in 1..Len(ops[d]) :
       LET op == ops[d][i] IN
       op.kind = "Check" /\ op.task \in late /\ rx[op.task].at = "clip"
         => Out(d, op.device, i)

\* ... and there is one reply sender for each turn, which is not there before the user is
\* asked, and reaches the storage thread before the wait ends.
OneSender(d) ==
  LET t == Server(d) IN
  /\ rx[t].at \in {"check", "ask"} =>
       rx[t].turn # 0 /\ \A e \in Devices : pending[d][e] # rx[t].turn
  /\ \A i \in 1..Len(ops[d]) :
       ops[d][i].kind = "Pending" =>
         /\ rx[t].at = "wait" /\ ops[d][i].turn = rx[t].turn
         /\ \A e \in Devices : pending[d][e] # rx[t].turn
         /\ \A j \in 1..Len(ops[d]) : ops[d][j].kind = "Pending" => i = j

Answerable(d) ==
  LET t == Server(d) IN
  rx[t].at = "wait" =>
    /\ rx[t].turn # 0
    /\ \/ pending[d][rx[t].peer] = rx[t].turn
       \/ \E i \in 1..Len(ops[d]) :
            ops[d][i].kind = "Pending" /\ ops[d][i].turn = rx[t].turn

\* No task waits in vain: whoever waits for the storage thread is named by an operation in
\* its channel, and a server's task that waits for the user has its reply sender there, or
\* kept for the device that asked: none is displaced by a later or an earlier request, which
\* would refuse the request at once, without the user (app.rs 1020-1034).
NoLostReply ==
  /\ \A t \in Tasks : rx[t].at \in Waiting => HasAsked(t)
  /\ \A d \in Devices : Answerable(d)

PairingInv ==
  /\ Awaited /\ CurrentTurn /\ Approvals /\ Told /\ Untouched /\ OutOfTable
  /\ NoLostReply /\ \A d \in Devices : OneSender(d)

\* The server's message task, which handles the clipboard messages of all clients as
\* well, never stands still forever, even if the user never answers.
ServerTaskReturns ==
  \A d \in Servers : []<>(rx[Server(d)].at = "idle")

\* Only the device that asked is told: a device is in another's table only if one of
\* the two users has approved the other device.
OnlyTheRequesterIsTold ==
  \A d, e \in Devices : e \in paired[d] => <<e, d>> \in approved \/ <<d, e>> \in approved

\* Who is told that it is accepted is in the table of the device that says so, or its
\* user has removed it.
ToldIsStored ==
  \A l \in Links : \A m \in down[l] :
    m.ok => m.for \in paired[l[2]] \/ <<l[2], m.for>> \in removed

\* A device that the user approves is stored in the table.
ApprovedIsStored ==
  \A d, e \in Devices : (<<d, e>> \in approved) ~> (<<d, e>> \in accepted)

\* The user is not asked about a device whose earlier request was rejected (no run is
\* long enough for 30 minutes to pass).
RejectedIsRefused ==
  [][\A d, e \in Devices :
       (rx'[Server(d)].at = "ask" /\ rx'[Server(d)].peer = e) => <<d, e>> \notin rejected]_vars
=============================================================================
