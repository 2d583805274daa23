----------------------------- MODULE Connection -----------------------------
(***************************************************************************)
(* How two devices get and stay connected: the discovery loop that dials   *)
(* (app.rs, handle_device_discovery_task and connect_to_device), the       *)
(* client side of a connection (websocket_client.rs) and the server side   *)
(* (websocket_server.rs), which handles one inbound connection at a time.  *)
(*                                                                         *)
(* A slot is one WebSocketClient with its TCP connection; it is reused     *)
(* once nothing of it is left.  What the messages say is abstracted to     *)
(* heartbeats, their acks and the pairing request sent on connecting.      *)
(***************************************************************************)
EXTENDS Naturals, Sequences, FiniteSets

CONSTANTS
  Devices,     \* the devices on the network
  Slots,       \* bound: connections that exist at the same time
  None,        \* no device, no slot, no message
  Sees,        \* <<c, s>>: s is in the device list of c, and compatible
  MaxRetries,  \* MAX_RECONNECT_ATTEMPTS = 3
  MaxBreaks,   \* bound: broken connections, refused connects and restarts
  MaxSilences  \* bound: silences longer than HEARTBEAT_TIMEOUT_SECS

ASSUME SeesAssumption == Sees \subseteq Devices \X Devices
ASSUME NoSelfSight == \A p \in Sees : p[1] # p[2]
ASSUME NoneAssumption == None \notin Devices \cup Slots \cup {"heartbeat", "ack", "pairing"}
ASSUME MaxRetriesAssumption == MaxRetries \in Nat

VARIABLES
  peers,     \* peers[c][s]: the slot in c's map of clients, or None
  client,    \* the WebSocketClient and the connect task of each slot
  sock,      \* the TCP connection of each slot
  toServer,  \* on the way to the server, in order: internal channel, write task, wire
  toClient,  \* on the way to the client: ClientConnection.tx, wire
  serving,   \* the slot handle_connection of each server is busy with, or None
  inHand,    \* its message whose device id is not yet in ids, or None
  clients,   \* WebSocketServer.clients, as slots
  known,     \* those of them with a non-empty device_id
  stale,     \* those of them whose last_heartbeat is older than the timeout
  ids,       \* WebSocketServer.connected_device_ids
  cut,       \* servers that have timed out a client whose message was in hand
             \* (history variable)
  breaks, silences  \* bounds

server == <<serving, inHand, clients, known, stale, ids>>
wire   == <<sock, toServer, toClient>>
bounds == <<breaks, silences>>
vars   == <<peers, client, wire, server, cut, bounds>>

-----------------------------------------------------------------------------
\* The places of the connect task; "none": the slot is unused, "done": the task
\* has ended.
Tasks == {"none", "try", "sleep", "announce", "subscribe", "wait", "clean", "done"}
States == {"Disconnected", "Connecting", "Connected"}
ToServer == {"heartbeat", "ack", "pairing"}
ToClient == {"heartbeat", "ack"}

\* The task spawned by spawn_websocket_tasks: internal_send_tx is Some from "set" on
\* until the task has "ended".
Ios == {"none", "starting", "set", "running", "ended"}

\* from, to: the devices; tries: failed attempts, while connect runs; asking: the
\* pairing request is queued in send_tx; reading, writing, beating: the read, write
\* and heartbeat tasks run; late: last_heartbeat is older than the timeout; woken: disconnect_tx
\* has a value the connect task has not seen.
Unused ==
  [from |-> None, to |-> None, task |-> "none", state |-> "Disconnected",
   tries |-> 0, io |-> "none", asking |-> FALSE, reading |-> FALSE,
   writing |-> FALSE, beating |-> FALSE, late |-> FALSE, woken |-> FALSE]

Init ==
  /\ peers    = [c \in Devices |-> [s \in Devices |-> None]]
  /\ client   = [i \in Slots |-> Unused]
  /\ sock     = [i \in Slots |-> "none"]
  /\ toServer = [i \in Slots |-> <<>>]
  /\ toClient = [i \in Slots |-> {}]
  /\ serving  = [s \in Devices |-> None]
  /\ inHand   = [s \in Devices |-> None]
  /\ clients  = [s \in Devices |-> {}]
  /\ known    = {}
  /\ stale    = {}
  /\ ids      = [s \in Devices |-> {}]
  /\ cut      = {}
  /\ breaks   = 0
  /\ silences = 0

\* Nothing of the slot is left: it may be used for a new connection.
Free(i) ==
  /\ client[i].task \in {"none", "done"}
  /\ sock[i] \in {"none", "closed"}
  /\ \A s \in Devices : serving[s] # i

-----------------------------------------------------------------------------
(* Dialling: the discovery loop and the connect task *)

\* connect_to_device: a new client for s, in the map of clients before it connects.
\* Which free slot it takes makes no difference.
Register(c, s) ==
  LET i == CHOOSE j \in Slots : Free(j) IN
  /\ \E j \in Slots : Free(j)
  /\ peers' = [peers EXCEPT ![c][s] = i]
  /\ client' = [client EXCEPT ![i] = [Unused EXCEPT
       !.from = c, !.to = s, !.task = "try", !.state = "Connecting"]]
  /\ sock' = [sock EXCEPT ![i] = "none"]
  /\ toServer' = [toServer EXCEPT ![i] = <<>>]
  /\ toClient' = [toClient EXCEPT ![i] = {}]

\* Mutant of Dial: the map of clients is not consulted.
DialAgain(c, s) ==
  /\ <<c, s>> \in Sees
  /\ s \notin ids[c]
  /\ Register(c, s)
  /\ UNCHANGED <<server, cut, bounds>>

\* The discovery loop of c, every 5 seconds, dials a compatible device that is
\* neither in the map of clients nor connected to c's server.
Dial(c, s) ==
  /\ <<c, s>> \in Sees
  /\ peers[c][s] = None
  /\ s \notin ids[c]
  /\ Register(c, s)
  /\ UNCHANGED <<server, cut, bounds>>

\* try_connect: the TCP connection is made as soon as the peer's listener exists,
\* and waits in its backlog for the handshake, without a timeout.
OpenTcp(i) ==
  /\ client[i].task = "try" /\ sock[i] = "none"
  /\ sock' = [sock EXCEPT ![i] = "backlog"]
  /\ UNCHANGED <<peers, client, toServer, toClient, server, cut, bounds>>

\* Mutant of Failed: the caller leaves the client in the map.
FailedStays(i) ==
  client' = [client EXCEPT ![i] =
    IF @.tries >= MaxRetries
    THEN [@ EXCEPT !.state = "Disconnected", !.task = "done", !.tries = 0]
    ELSE [@ EXCEPT !.task = "sleep"]]

\* The error branch of connect: back off and retry, or give up; the caller then
\* removes the client from the map.
Failed(i) ==
  client' = [client EXCEPT ![i] =
    IF @.tries >= MaxRetries
    THEN [@ EXCEPT !.state = "Disconnected", !.task = "clean", !.tries = 0]
    ELSE [@ EXCEPT !.task = "sleep"]]

\* The connection breaks before the handshake is over ...
TryFails(i) ==
  /\ client[i].task = "try" /\ sock[i] = "closed"
  /\ Failed(i)
  /\ UNCHANGED <<peers, wire, server, cut, bounds>>

\* ... or cannot be made.
Refused(i) ==
  /\ breaks < MaxBreaks
  /\ breaks' = breaks + 1
  /\ client[i].task = "try" /\ sock[i] = "none"
  /\ Failed(i)
  /\ UNCHANGED <<peers, wire, server, cut, silences>>

\* The delay is over: calculate_reconnect_delay, at least a second, in which the
\* server has dropped what there was of the connection (bound).
Retry(i) ==
  /\ client[i].task = "sleep"
  /\ \A s \in Devices : serving[s] # i
  /\ client' = [client EXCEPT ![i].task = "try", ![i].tries = @ + 1,
                              ![i].state = "Connecting"]
  /\ sock' = [sock EXCEPT ![i] = "none"]
  /\ UNCHANGED <<peers, toServer, toClient, server, cut, bounds>>

\* The handshake is over: connect marks the client Connected, resets its
\* last_heartbeat, spawns the connection's tasks and its heartbeat, and returns Ok.
Connected(i) ==
  /\ client[i].task = "try" /\ sock[i] = "open"
  /\ client' = [client EXCEPT ![i].task = "announce", ![i].state = "Connected",
       ![i].tries = 0, ![i].late = FALSE, ![i].beating = TRUE, ![i].io = "starting"]
  /\ UNCHANGED <<peers, wire, server, cut, bounds>>

\* internal_send_tx is Some.
HasSender(i) == client[i].io \in {"set", "running"}

\* The spawned task sets internal_send_tx and lets go of its lock: from now on the
\* send task may queue its messages, the pairing request among them ...
SetSender(i) ==
  /\ client[i].io = "starting"
  /\ client' = [client EXCEPT ![i].io = "set"]
  /\ UNCHANGED <<peers, wire, server, cut, bounds>>

\* ... before it queues its first heartbeat and starts the read and the write task.
StartTasks(i) ==
  /\ client[i].io = "set"
  /\ client' = [client EXCEPT ![i].io = "running", ![i].reading = TRUE,
                              ![i].writing = TRUE]
  /\ toServer' = [toServer EXCEPT ![i] = Append(@, "heartbeat")]
  /\ UNCHANGED <<peers, sock, toClient, server, cut, bounds>>

\* The connect task sends the pairing request: into send_tx if Connected.
Announce(i) ==
  /\ client[i].task = "announce"
  /\ client' = [client EXCEPT ![i].task = "subscribe",
                              ![i].asking = client[i].state = "Connected"]
  /\ UNCHANGED <<peers, wire, server, cut, bounds>>

\* The send task drops the message unless the client is Connected and
\* internal_send_tx is set.
ForwardRequest(i) ==
  /\ client[i].asking
  /\ client' = [client EXCEPT ![i].asking = FALSE]
  /\ toServer' = [toServer EXCEPT ![i] =
       IF client[i].state = "Connected" /\ HasSender(i)
       THEN Append(@, "pairing") ELSE @]
  /\ UNCHANGED <<peers, sock, toClient, server, cut, bounds>>

\* disconnect_receiver: what was announced before is not seen.
Subscribe(i) ==
  /\ client[i].task = "subscribe"
  /\ client' = [client EXCEPT ![i].task = "wait", ![i].woken = FALSE]
  /\ UNCHANGED <<peers, wire, server, cut, bounds>>

\* changed() returns, and the value counts as seen.
Notice(i) ==
  /\ client[i].task = "wait" /\ client[i].woken
  /\ client' = [client EXCEPT ![i].task = "clean", ![i].woken = FALSE]
  /\ UNCHANGED <<peers, wire, server, cut, bounds>>

\* clients.remove(device_id).  The client is Disconnected: its send task would drop
\* what is queued, its heartbeat task ends at the next tick.
Clean(i) ==
  /\ client[i].task = "clean"
  /\ peers' = [peers EXCEPT ![client[i].from][client[i].to] = None]
  /\ client' = [client EXCEPT ![i].task = "done", ![i].asking = FALSE,
                              ![i].beating = FALSE]
  /\ UNCHANGED <<wire, server, cut, bounds>>

-----------------------------------------------------------------------------
(* The client's end of an established connection *)

\* The state Disconnected is announced to whoever has subscribed.
Disconnect(r) ==
  [r EXCEPT !.state = "Disconnected", !.woken = r.task = "wait", !.late = FALSE]

\* A heartbeat is worth sending (bound): what the last tick has caused is over, and
\* an end has been waiting for too long, or may be later on, or the connection is
\* gone.  Any other heartbeat is acked and changes nothing.
Due(i) ==
  /\ toServer[i] = <<>> /\ toClient[i] = {}
  /\ \/ silences < MaxSilences \/ client[i].late \/ i \in stale
     \/ sock[i] = "closed"

\* The read task: heartbeats and acks reset last_heartbeat, a heartbeat is acked.
ClientReads(i, m) ==
  /\ client[i].reading /\ sock[i] = "open"
  /\ m \in toClient[i]
  /\ toClient' = [toClient EXCEPT ![i] = @ \ {m}]
  /\ client' = [client EXCEPT ![i].late = FALSE]
  /\ toServer' = [toServer EXCEPT ![i] =
       IF m = "heartbeat" /\ HasSender(i) THEN Append(@, "ack") ELSE @]
  /\ UNCHANGED <<peers, sock, server, cut, bounds>>

ReadEnds(i) ==
  /\ client[i].reading /\ sock[i] = "closed"
  /\ client' = [client EXCEPT ![i].reading = FALSE]
  /\ UNCHANGED <<peers, wire, server, cut, bounds>>

\* The write task notices only when it has something to send.
WriteEnds(i) ==
  /\ client[i].writing /\ sock[i] = "closed"
  /\ toServer[i] # <<>>
  /\ client' = [client EXCEPT ![i].writing = FALSE]
  /\ UNCHANGED <<peers, wire, server, cut, bounds>>

\* Both tasks have ended: internal_send_tx is cleared, the state set, the
\* disconnection announced.
ConnectionEnds(i) ==
  /\ client[i].io = "running" /\ ~client[i].reading /\ ~client[i].writing
  /\ client' = [client EXCEPT ![i] = [Disconnect(@) EXCEPT !.io = "ended"]]
  /\ toServer' = [toServer EXCEPT ![i] = <<>>]
  /\ UNCHANGED <<peers, sock, toClient, server, cut, bounds>>

\* Mutant of ClientTick: it watches the server, but sends nothing.
ClientTickSilent(i) ==
  /\ client[i].beating
  /\ client[i].state # "Connected" \/ client[i].late
  /\ client' = [client EXCEPT ![i] = [Disconnect(@) EXCEPT !.beating = FALSE]]
  /\ UNCHANGED <<peers, wire, server, cut, bounds>>

\* A tick of the heartbeat task, every 30 seconds: it ends when the client is not
\* Connected any more; it disconnects the client, but closes nothing, when the
\* server has been silent for too long; otherwise it sends a heartbeat.
ClientTick(i) ==
  /\ client[i].beating
  /\ \/ /\ client[i].state # "Connected"
        /\ client' = [client EXCEPT ![i].beating = FALSE]
        /\ UNCHANGED toServer
     \/ /\ client[i].state = "Connected" /\ client[i].late
        /\ client' = [client EXCEPT ![i] = [Disconnect(@) EXCEPT !.beating = FALSE]]
        /\ UNCHANGED toServer
     \/ /\ client[i].state = "Connected" /\ ~client[i].late
        /\ HasSender(i) /\ Due(i)
        /\ toServer' = [toServer EXCEPT ![i] = Append(@, "heartbeat")]
        /\ UNCHANGED client
  /\ UNCHANGED <<peers, sock, toClient, server, cut, bounds>>

-----------------------------------------------------------------------------
(* The server *)

\* Mutant of Forget: the device stays in connected_device_ids.
ForgetClientOnly(s, i) ==
  /\ clients' = [clients EXCEPT ![s] = @ \ {i}]
  /\ known' = known \ {i}
  /\ stale' = stale \ {i}
  /\ UNCHANGED ids

\* A client is removed, and its device from connected_device_ids.
Forget(s, i) ==
  /\ clients' = [clients EXCEPT ![s] = @ \ {i}]
  /\ ids' = [ids EXCEPT ![s] = IF i \in known THEN @ \ {client[i].from} ELSE @]
  /\ known' = known \ {i}
  /\ stale' = stale \ {i}

\* The accept loop: the handshake, the entry in clients and the two tasks.  The
\* loop is in handle_connection until the connection has ended.
Accept(s, i) ==
  /\ serving[s] = None
  /\ client[i].to = s /\ sock[i] = "backlog"
  /\ serving' = [serving EXCEPT ![s] = i]
  /\ clients' = [clients EXCEPT ![s] = @ \cup {i}]
  /\ sock' = [sock EXCEPT ![i] = "open"]
  /\ stale' = stale \ {i}
  /\ UNCHANGED <<peers, client, toServer, toClient, inHand, known, ids, cut, bounds>>

\* What the server does with message m of slot i, once the device is in ids: a
\* heartbeat is acked; what becomes of a pairing request is told in Pairing.
Handle(s, i, m) ==
  toClient' = [toClient EXCEPT ![i] =
    IF m = "heartbeat" /\ i \in clients[s] /\ sock[i] = "open"
    THEN @ \cup {"ack"} ELSE @]

\* The receiving task takes a message.  One from a connection that is no longer
\* in clients is ignored.  The first one, whatever it is, tells the device id; a
\* heartbeat or an ack renews last_heartbeat, a pairing request does not.  (The
\* two looks at clients, to decrypt and to update, are one step.)
ServerReads(s) ==
  LET i == serving[s]
      m == Head(toServer[i])
  IN
  /\ i # None /\ inHand[s] = None
  /\ sock[i] = "open" /\ client[i].writing
  /\ toServer[i] # <<>>
  /\ toServer' = [toServer EXCEPT ![i] = Tail(@)]
  /\ IF i \notin clients[s]
     THEN UNCHANGED <<toClient, inHand, known, stale>>
     ELSE /\ stale' = IF m = "pairing" THEN stale ELSE stale \ {i}
          /\ known' = known \cup {i}
          /\ IF i \in known
             THEN Handle(s, i, m) /\ UNCHANGED inHand
             ELSE inHand' = [inHand EXCEPT ![s] = m] /\ UNCHANGED toClient
  /\ UNCHANGED <<peers, client, sock, serving, clients, ids, cut, bounds>>

\* connected_device_ids.insert, after the lock on clients has been released: the
\* client may have been removed by then, and nobody looks again.
InsertId(s) ==
  LET i == serving[s] IN
  /\ inHand[s] # None
  /\ ids' = [ids EXCEPT ![s] = @ \cup {client[i].from}]
  /\ Handle(s, i, inHand[s])
  /\ inHand' = [inHand EXCEPT ![s] = None]
  /\ UNCHANGED <<peers, client, sock, toServer, serving, clients, known, stale, cut, bounds>>

\* Mutant of ServerEnds: a message may still be in hand.
ServerEndsAtOnce(s) ==
  LET i == serving[s] IN
  /\ i # None
  /\ sock[i] = "closed"
  /\ IF i \in clients[s] THEN Forget(s, i) ELSE UNCHANGED <<clients, known, stale, ids>>
  /\ serving' = [serving EXCEPT ![s] = None]
  /\ UNCHANGED <<peers, client, wire, inHand, cut, bounds>>

\* The connection has ended: the client is removed, its sender dropped, and
\* handle_connection returns to the accept loop.
ServerEnds(s) ==
  LET i == serving[s] IN
  /\ i # None /\ inHand[s] = None
  /\ sock[i] = "closed"
  /\ IF i \in clients[s] THEN Forget(s, i) ELSE UNCHANGED <<clients, known, stale, ids>>
  /\ serving' = [serving EXCEPT ![s] = None]
  /\ UNCHANGED <<peers, client, wire, inHand, cut, bounds>>

\* Mutant of ServerTick: what it removes from clients stays in ids.
ServerTickForgetsNoId(s, i) ==
  /\ i \in clients[s] \cap stale
  /\ ForgetClientOnly(s, i)
  /\ UNCHANGED <<peers, client, wire, serving, inHand, cut, bounds>>

\* A tick of the server's heartbeat task: a client that has been silent for too
\* long is removed, at whatever point the receiving task may be, but its connection
\* is not closed; the others get a heartbeat.
ServerTick(s, i) ==
  /\ i \in clients[s]
  /\ \/ /\ i \in stale
        /\ Forget(s, i)
        /\ cut' = IF inHand[s] # None THEN cut \cup {s} ELSE cut
        /\ UNCHANGED toClient
     \/ /\ i \notin stale /\ sock[i] = "open" /\ Due(i)
        /\ toClient' = [toClient EXCEPT ![i] = @ \cup {"heartbeat"}]
        /\ UNCHANGED <<clients, ids, known, stale, cut>>
  /\ UNCHANGED <<peers, client, sock, toServer, serving, inHand, bounds>>

-----------------------------------------------------------------------------
(* The environment *)

\* Both ends learn from the socket, each in its time but long before the heartbeat
\* timeout, that a connection is gone; what was on its way is lost.
Break(i) ==
  /\ breaks < MaxBreaks
  /\ breaks' = breaks + 1
  /\ sock[i] \in {"backlog", "open"}
  /\ sock' = [sock EXCEPT ![i] = "closed"]
  /\ toServer' = [toServer EXCEPT ![i] = <<>>]
  /\ toClient' = [toClient EXCEPT ![i] = {}]
  /\ UNCHANGED <<peers, client, server, cut, silences>>

\* The two ends hear nothing of each other for longer than the timeout while the
\* connection survives, as during the sleep of a laptop, wherever their tasks are:
\* last_heartbeat has become too old at one end or at both.
Silence(i) ==
  /\ silences < MaxSilences
  /\ silences' = silences + 1
  /\ sock[i] = "open"
  /\ \E ends \in SUBSET {"client", "server"} :
       /\ client' = [client EXCEPT ![i].late = @ \/ (client[i].beating /\ "client" \in ends)]
       /\ stale' = IF "server" \in ends
                   THEN stale \cup ({i} \cap clients[client[i].to]) ELSE stale
  /\ UNCHANGED <<peers, wire, serving, inHand, clients, known, ids, cut, breaks>>

\* The program on d ends and starts again.
Restart(d) ==
  /\ breaks < MaxBreaks
  /\ breaks' = breaks + 1
  /\ peers' = [peers EXCEPT ![d] = [s \in Devices |-> None]]
  /\ client' = [i \in Slots |->
       IF client[i].from = d
       THEN [Unused EXCEPT !.from = d, !.to = client[i].to, !.task = "done"]
       ELSE client[i]]
  /\ sock' = [i \in Slots |->
       IF sock[i] \in {"backlog", "open"} /\ d \in {client[i].from, client[i].to}
       THEN "closed" ELSE sock[i]]
  /\ toServer' = [i \in Slots |-> IF sock'[i] = "closed" THEN <<>> ELSE toServer[i]]
  /\ toClient' = [i \in Slots |-> IF sock'[i] = "closed" THEN {} ELSE toClient[i]]
  /\ serving' = [serving EXCEPT ![d] = None]
  /\ inHand' = [inHand EXCEPT ![d] = None]
  /\ clients' = [clients EXCEPT ![d] = {}]
  /\ known' = known \ clients[d]
  /\ stale' = stale \ clients[d]
  /\ ids' = [ids EXCEPT ![d] = {}]
  /\ cut' = cut \ {d}
  /\ UNCHANGED silences

-----------------------------------------------------------------------------
ConnectStep(i) ==
  \/ OpenTcp(i)
  \/ TryFails(i)
  \/ Retry(i)
  \/ Connected(i)
  \/ Announce(i)
  \/ Subscribe(i)
  \/ Notice(i)
  \/ Clean(i)

\* The tasks of the connection, which live at the same time but hardly ever wait
\* for each other.
ConnectionStep(i) ==
  \/ SetSender(i)
  \/ StartTasks(i)
  \/ ForwardRequest(i)
  \/ \E m \in ToClient : ClientReads(i, m)
  \/ ReadEnds(i)
  \/ WriteEnds(i)
  \/ ConnectionEnds(i)

\* The accept loop and, while it waits, the receiving task of the connection.
HandlerStep(s) ==
  \/ \E i \in Slots : Accept(s, i)
  \/ ServerReads(s)
  \/ InsertId(s)
  \/ ServerEnds(s)

Next ==
  \/ \E p \in Sees : Dial(p[1], p[2])
  \/ \E i \in Slots : ConnectStep(i) \/ ConnectionStep(i) \/ ClientTick(i)
  \/ \E s \in Devices : HandlerStep(s)
  \/ \E s \in Devices, i \in Slots : ServerTick(s, i)
  \/ \E i \in Slots : Refused(i) \/ Break(i) \/ Silence(i)
  \/ \E d \in Devices : Restart(d)

Spec == Init /\ [][Next]_vars

\* The discovery loop and the heartbeats tick forever, and the tokio scheduler
\* starves no task.
Fairness ==
  /\ \A p \in Sees : WF_vars(Dial(p[1], p[2]))
  /\ \A i \in Slots :
       WF_vars(ConnectStep(i)) /\ WF_vars(ConnectionStep(i)) /\ WF_vars(ClientTick(i))
  /\ \A s \in Devices :
       /\ WF_vars(HandlerStep(s))
       /\ WF_vars(\E i \in Slots : ServerTick(s, i))

FairSpec == Spec /\ Fairness

-----------------------------------------------------------------------------
(* Properties *)

ClientRecords ==
  [from : Devices \cup {None}, to : Devices \cup {None}, task : Tasks,
   state : States, tries : 0..MaxRetries, io : Ios, asking : BOOLEAN,
   reading : BOOLEAN, writing : BOOLEAN, beating : BOOLEAN, late : BOOLEAN,
   woken : BOOLEAN]

\* Types; a message is in hand only while its connection is handled.
TypeOK ==
  /\ peers \in [Devices -> [Devices -> Slots \cup {None}]]
  /\ client \in [Slots -> ClientRecords]
  /\ sock \in [Slots -> {"none", "backlog", "open", "closed"}]
  /\ toServer \in [Slots -> Seq(ToServer)]
  /\ toClient \in [Slots -> SUBSET ToClient]
  /\ serving \in [Devices -> Slots \cup {None}]
  /\ inHand \in [Devices -> ToServer \cup {None}]
  /\ \A s \in Devices : inHand[s] # None => serving[s] # None
  /\ clients \in [Devices -> SUBSET Slots]
  /\ known \subseteq Slots /\ stale \subseteq Slots
  /\ ids \in [Devices -> SUBSET Devices]
  /\ cut \subseteq Devices
  /\ breaks \in Nat /\ silences \in Nat

\* The connect task of the slot has not ended.
Trying(i) == client[i].task \notin {"none", "done"}

\* The map of clients holds exactly the connections whose connect task runs: no
\* clean-up removes the entry of a later connection to the same device, and no
\* second connection is dialled over the first.
MapOwner ==
  \A c, s \in Devices, i \in Slots :
    peers[c][s] = i <=> client[i].from = c /\ client[i].to = s /\ Trying(i)

\* A server has at most one client at a time, the one it is handling.
OneInbound == \A s \in Devices : clients[s] \subseteq {serving[s]} \ {None}

\* The devices of the server's clients, as far as they have told their id.
Registered(s) == {client[i].from : i \in clients[s] \cap known}

\* connected_device_ids names every registered client; and it names nobody else, so
\* that the discovery loop dials whoever is not connected, unless the heartbeat
\* timeout has removed a client between its first message and the entry of its id.
IdsTracked ==
  \A s \in Devices :
    /\ s \notin cut => ids[s] \subseteq Registered(s)
    /\ inHand[s] = None => Registered(s) \subseteq ids[s]

\* "Removed from connected_device_ids as well, so that no entry is left behind that
\* makes the reconnect ticker believe in a connection" (spawn_heartbeat_task).
NoIdLeft == \A s \in Devices : ids[s] \subseteq Registered(s)

\* c is connected to the server of s, and both ends know it.
Linked(c, s) ==
  \E i \in clients[s] \cap known :
    client[i].from = c /\ client[i].state = "Connected" /\ sock[i] = "open"

\* c will not dial s again: the entry of a lost connection is never removed, because
\* the loss was announced before the connect task subscribed ...
Missed(c, s) ==
  \E i \in Slots :
    /\ peers[c][s] = i /\ client[i].task = "wait" /\ ~client[i].woken
    /\ client[i].state = "Disconnected"

\* ... or s is left in connected_device_ids.
LeftBehind(c, s) == s \in ids[c] \ Registered(c)

\* One of the two servers is busy with an open connection that one end has given up:
\* that of s accepts nobody, or c takes s for connected.
Held(s) ==
  \E i \in Slots :
    /\ serving[s] = i /\ sock[i] = "open"
    /\ i \notin clients[s] \/ client[i].state = "Disconnected"

\* Two devices that see each other are connected again and again, whatever breaks
\* and falls silent, unless every direction in which one could dial the other is
\* barred in one of these three ways.
Reconnects ==
  []<>(\A p \in Sees :
         \/ Linked(p[1], p[2]) \/ Linked(p[2], p[1])
         \/ \A q \in Sees \cap {p, <<p[2], p[1]>>} :
              Missed(q[1], q[2]) \/ LeftBehind(q[1], q[2])
              \/ Held(q[1]) \/ Held(q[2]))

\* A device whose connection has reached the listener becomes a client of the
\* server: "two clients connect, client_count() is 2" (websocket_integration_test).
EveryClientServed == \A i \in Slots : (sock[i] = "backlog") ~> (sock[i] # "backlog")

\* No client stays Connected for ever when its connection has gone, without any
\* timeout: the next heartbeat makes the write task notice.
GoneIsNoticed ==
  []<>(\A i \in Slots : client[i].state = "Connected" => sock[i] # "closed")

\* A client that has lost its connection leaves the map of clients, so that the
\* device is dialled again.
LostIsCleaned ==
  \A i \in Slots : (Trying(i) /\ client[i].io = "ended") ~> ~Trying(i)

\* A connection that has timed out at one end is closed.
TimeoutCloses ==
  \A i \in Slots :
    (\E s \in Devices : serving[s] = i /\ i \notin clients[s]) ~> sock[i] = "closed"

\* A pairing request that a connected client forwards goes on its way to the server.
RequestSent ==
  [][\A i \in Slots :
       client[i].asking /\ client[i].state = "Connected" /\ ~client'[i].asking
         => toServer'[i] # toServer[i] \/ client'[i].task = "done"]_vars
=============================================================================
