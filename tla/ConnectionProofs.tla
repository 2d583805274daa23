--------------------------- MODULE ConnectionProofs ---------------------------
(***************************************************************************)
(* Proofs about the connections of devices: the types, the map of clients, *)
(* one inbound connection at a time, and connected_device_ids.             *)
(***************************************************************************)
EXTENDS Connection, TLAPS

\* Slot i has a client that has not connected yet: nothing has been sent.
Fresh(i) ==
  /\ client[i].io = "none" /\ toServer[i] = <<>> /\ ~client[i].asking
  /\ ~client[i].reading /\ ~client[i].writing

\* The client and the TCP connection of a slot.
SlotOK(i) ==
  /\ Trying(i) => client[i].from \in Devices /\ client[i].to \in Devices
  /\ client[i].task \in {"try", "sleep"} => Fresh(i)
  /\ client[i].task = "sleep" => client[i].tries < MaxRetries
  /\ sock[i] = "backlog" => client[i].task = "try"
  /\ sock[i] = "open" =>
       /\ client[i].io # "ended"
       /\ client[i].io = "running" => client[i].reading /\ client[i].writing

SlotInv == \A i \in Slots : SlotOK(i)

\* What a server is busy with, and what it knows.
ServerInv ==
  /\ \A s \in Devices : serving[s] # None =>
       /\ client[serving[s]].to = s /\ client[serving[s]].from \in Devices
       /\ sock[serving[s]] \in {"open", "closed"}
  /\ \A s \in Devices : inHand[s] # None =>
       /\ serving[s] # None
       /\ serving[s] \in clients[s] => serving[s] \in known
       /\ serving[s] \notin clients[s] => s \in cut
  /\ \A i \in known : \E s \in Devices : i \in clients[s]

ConnInv == MapOwner /\ SlotInv /\ OneInbound /\ ServerInv /\ IdsTracked

-----------------------------------------------------------------------------
(* What the steps do to the record of a slot *)

\* Only the record of slot i changes, and not whose connection it is.
Changes(i) ==
  /\ client' \in [Slots -> ClientRecords]
  /\ \A j \in Slots \ {i} : client'[j] = client[j]
  /\ client'[i].from = client[i].from /\ client'[i].to = client[i].to

\* The state and the heartbeats of slot i may change, but not its tasks.
Idles(i) ==
  /\ Changes(i)
  /\ client'[i].task = client[i].task /\ client'[i].io = client[i].io
  /\ client'[i].reading = client[i].reading /\ client'[i].writing = client[i].writing
  /\ client'[i].asking = client[i].asking /\ client'[i].tries = client[i].tries

\* Connected: the record of slot i.
LEMMA ConnectedView ==
  ASSUME TypeOK, NEW i \in Slots, Connected(i)
  PROVE  /\ Changes(i)
         /\ client'[i].task = "announce" /\ client'[i].io = "starting"
         /\ client'[i].reading = client[i].reading /\ client'[i].writing = client[i].writing
         /\ client'[i].asking = client[i].asking
<1> DEFINE r == client[i]
           q == [r EXCEPT !.task = "announce", !.state = "Connected", !.tries = 0,
                          !.late = FALSE, !.beating = TRUE, !.io = "starting"]
<1>1. r \in ClientRecords /\ 0 \in 0..MaxRetries BY MaxRetriesAssumption DEF TypeOK
<1>2. client' = [client EXCEPT ![i] = q]
  BY DEF Connected, TypeOK, ClientRecords
<1> HIDE DEF r
<1>3. /\ q \in ClientRecords /\ q.from = r.from /\ q.to = r.to
      /\ q.task = "announce" /\ q.io = "starting" /\ q.reading = r.reading
      /\ q.writing = r.writing /\ q.asking = r.asking
  BY <1>1 DEF ClientRecords, Tasks, States, Ios
<1> HIDE DEF q
<1> QED BY <1>2, <1>3 DEF Changes, TypeOK, r

\* SetSender: the record of slot i.
LEMMA SetSenderView ==
  ASSUME TypeOK, NEW i \in Slots, SetSender(i)
  PROVE  /\ Changes(i)
         /\ client'[i].task = client[i].task /\ client'[i].io = "set"
         /\ client'[i].reading = client[i].reading /\ client'[i].writing = client[i].writing
         /\ client'[i].asking = client[i].asking /\ client'[i].tries = client[i].tries
<1> DEFINE r == client[i]
           q == [r EXCEPT !.io = "set"]
<1>1. r \in ClientRecords BY DEF TypeOK
<1>2. client' = [client EXCEPT ![i] = q]
  BY DEF SetSender, TypeOK, ClientRecords
<1> HIDE DEF r
<1>3. /\ q \in ClientRecords /\ q.from = r.from /\ q.to = r.to
      /\ q.task = r.task /\ q.io = "set" /\ q.reading = r.reading
      /\ q.writing = r.writing /\ q.asking = r.asking /\ q.tries = r.tries
  BY <1>1 DEF ClientRecords, Tasks, States, Ios
<1> HIDE DEF q
<1> QED BY <1>2, <1>3 DEF Changes, TypeOK, r

\* StartTasks: the record of slot i.
LEMMA StartTasksView ==
  ASSUME TypeOK, NEW i \in Slots, StartTasks(i)
  PROVE  /\ Changes(i)
         /\ client'[i].task = client[i].task /\ client'[i].io = "running"
         /\ client'[i].reading = TRUE /\ client'[i].writing = TRUE
         /\ client'[i].asking = client[i].asking /\ client'[i].tries = client[i].tries
<1> DEFINE r == client[i]
           q == [r EXCEPT !.io = "running", !.reading = TRUE, !.writing = TRUE]
<1>1. r \in ClientRecords BY DEF TypeOK
<1>2. client' = [client EXCEPT ![i] = q]
  BY DEF StartTasks, TypeOK, ClientRecords
<1> HIDE DEF r
<1>3. /\ q \in ClientRecords /\ q.from = r.from /\ q.to = r.to
      /\ q.task = r.task /\ q.io = "running" /\ q.reading = TRUE
      /\ q.writing = TRUE /\ q.asking = r.asking /\ q.tries = r.tries
  BY <1>1 DEF ClientRecords, Tasks, States, Ios
<1> HIDE DEF q
<1> QED BY <1>2, <1>3 DEF Changes, TypeOK, r

\* Announce: the record of slot i.
LEMMA AnnounceView ==
  ASSUME TypeOK, NEW i \in Slots, Announce(i)
  PROVE  /\ Changes(i)
         /\ client'[i].task = "subscribe" /\ client'[i].io = client[i].io
         /\ client'[i].reading = client[i].reading /\ client'[i].writing = client[i].writing
         /\ client'[i].tries = client[i].tries
<1> DEFINE r == client[i]
           q == [r EXCEPT !.task = "subscribe", !.asking = (r.state = "Connected")]
<1>1. r \in ClientRecords BY DEF TypeOK
<1>2. client' = [client EXCEPT ![i] = q]
  BY DEF Announce, TypeOK, ClientRecords
<1> HIDE DEF r
<1>3. /\ q \in ClientRecords /\ q.from = r.from /\ q.to = r.to
      /\ q.task = "subscribe" /\ q.io = r.io /\ q.reading = r.reading
      /\ q.writing = r.writing /\ q.tries = r.tries
  BY <1>1 DEF ClientRecords, Tasks, States, Ios
<1> HIDE DEF q
<1> QED BY <1>2, <1>3 DEF Changes, TypeOK, r

\* ForwardRequest: the record of slot i.
LEMMA ForwardRequestView ==
  ASSUME TypeOK, NEW i \in Slots, ForwardRequest(i)
  PROVE  /\ Changes(i)
         /\ client'[i].task = client[i].task /\ client'[i].io = client[i].io
         /\ client'[i].reading = client[i].reading /\ client'[i].writing = client[i].writing
         /\ client'[i].asking = FALSE /\ client'[i].tries = client[i].tries
<1> DEFINE r == client[i]
           q == [r EXCEPT !.asking = FALSE]
<1>1. r \in ClientRecords BY DEF TypeOK
<1>2. client' = [client EXCEPT ![i] = q]
  BY DEF ForwardRequest, TypeOK, ClientRecords
<1> HIDE DEF r
<1>3. /\ q \in ClientRecords /\ q.from = r.from /\ q.to = r.to
      /\ q.task = r.task /\ q.io = r.io /\ q.reading = r.reading
      /\ q.writing = r.writing /\ q.asking = FALSE /\ q.tries = r.tries
  BY <1>1 DEF ClientRecords, Tasks, States, Ios
<1> HIDE DEF q
<1> QED BY <1>2, <1>3 DEF Changes, TypeOK, r

\* Subscribe: the record of slot i.
LEMMA SubscribeView ==
  ASSUME TypeOK, NEW i \in Slots, Subscribe(i)
  PROVE  /\ Changes(i)
         /\ client'[i].task = "wait" /\ client'[i].io = client[i].io
         /\ client'[i].reading = client[i].reading /\ client'[i].writing = client[i].writing
         /\ client'[i].asking = client[i].asking /\ client'[i].tries = client[i].tries
<1> DEFINE r == client[i]
           q == [r EXCEPT !.task = "wait", !.woken = FALSE]
<1>1. r \in ClientRecords BY DEF TypeOK
<1>2. client' = [client EXCEPT ![i] = q]
  BY DEF Subscribe, TypeOK, ClientRecords
<1> HIDE DEF r
<1>3. /\ q \in ClientRecords /\ q.from = r.from /\ q.to = r.to
      /\ q.task = "wait" /\ q.io = r.io /\ q.reading = r.reading
      /\ q.writing = r.writing /\ q.asking = r.asking /\ q.tries = r.tries
  BY <1>1 DEF ClientRecords, Tasks, States, Ios
<1> HIDE DEF q
<1> QED BY <1>2, <1>3 DEF Changes, TypeOK, r

\* Notice: the record of slot i.
LEMMA NoticeView ==
  ASSUME TypeOK, NEW i \in Slots, Notice(i)
  PROVE  /\ Changes(i)
         /\ client'[i].task = "clean" /\ client'[i].io = client[i].io
         /\ client'[i].reading = client[i].reading /\ client'[i].writing = client[i].writing
         /\ client'[i].asking = client[i].asking /\ client'[i].tries = client[i].tries
<1> DEFINE r == client[i]
           q == [r EXCEPT !.task = "clean", !.woken = FALSE]
<1>1. r \in ClientRecords BY DEF TypeOK
<1>2. client' = [client EXCEPT ![i] = q]
  BY DEF Notice, TypeOK, ClientRecords
<1> HIDE DEF r
<1>3. /\ q \in ClientRecords /\ q.from = r.from /\ q.to = r.to
      /\ q.task = "clean" /\ q.io = r.io /\ q.reading = r.reading
      /\ q.writing = r.writing /\ q.asking = r.asking /\ q.tries = r.tries
  BY <1>1 DEF ClientRecords, Tasks, States, Ios
<1> HIDE DEF q
<1> QED BY <1>2, <1>3 DEF Changes, TypeOK, r

\* Clean: the record of slot i.
LEMMA CleanView ==
  ASSUME TypeOK, NEW i \in Slots, Clean(i)
  PROVE  /\ Changes(i)
         /\ client'[i].task = "done" /\ client'[i].io = client[i].io
         /\ client'[i].reading = client[i].reading /\ client'[i].writing = client[i].writing
         /\ client'[i].asking = FALSE /\ client'[i].tries = client[i].tries
<1> DEFINE r == client[i]
           q == [r EXCEPT !.task = "done", !.asking = FALSE, !.beating = FALSE]
<1>1. r \in ClientRecords BY DEF TypeOK
<1>2. client' = [client EXCEPT ![i] = q]
  BY DEF Clean, TypeOK, ClientRecords
<1> HIDE DEF r
<1>3. /\ q \in ClientRecords /\ q.from = r.from /\ q.to = r.to
      /\ q.task = "done" /\ q.io = r.io /\ q.reading = r.reading
      /\ q.writing = r.writing /\ q.asking = FALSE /\ q.tries = r.tries
  BY <1>1 DEF ClientRecords, Tasks, States, Ios
<1> HIDE DEF q
<1> QED BY <1>2, <1>3 DEF Changes, TypeOK, r

\* ReadEnds: the record of slot i.
LEMMA ReadEndsView ==
  ASSUME TypeOK, NEW i \in Slots, ReadEnds(i)
  PROVE  /\ Changes(i)
         /\ client'[i].task = client[i].task /\ client'[i].io = client[i].io
         /\ client'[i].reading = FALSE /\ client'[i].writing = client[i].writing
         /\ client'[i].asking = client[i].asking /\ client'[i].tries = client[i].tries
<1> DEFINE r == client[i]
           q == [r EXCEPT !.reading = FALSE]
<1>1. r \in ClientRecords BY DEF TypeOK
<1>2. client' = [client EXCEPT ![i] = q]
  BY DEF ReadEnds, TypeOK, ClientRecords
<1> HIDE DEF r
<1>3. /\ q \in ClientRecords /\ q.from = r.from /\ q.to = r.to
      /\ q.task = r.task /\ q.io = r.io /\ q.reading = FALSE
      /\ q.writing = r.writing /\ q.asking = r.asking /\ q.tries = r.tries
  BY <1>1 DEF ClientRecords, Tasks, States, Ios
<1> HIDE DEF q
<1> QED BY <1>2, <1>3 DEF Changes, TypeOK, r

\* WriteEnds: the record of slot i.
LEMMA WriteEndsView ==
  ASSUME TypeOK, NEW i \in Slots, WriteEnds(i)
  PROVE  /\ Changes(i)
         /\ client'[i].task = client[i].task /\ client'[i].io = client[i].io
         /\ client'[i].reading = client[i].reading /\ client'[i].writing = FALSE
         /\ client'[i].asking = client[i].asking /\ client'[i].tries = client[i].tries
<1> DEFINE r == client[i]
           q == [r EXCEPT !.writing = FALSE]
<1>1. r \in ClientRecords BY DEF TypeOK
<1>2. client' = [client EXCEPT ![i] = q]
  BY DEF WriteEnds, TypeOK, ClientRecords
<1> HIDE DEF r
<1>3. /\ q \in ClientRecords /\ q.from = r.from /\ q.to = r.to
      /\ q.task = r.task /\ q.io = r.io /\ q.reading = r.reading
      /\ q.writing = FALSE /\ q.asking = r.asking /\ q.tries = r.tries
  BY <1>1 DEF ClientRecords, Tasks, States, Ios
<1> HIDE DEF q
<1> QED BY <1>2, <1>3 DEF Changes, TypeOK, r

\* ConnectionEnds: the record of slot i.
LEMMA ConnectionEndsView ==
  ASSUME TypeOK, NEW i \in Slots, ConnectionEnds(i)
  PROVE  /\ Changes(i)
         /\ client'[i].task = client[i].task /\ client'[i].io = "ended"
         /\ client'[i].reading = client[i].reading /\ client'[i].writing = client[i].writing
         /\ client'[i].asking = client[i].asking /\ client'[i].tries = client[i].tries
<1> DEFINE r == client[i]
           q == [r EXCEPT !.state = "Disconnected", !.woken = (r.task = "wait"),
                          !.late = FALSE, !.io = "ended"]
<1>1. r \in ClientRecords BY DEF TypeOK
<1>2. client' = [client EXCEPT ![i] = q]
  BY DEF ConnectionEnds, Disconnect, TypeOK, ClientRecords
<1> HIDE DEF r
<1>3. /\ q \in ClientRecords /\ q.from = r.from /\ q.to = r.to
      /\ q.task = r.task /\ q.io = "ended" /\ q.reading = r.reading
      /\ q.writing = r.writing /\ q.asking = r.asking /\ q.tries = r.tries
  BY <1>1 DEF ClientRecords, Tasks, States, Ios
<1> HIDE DEF q
<1> QED BY <1>2, <1>3 DEF Changes, TypeOK, r

\* TryFails and Refused: another try after a delay, or none.
LEMMA FailedView ==
  ASSUME TypeOK, NEW i \in Slots, Failed(i)
  PROVE  /\ Changes(i)
         /\ client'[i].task \in {"clean", "sleep"} /\ client'[i].io = client[i].io
         /\ client'[i].task = "sleep" => client'[i].tries < MaxRetries
         /\ client'[i].reading = client[i].reading
         /\ client'[i].writing = client[i].writing
         /\ client'[i].asking = client[i].asking
<1> DEFINE r == client[i]
           p == [r EXCEPT !.state = "Disconnected", !.task = "clean", !.tries = 0]
           q == [r EXCEPT !.task = "sleep"]
<1>1. r \in ClientRecords /\ MaxRetries \in Nat /\ 0 \in 0..MaxRetries
  BY MaxRetriesAssumption DEF TypeOK
<1>2. \/ client' = [client EXCEPT ![i] = p]
      \/ client' = [client EXCEPT ![i] = q] /\ ~(r.tries >= MaxRetries)
  BY DEF Failed, TypeOK, ClientRecords
<1> HIDE DEF r
<1>3. /\ p \in ClientRecords /\ p.from = r.from /\ p.to = r.to
      /\ p.task = "clean" /\ p.io = r.io
      /\ p.reading = r.reading /\ p.writing = r.writing /\ p.asking = r.asking
  BY <1>1 DEF ClientRecords, Tasks, States, Ios
<1>4. /\ q \in ClientRecords /\ q.from = r.from /\ q.to = r.to
      /\ q.task = "sleep" /\ q.io = r.io /\ q.tries = r.tries
      /\ q.reading = r.reading /\ q.writing = r.writing /\ q.asking = r.asking
  BY <1>1 DEF ClientRecords, Tasks, States, Ios
<1>5. r.tries \in Nat BY <1>1 DEF ClientRecords
<1> HIDE DEF p, q
<1>6. CASE client' = [client EXCEPT ![i] = p]
  BY <1>3, <1>6 DEF Changes, TypeOK, r
<1>7. CASE client' = [client EXCEPT ![i] = q] /\ ~(r.tries >= MaxRetries)
  <2>1. q.tries < MaxRetries BY <1>1, <1>4, <1>5, <1>7
  <2> QED BY <2>1, <1>4, <1>7 DEF Changes, TypeOK, r
<1> QED BY <1>2, <1>6, <1>7

\* Retry: the next try.
LEMMA RetryView ==
  ASSUME TypeOK, SlotInv, NEW i \in Slots, Retry(i)
  PROVE  /\ Changes(i)
         /\ client'[i].task = "try" /\ client'[i].io = client[i].io
         /\ client'[i].reading = client[i].reading
         /\ client'[i].writing = client[i].writing
         /\ client'[i].asking = client[i].asking
<1> DEFINE r == client[i]
           q == [r EXCEPT !.task = "try", !.tries = r.tries + 1, !.state = "Connecting"]
<1>1. r \in ClientRecords /\ MaxRetries \in Nat BY MaxRetriesAssumption DEF TypeOK
<1>2. client' = [client EXCEPT ![i] = q]
  BY DEF Retry, TypeOK, ClientRecords
<1>3. r.tries < MaxRetries BY DEF SlotInv, SlotOK, Retry
<1> HIDE DEF r
<1>4. r.tries + 1 \in 0..MaxRetries BY <1>1, <1>3 DEF ClientRecords
<1>5. /\ q \in ClientRecords /\ q.from = r.from /\ q.to = r.to
      /\ q.task = "try" /\ q.io = r.io
      /\ q.reading = r.reading /\ q.writing = r.writing /\ q.asking = r.asking
  BY <1>1, <1>4 DEF ClientRecords, Tasks, States, Ios
<1> HIDE DEF q
<1> QED BY <1>2, <1>5 DEF Changes, TypeOK, r

\* ClientReads: the read task only keeps the heartbeat's time.
LEMMA ClientReadsView ==
  ASSUME TypeOK, NEW i \in Slots, NEW m, ClientReads(i, m)
  PROVE  Idles(i)
<1> DEFINE r == client[i]
           q == [r EXCEPT !.late = FALSE]
<1>1. r \in ClientRecords BY DEF TypeOK
<1>2. client' = [client EXCEPT ![i] = q]
  BY DEF ClientReads, TypeOK, ClientRecords
<1> HIDE DEF r
<1>3. /\ q \in ClientRecords /\ q.from = r.from /\ q.to = r.to
      /\ q.task = r.task /\ q.io = r.io /\ q.reading = r.reading
      /\ q.writing = r.writing /\ q.asking = r.asking /\ q.tries = r.tries
  BY <1>1 DEF ClientRecords
<1> HIDE DEF q
<1> QED BY <1>2, <1>3 DEF Idles, Changes, TypeOK, r

\* ClientTick: the heartbeat task ends, with or without a disconnection, or sends.
LEMMA ClientTickView ==
  ASSUME TypeOK, NEW i \in Slots, ClientTick(i)
  PROVE  /\ Idles(i)
         /\ \/ toServer' = toServer
            \/ /\ HasSender(i)
               /\ toServer' = [toServer EXCEPT ![i] = Append(@, "heartbeat")]
<1> DEFINE r == client[i]
           p == [r EXCEPT !.beating = FALSE]
           q == [r EXCEPT !.state = "Disconnected", !.woken = (r.task = "wait"),
                          !.late = FALSE, !.beating = FALSE]
<1>1. r \in ClientRecords BY DEF TypeOK
<1>2. /\ \/ client' = [client EXCEPT ![i] = p]
         \/ client' = [client EXCEPT ![i] = q]
         \/ client' = client
      /\ \/ toServer' = toServer
         \/ /\ HasSender(i)
            /\ toServer' = [toServer EXCEPT ![i] = Append(@, "heartbeat")]
  <2>1. client[i] = r OBVIOUS
  <2>2. [Disconnect(r) EXCEPT !.beating = FALSE] = q
    BY <1>1 DEF Disconnect, ClientRecords
  <2> QED BY <2>1, <2>2 DEF ClientTick, TypeOK, ClientRecords
<1> HIDE DEF r
<1>3. /\ p \in ClientRecords /\ p.from = r.from /\ p.to = r.to
      /\ p.task = r.task /\ p.io = r.io /\ p.reading = r.reading
      /\ p.writing = r.writing /\ p.asking = r.asking /\ p.tries = r.tries
  BY <1>1 DEF ClientRecords
<1>4. /\ q \in ClientRecords /\ q.from = r.from /\ q.to = r.to
      /\ q.task = r.task /\ q.io = r.io /\ q.reading = r.reading
      /\ q.writing = r.writing /\ q.asking = r.asking /\ q.tries = r.tries
  BY <1>1 DEF ClientRecords, States
<1> HIDE DEF p, q
<1> QED BY <1>2, <1>3, <1>4 DEF Idles, Changes, TypeOK, r

\* Silence: last_heartbeat is too old, at one end or both.
LEMMA SilenceView ==
  ASSUME TypeOK, NEW i \in Slots, Silence(i)
  PROVE  Idles(i) /\ stale' \subseteq Slots
<1> DEFINE r == client[i]
<1>1. r \in ClientRecords BY DEF TypeOK
<1>2. PICK ends \in SUBSET {"client", "server"} :
        /\ client' = [client EXCEPT ![i].late = @ \/ (client[i].beating /\ "client" \in ends)]
        /\ stale' = IF "server" \in ends
                    THEN stale \cup ({i} \cap clients[client[i].to]) ELSE stale
  BY DEF Silence
<1> DEFINE late == r.late \/ (r.beating /\ "client" \in ends)
           q == [r EXCEPT !.late = late]
<1>3. client' = [client EXCEPT ![i] = q]
  BY <1>2 DEF TypeOK, ClientRecords
<1>4. late \in BOOLEAN OBVIOUS
<1> HIDE DEF r, late
<1>5. /\ q \in ClientRecords /\ q.from = r.from /\ q.to = r.to
      /\ q.task = r.task /\ q.io = r.io /\ q.reading = r.reading
      /\ q.writing = r.writing /\ q.asking = r.asking /\ q.tries = r.tries
  BY <1>1, <1>4 DEF ClientRecords
<1> HIDE DEF q
<1>6. Idles(i) BY <1>3, <1>5 DEF Idles, Changes, TypeOK, r
<1>7. stale' \subseteq Slots BY <1>2 DEF TypeOK
<1> QED BY <1>6, <1>7

\* An unused slot.
LEMMA UnusedType ==
  /\ Unused \in ClientRecords /\ Unused.io = "none"
  /\ ~Unused.asking /\ ~Unused.reading /\ ~Unused.writing
BY MaxRetriesAssumption DEF Unused, ClientRecords, Tasks, States, Ios

\* The record of a connection of c to s that is being made.
Dialled(c, s) ==
  [Unused EXCEPT !.from = c, !.to = s, !.task = "try", !.state = "Connecting"]

\* Slot i, which was free, becomes a connection of c to s that is being made.
Registers(i, c, s) ==
  /\ Free(i)
  /\ peers' = [peers EXCEPT ![c][s] = i]
  /\ sock' = [sock EXCEPT ![i] = "none"]
  /\ toServer' = [toServer EXCEPT ![i] = <<>>]
  /\ toClient' = [toClient EXCEPT ![i] = {}]
  /\ client' \in [Slots -> ClientRecords]
  /\ client'[i].from = c /\ client'[i].to = s /\ client'[i].task = "try"
  /\ client'[i].io = "none" /\ ~client'[i].asking
  /\ ~client'[i].reading /\ ~client'[i].writing
  /\ \A j \in Slots \ {i} : client'[j] = client[j]

\* Register: a free slot becomes a connection that is being made.
LEMMA RegisterView ==
  ASSUME TypeOK, NEW c \in Devices, NEW s \in Devices, Register(c, s)
  PROVE  \E i \in Slots : Registers(i, c, s)
<1> DEFINE k == CHOOSE j \in Slots : Free(j)
           q == Dialled(c, s)
<1>1. \E j \in Slots : Free(j) BY DEF Register
<1>2. k \in Slots /\ Free(k) BY <1>1
<1>3. /\ peers' = [peers EXCEPT ![c][s] = k]
      /\ client' = [client EXCEPT ![k] = q]
      /\ sock' = [sock EXCEPT ![k] = "none"]
      /\ toServer' = [toServer EXCEPT ![k] = <<>>]
      /\ toClient' = [toClient EXCEPT ![k] = {}]
  BY DEF Register, Dialled
<1>4. /\ q \in ClientRecords /\ q.from = c /\ q.to = s /\ q.task = "try"
      /\ q.io = "none" /\ ~q.asking /\ ~q.reading /\ ~q.writing
  BY UnusedType DEF Dialled, ClientRecords, Tasks, States
<1> HIDE DEF k, q
<1>5. /\ client' \in [Slots -> ClientRecords] /\ client'[k] = q
      /\ \A j \in Slots \ {k} : client'[j] = client[j]
  BY <1>2, <1>3, <1>4 DEF TypeOK
<1>6. Registers(k, c, s) BY <1>2, <1>3, <1>4, <1>5 DEF Registers
<1> QED BY <1>2, <1>6

\* Restart: nothing is left of the clients of d.
LEMMA RestartView ==
  ASSUME TypeOK, NEW d \in Devices, Restart(d)
  PROVE  /\ client' \in [Slots -> ClientRecords]
         /\ \A i \in Slots : client'[i].from = client[i].from /\ client'[i].to = client[i].to
         /\ \A i \in Slots : client[i].from # d => client'[i] = client[i]
         /\ \A i \in Slots : client[i].from = d => client'[i].task = "done"
<1> DEFINE q(i) == [Unused EXCEPT !.from = d, !.to = client[i].to, !.task = "done"]
<1>1. \A i \in Slots : client[i] \in ClientRecords BY DEF TypeOK
<1>2. \A i \in Slots : client[i].to \in Devices \cup {None} BY <1>1 DEF ClientRecords
<1>3. \A i \in Slots : /\ q(i) \in ClientRecords /\ q(i).from = d
                        /\ q(i).to = client[i].to /\ q(i).task = "done"
  BY <1>2, UnusedType DEF ClientRecords, Tasks
<1>4. client' = [i \in Slots |-> IF client[i].from = d THEN q(i) ELSE client[i]]
  BY DEF Restart
<1> HIDE DEF q
<1> QED BY <1>1, <1>3, <1>4

\* ServerReads: the server hears from slot i, for the first time or again.
LEMMA ServerReadsView ==
  ASSUME TypeOK, NEW s \in Devices, ServerReads(s), NEW i, i = serving[s]
  PROVE  /\ i \in Slots /\ i # None /\ inHand[s] = None /\ sock[i] = "open"
         /\ toServer[i] # <<>> /\ Head(toServer[i]) \in ToServer
         /\ toServer' = [toServer EXCEPT ![i] = Tail(@)]
         /\ toClient' = toClient \/ toClient' = [toClient EXCEPT ![i] = @ \cup {"ack"}]
         /\ stale' = stale \/ stale' = stale \ {i}
         /\ \/ known' = known /\ inHand' = inHand
            \/ /\ i \in clients[s] /\ i \notin known /\ known' = known \cup {i}
               /\ inHand' = [inHand EXCEPT ![s] = Head(toServer[i])]
         /\ peers' = peers /\ client' = client /\ sock' = sock /\ serving' = serving
         /\ clients' = clients /\ ids' = ids /\ cut' = cut
<1> DEFINE m == Head(toServer[i])
<1>1. /\ i \in Slots /\ i # None /\ inHand[s] = None /\ sock[i] = "open"
      /\ toServer[i] # <<>>
      /\ toServer' = [toServer EXCEPT ![i] = Tail(@)]
      /\ peers' = peers /\ client' = client /\ sock' = sock /\ serving' = serving
      /\ clients' = clients /\ ids' = ids /\ cut' = cut
  BY DEF ServerReads, TypeOK
<1>2. m \in ToServer
  <2>1. toServer[i] \in Seq(ToServer) BY <1>1 DEF TypeOK
  <2> QED BY <1>1, <2>1
<1>3. CASE i \notin clients[s]
  BY <1>1, <1>2, <1>3 DEF ServerReads
<1>4. CASE i \in clients[s] /\ i \in known
  <2>1. /\ Handle(s, i, m) /\ inHand' = inHand /\ known' = known
        /\ stale' = stale \/ stale' = stale \ {i}
    BY <1>4 DEF ServerReads
  <2>2. toClient' = toClient \/ toClient' = [toClient EXCEPT ![i] = @ \cup {"ack"}]
    BY <2>1, <1>1 DEF Handle, TypeOK
  <2> QED BY <1>1, <1>2, <1>4, <2>1, <2>2
<1>5. CASE i \in clients[s] /\ i \notin known
  BY <1>1, <1>2, <1>5 DEF ServerReads
<1> QED BY <1>3, <1>4, <1>5

\* Forget keeps the types of what it changes.
LEMMA ForgetType ==
  ASSUME TypeOK, NEW s \in Devices, NEW i \in Slots, Forget(s, i)
  PROVE  /\ clients' \in [Devices -> SUBSET Slots] /\ ids' \in [Devices -> SUBSET Devices]
         /\ known' \subseteq Slots /\ stale' \subseteq Slots
BY DEF TypeOK, Forget

-----------------------------------------------------------------------------
(* Types *)

\* Every step keeps the types.
LEMMA TypeStep ==
  ASSUME TypeOK, SlotInv, ServerInv, OneInbound, [Next]_vars
  PROVE  TypeOK'
<1>1. ASSUME NEW i \in Slots, OpenTcp(i) PROVE TypeOK'
  BY <1>1 DEF TypeOK, OpenTcp, wire, server, bounds
<1>2. ASSUME NEW i \in Slots, TryFails(i) PROVE TypeOK'
  <2>1. client' \in [Slots -> ClientRecords] BY <1>2, FailedView DEF Changes, TryFails
  <2> QED BY <1>2, <2>1 DEF TypeOK, TryFails, ToServer, wire, server, bounds
<1>3. ASSUME NEW i \in Slots, Refused(i) PROVE TypeOK'
  <2>1. client' \in [Slots -> ClientRecords] BY <1>3, FailedView DEF Changes, Refused
  <2> QED BY <1>3, <2>1 DEF TypeOK, Refused, ToServer, wire, server, bounds
<1>4. ASSUME NEW i \in Slots, Retry(i) PROVE TypeOK'
  <2>1. client' \in [Slots -> ClientRecords] BY <1>4, RetryView DEF Changes
  <2> QED BY <1>4, <2>1 DEF TypeOK, Retry, ToServer, wire, server, bounds
<1>5. ASSUME NEW i \in Slots, Connected(i) PROVE TypeOK'
  <2>1. client' \in [Slots -> ClientRecords] BY <1>5, ConnectedView DEF Changes
  <2> QED BY <1>5, <2>1 DEF TypeOK, Connected, ToServer, wire, server, bounds
<1>5a. ASSUME NEW i \in Slots, SetSender(i) PROVE TypeOK'
  <2>1. client' \in [Slots -> ClientRecords] BY <1>5a, SetSenderView DEF Changes
  <2> QED BY <1>5a, <2>1 DEF TypeOK, SetSender, ToServer, wire, server, bounds
<1>6. ASSUME NEW i \in Slots, StartTasks(i) PROVE TypeOK'
  <2>1. client' \in [Slots -> ClientRecords] BY <1>6, StartTasksView DEF Changes
  <2> QED BY <1>6, <2>1 DEF TypeOK, StartTasks, ToServer, wire, server, bounds
<1>7. ASSUME NEW i \in Slots, Announce(i) PROVE TypeOK'
  <2>1. client' \in [Slots -> ClientRecords] BY <1>7, AnnounceView DEF Changes
  <2> QED BY <1>7, <2>1 DEF TypeOK, Announce, ToServer, wire, server, bounds
<1>8. ASSUME NEW i \in Slots, ForwardRequest(i) PROVE TypeOK'
  <2>1. client' \in [Slots -> ClientRecords] BY <1>8, ForwardRequestView DEF Changes
  <2> QED BY <1>8, <2>1 DEF TypeOK, ForwardRequest, ToServer, wire, server, bounds
<1>9. ASSUME NEW i \in Slots, Subscribe(i) PROVE TypeOK'
  <2>1. client' \in [Slots -> ClientRecords] BY <1>9, SubscribeView DEF Changes
  <2> QED BY <1>9, <2>1 DEF TypeOK, Subscribe, ToServer, wire, server, bounds
<1>10. ASSUME NEW i \in Slots, Notice(i) PROVE TypeOK'
  <2>1. client' \in [Slots -> ClientRecords] BY <1>10, NoticeView DEF Changes
  <2> QED BY <1>10, <2>1 DEF TypeOK, Notice, ToServer, wire, server, bounds
<1>11. ASSUME NEW i \in Slots, Clean(i) PROVE TypeOK'
  <2>1. client' \in [Slots -> ClientRecords] BY <1>11, CleanView DEF Changes
  <2> QED BY <1>11, <2>1 DEF TypeOK, Clean, ToServer, wire, server, bounds
<1>12. ASSUME NEW i \in Slots, ReadEnds(i) PROVE TypeOK'
  <2>1. client' \in [Slots -> ClientRecords] BY <1>12, ReadEndsView DEF Changes
  <2> QED BY <1>12, <2>1 DEF TypeOK, ReadEnds, ToServer, wire, server, bounds
<1>13. ASSUME NEW i \in Slots, WriteEnds(i) PROVE TypeOK'
  <2>1. client' \in [Slots -> ClientRecords] BY <1>13, WriteEndsView DEF Changes
  <2> QED BY <1>13, <2>1 DEF TypeOK, WriteEnds, ToServer, wire, server, bounds
<1>14. ASSUME NEW i \in Slots, ConnectionEnds(i) PROVE TypeOK'
  <2>1. client' \in [Slots -> ClientRecords] BY <1>14, ConnectionEndsView DEF Changes
  <2> QED BY <1>14, <2>1 DEF TypeOK, ConnectionEnds, ToServer, wire, server, bounds
<1>15. ASSUME NEW i \in Slots, ClientTick(i) PROVE TypeOK'
  <2>1. client' \in [Slots -> ClientRecords] BY <1>15, ClientTickView DEF Changes, Idles
  <2>2. \/ toServer' = toServer
        \/ toServer' = [toServer EXCEPT ![i] = Append(@, "heartbeat")]
    BY <1>15 DEF ClientTick
  <2>3. toServer' \in [Slots -> Seq(ToServer)]
    <3>1. toServer[i] \in Seq(ToServer) /\ "heartbeat" \in ToServer BY DEF TypeOK, ToServer
    <3>2. Append(toServer[i], "heartbeat") \in Seq(ToServer) BY <3>1
    <3> QED BY <2>2, <3>2 DEF TypeOK
  <2>4. UNCHANGED <<peers, sock, toClient, server, cut, bounds>> BY <1>15 DEF ClientTick
  <2> QED BY <2>1, <2>3, <2>4 DEF TypeOK, server, bounds
<1>16. ASSUME NEW i \in Slots, Break(i) PROVE TypeOK'
  BY <1>16 DEF TypeOK, Break, wire, server, bounds
<1>17. ASSUME NEW i \in Slots, Silence(i) PROVE TypeOK'
  <2>1. client' \in [Slots -> ClientRecords] BY <1>17, SilenceView DEF Changes, Idles
  <2> QED BY <1>17, <2>1 DEF TypeOK, Silence, ToServer, wire, server, bounds
<1>18. ASSUME NEW i \in Slots, NEW m \in ToClient, ClientReads(i, m) PROVE TypeOK'
  <2>1. client' \in [Slots -> ClientRecords] BY <1>18, ClientReadsView DEF Idles, Changes
  <2> QED BY <1>18, <2>1 DEF TypeOK, ClientReads, ToServer, server, bounds
<1>19. ASSUME NEW c \in Devices, NEW s \in Devices, Dial(c, s) PROVE TypeOK'
  <2>1. PICK i \in Slots : Registers(i, c, s)
    <3>1. Register(c, s) BY <1>19 DEF Dial
    <3> QED BY <3>1, RegisterView
  <2> QED BY <1>19, <2>1 DEF Registers, TypeOK, Dial, server, bounds
<1>20. ASSUME NEW s \in Devices, NEW i \in Slots, Accept(s, i) PROVE TypeOK'
  BY <1>20 DEF TypeOK, Accept, bounds
<1>21. ASSUME NEW s \in Devices, ServerReads(s) PROVE TypeOK'
  <2> DEFINE i == serving[s]
  <2>0. i = serving[s] OBVIOUS
  <2> HIDE DEF i
  <2>1. /\ i \in Slots /\ i # None /\ Head(toServer[i]) \in ToServer /\ toServer[i] # <<>>
        /\ toServer' = [toServer EXCEPT ![i] = Tail(@)]
        /\ toClient' = toClient \/ toClient' = [toClient EXCEPT ![i] = @ \cup {"ack"}]
        /\ stale' = stale \/ stale' = stale \ {i}
        /\ \/ known' = known /\ inHand' = inHand
           \/ /\ known' = known \cup {i}
              /\ inHand' = [inHand EXCEPT ![s] = Head(toServer[i])]
        /\ serving' = serving
    BY <1>21, <2>0, ServerReadsView
  <2>2. toServer' \in [Slots -> Seq(ToServer)]
    <3>1. Tail(toServer[i]) \in Seq(ToServer) BY <2>1 DEF TypeOK
    <3> QED BY <2>1, <3>1 DEF TypeOK
  <2>3. toClient' \in [Slots -> SUBSET ToClient]
    <3>1. toClient[i] \cup {"ack"} \in SUBSET ToClient BY <2>1 DEF TypeOK, ToClient
    <3>2. CASE toClient' = toClient BY <3>2 DEF TypeOK
    <3>3. CASE toClient' = [toClient EXCEPT ![i] = @ \cup {"ack"}]
      BY <2>1, <3>1, <3>3 DEF TypeOK
    <3> QED BY <2>1, <3>2, <3>3
  <2>4. known' \subseteq Slots /\ stale' \subseteq Slots BY <2>1 DEF TypeOK
  <2>5. inHand' \in [Devices -> ToServer \cup {None}] BY <2>1 DEF TypeOK
  <2>6. \A t \in Devices : inHand'[t] # None => serving'[t] # None
    BY <2>0, <2>1 DEF TypeOK
  <2> QED BY <1>21, <2>1, <2>2, <2>3, <2>4, <2>5, <2>6 DEF TypeOK, ServerReads, bounds
<1>22. ASSUME NEW s \in Devices, InsertId(s) PROVE TypeOK'
  BY <1>22 DEF TypeOK, InsertId, Handle, ToServer, ToClient, ServerInv, bounds
<1>23. ASSUME NEW s \in Devices, ServerEnds(s) PROVE TypeOK'
  <2> DEFINE i == serving[s]
  <2>1. i \in Slots /\ inHand[s] = None BY <1>23 DEF ServerEnds, TypeOK
  <2>2. /\ clients' \in [Devices -> SUBSET Slots] /\ ids' \in [Devices -> SUBSET Devices]
        /\ known' \subseteq Slots /\ stale' \subseteq Slots
    <3>1. CASE Forget(s, i) BY <2>1, <3>1, ForgetType
    <3>2. CASE UNCHANGED <<clients, known, stale, ids>> BY <3>2 DEF TypeOK
    <3> QED BY <1>23, <3>1, <3>2 DEF ServerEnds
  <2>3. serving' = [serving EXCEPT ![s] = None] BY <1>23 DEF ServerEnds
  <2> QED BY <1>23, <2>1, <2>2, <2>3 DEF TypeOK, ServerEnds, wire, bounds
<1>24. ASSUME NEW s \in Devices, NEW i \in Slots, ServerTick(s, i) PROVE TypeOK'
  <2>1. CASE Forget(s, i) /\ toClient' = toClient
    <3>1. /\ clients' \in [Devices -> SUBSET Slots] /\ ids' \in [Devices -> SUBSET Devices]
          /\ known' \subseteq Slots /\ stale' \subseteq Slots
      BY <2>1, ForgetType
    <3> QED BY <1>24, <2>1, <3>1 DEF TypeOK, ServerTick, bounds
  <2>2. CASE /\ toClient' = [toClient EXCEPT ![i] = @ \cup {"heartbeat"}]
             /\ UNCHANGED <<clients, ids, known, stale>>
    BY <1>24, <2>2 DEF TypeOK, ServerTick, ToClient, bounds
  <2> QED BY <1>24, <2>1, <2>2 DEF ServerTick
<1>25. ASSUME NEW d \in Devices, Restart(d) PROVE TypeOK'
  <2>1. client' \in [Slots -> ClientRecords] BY <1>25, RestartView
  <2>2. peers' \in [Devices -> [Devices -> Slots \cup {None}]]
    BY <1>25 DEF TypeOK, Restart
  <2>3. sock' \in [Slots -> {"none", "backlog", "open", "closed"}]
    BY <1>25 DEF TypeOK, Restart
  <2>4. toServer' \in [Slots -> Seq(ToServer)] /\ toClient' \in [Slots -> SUBSET ToClient]
    <3>1. <<>> \in Seq(ToServer) OBVIOUS
    <3>2. /\ toServer' = [i \in Slots |-> IF sock'[i] = "closed" THEN <<>> ELSE toServer[i]]
          /\ toClient' = [i \in Slots |-> IF sock'[i] = "closed" THEN {} ELSE toClient[i]]
      BY <1>25 DEF Restart
    <3>3. \A i \in Slots : toServer[i] \in Seq(ToServer) /\ toClient[i] \in SUBSET ToClient
      BY DEF TypeOK
    <3>4. toServer' \in [Slots -> Seq(ToServer)]
      <4>1. \A i \in Slots :
              (IF sock'[i] = "closed" THEN <<>> ELSE toServer[i]) \in Seq(ToServer)
        BY <3>1, <3>3
      <4> QED BY <3>2, <4>1
    <3> QED BY <3>2, <3>3, <3>4
  <2>5. /\ serving' \in [Devices -> Slots \cup {None}]
        /\ inHand' \in [Devices -> ToServer \cup {None}]
        /\ \A s \in Devices : inHand'[s] # None => serving'[s] # None
    BY <1>25 DEF TypeOK, Restart
  <2>6. /\ clients' \in [Devices -> SUBSET Slots] /\ ids' \in [Devices -> SUBSET Devices]
        /\ known' \subseteq Slots /\ stale' \subseteq Slots
    BY <1>25 DEF TypeOK, Restart
  <2>7. cut' = cut \ {d} /\ breaks' = breaks + 1 /\ silences' = silences
    BY <1>25 DEF Restart
  <2> QED BY <2>1, <2>2, <2>3, <2>4, <2>5, <2>6, <2>7 DEF TypeOK
<1>26. CASE UNCHANGED vars
  BY <1>26 DEF TypeOK, vars, wire, server, bounds
<1> QED
  BY <1>1, <1>2, <1>3, <1>4, <1>5, <1>5a, <1>6, <1>7, <1>8, <1>9, <1>10, <1>11, <1>12,
     <1>13, <1>14, <1>15, <1>16, <1>17, <1>18, <1>19, <1>20, <1>21, <1>22, <1>23, <1>24,
     <1>25, <1>26, SeesAssumption DEF Next, ConnectStep, ConnectionStep, HandlerStep

-----------------------------------------------------------------------------
(* Steps of the client's side *)

\* A step of slot i that leaves the servers and the maps of clients alone, and opens
\* no connection.
Local(i) ==
  /\ peers' = peers /\ UNCHANGED <<server, cut>>
  /\ \A j \in Slots \ {i} :
       client'[j] = client[j] /\ sock'[j] = sock[j] /\ toServer'[j] = toServer[j]
  /\ client'[i].from = client[i].from /\ client'[i].to = client[i].to
  /\ Trying(i)' <=> Trying(i)
  /\ sock'[i] = "open" => sock[i] = "open"
  /\ \/ sock'[i] \in {sock[i], "closed"}
     \/ sock[i] = "none"
     \/ \A s \in Devices : serving[s] # i

\* The steps of the client's side, but for the end of the connect task.
ClientSide(i) ==
  \/ OpenTcp(i) \/ TryFails(i) \/ Refused(i) \/ Retry(i) \/ Connected(i)
  \/ SetSender(i) \/ StartTasks(i) \/ Announce(i) \/ ForwardRequest(i) \/ Subscribe(i)
  \/ Notice(i) \/ ReadEnds(i) \/ WriteEnds(i) \/ ConnectionEnds(i) \/ ClientTick(i)
  \/ Break(i)
  \/ \E m \in ToClient : ClientReads(i, m)

\* The steps of the client's side are local.
LEMMA ClientSideIsLocal ==
  ASSUME TypeOK, SlotInv, NEW i \in Slots, ClientSide(i)
  PROVE  Local(i)
<1>1. CASE OpenTcp(i)
  BY <1>1 DEF OpenTcp, Local, Trying, TypeOK, wire, bounds
<1>2. CASE TryFails(i)
  BY <1>2, FailedView DEF TryFails, Changes, Local, Trying, TypeOK, wire, bounds
<1>3. CASE Refused(i)
  BY <1>3, FailedView DEF Refused, Changes, Local, Trying, TypeOK, wire, bounds
<1>4. CASE Retry(i)
  <2>1. /\ peers' = peers /\ server' = server /\ cut' = cut /\ toServer' = toServer
        /\ sock' = [sock EXCEPT ![i] = "none"]
        /\ client[i].task = "sleep" /\ \A s \in Devices : serving[s] # i
    BY <1>4 DEF Retry, wire
  <2> QED BY <1>4, <2>1, RetryView DEF Local, Changes, Trying, TypeOK
<1>5. CASE Connected(i)
  <2>1. /\ peers' = peers /\ server' = server /\ cut' = cut
        /\ toServer' = toServer /\ sock' = sock
        /\ client[i].task = "try"
    BY <1>5 DEF Connected, wire
  <2> QED BY <1>5, <2>1, ConnectedView DEF Local, Changes, Trying, TypeOK
<1>5a. CASE SetSender(i)
  BY <1>5a, SetSenderView DEF SetSender, Changes, Local, Trying, TypeOK, wire, bounds
<1>6. CASE StartTasks(i)
  <2>1. /\ peers' = peers /\ server' = server /\ cut' = cut /\ sock' = sock
        /\ \A j \in Slots \ {i} : toServer'[j] = toServer[j]
    BY <1>6 DEF StartTasks, TypeOK
  <2> QED BY <1>6, <2>1, StartTasksView DEF Local, Changes, Trying, TypeOK
<1>7. CASE Announce(i)
  BY <1>7, AnnounceView DEF Announce, Changes, Local, Trying, TypeOK, wire, bounds
<1>8. CASE ForwardRequest(i)
  BY <1>8, ForwardRequestView
     DEF ForwardRequest, Changes, Local, Trying, TypeOK, wire, bounds
<1>9. CASE Subscribe(i)
  BY <1>9, SubscribeView DEF Subscribe, Changes, Local, Trying, TypeOK, wire, bounds
<1>10. CASE Notice(i)
  BY <1>10, NoticeView DEF Notice, Changes, Local, Trying, TypeOK, wire, bounds
<1>11. CASE ReadEnds(i)
  BY <1>11, ReadEndsView DEF ReadEnds, Changes, Local, Trying, TypeOK, wire, bounds
<1>12. CASE WriteEnds(i)
  BY <1>12, WriteEndsView DEF WriteEnds, Changes, Local, Trying, TypeOK, wire, bounds
<1>13. CASE ConnectionEnds(i)
  <2>1. /\ peers' = peers /\ server' = server /\ cut' = cut /\ sock' = sock
        /\ toServer' = [toServer EXCEPT ![i] = <<>>]
    BY <1>13 DEF ConnectionEnds, wire
  <2> QED BY <1>13, <2>1, ConnectionEndsView DEF Local, Changes, Trying, TypeOK
<1>14. CASE ClientTick(i)
  BY <1>14, ClientTickView
     DEF ClientTick, Changes, Idles, Local, Trying, TypeOK, wire, bounds
<1>15. CASE Break(i)
  BY <1>15 DEF Break, Local, Trying, TypeOK, wire, bounds
<1>16. ASSUME NEW m \in ToClient, ClientReads(i, m) PROVE Local(i)
  BY <1>16, ClientReadsView DEF ClientReads, Idles, Changes, Local, Trying, TypeOK, bounds
<1> QED
  BY <1>1, <1>2, <1>3, <1>4, <1>5, <1>5a, <1>6, <1>7, <1>8, <1>9, <1>10, <1>11, <1>12,
     <1>13, <1>14, <1>15, <1>16 DEF ClientSide

\* The steps of the client's side keep their slot in order.
LEMMA ClientSideKeepsSlot ==
  ASSUME TypeOK, SlotInv, NEW i \in Slots, ClientSide(i)
  PROVE  SlotOK(i)'
<1>0. SlotOK(i) BY DEF SlotInv
<1>1. CASE OpenTcp(i)
  BY <1>0, <1>1 DEF OpenTcp, SlotOK, Fresh, Trying, TypeOK, wire
<1>2. CASE TryFails(i)
  BY <1>0, <1>2, FailedView
     DEF TryFails, Changes, SlotOK, Fresh, Trying, TypeOK, wire
<1>3. CASE Refused(i)
  BY <1>0, <1>3, FailedView
     DEF Refused, Changes, SlotOK, Fresh, Trying, TypeOK, wire
<1>4. CASE Retry(i)
  BY <1>0, <1>4, RetryView
     DEF Retry, Changes, SlotOK, Fresh, Trying, TypeOK, wire
<1>5. CASE Connected(i)
  BY <1>0, <1>5, ConnectedView
     DEF Connected, Changes, SlotOK, Fresh, Trying, TypeOK, wire
<1>5a. CASE SetSender(i)
  BY <1>0, <1>5a, SetSenderView DEF SetSender, Changes, SlotOK, Fresh, Trying, TypeOK, wire
<1>6. CASE StartTasks(i)
  <2>1. /\ sock' = sock /\ toServer' = [toServer EXCEPT ![i] = Append(@, "heartbeat")]
        /\ client[i].io = "set"
    BY <1>6 DEF StartTasks, wire
  <2> QED
    BY <1>0, <1>6, <2>1, StartTasksView
       DEF SlotOK, Fresh, Changes, Trying, TypeOK
<1>7. CASE Announce(i)
  <2>1. /\ sock' = sock /\ toServer' = toServer /\ client[i].task = "announce"
    BY <1>7 DEF Announce, wire
  <2> QED
    BY <1>0, <1>7, <2>1, AnnounceView
       DEF SlotOK, Fresh, Changes, Trying, TypeOK
<1>8. CASE ForwardRequest(i)
  BY <1>0, <1>8, ForwardRequestView
     DEF ForwardRequest, Changes, SlotOK, Fresh, Trying, TypeOK,
         wire
<1>9. CASE Subscribe(i)
  <2>1. /\ sock' = sock /\ toServer' = toServer /\ client[i].task = "subscribe"
    BY <1>9 DEF Subscribe, wire
  <2> QED
    BY <1>0, <1>9, <2>1, SubscribeView
       DEF SlotOK, Fresh, Changes, Trying, TypeOK
<1>10. CASE Notice(i)
  BY <1>0, <1>10, NoticeView
     DEF Notice, Changes, SlotOK, Fresh, Trying, TypeOK, wire
<1>11. CASE ReadEnds(i)
  BY <1>0, <1>11, ReadEndsView
     DEF ReadEnds, Changes, SlotOK, Fresh, Trying, TypeOK, wire
<1>12. CASE WriteEnds(i)
  BY <1>0, <1>12, WriteEndsView
     DEF WriteEnds, Changes, SlotOK, Fresh, Trying, TypeOK, wire
<1>13. CASE ConnectionEnds(i)
  BY <1>0, <1>13, ConnectionEndsView
     DEF ConnectionEnds, Changes, SlotOK, Fresh, Trying, TypeOK,
         wire
<1>14. CASE ClientTick(i)
  <2>1. sock' = sock /\ (toServer' = toServer \/ client[i].io # "none")
    BY <1>14 DEF ClientTick, HasSender
  <2> QED BY <1>0, <1>14, <2>1, ClientTickView DEF Changes, Idles, SlotOK, Fresh, Trying
<1>15. CASE Break(i)
  BY <1>0, <1>15 DEF Break, SlotOK, Fresh, Trying, TypeOK, wire
<1>16. ASSUME NEW m \in ToClient, ClientReads(i, m) PROVE SlotOK(i)'
  BY <1>0, <1>16, ClientReadsView
     DEF ClientReads, Idles, Changes, SlotOK, Fresh, Trying, TypeOK
<1> QED
  BY <1>1, <1>2, <1>3, <1>4, <1>5, <1>5a, <1>6, <1>7, <1>8, <1>9, <1>10, <1>11, <1>12,
     <1>13, <1>14, <1>15, <1>16 DEF ClientSide

-----------------------------------------------------------------------------
(* The inductive invariant *)

\* Clean: the connect task ends.
LEMMA CleanIsLocal ==
  ASSUME TypeOK, SlotInv, NEW i \in Slots, Clean(i)
  PROVE  /\ UNCHANGED <<server, cut>> /\ sock' = sock /\ toServer' = toServer
         /\ peers' = [peers EXCEPT ![client[i].from][client[i].to] = None]
         /\ \A j \in Slots \ {i} : client'[j] = client[j]
         /\ client'[i].from = client[i].from /\ client'[i].to = client[i].to
         /\ Trying(i) /\ ~Trying(i)'
         /\ client[i].from \in Devices /\ client[i].to \in Devices
         /\ SlotOK(i)'
<1>1. /\ server' = server /\ cut' = cut /\ sock' = sock /\ toServer' = toServer
      /\ peers' = [peers EXCEPT ![client[i].from][client[i].to] = None]
      /\ client[i].task = "clean"
  BY DEF Clean, wire
<1>2. SlotOK(i) /\ Trying(i) BY <1>1 DEF SlotInv, Trying
<1>3. client[i].from \in Devices /\ client[i].to \in Devices BY <1>2 DEF SlotOK
<1>4. /\ \A j \in Slots \ {i} : client'[j] = client[j]
      /\ client'[i].from = client[i].from /\ client'[i].to = client[i].to
      /\ client'[i].task = "done"
  BY CleanView DEF Changes
<1>5. SlotOK(i)'
  BY <1>1, <1>2, CleanView DEF SlotOK, Fresh, Trying, Changes
<1> QED BY <1>1, <1>2, <1>3, <1>4, <1>5 DEF Trying

\* The steps, as the invariant sees them.
LEMMA StepCases ==
  ASSUME [Next]_vars
  PROVE  \/ \E i \in Slots : ClientSide(i)
         \/ \E i \in Slots : Clean(i)
         \/ \E i \in Slots : Silence(i)
         \/ \E c, s \in Devices : Dial(c, s)
         \/ \E s \in Devices, i \in Slots : Accept(s, i)
         \/ \E s \in Devices : ServerReads(s)
         \/ \E s \in Devices : InsertId(s)
         \/ \E s \in Devices : ServerEnds(s)
         \/ \E s \in Devices, i \in Slots : ServerTick(s, i)
         \/ \E d \in Devices : Restart(d)
         \/ UNCHANGED vars
BY SeesAssumption DEF Next, ConnectStep, ConnectionStep, HandlerStep, ClientSide

\* The map of clients keeps holding the connections whose connect task runs.
LEMMA MapOwnerStep ==
  ASSUME TypeOK, ConnInv, [Next]_vars
  PROVE  MapOwner'
<1>0. TypeOK /\ SlotInv /\ MapOwner /\ None \notin Slots
  BY NoneAssumption DEF ConnInv
<1>1. ASSUME NEW i \in Slots, ClientSide(i) PROVE MapOwner'
  BY <1>0, <1>1, ClientSideIsLocal DEF Local, MapOwner, Trying
<1>2. ASSUME NEW i \in Slots, Clean(i) PROVE MapOwner'
  <2>0. /\ peers' = [peers EXCEPT ![client[i].from][client[i].to] = None]
        /\ \A j \in Slots \ {i} : client'[j] = client[j]
        /\ client'[i].from = client[i].from /\ client'[i].to = client[i].to
        /\ Trying(i) /\ ~Trying(i)'
        /\ client[i].from \in Devices /\ client[i].to \in Devices
    BY <1>0, <1>2, CleanIsLocal
  <2>1. peers[client[i].from][client[i].to] = i
    BY <1>0, <2>0 DEF MapOwner
  <2> SUFFICES ASSUME NEW c \in Devices, NEW s \in Devices, NEW j \in Slots
               PROVE  peers'[c][s] = j
                        <=> client'[j].from = c /\ client'[j].to = s /\ Trying(j)'
    BY DEF MapOwner
  <2>2. peers[c][s] = j <=> client[j].from = c /\ client[j].to = s /\ Trying(j)
    BY <1>0 DEF MapOwner
  <2>3. CASE c = client[i].from /\ s = client[i].to
    <3>1. peers'[c][s] = None BY <1>0, <2>0, <2>3 DEF TypeOK
    <3>2. CASE j = i BY <1>0, <2>0, <3>1, <3>2
    <3>3. CASE j # i
      <4>1. client'[j] = client[j] BY <1>0, <2>0, <3>3
      <4>2. peers[c][s] # j BY <2>1, <2>3, <3>3
      <4> QED BY <1>0, <2>2, <3>1, <4>1, <4>2 DEF Trying
    <3> QED BY <3>2, <3>3
  <2>4. CASE ~(c = client[i].from /\ s = client[i].to)
    <3>1. peers'[c][s] = peers[c][s] BY <1>0, <2>0, <2>4 DEF TypeOK
    <3>2. CASE j = i BY <1>0, <2>0, <2>2, <2>4, <3>1, <3>2
    <3>3. CASE j # i
      <4>1. client'[j] = client[j] BY <1>0, <2>0, <3>3
      <4> QED BY <2>2, <3>1, <4>1 DEF Trying
    <3> QED BY <3>2, <3>3
  <2> QED BY <2>3, <2>4
<1>3. ASSUME NEW i \in Slots, Silence(i) PROVE MapOwner'
  <2>1. peers' = peers BY <1>3 DEF Silence
  <2> QED BY <1>0, <1>3, <2>1, SilenceView DEF Idles, Changes, MapOwner, Trying
<1>4. ASSUME NEW c \in Devices, NEW s \in Devices, Dial(c, s) PROVE MapOwner'
  <2>1. Register(c, s) /\ peers[c][s] = None BY <1>4 DEF Dial
  <2>2a. PICK i \in Slots : Registers(i, c, s)
    BY <1>0, <2>1, RegisterView
  <2>2. /\ Free(i)
        /\ peers' = [peers EXCEPT ![c][s] = i]
        /\ client'[i].from = c /\ client'[i].to = s /\ client'[i].task = "try"
        /\ \A j \in Slots \ {i} : client'[j] = client[j]
    BY <2>2a DEF Registers
  <2>3. ~Trying(i) BY <2>2 DEF Free, Trying
  <2> SUFFICES ASSUME NEW d \in Devices, NEW t \in Devices, NEW j \in Slots
               PROVE  peers'[d][t] = j
                        <=> client'[j].from = d /\ client'[j].to = t /\ Trying(j)'
    BY DEF MapOwner
  <2>4. peers[d][t] = j <=> client[j].from = d /\ client[j].to = t /\ Trying(j)
    BY <1>0 DEF MapOwner
  <2>5. Trying(i)' BY <2>2 DEF Trying
  <2>6. CASE d = c /\ t = s
    <3>1. peers'[d][t] = i BY <1>0, <2>2, <2>6 DEF TypeOK
    <3>2. CASE j = i BY <2>2, <2>5, <2>6, <3>1, <3>2
    <3>3. CASE j # i
      <4>1. peers[d][t] # j BY <1>0, <2>1, <2>6
      <4> QED BY <2>2, <2>4, <3>1, <3>3, <4>1 DEF Trying
    <3> QED BY <3>2, <3>3
  <2>7. CASE ~(d = c /\ t = s)
    <3>1. peers'[d][t] = peers[d][t] BY <1>0, <2>2, <2>7 DEF TypeOK
    <3>2. CASE j = i BY <2>2, <2>3, <2>4, <2>7, <3>1, <3>2
    <3>3. CASE j # i BY <2>2, <2>4, <3>1, <3>3 DEF Trying
    <3> QED BY <3>2, <3>3
  <2> QED BY <2>6, <2>7
<1>5. ASSUME NEW d \in Devices, Restart(d) PROVE MapOwner'
  <2>1. peers' = [peers EXCEPT ![d] = [s \in Devices |-> None]] BY <1>5 DEF Restart
  <2> SUFFICES ASSUME NEW c \in Devices, NEW s \in Devices, NEW j \in Slots
               PROVE  peers'[c][s] = j
                        <=> client'[j].from = c /\ client'[j].to = s /\ Trying(j)'
    BY DEF MapOwner
  <2>2. peers[c][s] = j <=> client[j].from = c /\ client[j].to = s /\ Trying(j)
    BY <1>0 DEF MapOwner
  <2>3. /\ client'[j].from = client[j].from /\ client'[j].to = client[j].to
        /\ client[j].from # d => client'[j] = client[j]
        /\ client[j].from = d => client'[j].task = "done"
    BY <1>0, <1>5, RestartView
  <2>4. CASE c = d
    <3>1. peers'[c][s] = None BY <2>1, <2>4 DEF TypeOK
    <3> QED BY <1>0, <2>3, <2>4, <3>1 DEF Trying
  <2>5. CASE c # d
    <3>1. peers'[c][s] = peers[c][s] BY <2>1, <2>5 DEF TypeOK
    <3> QED BY <2>2, <2>3, <2>5, <3>1 DEF Trying
  <2> QED BY <2>4, <2>5
<1>6. CASE peers' = peers /\ client' = client
  BY <1>0, <1>6 DEF MapOwner, Trying
<1> QED
  BY <1>1, <1>2, <1>3, <1>4, <1>5, <1>6, StepCases
     DEF Accept, ServerReads, InsertId, ServerEnds, ServerTick, vars, wire

\* Every slot stays in order.
LEMMA SlotStep ==
  ASSUME TypeOK, ConnInv, [Next]_vars
  PROVE  SlotInv'
<1>0. TypeOK /\ SlotInv BY DEF ConnInv
<1> SUFFICES ASSUME NEW j \in Slots PROVE SlotOK(j)'
  BY DEF SlotInv
<1>00. SlotOK(j) BY <1>0 DEF SlotInv
<1>1. ASSUME NEW i \in Slots, ClientSide(i) PROVE SlotOK(j)'
  <2>1. CASE j = i BY <1>0, <1>1, <2>1, ClientSideKeepsSlot 
  <2>2. CASE j # i
    BY <1>0, <1>00, <1>1, <2>2, ClientSideIsLocal DEF Local, SlotOK, Trying, Fresh
  <2> QED BY <2>1, <2>2
<1>2. ASSUME NEW i \in Slots, Clean(i) PROVE SlotOK(j)'
  <2>1. CASE j = i BY <1>0, <1>2, <2>1, CleanIsLocal 
  <2>2. CASE j # i
    BY <1>0, <1>00, <1>2, <2>2, CleanIsLocal DEF SlotOK, Trying, Fresh
  <2> QED BY <2>1, <2>2
<1>3. ASSUME NEW i \in Slots, Silence(i) PROVE SlotOK(j)'
  <2>1. sock' = sock /\ toServer' = toServer BY <1>3 DEF Silence, wire
  <2> QED BY <1>0, <1>00, <1>3, <2>1, SilenceView DEF Idles, Changes, SlotOK, Trying, Fresh
<1>4. ASSUME NEW c \in Devices, NEW s \in Devices, Dial(c, s) PROVE SlotOK(j)'
  <2>1. Register(c, s) BY <1>4 DEF Dial
  <2>2. PICK i \in Slots : Registers(i, c, s)
    BY <1>0, <2>1, RegisterView
  <2> QED BY <1>0, <1>00, <2>2 DEF Registers, SlotOK, Trying, Fresh, TypeOK
<1>5. ASSUME NEW s \in Devices, NEW i \in Slots, Accept(s, i) PROVE SlotOK(j)'
  BY <1>0, <1>00, <1>5 DEF Accept, SlotOK, Trying, Fresh, TypeOK
<1>6. ASSUME NEW s \in Devices, ServerReads(s) PROVE SlotOK(j)'
  <2> DEFINE i == serving[s]
  <2>1. i = serving[s] OBVIOUS
  <2> HIDE DEF i
  <2>2. /\ toServer' = [toServer EXCEPT ![i] = Tail(@)] /\ client' = client /\ sock' = sock
        /\ toServer[i] # <<>>
    BY <1>0, <1>6, <2>1, ServerReadsView
  <2>3. Fresh(j) => Fresh(j)' BY <1>0, <2>2 DEF Fresh, TypeOK
  <2> QED BY <1>0, <1>00, <2>2, <2>3 DEF SlotOK, Trying, TypeOK
<1>7. ASSUME NEW d \in Devices, Restart(d) PROVE SlotOK(j)'
  <2>1. /\ sock'[j] = IF sock[j] \in {"backlog", "open"} /\ d \in {client[j].from, client[j].to}
                      THEN "closed" ELSE sock[j]
        /\ toServer'[j] = IF sock'[j] = "closed" THEN <<>> ELSE toServer[j]
    BY <1>7 DEF Restart
  <2> QED BY <1>0, <1>00, <1>7, <2>1, RestartView DEF SlotOK, Trying, Fresh
<1>8. CASE client' = client /\ sock' = sock /\ toServer' = toServer
  BY <1>00, <1>8 DEF SlotOK, Trying, Fresh
<1> QED
  BY <1>1, <1>2, <1>3, <1>4, <1>5, <1>6, <1>7, <1>8, StepCases
     DEF InsertId, ServerEnds, ServerTick, vars, wire

\* No slot is served twice, and every client of a server is the one it serves.
LEMMA ServedOnce ==
  ASSUME TypeOK, ConnInv
  PROVE  /\ None \notin Slots
         /\ \A s, t \in Devices : serving[s] # None /\ serving[s] = serving[t] => s = t
         /\ \A s \in Devices : \A i \in clients[s] : i = serving[s] /\ i \in Slots
         /\ \A s \in Devices, i \in Slots : i = serving[s] =>
              /\ client[i].to = s /\ client[i].from \in Devices
              /\ sock[i] \in {"open", "closed"}
BY NoneAssumption DEF TypeOK, ConnInv, ServerInv, OneInbound

\* A server has at most one client at a time.
LEMMA OneInboundStep ==
  ASSUME TypeOK, ConnInv, [Next]_vars
  PROVE  OneInbound'
<1>0. TypeOK /\ SlotInv /\ OneInbound BY DEF ConnInv
<1>1. ASSUME NEW i \in Slots, ClientSide(i) PROVE serving' = serving /\ clients' = clients
  BY <1>0, <1>1, ClientSideIsLocal DEF Local, server
<1>2. ASSUME NEW i \in Slots, Clean(i) PROVE serving' = serving /\ clients' = clients
  BY <1>0, <1>2, CleanIsLocal DEF server
<1>3. ASSUME NEW s \in Devices, ServerReads(s)
      PROVE  serving' = serving /\ clients' = clients
  BY <1>3 DEF ServerReads
<1>4. ASSUME NEW s \in Devices, NEW i \in Slots, Accept(s, i) PROVE OneInbound'
  BY <1>0, <1>4, NoneAssumption DEF Accept, OneInbound, TypeOK
<1>5. ASSUME NEW s \in Devices, ServerEnds(s) PROVE OneInbound'
  <2>1. clients' = clients \/ clients' = [clients EXCEPT ![s] = @ \ {serving[s]}]
    BY <1>5 DEF ServerEnds, Forget
  <2>2. serving[s] \notin clients'[s]
    <3>1. \/ serving[s] \notin clients[s] /\ clients' = clients
          \/ clients' = [clients EXCEPT ![s] = @ \ {serving[s]}]
      BY <1>5 DEF ServerEnds, Forget
    <3> QED BY <1>0, <3>1 DEF TypeOK
  <2>3. serving' = [serving EXCEPT ![s] = None] BY <1>5 DEF ServerEnds
  <2> SUFFICES ASSUME NEW t \in Devices PROVE clients'[t] \subseteq {serving'[t]} \ {None}
    BY DEF OneInbound
  <2>4. clients[t] \subseteq {serving[t]} \ {None} /\ clients'[t] \subseteq clients[t]
    BY <1>0, <2>1 DEF OneInbound, TypeOK
  <2>5. CASE t = s BY <2>2, <2>4, <2>5
  <2>6. CASE t # s BY <1>0, <2>3, <2>4, <2>6 DEF TypeOK
  <2> QED BY <2>5, <2>6
<1>6. ASSUME NEW s \in Devices, NEW i \in Slots, ServerTick(s, i) PROVE OneInbound'
  <2>1. serving' = serving BY <1>6 DEF ServerTick
  <2>2. clients' = clients \/ clients' = [clients EXCEPT ![s] = @ \ {i}]
    BY <1>6 DEF ServerTick, Forget
  <2>3. \A t \in Devices : clients'[t] \subseteq clients[t]
    <3>1. clients \in [Devices -> SUBSET Slots] BY DEF TypeOK
    <3> QED BY <2>2, <3>1
  <2> QED BY <1>0, <2>1, <2>3 DEF OneInbound
<1>7. ASSUME NEW d \in Devices, Restart(d) PROVE OneInbound'
  BY <1>0, <1>7 DEF Restart, OneInbound, TypeOK
<1>8. CASE serving' = serving /\ clients' = clients
  BY <1>0, <1>8 DEF OneInbound
<1> QED
  BY <1>1, <1>2, <1>3, <1>4, <1>5, <1>6, <1>7, <1>8, StepCases
     DEF Silence, Dial, InsertId, server, vars

\* A server forgets a client that it serves: nothing of it is left.
LEMMA ForgetView ==
  ASSUME TypeOK, ConnInv, NEW s \in Devices, NEW i \in Slots, i \in clients[s], Forget(s, i)
  PROVE  /\ i = serving[s] /\ clients[s] = {i}
         /\ clients' = [clients EXCEPT ![s] = {}]
         /\ known' = known \ {i} /\ stale' = stale \ {i}
         /\ \A t \in Devices \ {s} : i \notin clients[t] /\ i # serving[t]
         /\ ids' = [ids EXCEPT ![s] = IF i \in known THEN @ \ {client[i].from} ELSE @]
<1>1. i = serving[s] /\ clients[s] = {i} BY ServedOnce DEF TypeOK
<1>2. clients' = [clients EXCEPT ![s] = {}]
  <2>1. clients' = [clients EXCEPT ![s] = clients[s] \ {i}] BY DEF Forget
  <2> QED BY <2>1, <1>1
<1>3. \A t \in Devices \ {s} : i \notin clients[t] /\ i # serving[t]
  BY <1>1, ServedOnce
<1> QED BY <1>1, <1>2, <1>3 DEF Forget

\* What a step of the client's side, or of the network, means to a server.
LEMMA ElsewhereView ==
  ASSUME TypeOK, ConnInv, NEW i \in Slots, ClientSide(i) \/ Clean(i)
  PROVE  /\ serving' = serving /\ inHand' = inHand /\ clients' = clients
         /\ known' = known /\ stale' = stale /\ ids' = ids /\ cut' = cut
         /\ \A j \in Slots : client'[j].from = client[j].from /\ client'[j].to = client[j].to
         /\ \A s \in Devices, j \in Slots : j = serving[s] => sock'[j] \in {"open", "closed"}
<1>0. TypeOK /\ SlotInv BY DEF ConnInv
<1>1. CASE ClientSide(i)
  <2>1. Local(i) BY <1>0, <1>1, ClientSideIsLocal
  <2>2. \A j \in Slots : client'[j].from = client[j].from /\ client'[j].to = client[j].to
    BY <2>1 DEF Local
  <2>3. \A s \in Devices, j \in Slots : j = serving[s] => sock'[j] \in {"open", "closed"}
    BY <2>1, ServedOnce DEF Local
  <2> QED BY <2>1, <2>2, <2>3 DEF Local, server
<1>2. CASE Clean(i)
  <2>1. /\ UNCHANGED <<server, cut>> /\ sock' = sock
        /\ \A j \in Slots \ {i} : client'[j] = client[j]
        /\ client'[i].from = client[i].from /\ client'[i].to = client[i].to
    BY <1>0, <1>2, CleanIsLocal
  <2> QED BY <2>1, ServedOnce DEF server
<1> QED BY <1>1, <1>2

\* What a new connection means to a server: it takes a slot that nobody serves.
LEMMA DialView ==
  ASSUME TypeOK, ConnInv, NEW c \in Devices, NEW s \in Devices, Dial(c, s)
  PROVE  /\ serving' = serving /\ inHand' = inHand /\ clients' = clients
         /\ known' = known /\ stale' = stale /\ ids' = ids /\ cut' = cut
         /\ \A t \in Devices, j \in Slots : j = serving[t] =>
              client'[j] = client[j] /\ sock'[j] = sock[j] /\ toServer'[j] = toServer[j]
<1>1. Register(c, s) /\ UNCHANGED <<server, cut>> BY DEF Dial
<1>2. PICK i \in Slots : Registers(i, c, s) BY <1>1, RegisterView
<1>3. \A t \in Devices : serving[t] # i BY <1>2 DEF Registers, Free
<1>4. \A t \in Devices, j \in Slots : j = serving[t] =>
        client'[j] = client[j] /\ sock'[j] = sock[j] /\ toServer'[j] = toServer[j]
  BY <1>2, <1>3 DEF Registers, TypeOK
<1> QED BY <1>1, <1>4 DEF server

\* What the restart of d means to the servers.
LEMMA RestartServers ==
  ASSUME TypeOK, ConnInv, NEW d \in Devices, Restart(d)
  PROVE  /\ serving' = [serving EXCEPT ![d] = None] /\ inHand' = [inHand EXCEPT ![d] = None]
         /\ clients' = [clients EXCEPT ![d] = {}] /\ ids' = [ids EXCEPT ![d] = {}]
         /\ known' = known \ clients[d] /\ stale' = stale \ clients[d] /\ cut' = cut \ {d}
         /\ \A i \in Slots : client'[i].from = client[i].from /\ client'[i].to = client[i].to
         /\ \A s \in Devices, j \in Slots : j = serving[s] => sock'[j] \in {"open", "closed"}
<1>1. \A j \in Slots :
        sock'[j] = IF sock[j] \in {"backlog", "open"} /\ d \in {client[j].from, client[j].to}
                                  THEN "closed" ELSE sock[j]
  BY DEF Restart
<1>2. \A s \in Devices, j \in Slots : j = serving[s] => sock'[j] \in {"open", "closed"}
  BY <1>1, ServedOnce
<1>3. \A i \in Slots : client'[i].from = client[i].from /\ client'[i].to = client[i].to
  BY RestartView
<1> QED BY <1>2, <1>3 DEF Restart

\* What a server is busy with stays known to it and alive.
LEMMA ServerStep ==
  ASSUME TypeOK, ConnInv, [Next]_vars
  PROVE  ServerInv'
<1>0. /\ TypeOK /\ SlotInv /\ ServerInv /\ OneInbound BY DEF ConnInv
<1>00. /\ \A s \in Devices, i \in Slots : i = serving[s] =>
            /\ client[i].to = s /\ client[i].from \in Devices
            /\ sock[i] \in {"open", "closed"}
       /\ \A s \in Devices : \A i \in clients[s] : i = serving[s] /\ i \in Slots
       /\ None \notin Slots
  BY ServedOnce
<1>1. ASSUME NEW i \in Slots, ClientSide(i) \/ Clean(i) PROVE ServerInv'
  <2>1. /\ serving' = serving /\ inHand' = inHand /\ clients' = clients
        /\ known' = known /\ cut' = cut
        /\ \A j \in Slots : client'[j].from = client[j].from /\ client'[j].to = client[j].to
        /\ \A s \in Devices, j \in Slots : j = serving[s] => sock'[j] \in {"open", "closed"}
    BY <1>1, ElsewhereView
  <2>2. serving \in [Devices -> Slots \cup {None}] BY DEF TypeOK
  <2> QED BY <1>0, <1>00, <2>1, <2>2 DEF ServerInv
<1>2. ASSUME NEW i \in Slots, Silence(i) PROVE ServerInv'
  <2>1. /\ serving' = serving /\ inHand' = inHand /\ clients' = clients
        /\ known' = known /\ sock' = sock /\ cut' = cut
    BY <1>2 DEF Silence, wire
  <2>2. \A j \in Slots : client'[j].from = client[j].from /\ client'[j].to = client[j].to
    BY <1>0, <1>2, SilenceView DEF Idles, Changes
  <2>3. serving \in [Devices -> Slots \cup {None}] BY DEF TypeOK
  <2> QED BY <1>0, <1>00, <2>1, <2>2, <2>3 DEF ServerInv
<1>3. ASSUME NEW c \in Devices, NEW s \in Devices, Dial(c, s) PROVE ServerInv'
  <2>1. /\ serving' = serving /\ inHand' = inHand /\ clients' = clients
        /\ known' = known /\ cut' = cut
        /\ \A t \in Devices, j \in Slots : j = serving[t] =>
              client'[j] = client[j] /\ sock'[j] = sock[j]
    BY <1>3, DialView
  <2> QED BY <1>0, <2>1 DEF ServerInv, TypeOK
<1>4. ASSUME NEW s \in Devices, NEW i \in Slots, Accept(s, i) PROVE ServerInv'
  <2>1. /\ serving[s] = None /\ serving' = [serving EXCEPT ![s] = i]
        /\ inHand' = inHand /\ clients' = [clients EXCEPT ![s] = @ \cup {i}]
        /\ known' = known /\ cut' = cut /\ client' = client
        /\ sock' = [sock EXCEPT ![i] = "open"]
        /\ client[i].to = s /\ sock[i] = "backlog"
    BY <1>4 DEF Accept
  <2>2. client[i].from \in Devices
    BY <1>0, <2>1 DEF SlotInv, SlotOK, Trying
  <2>3. inHand[s] = None BY <1>0, <2>1 DEF TypeOK
  <2>4. \A t \in Devices : inHand'[t] # None =>
          /\ serving'[t] # None
          /\ serving'[t] \in clients'[t] => serving'[t] \in known'
          /\ serving'[t] \notin clients'[t] => t \in cut'
    BY <1>0, <2>1, <2>3 DEF ServerInv, TypeOK
  <2>5. \A t \in Devices : serving'[t] # None =>
          /\ client'[serving'[t]].to = t /\ client'[serving'[t]].from \in Devices
          /\ sock'[serving'[t]] \in {"open", "closed"}
    BY <1>0, <2>1, <2>2 DEF ServerInv, TypeOK
  <2>6. \A j \in known' : \E t \in Devices : j \in clients'[t]
    BY <1>0, <2>1 DEF ServerInv, TypeOK
  <2> QED BY <2>4, <2>5, <2>6 DEF ServerInv
<1>5. ASSUME NEW s \in Devices, ServerReads(s) PROVE ServerInv'
  <2> DEFINE i == serving[s]
  <2>0. i = serving[s] OBVIOUS
  <2> HIDE DEF i
  <2>1. /\ i \in Slots /\ i # None /\ inHand[s] = None /\ cut' = cut
        /\ client' = client /\ sock' = sock /\ serving' = serving /\ clients' = clients
        /\ \/ known' = known /\ inHand' = inHand
           \/ /\ i \in clients[s] /\ known' = known \cup {i}
              /\ inHand' = [inHand EXCEPT ![s] = Head(toServer[i])]
    BY <1>0, <1>5, <2>0, ServerReadsView
  <2>2. CASE known' = known /\ inHand' = inHand
    BY <1>0, <2>1, <2>2 DEF ServerInv, TypeOK
  <2>3. CASE /\ i \in clients[s] /\ known' = known \cup {i}
             /\ inHand' = [inHand EXCEPT ![s] = Head(toServer[i])]
    <3>1. \A t \in Devices : inHand'[t] # None =>
            /\ serving'[t] # None
            /\ serving'[t] \in clients'[t] => serving'[t] \in known'
            /\ serving'[t] \notin clients'[t] => t \in cut'
      BY <1>0, <2>0, <2>1, <2>3 DEF ServerInv, TypeOK
    <3>2. \A j \in known' : \E t \in Devices : j \in clients'[t]
      BY <1>0, <2>1, <2>3 DEF ServerInv
    <3> QED BY <1>0, <2>1, <3>1, <3>2 DEF ServerInv
  <2> QED BY <2>1, <2>2, <2>3
<1>6. ASSUME NEW s \in Devices, InsertId(s) PROVE ServerInv'
  BY <1>0, <1>6 DEF InsertId, ServerInv, TypeOK
<1>7. ASSUME NEW s \in Devices, ServerEnds(s) PROVE ServerInv'
  <2> DEFINE i == serving[s]
  <2>0. i = serving[s] OBVIOUS
  <2> HIDE DEF i
  <2>1. /\ i # None /\ inHand[s] = None /\ inHand' = inHand
        /\ serving' = [serving EXCEPT ![s] = None]
        /\ client' = client /\ sock' = sock /\ cut' = cut
        /\ \/ i \in clients[s] /\ Forget(s, i)
           \/ i \notin clients[s] /\ UNCHANGED <<clients, known, stale, ids>>
    BY <1>7, <2>0 DEF ServerEnds, wire
  <2>2. i \in Slots BY <1>0, <2>0, <2>1 DEF TypeOK
  <2>3. /\ known' \subseteq known
        /\ \A t \in Devices \ {s} : clients'[t] = clients[t]
        /\ \A j \in known' : \E t \in Devices : j \in clients'[t]
        /\ \A t \in Devices \ {s} :
             serving[t] \in known => serving[t] \in known' \/ serving[t] = i
    <3>1. CASE i \in clients[s] /\ Forget(s, i)
      <4>1. /\ clients[s] = {i}
            /\ clients' = [clients EXCEPT ![s] = {}]
            /\ known' = known \ {i}
        BY <1>0, <2>2, <3>1, ForgetView
      <4> QED BY <1>0, <4>1 DEF ServerInv, TypeOK
    <3>2. CASE UNCHANGED <<clients, known, stale, ids>>
      BY <1>0, <3>2 DEF ServerInv
    <3> QED BY <2>1, <3>1, <3>2
  <2>4. \A t \in Devices \ {s} : serving[t] = i => t = s
    BY <2>0, <2>1, ServedOnce
  <2>5. \A t \in Devices : inHand'[t] # None =>
          /\ serving'[t] # None
          /\ serving'[t] \in clients'[t] => serving'[t] \in known'
          /\ serving'[t] \notin clients'[t] => t \in cut'
    BY <1>0, <2>1, <2>3, <2>4 DEF ServerInv, TypeOK
  <2>6. \A t \in Devices : serving'[t] # None =>
          /\ client'[serving'[t]].to = t /\ client'[serving'[t]].from \in Devices
          /\ sock'[serving'[t]] \in {"open", "closed"}
    BY <1>0, <2>1 DEF ServerInv, TypeOK
  <2> QED BY <2>3, <2>5, <2>6 DEF ServerInv
<1>8. ASSUME NEW s \in Devices, NEW i \in Slots, ServerTick(s, i) PROVE ServerInv'
  <2>1. /\ i \in clients[s] /\ serving' = serving /\ inHand' = inHand
        /\ client' = client /\ sock' = sock
        /\ \/ /\ Forget(s, i)
              /\ cut' = IF inHand[s] # None THEN cut \cup {s} ELSE cut
           \/ UNCHANGED <<clients, known, cut>>
    BY <1>8 DEF ServerTick
  <2>2. CASE Forget(s, i) /\ cut' = IF inHand[s] # None THEN cut \cup {s} ELSE cut
    <3>1. /\ i = serving[s] /\ clients[s] = {i}
          /\ clients' = [clients EXCEPT ![s] = {}]
          /\ known' = known \ {i}
          /\ \A t \in Devices \ {s} : i # serving[t]
      BY <1>0, <2>1, <2>2, ForgetView
    <3>2. cut \subseteq cut' /\ (inHand[s] # None => s \in cut') BY <2>2
    <3>3. \A t \in Devices : inHand'[t] # None =>
            /\ serving'[t] # None
            /\ serving'[t] \in clients'[t] => serving'[t] \in known'
            /\ serving'[t] \notin clients'[t] => t \in cut'
      BY <1>0, <2>1, <3>1, <3>2 DEF ServerInv, TypeOK
    <3>4. \A j \in known' : \E t \in Devices : j \in clients'[t]
      BY <1>0, <3>1 DEF ServerInv, TypeOK
    <3> QED BY <1>0, <2>1, <3>3, <3>4 DEF ServerInv
  <2>3. CASE UNCHANGED <<clients, known, cut>>
    BY <1>0, <2>1, <2>3 DEF ServerInv
  <2> QED BY <2>1, <2>2, <2>3
<1>9. ASSUME NEW d \in Devices, Restart(d) PROVE ServerInv'
  <2>1. /\ serving' = [serving EXCEPT ![d] = None] /\ inHand' = [inHand EXCEPT ![d] = None]
        /\ clients' = [clients EXCEPT ![d] = {}]
        /\ known' = known \ clients[d] /\ cut' = cut \ {d}
        /\ \A i \in Slots : client'[i].from = client[i].from /\ client'[i].to = client[i].to
        /\ \A s \in Devices, j \in Slots : j = serving[s] => sock'[j] \in {"open", "closed"}
    BY <1>9, RestartServers
  <2>2. \A t \in Devices \ {d} : serving[t] \notin clients[d] \/ serving[t] = None
    BY <1>00, ServedOnce
  <2>3. \A t \in Devices : inHand'[t] # None =>
          /\ serving'[t] # None
          /\ serving'[t] \in clients'[t] => serving'[t] \in known'
          /\ serving'[t] \notin clients'[t] => t \in cut'
    BY <1>0, <2>1, <2>2 DEF ServerInv, TypeOK
  <2>4. \A t \in Devices : serving'[t] # None =>
          /\ client'[serving'[t]].to = t /\ client'[serving'[t]].from \in Devices
          /\ sock'[serving'[t]] \in {"open", "closed"}
    <3> SUFFICES ASSUME NEW t \in Devices, serving'[t] # None
                 PROVE  /\ client'[serving'[t]].to = t /\ client'[serving'[t]].from \in Devices
                        /\ sock'[serving'[t]] \in {"open", "closed"}
      OBVIOUS
    <3>1. t # d /\ serving'[t] = serving[t] BY <1>0, <2>1 DEF TypeOK
    <3>2. serving[t] \in Slots BY <1>0, <3>1 DEF TypeOK
    <3> QED BY <1>00, <2>1, <3>1, <3>2
  <2>5. \A j \in known' : \E t \in Devices : j \in clients'[t]
    BY <1>0, <2>1 DEF ServerInv, TypeOK
  <2> QED BY <2>3, <2>4, <2>5 DEF ServerInv
<1>10. CASE UNCHANGED vars
  BY <1>0, <1>10 DEF ServerInv, vars, server, wire
<1> QED
  BY <1>1, <1>2, <1>3, <1>4, <1>5, <1>6, <1>7, <1>8, <1>9, <1>10, StepCases

\* connected_device_ids keeps naming the registered clients.
LEMMA IdsStep ==
  ASSUME TypeOK, ConnInv, [Next]_vars
  PROVE  IdsTracked'
<1>0. TypeOK /\ SlotInv /\ ServerInv /\ OneInbound /\ IdsTracked BY DEF ConnInv
<1>00. \A s \in Devices : \A i \in clients[s] : i = serving[s] /\ i \in Slots
  BY ServedOnce
<1> SUFFICES ASSUME NEW s \in Devices
             PROVE  LET registered == {client'[i].from : i \in clients'[s] \cap known'}
                    IN  /\ s \notin cut' => ids'[s] \subseteq registered
                        /\ inHand'[s] = None => registered \subseteq ids'[s]
  BY DEF IdsTracked, Registered
<1> DEFINE before == {client[i].from : i \in clients[s] \cap known}
           after  == {client'[i].from : i \in clients'[s] \cap known'}
           Tracked == /\ s \notin cut' => ids'[s] \subseteq after
                      /\ inHand'[s] = None => after \subseteq ids'[s]
<1>000. /\ s \notin cut => ids[s] \subseteq before
        /\ inHand[s] = None => before \subseteq ids[s]
  BY <1>0 DEF IdsTracked, Registered
<1>1. ASSUME clients'[s] \cap known' = clients[s] \cap known,
             \A i \in clients[s] : client'[i].from = client[i].from,
             ids'[s] = ids[s], inHand'[s] = inHand[s], s \notin cut' => s \notin cut
      PROVE  Tracked
  <2>1. after = before BY <1>1
  <2> HIDE DEF after, before
  <2> QED BY <1>1, <1>000, <2>1
<1>2. ASSUME NEW i \in Slots, ClientSide(i) \/ Clean(i)
      PROVE  Tracked
  <2>1. /\ inHand' = inHand /\ clients' = clients /\ known' = known /\ ids' = ids
        /\ cut' = cut
        /\ \A j \in Slots : client'[j].from = client[j].from
    BY <1>2, ElsewhereView
  <2> QED BY <1>00, <1>1, <2>1
<1>3. ASSUME NEW i \in Slots, Silence(i)
      PROVE  Tracked
  <2>1. /\ inHand' = inHand /\ clients' = clients /\ known' = known /\ ids' = ids
        /\ cut' = cut
    BY <1>3 DEF Silence
  <2>2. \A j \in Slots : client'[j].from = client[j].from
    BY <1>0, <1>3, SilenceView DEF Idles, Changes
  <2> QED BY <1>00, <1>1, <2>1, <2>2
<1>4. ASSUME NEW c \in Devices, NEW t \in Devices, Dial(c, t)
      PROVE  Tracked
  <2>1. /\ inHand' = inHand /\ clients' = clients /\ known' = known /\ ids' = ids
        /\ cut' = cut
        /\ \A u \in Devices, k \in Slots : k = serving[u] => client'[k] = client[k]
    BY <1>4, DialView
  <2> QED BY <1>00, <1>1, <2>1
<1>5. ASSUME NEW t \in Devices, NEW i \in Slots, Accept(t, i)
      PROVE  Tracked
  <2>1. /\ serving[t] = None /\ clients' = [clients EXCEPT ![t] = @ \cup {i}]
        /\ known' = known /\ client' = client /\ ids' = ids /\ inHand' = inHand
        /\ cut' = cut /\ sock[i] = "backlog"
    BY <1>5 DEF Accept
  <2>2. i \notin known
    <3> SUFFICES ASSUME i \in known PROVE FALSE OBVIOUS
    <3>1. PICK u \in Devices : i \in clients[u] BY <1>0 DEF ServerInv
    <3>2. i = serving[u] BY <1>00, <3>1
    <3>3. sock[i] \in {"open", "closed"} BY <3>2, ServedOnce
    <3> QED BY <2>1, <3>3
  <2>3. clients'[s] \cap known' = clients[s] \cap known BY <1>0, <2>1, <2>2 DEF TypeOK
  <2> QED BY <1>1, <2>1, <2>3
<1>6. ASSUME NEW t \in Devices, ServerReads(t)
      PROVE  Tracked
  <2> DEFINE i == serving[t]
  <2>0. i = serving[t] OBVIOUS
  <2> HIDE DEF i
  <2>1. /\ i \in Slots /\ inHand[t] = None /\ client' = client /\ clients' = clients
        /\ ids' = ids /\ cut' = cut /\ Head(toServer[i]) \in ToServer
    BY <1>0, <1>6, <2>0, ServerReadsView
  <2>2. \/ known' = known /\ inHand' = inHand
        \/ /\ i \in clients[t] /\ known' = known \cup {i}
           /\ inHand' = [inHand EXCEPT ![t] = Head(toServer[i])]
    BY <1>0, <1>6, <2>0, ServerReadsView
  <2>3. CASE known' = known /\ inHand' = inHand
    BY <1>1, <2>1, <2>3
  <2>4. CASE /\ i \in clients[t] /\ known' = known \cup {i}
             /\ inHand' = [inHand EXCEPT ![t] = Head(toServer[i])]
    <3>1. CASE s = t
      <4>1. before \subseteq after BY <2>1, <2>4
      <4>2. inHand'[s] # None
        BY <1>0, <2>1, <2>4, <3>1, NoneAssumption DEF TypeOK, ToServer
      <4> HIDE DEF before, after
      <4> QED BY <1>000, <2>1, <4>1, <4>2
    <3>2. CASE s # t
      <4>1. i \notin clients[s] BY <1>00, <2>0, <2>1, <3>2, ServedOnce
      <4>2. clients'[s] \cap known' = clients[s] \cap known BY <2>1, <2>4, <4>1
      <4>3. inHand'[s] = inHand[s] BY <1>0, <2>4, <3>2 DEF TypeOK
      <4> QED BY <1>1, <2>1, <4>2, <4>3
    <3> QED BY <3>1, <3>2
  <2> QED BY <2>2, <2>3, <2>4
<1>7. ASSUME NEW t \in Devices, InsertId(t)
      PROVE  Tracked
  <2>1. /\ inHand[t] # None /\ ids' = [ids EXCEPT ![t] = @ \cup {client[serving[t]].from}]
        /\ inHand' = [inHand EXCEPT ![t] = None]
        /\ client' = client /\ clients' = clients /\ known' = known /\ cut' = cut
    BY <1>7 DEF InsertId
  <2>2. CASE s = t /\ serving[s] \in clients[s]
    <3>1. serving[s] \in known BY <1>0, <2>1, <2>2 DEF ServerInv
    <3>2. clients[s] \cap known = {serving[s]} BY <1>00, <2>2, <3>1
    <3>3. before = {client[serving[s]].from} /\ after = before
      BY <2>1, <3>2
    <3>4. ids'[s] = ids[s] \cup {client[serving[s]].from} BY <1>0, <2>1, <2>2 DEF TypeOK
    <3> HIDE DEF before, after
    <3> QED BY <1>000, <2>1, <3>3, <3>4
  <2>4. CASE s = t /\ serving[s] \notin clients[s]
    <3>1. s \in cut' BY <1>0, <2>1, <2>4 DEF ServerInv
    <3>2. clients[s] = {} BY <1>00, <2>4
    <3>3. after = {} BY <2>1, <3>2
    <3> HIDE DEF after
    <3> QED BY <3>1, <3>3
  <2>3. CASE s # t
    BY <1>0, <1>1, <2>1, <2>3 DEF TypeOK
  <2> QED BY <2>2, <2>3, <2>4
<1>8. ASSUME NEW t \in Devices, NEW i \in Slots, i \in clients[t], Forget(t, i),
             client' = client, inHand' = inHand, s \notin cut' => s \notin cut
      PROVE  Tracked
  <2>1. /\ clients[t] = {i} /\ clients' = [clients EXCEPT ![t] = {}]
        /\ known' = known \ {i} /\ \A u \in Devices \ {t} : i \notin clients[u]
        /\ ids' = [ids EXCEPT ![t] = IF i \in known THEN @ \ {client[i].from} ELSE @]
    BY <1>8, ForgetView
  <2>2. CASE s = t
    <3>1. after = {} BY <1>0, <2>1, <2>2 DEF TypeOK
    <3>2. ids'[s] = IF i \in known THEN ids[s] \ {client[i].from} ELSE ids[s]
      BY <1>0, <2>1, <2>2 DEF TypeOK
    <3>3. before \subseteq IF i \in known THEN {client[i].from} ELSE {}
      BY <2>1, <2>2
    <3> HIDE DEF before, after
    <3> QED BY <1>000, <1>8, <3>1, <3>2, <3>3
  <2>3. CASE s # t
    <3>1. clients'[s] \cap known' = clients[s] \cap known /\ ids'[s] = ids[s]
      BY <1>0, <2>1, <2>3 DEF TypeOK
    <3> QED BY <1>1, <1>8, <3>1
  <2> QED BY <2>2, <2>3
<1>9. ASSUME NEW t \in Devices, ServerEnds(t)
      PROVE  Tracked
  <2>1. /\ client' = client /\ inHand' = inHand /\ cut' = cut
        /\ \/ serving[t] \in clients[t] /\ Forget(t, serving[t])
           \/ clients' = clients /\ known' = known /\ ids' = ids
    BY <1>9 DEF ServerEnds
  <2>2. serving[t] \in clients[t] => serving[t] \in Slots BY <1>00
  <2> QED BY <1>1, <1>8, <2>1, <2>2
<1>10. ASSUME NEW t \in Devices, NEW i \in Slots, ServerTick(t, i)
       PROVE  Tracked
  <2>1. /\ client' = client /\ inHand' = inHand /\ i \in clients[t]
        /\ s \notin cut' => s \notin cut
        /\ \/ Forget(t, i)
           \/ clients' = clients /\ known' = known /\ ids' = ids
    BY <1>10 DEF ServerTick
  <2> QED BY <1>1, <1>8, <2>1
<1>11. ASSUME NEW d \in Devices, Restart(d)
       PROVE  Tracked
  <2>1. /\ inHand' = [inHand EXCEPT ![d] = None]
        /\ clients' = [clients EXCEPT ![d] = {}] /\ ids' = [ids EXCEPT ![d] = {}]
        /\ known' = known \ clients[d] /\ cut' = cut \ {d}
        /\ \A i \in Slots : client'[i].from = client[i].from
    BY <1>11, RestartServers
  <2>2. CASE s = d
    <3>1. after = {} /\ ids'[s] = {} BY <1>0, <2>1, <2>2 DEF TypeOK
    <3> HIDE DEF after
    <3> QED BY <3>1
  <2>3. CASE s # d
    <3>1. \A i \in clients[s] : i \notin clients[d] BY <1>00, <2>3, ServedOnce
    <3>2. clients'[s] \cap known' = clients[s] \cap known
      BY <1>0, <2>1, <2>3, <3>1 DEF TypeOK
    <3>3. ids'[s] = ids[s] /\ inHand'[s] = inHand[s] /\ (s \notin cut' => s \notin cut)
      BY <1>0, <2>1, <2>3 DEF TypeOK
    <3> QED BY <1>00, <1>1, <2>1, <3>2, <3>3
  <2> QED BY <2>2, <2>3
<1>12. ASSUME UNCHANGED vars
       PROVE  Tracked
  <2>1. /\ inHand' = inHand /\ clients' = clients /\ known' = known /\ ids' = ids
        /\ client' = client /\ cut' = cut
    BY <1>12 DEF vars, server
  <2> QED BY <1>1, <2>1
<1> QED
  <2>1. Tracked
    <3> HIDE DEF before, after
    <3> QED
      BY <1>2, <1>3, <1>4, <1>5, <1>6, <1>7, <1>9, <1>10, <1>11, <1>12, StepCases
  <2> QED BY <2>1

-----------------------------------------------------------------------------
(* Theorems *)

\* At first there are no connections.
LEMMA InitInv == ASSUME Init PROVE TypeOK /\ ConnInv
<1>1. client \in [Slots -> ClientRecords] BY UnusedType DEF Init
<1>2. TypeOK BY <1>1 DEF Init, TypeOK
<1>3. \A i \in Slots : ~Trying(i) /\ client[i].from = None /\ Fresh(i)
  BY DEF Init, Unused, Trying, Fresh
<1>4. MapOwner BY <1>3, NoneAssumption DEF Init, MapOwner
<1>5. SlotInv BY <1>3 DEF Init, SlotInv, SlotOK, Unused
<1>6. OneInbound /\ ServerInv /\ IdsTracked
  BY <1>2 DEF Init, OneInbound, ServerInv, IdsTracked, Registered, TypeOK
<1> QED BY <1>2, <1>4, <1>5, <1>6 DEF ConnInv

\* The types and the invariant in every reachable state.
LEMMA InvAlways == Spec => [](TypeOK /\ ConnInv)
<1>1. Init => TypeOK /\ ConnInv
  BY InitInv
<1>2. TypeOK /\ ConnInv /\ [Next]_vars => (TypeOK /\ ConnInv)'
  <2> SUFFICES ASSUME TypeOK, ConnInv, [Next]_vars PROVE (TypeOK /\ ConnInv)'
    OBVIOUS
  <2>1. TypeOK' BY TypeStep DEF ConnInv
  <2>2. ConnInv'
    BY MapOwnerStep, SlotStep, OneInboundStep, ServerStep, IdsStep
       DEF ConnInv
  <2> QED BY <2>1, <2>2
<1> QED BY <1>1, <1>2, PTL DEF Spec

\* The types, for any number of devices and connections; a message is in hand only
\* while its connection is handled.
THEOREM Types == Spec => []TypeOK
BY InvAlways, PTL

\* The map of clients holds exactly the connections whose connect task runs: no
\* clean-up removes a later connection's entry, none is dialled over another.
THEOREM MapHoldsItsOwn == Spec => []MapOwner
<1>1. ConnInv => MapOwner BY DEF ConnInv
<1> QED BY <1>1, InvAlways, PTL

\* connected_device_ids names every registered client, whatever breaks, times out or
\* restarts; it names nobody else unless the heartbeat timeout has removed a client
\* between its first message and the entry of its id.
THEOREM IdsNameClients == Spec => []IdsTracked
<1>1. ConnInv => IdsTracked BY DEF ConnInv
<1> QED BY <1>1, InvAlways, PTL
===============================================================================
