---------------------------- MODULE ClipboardSync ----------------------------
(***************************************************************************)
(* Clipboard synchronisation between devices: on each device the polling   *)
(* monitor, the push task (handle_clipboard_changes_task), one receiving   *)
(* task for the server side (handle_incoming_messages_task), one receiving *)
(* task per outbound connection (spawned by connect_to_device), and the    *)
(* deduplication service and clipboard writer they share.                  *)
(*                                                                         *)
(* A content stands for its SHA-256 hash as well: two contents have the    *)
(* same hash iff they are equal.  Every `.await` on a shared lock is a     *)
(* step of its own, because other tasks run between two of them.           *)
(***************************************************************************)
EXTENDS Naturals, Sequences, FiniteSets, FifoCache

CONSTANTS
  Devices,      \* the devices on the network
  Contents,     \* what a user may copy
  Oversize,     \* the contents above MAX_CONTENT_SIZE (10 MB)
  NoContent,    \* nothing readable on the clipboard; `None` in last_hash
  Links,        \* connections <<client, server>>; both directions may exist
  Paired,       \* <<d, e>>: d has e in its paired_devices table
  CacheSize,    \* UUID_CACHE_SIZE = HASH_CACHE_SIZE = 1000
  MaxAttempts,  \* MAX_RETRY_ATTEMPTS = 3
  Copiers,      \* bound: the devices whose users copy something
  MaxCopies,    \* bound: how often the users copy something
  MaxFaults,    \* bound: how many crashes and disconnections happen
  MaxPushes     \* bound: how many messages each device creates

ASSUME DevicesAssumption == Links \subseteq Devices \X Devices
ASSUME NoSelfLink == \A l \in Links : l[1] # l[2]
ASSUME CopiersAssumption == Copiers \subseteq Devices
ASSUME NoContentAssumption == NoContent \notin Contents
ASSUME OversizeAssumption == Oversize \subseteq Contents
ASSUME CacheSizeAssumption == CacheSize \in Nat \ {0}
ASSUME MaxAttemptsAssumption == MaxAttempts \in Nat \ {0}

VARIABLES
  clipboard,    \* the system clipboard of each device
  lastHash,     \* ClipboardMonitor.last_hash
  changes,      \* the channel from the monitor to the push task
  push,         \* the push task: where it is and the content it pushes
  rx,           \* the receiving tasks: where they are, their message, retries
  uuidCache,    \* DeduplicationService.uuid_cache
  hashCache,    \* DeduplicationService.hash_cache
  writerCache,  \* ClipboardWriter.uuid_cache
  linkUp,       \* the connections that are established
  up,           \* messages from client to server, in order
  down,         \* messages from server to client: broadcast() spawns one task
                \* per message, so their order is not kept
  history,      \* the storage requests each device has made
  copies,       \* number of copies so far (bound)
  faults,       \* number of crashes and disconnections so far (bound)
  \* history variables, in no guard:
  epoch,        \* how often the device has restarted
  copied,       \* what the device's user has copied
  sent,         \* the messages a device has created; the position is the UUID
  marks,        \* every hash marked in hashCache since the device started
  written,      \* the messages written to the clipboard since it started
  failed        \* UUIDs whose write was given up after MaxAttempts

net    == <<linkUp, up, down>>
caches == <<uuidCache, hashCache, writerCache>>
bounds == <<copies, faults>>
ghosts == <<epoch, copied, sent, marks, written, failed>>
vars   == <<clipboard, lastHash, changes, push, rx, caches, net, history,
            bounds, ghosts>>

-----------------------------------------------------------------------------
\* The receiving tasks.  <<d, d>> is the server task of d, which reads what all
\* clients of d send; <<c, s>> is the task of c for its connection to s.
Tasks == Links \cup {<<d, d>> : d \in Devices}
TasksOf(d) == {t \in Tasks : t[1] = d}

Uuids == Devices \X Nat
Messages == [uuid : Uuids, content : Contents]
Sender(m) == m.uuid[1]

Idle == [pc |-> "idle", content |-> NoContent]
RxIdle == [pc |-> "idle", msg |-> NoContent, tries |-> 0]

PushPcs == {"send", "mark"}
RxPcs == {"hash", "writer", "write", "remember", "markUuid", "markHash"}

Init ==
  /\ clipboard   = [d \in Devices |-> NoContent]
  /\ lastHash    = [d \in Devices |-> NoContent]
  /\ changes     = [d \in Devices |-> <<>>]
  /\ push        = [d \in Devices |-> Idle]
  /\ rx          = [t \in Tasks |-> RxIdle]
  /\ uuidCache   = [d \in Devices |-> <<>>]
  /\ hashCache   = [d \in Devices |-> <<>>]
  /\ writerCache = [d \in Devices |-> <<>>]
  /\ linkUp      = Links
  /\ up          = [l \in Links |-> <<>>]
  /\ down        = [l \in Links |-> {}]
  /\ history     = [d \in Devices |-> <<>>]
  /\ copies = 0
  /\ faults = 0
  /\ epoch   = [d \in Devices |-> 0]
  /\ copied  = [d \in Devices |-> {}]
  /\ sent    = [d \in Devices |-> <<>>]
  /\ marks   = [d \in Devices |-> <<>>]
  /\ written = [d \in Devices |-> <<>>]
  /\ failed  = [d \in Devices |-> {}]

-----------------------------------------------------------------------------
(* The user and the monitor *)

\* The user of d copies x.
UserCopy(d, x) ==
  /\ copies < MaxCopies
  /\ copies' = copies + 1
  /\ clipboard' = [clipboard EXCEPT ![d] = x]
  /\ copied' = [copied EXCEPT ![d] = @ \cup {x}]
  /\ UNCHANGED <<lastHash, changes, push, rx, caches, net, history, faults,
                 epoch, sent, marks, written, failed>>

\* check_clipboard, every 500 ms.  A failed read, an oversize content and an
\* unchanged one change nothing; is_from_network() always returns false.
Poll(d) ==
  /\ clipboard[d] \notin {NoContent, lastHash[d]} \cup Oversize
  /\ lastHash' = [lastHash EXCEPT ![d] = clipboard[d]]
  /\ changes' = [changes EXCEPT ![d] = Append(@, clipboard[d])]
  /\ UNCHANGED <<clipboard, push, rx, caches, net, history, bounds, ghosts>>

-----------------------------------------------------------------------------
(* The push task *)

\* should_send_message
ShouldSend(d, x) == ~Holds(hashCache[d], x)

\* Receive a change; skip it when its hash is cached, otherwise create the
\* message with a fresh UUID.
TakeChange(d) ==
  /\ push[d] = Idle
  /\ changes[d] # <<>>
  /\ changes' = [changes EXCEPT ![d] = Tail(@)]
  /\ LET x == Head(changes[d]) IN
       IF ShouldSend(d, x)
       THEN /\ Len(sent[d]) < MaxPushes[d]
            /\ push' = [push EXCEPT ![d] = [pc |-> "send", content |-> x]]
            /\ sent' = [sent EXCEPT ![d] = Append(@,
                 [content |-> x, at |-> Len(marks[d]), epoch |-> epoch[d]])]
       ELSE UNCHANGED <<push, sent>>
  /\ UNCHANGED <<clipboard, lastHash, rx, caches, net, history, bounds,
                 epoch, copied, marks, written, failed>>

\* The message the push task of d is sending.
Outgoing(d) == [uuid |-> <<d, Len(sent[d])>>, content |-> push[d].content]

\* ws_server.broadcast, one spawned send per client connected to d, then
\* client.send on every outbound connection; one that is not connected fails and
\* only logs.  The messages leave in one step: a later departure is a longer
\* stay in the channel.
Send(d) ==
  /\ push[d].pc = "send"
  /\ down' = [l \in Links |->
       IF l[2] = d /\ l \in linkUp THEN down[l] \cup {Outgoing(d)} ELSE down[l]]
  /\ up' = [l \in Links |->
       IF l[1] = d /\ l \in linkUp THEN Append(up[l], Outgoing(d)) ELSE up[l]]
  /\ push' = [push EXCEPT ![d].pc = "mark"]
  /\ UNCHANGED <<clipboard, lastHash, changes, rx, caches, linkUp, history,
                 bounds, ghosts>>

\* add_hash
MarkHash(d, x) ==
  /\ hashCache' = [hashCache EXCEPT ![d] = Add(@, x, CacheSize)]
  /\ marks' = [marks EXCEPT ![d] = Append(@, x)]

Record(d, x, from) ==
  history' = [history EXCEPT ![d] = Append(@, [content |-> x, from |-> from])]

\* Mutant of MarkSent: the hash is not marked after the push.
MarkSentForgotten(d) ==
  /\ push[d].pc = "mark"
  /\ Record(d, push[d].content, d)
  /\ push' = [push EXCEPT ![d] = Idle]
  /\ UNCHANGED <<clipboard, lastHash, changes, rx, caches, net, bounds, ghosts>>

\* mark_message_sent, then the storage request: after the sends, not before.
MarkSent(d) ==
  /\ push[d].pc = "mark"
  /\ MarkHash(d, push[d].content)
  /\ Record(d, push[d].content, d)
  /\ push' = [push EXCEPT ![d] = Idle]
  /\ UNCHANGED <<clipboard, lastHash, changes, rx, uuidCache, writerCache, net,
                 bounds, epoch, copied, sent, written, failed>>

-----------------------------------------------------------------------------
(* The receiving tasks.  Each handles one message at a time. *)

Become(t, pc) == rx' = [rx EXCEPT ![t].pc = pc]
Finish(t) == rx' = [rx EXCEPT ![t] = RxIdle]

\* Task t has m: it checks the pairing with its sender and, first half of
\* should_process_message, the UUID.
Accept(t, m) ==
  IF <<t[1], Sender(m)>> \in Paired /\ ~Holds(uuidCache[t[1]], m.uuid)
  THEN rx' = [rx EXCEPT ![t] = [pc |-> "hash", msg |-> m, tries |-> 0]]
  ELSE UNCHANGED rx

\* Mutant of ReceiveOnServer: the newest message is taken first.
ReceiveNewestOnServer(d, l) ==
  /\ l[2] = d
  /\ rx[<<d, d>>] = RxIdle
  /\ up[l] # <<>>
  /\ up' = [up EXCEPT ![l] = SubSeq(@, 1, Len(@) - 1)]
  /\ Accept(<<d, d>>, up[l][Len(up[l])])
  /\ UNCHANGED <<clipboard, lastHash, changes, push, caches, linkUp, down,
                 history, bounds, ghosts>>

\* Mutant of ReceiveOnServer: the task does not wait for the message in its hand.
ReceiveOnServerBusy(d, l) ==
  /\ l[2] = d
  /\ up[l] # <<>>
  /\ up' = [up EXCEPT ![l] = Tail(@)]
  /\ Accept(<<d, d>>, Head(up[l]))
  /\ UNCHANGED <<clipboard, lastHash, changes, push, caches, linkUp, down,
                 history, bounds, ghosts>>

ReceiveOnServer(d, l) ==
  /\ l[2] = d
  /\ rx[<<d, d>>] = RxIdle
  /\ up[l] # <<>>
  /\ up' = [up EXCEPT ![l] = Tail(@)]
  /\ Accept(<<d, d>>, Head(up[l]))
  /\ UNCHANGED <<clipboard, lastHash, changes, push, caches, linkUp, down,
                 history, bounds, ghosts>>

ReceiveOnClient(l, m) ==
  /\ rx[l] = RxIdle
  /\ m \in down[l]
  /\ down' = [down EXCEPT ![l] = @ \ {m}]
  /\ Accept(l, m)
  /\ UNCHANGED <<clipboard, lastHash, changes, push, caches, linkUp, up,
                 history, bounds, ghosts>>

\* What a checking step of task t leaves alone.
OnlyRx == UNCHANGED <<clipboard, lastHash, changes, push, caches, net, history,
                      bounds, ghosts>>

\* Mutant of CheckHash: the content hash is not consulted.
CheckHashForgotten(t) ==
  /\ rx[t].pc = "hash"
  /\ Become(t, "writer")
  /\ OnlyRx

\* The second half of should_process_message, under another lock: the hash.
CheckHash(t) ==
  /\ rx[t].pc = "hash"
  /\ IF Holds(hashCache[t[1]], rx[t].msg.content)
     THEN Finish(t)
     ELSE Become(t, "writer")
  /\ OnlyRx

\* ClipboardWriter.write: its own UUID check ...
CheckWriter(t) ==
  /\ rx[t].pc = "writer"
  /\ IF Holds(writerCache[t[1]], rx[t].msg.uuid)
     THEN Finish(t)
     ELSE Become(t, "write")
  /\ OnlyRx

\* ... write_with_retry: an attempt succeeds ...
WriteOk(t) ==
  /\ rx[t].pc = "write"
  /\ clipboard' = [clipboard EXCEPT ![t[1]] = rx[t].msg.content]
  /\ written' = [written EXCEPT ![t[1]] = Append(@,
       [msg |-> rx[t].msg, task |-> t, at |-> Len(marks[t[1]])])]
  /\ Become(t, "remember")
  /\ UNCHANGED <<lastHash, changes, push, caches, net, history, bounds,
                 epoch, copied, sent, marks, failed>>

\* Mutant of WriteFails: the counter is compared one too late, and the task
\* waits for an attempt that is never made.
WriteFailsStuck(t) ==
  /\ rx[t].pc = "write"
  /\ rx[t].tries < MaxAttempts
  /\ IF rx[t].tries + 1 > MaxAttempts
     THEN /\ Finish(t)
          /\ failed' = [failed EXCEPT ![t[1]] = @ \cup {rx[t].msg.uuid}]
     ELSE /\ rx' = [rx EXCEPT ![t].tries = @ + 1,
                              ![t].pc = IF rx[t].tries + 1 = MaxAttempts
                                        THEN "waiting" ELSE "write"]
          /\ UNCHANGED failed
  /\ UNCHANGED <<clipboard, lastHash, changes, push, caches, net, history, bounds,
                 epoch, copied, sent, marks, written>>

\* ... or fails, because the clipboard is locked: try again after 100 ms, and
\* give the message up after MaxAttempts.  Nothing is marked then.
WriteFails(t) ==
  /\ rx[t].pc = "write"
  /\ IF rx[t].tries + 1 >= MaxAttempts
     THEN /\ Finish(t)
          /\ failed' = [failed EXCEPT ![t[1]] = @ \cup {rx[t].msg.uuid}]
     ELSE /\ rx' = [rx EXCEPT ![t].tries = @ + 1]
          /\ UNCHANGED failed
  /\ UNCHANGED <<clipboard, lastHash, changes, push, caches, net, history, bounds,
                 epoch, copied, sent, marks, written>>

\* add_uuid_to_cache of the writer
RememberWrite(t) ==
  /\ rx[t].pc = "remember"
  /\ writerCache' = [writerCache EXCEPT ![t[1]] = Add(@, rx[t].msg.uuid, CacheSize)]
  /\ Become(t, "markUuid")
  /\ UNCHANGED <<clipboard, lastHash, changes, push, uuidCache, hashCache, net,
                 history, bounds, ghosts>>

\* mark_message_processed: add_uuid ...
MarkUuid(t) ==
  /\ rx[t].pc = "markUuid"
  /\ uuidCache' = [uuidCache EXCEPT ![t[1]] = Add(@, rx[t].msg.uuid, CacheSize)]
  /\ Become(t, "markHash")
  /\ UNCHANGED <<clipboard, lastHash, changes, push, hashCache, writerCache, net,
                 history, bounds, ghosts>>

\* ... add_hash, and the storage request.
MarkProcessed(t) ==
  /\ rx[t].pc = "markHash"
  /\ MarkHash(t[1], rx[t].msg.content)
  /\ Record(t[1], rx[t].msg.content, Sender(rx[t].msg))
  /\ Finish(t)
  /\ UNCHANGED <<clipboard, lastHash, changes, push, uuidCache, writerCache, net,
                 bounds, epoch, copied, sent, written, failed>>

-----------------------------------------------------------------------------
(* Faults: a connection breaks and comes back, a device restarts *)

\* Messages that have not reached the receiving task's channel are lost: a
\* suffix of the ordered direction, any part of the unordered one.
LinkDown(l) ==
  /\ faults < MaxFaults
  /\ faults' = faults + 1
  /\ l \in linkUp
  /\ linkUp' = linkUp \ {l}
  /\ \E n \in 0..Len(up[l]) : up' = [up EXCEPT ![l] = SubSeq(@, 1, n)]
  /\ \E kept \in SUBSET down[l] : down' = [down EXCEPT ![l] = kept]
  /\ UNCHANGED <<clipboard, lastHash, changes, push, rx, caches, history, copies,
                 ghosts>>

\* connect_to_device has a new client and a new receiving task.  Bound: the task of the
\* old connection has ended by then.  It does when its channel is empty; that it is
\* still waiting for the clipboard while the next round of the discovery task connects
\* again, so that two tasks of one client work at once, is left out.
LinkRestored(l) ==
  /\ l \notin linkUp
  /\ rx[l] = RxIdle /\ down[l] = {}
  /\ linkUp' = linkUp \cup {l}
  /\ UNCHANGED <<clipboard, lastHash, changes, push, rx, caches, up, down, history,
                 bounds, ghosts>>

\* The process of d ends and starts again: everything but the clipboard and
\* the history is lost.  The monitor reads the clipboard before it polls, and
\* starts with no last hash when that read fails.  What d has already sent may
\* still arrive.
Restart(d) ==
  /\ faults < MaxFaults
  /\ faults' = faults + 1
  /\ \E h \in {clipboard[d], NoContent} : lastHash' = [lastHash EXCEPT ![d] = h]
  /\ changes'     = [changes EXCEPT ![d] = <<>>]
  /\ push'        = [push EXCEPT ![d] = Idle]
  /\ rx'          = [t \in Tasks |-> IF t[1] = d THEN RxIdle ELSE rx[t]]
  /\ uuidCache'   = [uuidCache EXCEPT ![d] = <<>>]
  /\ hashCache'   = [hashCache EXCEPT ![d] = <<>>]
  /\ writerCache' = [writerCache EXCEPT ![d] = <<>>]
  /\ linkUp'      = {l \in linkUp : d \notin {l[1], l[2]}}
  /\ up'          = [l \in Links |-> IF l[2] = d THEN <<>> ELSE up[l]]
  /\ down'        = [l \in Links |-> IF l[1] = d THEN {} ELSE down[l]]
  /\ epoch'       = [epoch EXCEPT ![d] = @ + 1]
  /\ marks'       = [marks EXCEPT ![d] = <<>>]
  /\ written'     = [written EXCEPT ![d] = <<>>]
  /\ UNCHANGED <<clipboard, history, copies, copied, sent, failed>>

-----------------------------------------------------------------------------
PushStep(d) == TakeChange(d) \/ Send(d) \/ MarkSent(d)

Receive(t) ==
  \/ \E l \in Links : t = <<l[2], l[2]>> /\ ReceiveOnServer(l[2], l)
  \/ t \in Links /\ \E m \in down[t] : ReceiveOnClient(t, m)

RxStep(t) ==
  \/ Receive(t)
  \/ CheckHash(t)
  \/ CheckWriter(t)
  \/ WriteOk(t)
  \/ WriteFails(t)
  \/ RememberWrite(t)
  \/ MarkUuid(t)
  \/ MarkProcessed(t)

Next ==
  \/ \E d \in Copiers, x \in Contents : UserCopy(d, x)
  \/ \E d \in Devices : Poll(d) \/ PushStep(d) \/ Restart(d)
  \/ \E t \in Tasks : RxStep(t)
  \/ \E l \in Links : LinkDown(l) \/ LinkRestored(l)

Spec == Init /\ [][Next]_vars

\* The tasks run on the tokio scheduler, which never starves a ready task, and
\* the monitor polls forever.  Users need not copy and faults need not happen.
Fairness ==
  /\ \A d \in Devices : WF_vars(Poll(d)) /\ WF_vars(PushStep(d))
  /\ \A t \in Tasks : WF_vars(RxStep(t))

FairSpec == Spec /\ Fairness

-----------------------------------------------------------------------------
(* Properties *)

\* Types, and what each place of a task implies about its registers.
TypeOK ==
  /\ clipboard \in [Devices -> Contents \cup {NoContent}]
  /\ lastHash \in [Devices -> Contents \cup {NoContent}]
  /\ changes \in [Devices -> Seq(Contents)]
  /\ push \in [Devices -> {Idle} \cup [pc : PushPcs, content : Contents]]
  /\ rx \in [Tasks ->
       {RxIdle} \cup [pc : RxPcs, msg : Messages, tries : 0..MaxAttempts - 1]]
  /\ uuidCache \in [Devices -> Seq(Uuids)]
  /\ hashCache \in [Devices -> Seq(Contents)]
  /\ writerCache \in [Devices -> Seq(Uuids)]
  /\ linkUp \subseteq Links
  /\ up \in [Links -> Seq(Messages)]
  /\ down \in [Links -> SUBSET Messages]
  /\ history \in [Devices -> Seq([content : Contents, from : Devices])]
  /\ copies \in Nat /\ faults \in Nat
  /\ epoch \in [Devices -> Nat]
  /\ copied \in [Devices -> SUBSET Contents]
  /\ sent \in [Devices -> Seq([content : Contents, at : Nat, epoch : Nat])]
  /\ marks \in [Devices -> Seq(Contents)]
  /\ written \in [Devices -> Seq([msg : Messages, task : Tasks, at : Nat])]
  /\ failed \in [Devices -> SUBSET Uuids]

\* Deduplication, sending side.  Two pushes of one content by one run of a
\* device are more than CacheSize marks apart: whatever the other devices echo,
\* a content circulates at most once per CacheSize other contents.  It relies
\* on the push task handling one change at a time and marking what it pushed
\* before it takes the next.
PushSpacing ==
  \A d \in Devices : \A i, j \in 1..Len(sent[d]) :
    (/\ i < j
     /\ sent[d][i].content = sent[d][j].content
     /\ sent[d][i].epoch = sent[d][j].epoch)
    => sent[d][j].at > sent[d][i].at + CacheSize

\* Deduplication, receiving side.  One receiving task writes a content to the
\* clipboard again only after CacheSize other marks, in whatever messages and
\* from whichever devices it comes.  (Two tasks may each write it once: see
\* MessageWrittenOnce.)
WriteSpacing ==
  \A d \in Devices : \A i, j \in 1..Len(written[d]) :
    (/\ i < j
     /\ written[d][i].msg.content = written[d][j].msg.content
     /\ written[d][i].task = written[d][j].task)
    => written[d][j].at > written[d][i].at + CacheSize

\* x is in the log after its first n entries.
MarkedSince(log, x, n) == \E k \in n + 1..Len(log) : log[k] = x

WriteDone == {"remember", "markUuid", "markHash"}

\* The inductive strengthening of PushSpacing and WriteSpacing: the hash cache
\* is the window of the last marks; what a device pushed or wrote in this run is
\* marked, or the task that did it has yet to mark it; and a task that is past
\* its hash check writes nothing it wrote within the window.
HashWindow == \A d \in Devices : IsWindow(hashCache[d], marks[d], CacheSize)

\* e: an entry of sent; ep, log, p: epoch, marks and push of its device
PushSafe(e, ep, log, p) ==
  /\ e.epoch <= ep
  /\ e.epoch = ep =>
       /\ e.at <= Len(log)
       /\ \/ p.pc \in PushPcs /\ p.content = e.content
          \/ MarkedSince(log, e.content, e.at)

PushMarked ==
  \A d \in Devices : \A i \in 1..Len(sent[d]) :
    PushSafe(sent[d][i], epoch[d], marks[d], push[d])

\* w: an entry of written; log: the marks of its device; r: the rx of its task
WriteSafe(w, log, r) ==
  /\ w.at <= Len(log)
  /\ \/ r.pc \in WriteDone /\ r.msg.content = w.msg.content
     \/ MarkedSince(log, w.msg.content, w.at)

WriteMarked ==
  \A d \in Devices : \A i \in 1..Len(written[d]) :
    LET w == written[d][i] IN
      w.task[1] = d /\ WriteSafe(w, marks[d], rx[w.task])

WriteCleared ==
  \A t \in Tasks : rx[t].pc \in {"writer", "write"} =>
    \A i \in 1..Len(written[t[1]]) :
      LET w == written[t[1]][i] IN
        w.task = t /\ w.msg.content = rx[t].msg.content
          => Len(marks[t[1]]) > w.at + CacheSize

SpacingInv ==
  /\ HashWindow
  /\ PushMarked /\ PushSpacing
  /\ WriteMarked /\ WriteCleared /\ WriteSpacing

\* When s reaches d only as d's client, d writes the messages of s in the order
\* s pushed them, through retries, echoes, broken connections and restarts:
\* client.send, the socket and the server's single receiving task are FIFO.
\* (Towards a client, broadcast() spawns its sends and no order is promised.)
InOrderWrites ==
  \A s, d \in Devices :
    <<s, d>> \in Links /\ <<d, s>> \notin Links =>
      \A i, j \in 1..Len(written[d]) :
        LET m == written[d][i].msg
            n == written[d][j].msg
        IN  i < j /\ Sender(m) = s /\ Sender(n) = s => m.uuid[2] < n.uuid[2]

\* d has dealt with the n-th message of s: its content is marked at d, its
\* write was given up, or s is not paired.
Settled(d, s, n) ==
  \/ Holds(marks[d], sent[s][n].content)
  \/ <<s, n>> \in failed[d]
  \/ <<d, s>> \notin Paired

\* While connections and devices stay up, every message pushed is dealt with on
\* every connected device (with pushes bounded, there is again and again a moment
\* when all are); a clipboard that stays locked delays the messages behind it but
\* does not stop them.
EveryPushSettles ==
  []<>(\A l \in Links : \A s, d \in {l[1], l[2]} : \A n \in 1..Len(sent[s]) :
         s # d => Settled(d, s, n))

\* The n-th message of s is on its way to d: it is being sent, on a connection
\* between the two, or in the hand of a task of d.
OnItsWay(d, s, n) ==
  \/ push[s].pc = "send" /\ n = Len(sent[s])
  \/ <<s, d>> \in Links /\ \E i \in 1..Len(up[<<s, d>>]) : up[<<s, d>>][i].uuid = <<s, n>>
  \/ <<d, s>> \in Links /\ \E m \in down[<<d, s>>] : m.uuid = <<s, n>>
  \/ \E t \in TasksOf(d) : rx[t].pc \in RxPcs /\ rx[t].msg.uuid = <<s, n>>

\* Without a fault no message is skipped at any connected device: it is dealt with or
\* on its way, at every moment.  Four checks, three caches that forget and the tasks of
\* other connections may each have a task drop what it has in hand; whenever one does, the
\* content is marked or another task holds the same message.
NoneSkipped ==
  faults = 0 =>
    \A l \in Links : \A s, d \in {l[1], l[2]} : \A n \in 1..Len(sent[s]) :
      s # d => Settled(d, s, n) \/ OnItsWay(d, s, n)

\* What came from the network is not pushed again: a device pushes only what
\* its own user copied.
NetworkContentNotPushed ==
  \A d \in Devices : \A i \in 1..Len(sent[d]) : sent[d][i].content \in copied[d]

\* A change to a content that the user of d copied, and that is not the one d
\* pushed last, is pushed.
DifferentContentPushed ==
  [][\A d \in Devices :
       (/\ epoch'[d] = epoch[d]
        /\ Len(changes'[d]) < Len(changes[d])
        /\ Head(changes[d]) \in copied[d])
       => \/ Len(sent'[d]) > Len(sent[d])
          \/ Len(sent[d]) > 0 /\ sent[d][Len(sent[d])].content = Head(changes[d])
    ]_vars

\* A message is written to the clipboard of a device at most once.
MessageWrittenOnce ==
  \A d \in Devices : \A i, j \in 1..Len(written[d]) :
    i # j => written[d][i].msg.uuid # written[d][j].msg.uuid
=============================================================================
