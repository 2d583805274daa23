-------------------------- MODULE SyncSpacingProofs --------------------------
(* Deduplication works across the interleavings of the push task and the     *)
(* receiving tasks: PushSpacing and WriteSpacing hold for any network. And   *)
(* writes keep the order of pushes where a device hears of another only as   *)
(* its server: InOrderWrites.  And no message is skipped: NoneSkipped.       *)
EXTENDS ClipboardSyncProofs

-----------------------------------------------------------------------------
(* What a step is to one device's push task, and to one receiving task *)

MarksKept(d) == marks'[d] = marks[d] /\ hashCache'[d] = hashCache[d]

MarkAdded(d, x) ==
  /\ marks'[d] = Append(marks[d], x)
  /\ hashCache'[d] = Add(hashCache[d], x, CacheSize)

MarksGrow(d) == MarksKept(d) \/ \E x \in Contents : MarkAdded(d, x)

Restarted(d) ==
  /\ marks'[d] = <<>> /\ hashCache'[d] = <<>> /\ written'[d] = <<>>
  /\ epoch'[d] = epoch[d] + 1
  /\ sent'[d] = sent[d]
  /\ push'[d] = Idle
  /\ \A t \in TasksOf(d) : rx'[t] = RxIdle

PushTakes(d) ==
  \E x \in Contents :
    /\ push[d] = Idle
    /\ ~Holds(hashCache[d], x)
    /\ push'[d] = [pc |-> "send", content |-> x]
    /\ sent'[d] = Append(sent[d], [content |-> x, at |-> Len(marks[d]), epoch |-> epoch[d]])
    /\ epoch'[d] = epoch[d]
    /\ MarksKept(d)

PushMarks(d) ==
  /\ push[d].pc \in PushPcs
  /\ push[d].content \in Contents
  /\ MarkAdded(d, push[d].content)
  /\ sent'[d] = sent[d]
  /\ epoch'[d] = epoch[d]

PushQuiet(d) ==
  /\ sent'[d] = sent[d]
  /\ epoch'[d] = epoch[d]
  /\ push[d].pc \in PushPcs =>
       push'[d].pc \in PushPcs /\ push'[d].content = push[d].content
  /\ MarksGrow(d)

PushView(d) == PushTakes(d) \/ PushMarks(d) \/ PushQuiet(d) \/ Restarted(d)

RxClears(t) ==
  /\ rx[t].pc = "hash" /\ rx'[t].pc = "writer" /\ rx'[t].msg = rx[t].msg
  /\ ~Holds(hashCache[t[1]], rx[t].msg.content)
  /\ written'[t[1]] = written[t[1]]
  /\ MarksKept(t[1])

Entry(t) == [msg |-> rx[t].msg, task |-> t, at |-> Len(marks[t[1]])]

RxWrites(t) ==
  /\ rx[t].pc = "write" /\ rx'[t].pc = "remember" /\ rx'[t].msg = rx[t].msg
  /\ written'[t[1]] = Append(written[t[1]], Entry(t))
  /\ MarksKept(t[1])

RxMarks(t) ==
  /\ rx[t].pc = "markHash" /\ rx'[t] = RxIdle
  /\ rx[t].msg.content \in Contents
  /\ MarkAdded(t[1], rx[t].msg.content)
  /\ written'[t[1]] = written[t[1]]

RxQuiet(t) ==
  /\ \/ written'[t[1]] = written[t[1]]
     \/ \E u \in Tasks : /\ u # t /\ u[1] = t[1]
                         /\ written'[t[1]] = Append(written[t[1]], Entry(u))
  /\ rx'[t].pc \in {"writer", "write"} =>
       rx[t].pc \in {"writer", "write"} /\ rx'[t].msg = rx[t].msg
  /\ rx[t].pc \in WriteDone => rx'[t].pc \in WriteDone /\ rx'[t].msg = rx[t].msg
  /\ MarksGrow(t[1])

RxView(t) == RxClears(t) \/ RxWrites(t) \/ RxMarks(t) \/ RxQuiet(t) \/ Restarted(t[1])

-----------------------------------------------------------------------------
LEMMA RestartIsSeen ==
  ASSUME TypeOK, NEW d \in Devices, Restart(d)
  PROVE  Restarted(d)
BY DEF Restart, Restarted, TypeOK, TasksOf

\* A successful write appends the task's message, and moves only the task.
LEMMA WriteIsSeen ==
  ASSUME TypeOK, NEW t \in Tasks, WriteOk(t)
  PROVE  RxWrites(t)
<1>0. rx \in RxType BY DEF TypeOK, RxType
<1>1. UNCHANGED <<marks, hashCache>> /\ rx[t].pc = "write"
  BY DEF WriteOk, caches
<1>2. rx[t] \in [pc : RxPcs, msg : Messages, tries : 0..MaxAttempts - 1]
  BY <1>1, RxBusy DEF RxPcs
<1>3. rx'[t].pc = "remember" /\ rx'[t].msg = rx[t].msg
  BY <1>0, <1>2 DEF WriteOk, Become, RxType
<1>4. written'[t[1]] = Append(written[t[1]], Entry(t))
  BY TaskOwner DEF WriteOk, Entry, TypeOK
<1> QED BY <1>1, <1>3, <1>4 DEF RxWrites, MarksKept

\* Every step is one of these to every push task.
LEMMA PushViews ==
  ASSUME TypeOK, [Next]_vars, NEW d \in Devices
  PROVE  PushView(d)
<1> USE DEF PushView, MarksGrow, MarksKept
<1>1. ASSUME NEW e \in Copiers, NEW x \in Contents, UserCopy(e, x) PROVE PushQuiet(d)
  BY <1>1 DEF UserCopy, PushQuiet, caches
<1>2. ASSUME NEW e \in Devices, Poll(e) PROVE PushQuiet(d)
  BY <1>2 DEF Poll, PushQuiet, caches, ghosts
<1>3. ASSUME NEW e \in Devices, TakeChange(e) PROVE PushQuiet(d) \/ PushTakes(d)
  <2>0. Head(changes[e]) \in Contents
    <3>1. changes[e] \in Seq(Contents) /\ changes[e] # <<>>
      BY <1>3 DEF TakeChange, TypeOK
    <3> QED BY <3>1
  <2>1. CASE e = d /\ ShouldSend(e, Head(changes[e]))
    <3>1. PushTakes(d)
      BY <1>3, <2>0, <2>1 DEF TakeChange, PushTakes, TypeOK, ShouldSend, caches
    <3> QED BY <3>1
  <2>2. CASE ~(e = d /\ ShouldSend(e, Head(changes[e])))
    <3>1. push'[d] = push[d] /\ sent'[d] = sent[d]
      BY <1>3, <2>2 DEF TakeChange, TypeOK
    <3> QED BY <1>3, <3>1 DEF TakeChange, PushQuiet, caches
  <2> QED BY <2>1, <2>2
<1>4. ASSUME NEW e \in Devices, Send(e) PROVE PushQuiet(d)
  <2>1. push'[d].pc \in PushPcs <=> push[d].pc \in PushPcs
    BY <1>4, PushBusy DEF Send, TypeOK, PushPcs
  <2>2. push'[d].content = push[d].content
    BY <1>4, PushBusy DEF Send, TypeOK, PushPcs
  <2> QED BY <1>4, <2>1, <2>2 DEF Send, PushQuiet, caches, ghosts
<1>5. ASSUME NEW e \in Devices, MarkSent(e) PROVE PushQuiet(d) \/ PushMarks(d)
  <2>1. CASE e = d
    <3>1. PushMarks(d)
      BY <1>5, <2>1, PushBusy
      DEF MarkSent, MarkHash, MarkAdded, PushMarks, TypeOK, PushPcs
    <3> QED BY <3>1
  <2>2. CASE e # d
    BY <1>5, <2>2 DEF MarkSent, MarkHash, PushQuiet, TypeOK
  <2> QED BY <2>1, <2>2
<1>6. ASSUME NEW e \in Devices, Restart(e) PROVE PushQuiet(d) \/ Restarted(d)
  <2>1. CASE e = d
    BY <1>6, <2>1, RestartIsSeen
  <2>2. CASE e # d
    BY <1>6, <2>2 DEF Restart, PushQuiet, TypeOK
  <2> QED BY <2>1, <2>2
<1>7. ASSUME NEW t \in Tasks, RxStep(t) PROVE PushQuiet(d)
  <2>1. CASE MarkProcessed(t)
    <3>1. push'[d] = push[d] /\ sent'[d] = sent[d] /\ epoch'[d] = epoch[d]
      BY <2>1 DEF MarkProcessed
    <3>2. CASE t[1] = d
      <4>1. rx[t].msg.content \in Contents
        BY <2>1, RxBusy DEF MarkProcessed, RxPcs
      <4>2. MarkAdded(d, rx[t].msg.content)
        BY <2>1, <3>2 DEF MarkProcessed, MarkHash, MarkAdded, TypeOK
      <4> QED BY <3>1, <4>1, <4>2 DEF PushQuiet
    <3>3. CASE t[1] # d
      BY <2>1, <3>1, <3>3 DEF MarkProcessed, MarkHash, PushQuiet, TypeOK
    <3> QED BY <3>2, <3>3
  <2>2. CASE ~MarkProcessed(t)
    <3>1. UNCHANGED <<push, sent, epoch, marks, hashCache>>
      BY <1>7, <2>2
      DEF RxStep, Receive, ReceiveOnServer, ReceiveOnClient, CheckHash, CheckWriter,
          OnlyRx, WriteOk, WriteFails, RememberWrite, MarkUuid, caches, ghosts
    <3> QED BY <3>1 DEF PushQuiet
  <2> QED BY <2>1, <2>2
<1>8. ASSUME NEW l \in Links, LinkDown(l) \/ LinkRestored(l) PROVE PushQuiet(d)
  BY <1>8 DEF LinkDown, LinkRestored, PushQuiet, caches, ghosts
<1>9. CASE UNCHANGED vars
  BY <1>9 DEF vars, PushQuiet, caches, ghosts
<1> QED BY <1>1, <1>2, <1>3, <1>4, <1>5, <1>6, <1>7, <1>8, <1>9 DEF Next, PushStep

\* Every step is one of these to every receiving task.
LEMMA RxViews ==
  ASSUME TypeOK, [Next]_vars, NEW t \in Tasks
  PROVE  RxView(t)
<1> DEFINE d == t[1]
<1>0. d \in Devices BY TaskOwner
<1>i. RxIdle.pc \notin WriteDone /\ RxIdle.pc \notin {"writer", "write"}
  BY DEF RxIdle, WriteDone
<1>1. CASE UNCHANGED <<rx, written, marks, hashCache>>
  BY <1>1 DEF RxView, RxQuiet, MarksGrow, MarksKept
<1>2. ASSUME NEW e \in Devices, MarkSent(e) PROVE RxView(t)
  <2>1. UNCHANGED <<rx, written>> BY <1>2 DEF MarkSent
  <2>2. MarksGrow(d)
    <3>1. push[e].content \in Contents
      BY <1>2, PushBusy DEF MarkSent, PushPcs
    <3>2. CASE e = d
      <4>1. MarkAdded(d, push[e].content)
        BY <1>2, <3>2 DEF MarkSent, MarkHash, MarkAdded, TypeOK
      <4> QED BY <3>1, <4>1 DEF MarksGrow
    <3>3. CASE e # d
      BY <1>0, <1>2, <3>3 DEF MarkSent, MarkHash, MarksGrow, MarksKept, TypeOK
    <3> QED BY <3>2, <3>3
  <2> QED BY <2>1, <2>2 DEF RxView, RxQuiet
<1>3. ASSUME NEW e \in Devices, Restart(e) PROVE RxView(t)
  <2>1. CASE e = d
    BY <1>0, <1>3, <2>1, RestartIsSeen DEF RxView
  <2>2. CASE e # d
    <3>1. rx'[t] = rx[t] BY <1>3, <2>2 DEF Restart
    <3>2. written'[d] = written[d] /\ marks'[d] = marks[d] /\ hashCache'[d] = hashCache[d]
      BY <1>0, <1>3, <2>2 DEF Restart, TypeOK
    <3> QED BY <3>1, <3>2 DEF RxView, RxQuiet, MarksGrow, MarksKept
  <2> QED BY <2>1, <2>2
<1>4. ASSUME NEW u \in Tasks, RxStep(u), u # t PROVE RxView(t)
  <2>1. rx'[t] = rx[t]
    BY <1>4 DEF RxStep, Receive, ReceiveOnServer, ReceiveOnClient, Accept, CheckHash,
       CheckWriter, WriteOk, WriteFails, RememberWrite, MarkUuid, MarkProcessed,
       Become, Finish, TypeOK
  <2>2. MarksGrow(d)
    <3>1. CASE MarkProcessed(u)
      <4>1. rx[u].msg.content \in Contents
        BY <3>1, RxBusy DEF MarkProcessed, RxPcs
      <4>2. CASE u[1] = d
        <5>1. MarkAdded(d, rx[u].msg.content)
          BY <1>0, <3>1, <4>2 DEF MarkProcessed, MarkHash, MarkAdded, TypeOK
        <5> QED BY <4>1, <5>1 DEF MarksGrow
      <4>3. CASE u[1] # d
        BY <1>0, <3>1, <4>3 DEF MarkProcessed, MarkHash, MarksGrow, MarksKept, TypeOK
      <4> QED BY <4>2, <4>3
    <3>2. CASE ~MarkProcessed(u)
      BY <1>4, <3>2
      DEF RxStep, Receive, ReceiveOnServer, ReceiveOnClient, CheckHash, CheckWriter,
          OnlyRx, WriteOk, WriteFails, RememberWrite, MarkUuid, caches, ghosts,
          MarksGrow, MarksKept
    <3> QED BY <3>1, <3>2
  <2>3. \/ written'[d] = written[d]
        \/ u[1] = d /\ written'[d] = Append(written[d], Entry(u))
    <3>1. CASE WriteOk(u)
      BY <1>0, <3>1 DEF WriteOk, Entry, TypeOK
    <3>2. CASE ~WriteOk(u)
      BY <1>4, <3>2
      DEF RxStep, Receive, ReceiveOnServer, ReceiveOnClient, CheckHash, CheckWriter,
          OnlyRx, WriteFails, RememberWrite, MarkUuid, MarkProcessed, caches, ghosts
    <3> QED BY <3>1, <3>2
  <2> QED BY <1>4, <2>1, <2>2, <2>3 DEF RxView, RxQuiet
<1>5. ASSUME RxStep(t) PROVE RxView(t)
  <2>0. rx \in RxType BY DEF TypeOK, RxType
  <2>1. CASE Receive(t)
    <3>1. UNCHANGED <<written, marks, hashCache>>
      BY <2>1 DEF Receive, ReceiveOnServer, ReceiveOnClient, caches, ghosts
    <3>2. rx[t] = RxIdle
      BY <2>1 DEF Receive, ReceiveOnServer, ReceiveOnClient
    <3>3. rx'[t].pc \in {"hash", "idle"}
      <4>1. PICK m : Accept(t, m)
        BY <2>1 DEF Receive, ReceiveOnServer, ReceiveOnClient
      <4>2. rx' = rx \/ rx' = [rx EXCEPT ![t] = [pc |-> "hash", msg |-> m, tries |-> 0]]
        BY <4>1 DEF Accept
      <4> QED BY <2>0, <3>2, <4>2 DEF RxIdle, RxType
    <3> QED BY <1>i, <3>1, <3>2, <3>3 DEF RxView, RxQuiet, MarksGrow, MarksKept
  <2>2. CASE CheckHash(t)
    <3>1. UNCHANGED <<written, marks, hashCache>>
      BY <2>2 DEF CheckHash, OnlyRx, caches, ghosts
    <3>2. CASE Holds(hashCache[d], rx[t].msg.content)
      <4>1. rx'[t] = RxIdle
        BY <2>0, <2>2, <3>2 DEF CheckHash, Finish, RxType
      <4>2. rx[t].pc \notin WriteDone BY <2>2 DEF CheckHash, WriteDone
      <4> QED BY <1>i, <3>1, <4>1, <4>2 DEF RxView, RxQuiet, MarksGrow, MarksKept
    <3>3. CASE ~Holds(hashCache[d], rx[t].msg.content)
      <4>1. rx[t] \in [pc : RxPcs, msg : Messages, tries : 0..MaxAttempts - 1]
        BY <2>2, RxBusy DEF CheckHash, RxPcs
      <4>2. rx'[t].pc = "writer" /\ rx'[t].msg = rx[t].msg
        BY <2>0, <2>2, <3>3, <4>1 DEF CheckHash, Become, RxType
      <4> QED BY <2>2, <3>1, <3>3, <4>2 DEF RxView, RxClears, MarksKept, CheckHash
    <3> QED BY <3>2, <3>3
  <2>3. CASE CheckWriter(t)
    <3>1. UNCHANGED <<written, marks, hashCache>> /\ rx[t].pc = "writer"
      BY <2>3 DEF CheckWriter, OnlyRx, caches, ghosts
    <3>2. rx[t] \in [pc : RxPcs, msg : Messages, tries : 0..MaxAttempts - 1]
      BY <3>1, RxBusy DEF RxPcs
    <3>3. rx'[t] = RxIdle \/ (rx'[t].pc = "write" /\ rx'[t].msg = rx[t].msg)
      <4>1. Finish(t) \/ Become(t, "write") BY <2>3 DEF CheckWriter
      <4>2. CASE Finish(t)
        <5>1. rx'[t] = RxIdle BY <2>0, <4>2 DEF Finish, RxType
        <5> QED BY <5>1
      <4>3. CASE Become(t, "write") BY <2>0, <3>2, <4>3 DEF Become, RxType
      <4> QED BY <4>1, <4>2, <4>3
    <3> QED BY <1>i, <3>1, <3>3 DEF RxView, RxQuiet, MarksGrow, MarksKept, WriteDone
  <2>4. CASE WriteOk(t)
    BY <2>4, WriteIsSeen DEF RxView
  <2>5. CASE WriteFails(t)
    <3>1. UNCHANGED <<written, marks, hashCache>> /\ rx[t].pc = "write"
      BY <2>5 DEF WriteFails, caches
    <3>2. rx[t] \in [pc : RxPcs, msg : Messages, tries : 0..MaxAttempts - 1]
      BY <3>1, RxBusy DEF RxPcs
    <3>3. rx'[t] = RxIdle \/ (rx'[t].pc = "write" /\ rx'[t].msg = rx[t].msg)
      <4>1. Finish(t) \/ rx' = [rx EXCEPT ![t].tries = @ + 1]
        BY <2>5 DEF WriteFails
      <4>2. CASE Finish(t)
        <5>1. rx'[t] = RxIdle BY <2>0, <4>2 DEF Finish, RxType
        <5> QED BY <5>1
      <4>3. CASE rx' = [rx EXCEPT ![t].tries = @ + 1]
        BY <2>0, <3>1, <3>2, <4>3 DEF RxType
      <4> QED BY <4>1, <4>2, <4>3
    <3> QED BY <1>i, <3>1, <3>3 DEF RxView, RxQuiet, MarksGrow, MarksKept, WriteDone
  <2>6. CASE RememberWrite(t) \/ MarkUuid(t)
    <3>1. UNCHANGED <<written, marks, hashCache>> /\ rx[t].pc \in WriteDone
      BY <2>6 DEF RememberWrite, MarkUuid, caches, ghosts, WriteDone
    <3>2. rx[t] \in [pc : RxPcs, msg : Messages, tries : 0..MaxAttempts - 1]
      BY <3>1, RxBusy DEF RxPcs, WriteDone
    <3>3. rx'[t].pc \in {"markUuid", "markHash"} /\ rx'[t].msg = rx[t].msg
      BY <2>0, <2>6, <3>2 DEF RememberWrite, MarkUuid, Become, RxType
    <3> QED BY <3>1, <3>3 DEF RxView, RxQuiet, MarksGrow, MarksKept, WriteDone
  <2>7. CASE MarkProcessed(t)
    <3>1. rx[t].pc = "markHash" /\ written' = written
      BY <2>7 DEF MarkProcessed
    <3>2. rx[t].msg.content \in Contents
      BY <3>1, RxBusy DEF RxPcs
    <3>3. rx'[t] = RxIdle
      BY <2>0, <2>7 DEF MarkProcessed, Finish, RxType
    <3>4. MarkAdded(d, rx[t].msg.content)
      BY <1>0, <2>7 DEF MarkProcessed, MarkHash, MarkAdded, TypeOK
    <3> QED BY <3>1, <3>2, <3>3, <3>4 DEF RxView, RxMarks
  <2> QED BY <1>5, <2>1, <2>2, <2>3, <2>4, <2>5, <2>6, <2>7 DEF RxStep
<1>6. ASSUME NEW e \in Devices, TakeChange(e) \/ Send(e) \/ Poll(e) PROVE RxView(t)
  BY <1>1, <1>6 DEF TakeChange, Send, Poll, caches, ghosts
<1>7. ASSUME NEW e \in Copiers, NEW x \in Contents, UserCopy(e, x) PROVE RxView(t)
  BY <1>1, <1>7 DEF UserCopy, caches
<1>8. ASSUME NEW l \in Links, LinkDown(l) \/ LinkRestored(l) PROVE RxView(t)
  BY <1>1, <1>8 DEF LinkDown, LinkRestored, caches, ghosts
<1>9. CASE UNCHANGED vars
  BY <1>1, <1>9 DEF vars, caches, ghosts
<1> QED BY <1>2, <1>3, <1>4, <1>5, <1>6, <1>7, <1>8, <1>9 DEF Next, PushStep

-----------------------------------------------------------------------------
(* The inductive invariant *)

\* What is marked stays marked while the device runs, and a mark is new.
LEMMA MarkedGrows ==
  ASSUME TypeOK, NEW d \in Devices, MarksGrow(d), NEW x, NEW n \in Nat,
         MarkedSince(marks[d], x, n)
  PROVE  MarkedSince(marks'[d], x, n)
<1>1. marks[d] \in Seq(Contents) BY DEF TypeOK
<1>2. PICK k \in n + 1..Len(marks[d]) : marks[d][k] = x
  BY DEF MarkedSince
<1>3. CASE MarksKept(d)
  BY <1>2, <1>3 DEF MarksKept, MarkedSince
<1>4. ASSUME NEW y \in Contents, MarkAdded(d, y) PROVE MarkedSince(marks'[d], x, n)
  <2>1. Len(marks'[d]) = Len(marks[d]) + 1 /\ marks'[d][k] = marks[d][k]
    BY <1>1, <1>2, <1>4 DEF MarkAdded
  <2> QED BY <1>1, <1>2, <2>1 DEF MarkedSince
<1> QED BY <1>3, <1>4 DEF MarksGrow

\* What a step marks is marked since any moment before it.
LEMMA MarkIsSince ==
  ASSUME TypeOK, NEW d \in Devices, NEW x \in Contents, MarkAdded(d, x),
         NEW n \in Nat, n <= Len(marks[d])
  PROVE  MarkedSince(marks'[d], x, n)
<1>1. marks[d] \in Seq(Contents) BY DEF TypeOK
<1>2. marks'[d] = Append(marks[d], x) BY DEF MarkAdded
<1>3. Len(marks'[d]) = Len(marks[d]) + 1 /\ marks'[d][Len(marks[d]) + 1] = x
  BY <1>1, <1>2
<1> QED BY <1>1, <1>3 DEF MarkedSince

\* A device that keeps or adds marks has no fewer of them.
LEMMA LenGrows ==
  ASSUME TypeOK, NEW d \in Devices, MarksGrow(d)
  PROVE  /\ Len(marks[d]) \in Nat /\ Len(marks'[d]) \in Nat
         /\ Len(marks[d]) <= Len(marks'[d])
<1>1. marks[d] \in Seq(Contents) BY DEF TypeOK
<1> QED BY <1>1 DEF MarksGrow, MarksKept, MarkAdded

\* A content that was marked after n and is not cached any more was marked more
\* than CacheSize marks ago.
LEMMA MarkedIsOld ==
  ASSUME TypeOK, HashWindow, NEW d \in Devices, NEW x, NEW n \in Nat,
         MarkedSince(marks[d], x, n), ~Holds(hashCache[d], x)
  PROVE  Len(marks[d]) > n + CacheSize
<1>1. PICK k \in n + 1..Len(marks[d]) : marks[d][k] = x
  BY DEF MarkedSince
<1>2. marks[d] \in Seq(Contents) /\ hashCache[d] \in Seq(Contents)
  BY DEF TypeOK
<1>3. k \in 1..Len(marks[d]) /\ IsWindow(hashCache[d], marks[d], CacheSize)
  BY <1>1, <1>2 DEF HashWindow
<1>4. Len(marks[d]) >= k + CacheSize
  BY <1>1, <1>2, <1>3, ForgottenIsOld, CacheSizeAssumption
<1> QED BY <1>1, <1>2, <1>4, CacheSizeAssumption

\* The hash cache stays the window of the last marks.
LEMMA WindowStep ==
  ASSUME TypeOK, [Next]_vars, HashWindow
  PROVE  HashWindow'
<1> SUFFICES ASSUME NEW d \in Devices PROVE IsWindow(hashCache'[d], marks'[d], CacheSize)
  BY DEF HashWindow
<1>1. marks[d] \in Seq(Contents) /\ hashCache[d] \in Seq(Contents)
      /\ IsWindow(hashCache[d], marks[d], CacheSize)
  BY DEF TypeOK, HashWindow
<1>2. ASSUME NEW x \in Contents, MarkAdded(d, x)
      PROVE  IsWindow(hashCache'[d], marks'[d], CacheSize)
  BY <1>1, <1>2, AddKeepsWindow, CacheSizeAssumption DEF MarkAdded
<1>3. CASE MarksKept(d)
  BY <1>1, <1>3 DEF MarksKept
<1>4. CASE Restarted(d)
  BY <1>4, CacheSizeAssumption DEF Restarted, IsWindow
<1> QED BY <1>2, <1>3, <1>4, PushViews
    DEF PushView, PushTakes, PushMarks, PushQuiet, MarksGrow

Sends == [content : Contents, at : Nat, epoch : Nat]

\* What was pushed since the start stays marked, or in the push task's hand.
LEMMA PushMarkedStep ==
  ASSUME TypeOK, [Next]_vars, PushMarked
  PROVE  PushMarked'
<1> SUFFICES ASSUME NEW d \in Devices, NEW i \in 1..Len(sent'[d])
             PROVE  PushSafe(sent'[d][i], epoch'[d], marks'[d], push'[d])
  BY DEF PushMarked
<1>0. sent[d] \in Seq(Sends) /\ epoch[d] \in Nat /\ marks[d] \in Seq(Contents)
  BY DEF TypeOK, Sends
\* an old entry
<1>1. ASSUME NEW e \in Sends, PushSafe(e, epoch[d], marks[d], push[d])
      PROVE  PushSafe(e, epoch'[d], marks'[d], push'[d])
  <2>0. e.content \in Contents /\ e.at \in Nat /\ e.epoch \in Nat
    BY DEF Sends
  <2>1. CASE Restarted(d)
    BY <1>0, <1>1, <2>0, <2>1 DEF Restarted, PushSafe
  <2>2. CASE PushTakes(d) \/ PushMarks(d) \/ PushQuiet(d)
    <3>1. epoch'[d] = epoch[d] /\ MarksGrow(d)
      BY <2>2 DEF PushTakes, PushMarks, PushQuiet, MarksGrow
    <3> SUFFICES ASSUME e.epoch = epoch[d]
                 PROVE  \/ push'[d].pc \in PushPcs /\ push'[d].content = e.content
                        \/ MarkedSince(marks'[d], e.content, e.at)
      BY <1>1, <2>0, <3>1, LenGrows DEF PushSafe
    <3>2. e.at <= Len(marks[d]) BY <1>1 DEF PushSafe
    <3>3. CASE MarkedSince(marks[d], e.content, e.at)
      BY <2>0, <3>1, <3>3, MarkedGrows
    <3>4. CASE push[d].pc \in PushPcs /\ push[d].content = e.content
      <4>1. CASE PushTakes(d)
        BY <3>4, <4>1, IdlePlaces DEF PushTakes
      <4>2. CASE PushMarks(d)
        BY <2>0, <3>2, <3>4, <4>2, MarkIsSince DEF PushMarks
      <4>3. CASE PushQuiet(d)
        BY <3>4, <4>3 DEF PushQuiet
      <4> QED BY <2>2, <4>1, <4>2, <4>3
    <3> QED BY <1>1, <3>3, <3>4 DEF PushSafe
  <2> QED BY <2>1, <2>2, PushViews DEF PushView
<1>2. CASE sent'[d] = sent[d]
  <2>1. sent[d][i] \in Sends /\ PushSafe(sent[d][i], epoch[d], marks[d], push[d])
    BY <1>0, <1>2 DEF PushMarked
  <2> QED BY <1>1, <1>2, <2>1
<1>3. CASE PushTakes(d)
  <2>1. PICK x \in Contents :
          /\ push'[d] = [pc |-> "send", content |-> x]
          /\ sent'[d] = Append(sent[d],
               [content |-> x, at |-> Len(marks[d]), epoch |-> epoch[d]])
          /\ epoch'[d] = epoch[d]
          /\ marks'[d] = marks[d]
    BY <1>3 DEF PushTakes, MarksKept
  <2>2. CASE i = Len(sent[d]) + 1
    <3>1. sent'[d][i] = [content |-> x, at |-> Len(marks[d]), epoch |-> epoch[d]]
      BY <1>0, <2>1, <2>2
    <3> QED BY <1>0, <2>1, <3>1 DEF PushSafe, PushPcs
  <2>3. CASE i \in 1..Len(sent[d])
    <3>1. sent'[d][i] = sent[d][i] BY <1>0, <2>1, <2>3
    <3>2. sent[d][i] \in Sends /\ PushSafe(sent[d][i], epoch[d], marks[d], push[d])
      BY <1>0, <2>3 DEF PushMarked
    <3> QED BY <1>1, <3>1, <3>2
  <2> QED BY <1>0, <2>1, <2>2, <2>3
<1> QED BY <1>2, <1>3, PushViews DEF PushView, PushMarks, PushQuiet, Restarted

\* What the push task takes is not cached, so its last push is far back.
LEMMA PushSpacingStep ==
  ASSUME TypeOK, [Next]_vars, HashWindow, PushMarked, PushSpacing
  PROVE  PushSpacing'
<1> SUFFICES ASSUME NEW d \in Devices, NEW i \in 1..Len(sent'[d]),
                    NEW j \in 1..Len(sent'[d]), i < j,
                    sent'[d][i].content = sent'[d][j].content,
                    sent'[d][i].epoch = sent'[d][j].epoch
             PROVE  sent'[d][j].at > sent'[d][i].at + CacheSize
  BY DEF PushSpacing
<1>0. sent[d] \in Seq(Sends) /\ marks[d] \in Seq(Contents)
  BY DEF TypeOK, Sends
<1>1. CASE sent'[d] = sent[d]
  BY <1>1 DEF PushSpacing
<1>2. CASE PushTakes(d)
  <2>1. PICK x \in Contents :
          /\ push[d] = Idle
          /\ ~Holds(hashCache[d], x)
          /\ sent'[d] = Append(sent[d],
               [content |-> x, at |-> Len(marks[d]), epoch |-> epoch[d]])
    BY <1>2 DEF PushTakes
  <2>2. i \in 1..Len(sent[d]) /\ sent'[d][i] = sent[d][i] /\ sent[d][i] \in Sends
    BY <1>0, <2>1
  <2>3. CASE j \in 1..Len(sent[d])
    <3>1. sent'[d][j] = sent[d][j] BY <1>0, <2>1, <2>3
    <3> QED BY <2>2, <2>3, <3>1 DEF PushSpacing
  <2>4. CASE j = Len(sent[d]) + 1
    <3>1. sent'[d][j] = [content |-> x, at |-> Len(marks[d]), epoch |-> epoch[d]]
      BY <1>0, <2>1, <2>4
    <3>2. MarkedSince(marks[d], x, sent[d][i].at)
      BY <2>1, <2>2, <3>1, IdlePlaces DEF PushMarked, PushSafe
    <3>3. Len(marks[d]) > sent[d][i].at + CacheSize
      BY <2>1, <2>2, <3>2, MarkedIsOld DEF Sends
    <3> QED BY <2>2, <3>1, <3>3
  <2> QED BY <1>0, <2>1, <2>3, <2>4
<1> QED BY <1>1, <1>2, PushViews DEF PushView, PushMarks, PushQuiet, Restarted

\* What a step is to the log of writes of one device.
LEMMA WrittenViews ==
  ASSUME TypeOK, [Next]_vars, NEW d \in Devices
  PROVE  \/ written'[d] = written[d]
         \/ \E u \in Tasks : u[1] = d /\ RxWrites(u)
         \/ Restarted(d)
<1>1. CASE UNCHANGED written
  BY <1>1
<1>2. ASSUME NEW u \in Tasks, WriteOk(u)
      PROVE  written'[d] = written[d] \/ (u[1] = d /\ RxWrites(u))
  <2>1. CASE u[1] = d BY <1>2, <2>1, WriteIsSeen
  <2>2. CASE u[1] # d BY <1>2, <2>2 DEF WriteOk, TypeOK
  <2> QED BY <2>1, <2>2
<1>3. ASSUME NEW e \in Devices, Restart(e)
      PROVE  written'[d] = written[d] \/ Restarted(d)
  <2>1. CASE e = d BY <1>3, <2>1, RestartIsSeen
  <2>2. CASE e # d BY <1>3, <2>2 DEF Restart, TypeOK
  <2> QED BY <2>1, <2>2
<1>4. ASSUME NEW u \in Tasks, RxStep(u), ~WriteOk(u) PROVE UNCHANGED written
  BY <1>4
  DEF RxStep, Receive, ReceiveOnServer, ReceiveOnClient, CheckHash, CheckWriter,
      OnlyRx, WriteFails, RememberWrite, MarkUuid, MarkProcessed, ghosts
<1>5. ASSUME NEW e \in Devices, Poll(e) \/ PushStep(e) PROVE UNCHANGED written
  BY <1>5 DEF Poll, PushStep, TakeChange, Send, MarkSent, ghosts
<1>6. ASSUME NEW e \in Copiers, NEW x \in Contents, UserCopy(e, x)
      PROVE  UNCHANGED written
  BY <1>6 DEF UserCopy
<1>7. ASSUME NEW l \in Links, LinkDown(l) \/ LinkRestored(l)
      PROVE  UNCHANGED written
  BY <1>7 DEF LinkDown, LinkRestored, ghosts
<1>8. CASE UNCHANGED vars
  BY <1>1, <1>8 DEF vars, ghosts
<1> QED BY <1>1, <1>2, <1>3, <1>4, <1>5, <1>6, <1>7, <1>8 DEF Next

Writes == [msg : Messages, task : Tasks, at : Nat]

\* The marks of the device of a receiving task only grow until it restarts.
LEMMA RxMarksGrow ==
  ASSUME NEW t \in Tasks, RxView(t)
  PROVE  MarksGrow(t[1]) \/ Restarted(t[1])
BY DEF RxView, RxClears, RxWrites, RxMarks, RxQuiet, MarksGrow

\* What was written stays marked, or in the hand of the task that wrote it.
LEMMA WriteMarkedStep ==
  ASSUME TypeOK, [Next]_vars, WriteMarked
  PROVE  WriteMarked'
<1> SUFFICES ASSUME NEW d \in Devices, NEW i \in 1..Len(written'[d])
             PROVE  /\ written'[d][i].task[1] = d
                    /\ WriteSafe(written'[d][i], marks'[d], rx'[written'[d][i].task])
  BY DEF WriteMarked
<1>0. written[d] \in Seq(Writes) /\ marks[d] \in Seq(Contents)
  BY DEF TypeOK, Writes
<1>1. CASE Restarted(d)
  BY <1>1 DEF Restarted
\* an old entry
<1>2. ASSUME NEW w \in Writes, w.task[1] = d, ~Restarted(d),
             WriteSafe(w, marks[d], rx[w.task])
      PROVE  WriteSafe(w, marks'[d], rx'[w.task])
  <2>0. w.task \in Tasks /\ w.at \in Nat /\ w.msg.content \in Contents
    BY DEF Writes, Messages
  <2>1. RxView(w.task) BY <2>0, RxViews
  <2>2. MarksGrow(d) BY <1>2, <2>0, <2>1, RxMarksGrow
  <2>3. w.at <= Len(marks[d]) /\ w.at <= Len(marks'[d])
    BY <1>2, <2>0, <2>2, LenGrows DEF WriteSafe
  <2>4. CASE MarkedSince(marks[d], w.msg.content, w.at)
    <3>1. MarkedSince(marks'[d], w.msg.content, w.at)
      BY <2>0, <2>2, <2>4, MarkedGrows
    <3> QED BY <2>3, <3>1 DEF WriteSafe
  <2>5. CASE rx[w.task].pc \in WriteDone /\ rx[w.task].msg.content = w.msg.content
    <3>1. CASE RxMarks(w.task)
      <4>1. MarkedSince(marks'[d], w.msg.content, w.at)
        BY <1>2, <2>0, <2>3, <2>5, <3>1, MarkIsSince DEF RxMarks
      <4> QED BY <2>3, <4>1 DEF WriteSafe
    <3>2. CASE RxQuiet(w.task)
      BY <2>3, <2>5, <3>2 DEF RxQuiet, WriteSafe
    <3> QED BY <1>2, <2>1, <2>5, <3>1, <3>2
        DEF RxView, RxClears, RxWrites, WriteDone
  <2> QED BY <1>2, <2>4, <2>5 DEF WriteSafe
<1>3. ASSUME ~Restarted(d), i \in 1..Len(written[d]), written'[d][i] = written[d][i]
      PROVE  /\ written'[d][i].task[1] = d
             /\ WriteSafe(written'[d][i], marks'[d], rx'[written'[d][i].task])
  <2>1. /\ written[d][i] \in Writes
        /\ written[d][i].task[1] = d
        /\ WriteSafe(written[d][i], marks[d], rx[written[d][i].task])
    BY <1>0, <1>3 DEF WriteMarked
  <2> QED BY <1>2, <1>3, <2>1
<1>4. ASSUME ~Restarted(d), NEW u \in Tasks, u[1] = d, RxWrites(u)
      PROVE  /\ written'[d][i].task[1] = d
             /\ WriteSafe(written'[d][i], marks'[d], rx'[written'[d][i].task])
  <2>1. written'[d] = Append(written[d], Entry(u)) BY <1>4 DEF RxWrites
  <2>2. CASE i = Len(written[d]) + 1
    <3>1. written'[d][i] = Entry(u) BY <1>0, <2>1, <2>2
    <3> QED BY <1>0, <1>4, <3>1
        DEF Entry, RxWrites, MarksKept, WriteSafe, WriteDone
  <2>3. CASE i # Len(written[d]) + 1
    <3>1. i \in 1..Len(written[d]) /\ written'[d][i] = written[d][i]
      BY <1>0, <2>1, <2>3
    <3> QED BY <1>3, <1>4, <3>1
  <2> QED BY <2>2, <2>3
<1> QED BY <1>1, <1>3, <1>4, WrittenViews

\* A task past the hash check has not written that content lately.
LEMMA WriteClearedStep ==
  ASSUME TypeOK, [Next]_vars, HashWindow, WriteMarked, WriteCleared
  PROVE  WriteCleared'
<1> SUFFICES ASSUME NEW t \in Tasks, rx'[t].pc \in {"writer", "write"},
                    NEW i \in 1..Len(written'[t[1]]),
                    written'[t[1]][i].task = t,
                    written'[t[1]][i].msg.content = rx'[t].msg.content
             PROVE  Len(marks'[t[1]]) > written'[t[1]][i].at + CacheSize
  BY DEF WriteCleared
<1> DEFINE d == t[1]
           w == written[d][i]
<1>0. d \in Devices /\ written[d] \in Seq(Writes) /\ marks[d] \in Seq(Contents)
  BY TaskOwner DEF TypeOK, Writes
<1> HIDE DEF d
<1>1. CASE RxClears(t)
  <2>1. i \in 1..Len(written[d]) /\ written'[d][i] = w
    BY <1>1 DEF RxClears, d
  <2>2. WriteSafe(w, marks[d], rx[w.task])
    BY <1>0, <2>1 DEF WriteMarked
  <2>3. w.task = t /\ w.msg.content = rx[t].msg.content
    BY <1>1, <2>1 DEF RxClears, d
  <2>4. MarkedSince(marks[d], w.msg.content, w.at)
    BY <1>1, <2>2, <2>3 DEF WriteSafe, RxClears, WriteDone
  <2>5. w.at \in Nat
    <3>1. w \in Writes BY <1>0, <2>1
    <3> QED BY <3>1 DEF Writes
  <2>6. Len(marks[d]) > w.at + CacheSize
    BY <1>0, <1>1, <2>3, <2>4, <2>5, MarkedIsOld DEF RxClears, d
  <2> QED BY <1>1, <2>1, <2>6 DEF RxClears, MarksKept, d
<1>2. CASE RxQuiet(t)
  <2>1. i \in 1..Len(written[d]) /\ written'[d][i] = w
    <3>1. CASE written'[d] = written[d]
      BY <3>1 DEF d
    <3>2. ASSUME NEW u \in Tasks, u # t, written'[d] = Append(written[d], Entry(u))
          PROVE  i \in 1..Len(written[d]) /\ written'[d][i] = w
      <4>1. i # Len(written[d]) + 1
        BY <1>0, <3>2 DEF Entry, d
      <4> QED BY <1>0, <3>2, <4>1 DEF d
    <3> QED BY <1>2, <3>1, <3>2 DEF RxQuiet, d
  <2>2. rx[t].pc \in {"writer", "write"} /\ rx'[t].msg = rx[t].msg
    BY <1>2 DEF RxQuiet
  <2>3. Len(marks[d]) > w.at + CacheSize
    BY <2>1, <2>2 DEF WriteCleared, d
  <2>4. /\ Len(marks[d]) \in Nat /\ Len(marks'[d]) \in Nat
        /\ Len(marks[d]) <= Len(marks'[d])
    BY <1>0, <1>2, LenGrows DEF RxQuiet, d
  <2>5. w.at \in Nat
    <3>1. w \in Writes BY <1>0, <2>1
    <3> QED BY <3>1 DEF Writes
  <2>6. Len(marks'[d]) > w.at + CacheSize
    <3> HIDE DEF w
    <3> QED BY <2>3, <2>4, <2>5, CacheSizeAssumption
  <2> QED BY <2>1, <2>6 DEF d
<1>3. CASE RxWrites(t) \/ RxMarks(t)
  BY <1>3 DEF RxWrites, RxMarks, RxIdle
<1>4. CASE Restarted(t[1])
  BY <1>4 DEF Restarted
<1> QED BY <1>1, <1>2, <1>3, <1>4, RxViews DEF RxView

\* So what it writes it has not written lately.
LEMMA WriteSpacingStep ==
  ASSUME TypeOK, [Next]_vars, WriteCleared, WriteSpacing
  PROVE  WriteSpacing'
<1> SUFFICES ASSUME NEW d \in Devices, NEW i \in 1..Len(written'[d]),
                    NEW j \in 1..Len(written'[d]), i < j,
                    written'[d][i].msg.content = written'[d][j].msg.content,
                    written'[d][i].task = written'[d][j].task
             PROVE  written'[d][j].at > written'[d][i].at + CacheSize
  BY DEF WriteSpacing
<1>0. written[d] \in Seq(Writes)
  BY DEF TypeOK, Writes
<1>1. CASE written'[d] = written[d]
  BY <1>1 DEF WriteSpacing
<1>2. CASE Restarted(d)
  BY <1>2 DEF Restarted
<1>3. ASSUME NEW u \in Tasks, u[1] = d, RxWrites(u)
      PROVE  written'[d][j].at > written'[d][i].at + CacheSize
  <2>1. written'[d] = Append(written[d], Entry(u))
    BY <1>3 DEF RxWrites
  <2>2. i \in 1..Len(written[d]) /\ written'[d][i] = written[d][i]
    BY <1>0, <2>1
  <2>3. CASE j \in 1..Len(written[d])
    <3>1. written'[d][j] = written[d][j] BY <1>0, <2>1, <2>3
    <3> QED BY <2>2, <2>3, <3>1 DEF WriteSpacing
  <2>4. CASE j = Len(written[d]) + 1
    <3>1. written'[d][j] = Entry(u) BY <1>0, <2>1, <2>4
    <3>2. Len(marks[d]) > written[d][i].at + CacheSize
      <4>1. /\ written[d][i].task = u
            /\ written[d][i].msg.content = rx[u].msg.content
            /\ rx[u].pc = "write"
        BY <1>3, <2>2, <3>1 DEF RxWrites, Entry
      <4> QED BY <1>3, <2>2, <4>1 DEF WriteCleared
    <3> QED BY <1>3, <2>2, <3>1, <3>2 DEF Entry
  <2> QED BY <1>0, <2>1, <2>3, <2>4
<1> QED BY <1>1, <1>2, <1>3, WrittenViews

\* Nothing is pushed, written or marked at first.
LEMMA SpacingInit == Init => SpacingInv
<1> SUFFICES ASSUME Init PROVE SpacingInv
  OBVIOUS
<1>1. HashWindow
  BY CacheSizeAssumption DEF Init, HashWindow, IsWindow
<1>2. PushMarked /\ PushSpacing
  BY DEF Init, PushMarked, PushSpacing
<1>3. WriteMarked /\ WriteSpacing
  BY DEF Init, WriteMarked, WriteSpacing
<1>4. WriteCleared
  BY DEF Init, WriteCleared, RxIdle
<1> QED BY <1>1, <1>2, <1>3, <1>4 DEF SpacingInv

-----------------------------------------------------------------------------
(* The theorems *)

\* The hash cache is always the window of the last marks, and every push and
\* every write of a running device is marked or about to be marked by the task
\* that made it: the invariant that makes deduplication work although checking
\* (should_send_message, should_process_message) and marking
\* (mark_message_sent, mark_message_processed) are separate steps.
THEOREM SpacingInvariant == Spec => []SpacingInv
<1>1. Init => SpacingInv
  BY SpacingInit
<1>2. TypeOK /\ SpacingInv /\ [Next]_vars => SpacingInv'
  <2> SUFFICES ASSUME TypeOK, SpacingInv, [Next]_vars PROVE SpacingInv'
    OBVIOUS
  <2> USE DEF SpacingInv
  <2>1. HashWindow' BY WindowStep
  <2>2. PushMarked' BY PushMarkedStep
  <2>3. PushSpacing' BY PushSpacingStep
  <2>4. WriteMarked' BY WriteMarkedStep
  <2>5. WriteCleared' BY WriteClearedStep
  <2>6. WriteSpacing' BY WriteSpacingStep
  <2> QED BY <2>1, <2>2, <2>3, <2>4, <2>5, <2>6
<1> QED BY <1>1, <1>2, TypeCorrect, PTL DEF Spec

\* One run of a device pushes a content again (should_send_message in the
\* push task) only after CacheSize marks of other pushes and writes, on every
\* network, with every interleaving, loss and restart.
THEOREM PushSpacingHolds == Spec => []PushSpacing
<1>1. SpacingInv => PushSpacing BY DEF SpacingInv
<1> QED BY <1>1, SpacingInvariant, PTL

\* One receiving task writes a content to the clipboard again
\* (should_process_message before ClipboardWriter.write) only after CacheSize
\* marks.
THEOREM WriteSpacingHolds == Spec => []WriteSpacing
<1>1. SpacingInv => WriteSpacing BY DEF SpacingInv
<1> QED BY <1>1, SpacingInvariant, PTL

-----------------------------------------------------------------------------
(* The order of writes                                                     *)

Num(m) == m.uuid[2]

\* The number of the message that s sends next.
NextNum(s) == IF push[s].pc = "send" THEN Len(sent[s]) ELSE Len(sent[s]) + 1

\* Whose messages are on a connection, and in the hands of its client's task.
Origin ==
  /\ \A l \in Links : \A i \in 1..Len(up[l]) : Sender(up[l][i]) = l[1]
  /\ \A l \in Links : \A m \in down[l] : Sender(m) = l[2]
  /\ \A l \in Links : rx[l].pc \in RxPcs => Sender(rx[l].msg) = l[2]

\* d hears of s by the server's task only.
OneWay(s, d) == <<s, d>> \in Links /\ <<d, s>> \notin Links

InHand(s, t) == rx[t].pc \in RxPcs /\ Sender(rx[t].msg) = s

\* The number n is before all that s has yet to bring to l's server.
Ahead(n, l) ==
  /\ n < NextNum(l[1])
  /\ \A i \in 1..Len(up[l]) : n < Num(up[l][i])

\* Between two devices: what is on the way is in order, what is in hand comes before
\* it, and what is written before both, unless it is what is in hand.
UpInOrder(l) ==
  \A i \in 1..Len(up[l]) :
    /\ Num(up[l][i]) < NextNum(l[1])
    /\ \A j \in 1..Len(up[l]) : i < j => Num(up[l][i]) < Num(up[l][j])

HandInOrder(s, d) ==
  InHand(s, <<d, d>>) => Ahead(Num(rx[<<d, d>>].msg), <<s, d>>)

WriteInOrder(s, d) ==
  \A k \in 1..Len(written[d]) :
    LET m == written[d][k].msg IN
      Sender(m) = s =>
        /\ Ahead(Num(m), <<s, d>>)
        /\ InHand(s, <<d, d>>) /\ rx[<<d, d>>].pc \notin WriteDone
             => Num(m) < Num(rx[<<d, d>>].msg)

Ordered(s, d) ==
  \A i, j \in 1..Len(written[d]) :
    LET m == written[d][i].msg
        n == written[d][j].msg
    IN  i < j /\ Sender(m) = s /\ Sender(n) = s => Num(m) < Num(n)

Pipeline(s, d) ==
  /\ UpInOrder(<<s, d>>) /\ HandInOrder(s, d)
  /\ WriteInOrder(s, d) /\ Ordered(s, d)

OrderInv ==
  /\ Origin
  /\ \A s, d \in Devices : OneWay(s, d) => Pipeline(s, d)

\* What a step may be to s, d and the connection between them: the queue loses its end,
\* and what is in hand and written stays or is forgotten ...
Shrinks(l) ==
  /\ Len(up'[l]) <= Len(up[l])
  /\ \A i \in 1..Len(up'[l]) : up'[l][i] = up[l][i]

HandKept(s, t) ==
  InHand(s, t)' =>
    /\ InHand(s, t) /\ rx'[t].msg = rx[t].msg
    /\ rx'[t].pc \notin WriteDone => rx[t].pc \notin WriteDone

WritesKept(s, d) ==
  \/ written'[d] = written[d] \/ written'[d] = <<>>
  \/ \E e \in Writes : Sender(e.msg) # s /\ written'[d] = Append(written[d], e)

Keeps(s, d) ==
  Shrinks(<<s, d>>) /\ HandKept(s, <<d, d>>) /\ WritesKept(s, d)

\* ... a message is sent, taken, or written.
SendsTo(s, d) ==
  /\ up'[<<s, d>>] = Append(up[<<s, d>>], Outgoing(s))
  /\ NextNum(s) = Len(sent[s]) /\ NextNum(s)' = Len(sent[s]) + 1
  /\ rx' = rx /\ written' = written

Takes(s, d) ==
  /\ up[<<s, d>>] # <<>> /\ up'[<<s, d>>] = Tail(up[<<s, d>>])
  /\ InHand(s, <<d, d>>)' =>
       /\ rx'[<<d, d>>].pc \notin WriteDone
       /\ rx'[<<d, d>>].msg = Head(up[<<s, d>>])
  /\ written' = written

HandWrites(d) == RxWrites(<<d, d>>) /\ up' = up

\* The numbers of a device grow.
LEMMA NumbersGrow ==
  ASSUME TypeOK, [Next]_vars, NEW s \in Devices
  PROVE  NextNum(s) \in Nat /\ NextNum(s)' \in Nat /\ NextNum(s) <= NextNum(s)'
<1> DEFINE L == Len(sent[s])
           Same == sent'[s] = sent[s] /\ (push'[s].pc = "send" => push[s].pc = "send")
           Took == push[s] = Idle /\ push'[s].pc = "send" /\ Len(sent'[s]) = L + 1
<1>1. L \in Nat BY DEF TypeOK
<1>2. NextNum(s) \in {L, L + 1} /\ (push[s].pc # "send" => NextNum(s) = L + 1)
  BY DEF NextNum
<1>3. CASE Same
  BY <1>1, <1>2, <1>3 DEF NextNum
<1>4. CASE Took
  BY <1>1, <1>2, <1>4 DEF NextNum, Idle
<1>5. ASSUME NEW e \in Devices, TakeChange(e) PROVE Same \/ Took
  <2>1. CASE e = s /\ ShouldSend(s, Head(changes[s]))
    BY <1>5, <2>1 DEF TakeChange, TypeOK
  <2>2. CASE ~(e = s /\ ShouldSend(s, Head(changes[s])))
    BY <1>5, <2>2 DEF TakeChange, TypeOK
  <2> QED BY <2>1, <2>2
<1>6. ASSUME NEW e \in Devices, Send(e) \/ MarkSent(e) \/ Poll(e) \/ Restart(e)
      PROVE  Same
  <2>1. UNCHANGED sent
    BY <1>6 DEF Send, MarkSent, Poll, Restart, ghosts
  <2>2. push'[s].pc = "send" => push[s].pc = "send"
    <3>1. CASE Send(e)
      <4>1. push[e] \in [pc : PushPcs, content : Contents]
        BY <3>1, PushBusy DEF Send, PushPcs
      <4>2. push' = [push EXCEPT ![e].pc = "mark"] BY <3>1 DEF Send
      <4> QED BY <4>1, <4>2 DEF TypeOK
    <3>2. CASE MarkSent(e) \/ Restart(e)
      <4>1. push' = [push EXCEPT ![e] = Idle] BY <3>2 DEF MarkSent, Restart
      <4> QED BY <4>1 DEF TypeOK, Idle
    <3>3. CASE Poll(e)
      BY <3>3 DEF Poll
    <3> QED BY <1>6, <3>1, <3>2, <3>3
  <2> QED BY <2>1, <2>2
<1>7. ASSUME UNCHANGED <<push, sent>> PROVE Same
  BY <1>7
<1>8. ASSUME NEW t \in Tasks, RxStep(t) PROVE UNCHANGED <<push, sent>>
  BY <1>8 DEF RxStep, Receive, ReceiveOnServer, ReceiveOnClient, CheckHash, CheckWriter,
     OnlyRx, WriteOk, WriteFails, RememberWrite, MarkUuid, MarkProcessed, ghosts
<1>9. ASSUME \/ \E e \in Copiers, x \in Contents : UserCopy(e, x)
             \/ \E l \in Links : LinkDown(l) \/ LinkRestored(l)
             \/ UNCHANGED vars
      PROVE  UNCHANGED <<push, sent>>
  BY <1>9 DEF UserCopy, LinkDown, LinkRestored, ghosts, vars
<1> QED BY <1>3, <1>4, <1>5, <1>6, <1>7, <1>8, <1>9 DEF Next, PushStep

\* A step of a task is one of the others to every other task.
LEMMA OtherHand ==
  ASSUME TypeOK, NEW t \in Tasks, NEW u \in Tasks, u # t, RxStep(u), NEW s
  PROVE  rx'[t] = rx[t] /\ HandKept(s, t)
<1>1. rx'[t] = rx[t]
  BY DEF RxStep, Receive, ReceiveOnServer, ReceiveOnClient, Accept, CheckHash,
     CheckWriter, WriteOk, WriteFails, RememberWrite, MarkUuid, MarkProcessed,
     Become, Finish, TypeOK
<1> QED BY <1>1 DEF HandKept, InHand

\* A task that has a message keeps it, gets on with it or drops it.
LEMMA OwnHand ==
  ASSUME TypeOK, NEW t \in Tasks, RxStep(t), ~Receive(t), NEW s
  PROVE  HandKept(s, t)
<1>0. rx \in RxType BY DEF TypeOK, RxType
<1>1. rx[t].pc \in RxPcs
  BY DEF RxStep, CheckHash, CheckWriter, WriteOk, WriteFails, RememberWrite, MarkUuid,
     MarkProcessed, RxPcs
<1>2. rx[t] \in [pc : RxPcs, msg : Messages, tries : 0..MaxAttempts - 1]
  BY <1>1, RxBusy
<1>3. CASE Finish(t)
  <2>1. rx'[t] = RxIdle BY <1>0, <1>3 DEF Finish, RxType
  <2> QED BY <2>1, IdlePlaces DEF HandKept, InHand
<1>4. CASE rx' = [rx EXCEPT ![t].tries = @ + 1]
  BY <1>0, <1>1, <1>2, <1>4 DEF HandKept, InHand, RxType
<1>5. ASSUME NEW pc, Become(t, pc), pc \in WriteDone \/ rx[t].pc \notin WriteDone
      PROVE  HandKept(s, t)
  BY <1>0, <1>1, <1>2, <1>5 DEF Become, HandKept, InHand, RxType
<1>6. CASE CheckHash(t) \/ CheckWriter(t)
  <2>1. rx[t].pc \notin WriteDone BY <1>6 DEF CheckHash, CheckWriter, WriteDone
  <2>2. Finish(t) \/ Become(t, "writer") \/ Become(t, "write")
    BY <1>6 DEF CheckHash, CheckWriter
  <2> QED BY <1>3, <1>5, <2>1, <2>2
<1>7. CASE WriteOk(t) \/ RememberWrite(t) \/ MarkUuid(t)
  <2>1. Become(t, "remember") \/ Become(t, "markUuid") \/ Become(t, "markHash")
    BY <1>7 DEF WriteOk, RememberWrite, MarkUuid
  <2> QED BY <1>5, <2>1 DEF WriteDone
<1>8. CASE WriteFails(t) \/ MarkProcessed(t)
  BY <1>3, <1>4, <1>8 DEF WriteFails, MarkProcessed
<1> QED BY <1>6, <1>7, <1>8 DEF RxStep

\* What a step leaves of a queue that it does not append to or take from.
LEMMA Unshrunk == ASSUME TypeOK, NEW l \in Links, up'[l] = up[l] PROVE Shrinks(l)
<1>1. Len(up[l]) \in Nat BY DEF TypeOK
<1> QED BY <1>1 DEF Shrinks

\* A connection that breaks loses the end of its queue.
LEMMA CutShrinks ==
  ASSUME TypeOK, NEW k \in Links, LinkDown(k), NEW l \in Links
  PROVE  Shrinks(l)
<1>1. PICK n \in 0..Len(up[k]) : up' = [up EXCEPT ![k] = SubSeq(@, 1, n)]
  BY DEF LinkDown
<1>2. up[k] \in Seq(Messages) BY DEF TypeOK
<1>3. /\ Len(SubSeq(up[k], 1, n)) = n
      /\ \A i \in 1..n : SubSeq(up[k], 1, n)[i] = up[k][i]
  BY <1>2
<1>4. CASE k = l
  <2>1. up'[l] = SubSeq(up[l], 1, n) BY <1>1, <1>4 DEF TypeOK
  <2>2. n <= Len(up[l]) /\ n \in Nat BY <1>2, <1>4
  <2> QED BY <1>3, <1>4, <2>1, <2>2 DEF Shrinks
<1>5. CASE k # l BY <1>1, <1>5, Unshrunk DEF TypeOK
<1> QED BY <1>4, <1>5

\* Every step is one of these.
LEMMA OrderViews ==
  ASSUME TypeOK, Origin, [Next]_vars, NEW s \in Devices, NEW d \in Devices, OneWay(s, d)
  PROVE  Keeps(s, d) \/ SendsTo(s, d) \/ Takes(s, d) \/ HandWrites(d)
<1> DEFINE l == <<s, d>>
           t == <<d, d>>
<1>0. l \in Links /\ t \in Tasks /\ l[1] = s /\ l[2] = d /\ t[1] = d
  BY DEF OneWay, Tasks
<1>h. rx'[t] = rx[t] => HandKept(s, t) BY DEF HandKept, InHand
<1> HIDE DEF l, t
<1>k. up'[l] = up[l] /\ rx'[t] = rx[t] /\ written'[d] = written[d] => Keeps(s, d)
  BY <1>0, <1>h, Unshrunk DEF Keeps, WritesKept, l, t
<1>1. CASE UNCHANGED <<up, rx, written>>
  BY <1>1, <1>k
<1>2. ASSUME NEW e \in Devices, Send(e) PROVE Keeps(s, d) \/ SendsTo(s, d)
  <2>1. rx' = rx /\ written' = written BY <1>2 DEF Send, ghosts
  <2>2. CASE e = s /\ l \in linkUp
    <3>1. up'[l] = Append(up[l], Outgoing(s)) BY <1>0, <1>2, <2>2 DEF Send
    <3>2. push[s] \in [pc : PushPcs, content : Contents] /\ push[s].pc = "send"
      BY <1>2, <2>2, PushBusy DEF Send, PushPcs
    <3>3. push'[s].pc = "mark" /\ sent' = sent
      BY <1>2, <2>2, <3>2 DEF Send, TypeOK, ghosts
    <3> QED BY <2>1, <3>1, <3>2, <3>3 DEF SendsTo, NextNum, l
  <2>3. CASE ~(e = s /\ l \in linkUp)
    <3>1. up'[l] = up[l] BY <1>0, <1>2, <2>3 DEF Send
    <3> QED BY <1>k, <2>1, <3>1
  <2> QED BY <2>2, <2>3
<1>3. ASSUME NEW e \in Devices, Restart(e) PROVE Keeps(s, d)
  <2>1. up'[l] = up[l] \/ up'[l] = <<>> BY <1>0, <1>3 DEF Restart
  <2>2. Shrinks(l)
    <3>1. Len(up[l]) \in Nat BY <1>0 DEF TypeOK
    <3>2. up'[l] = <<>> => Shrinks(l) BY <3>1 DEF Shrinks
    <3> QED BY <1>0, <2>1, <3>2, Unshrunk
  <2>3. rx'[t] = rx[t] \/ rx'[t] = RxIdle BY <1>0, <1>3 DEF Restart
  <2>4. HandKept(s, t)
    BY <1>h, <2>3, IdlePlaces DEF HandKept, InHand
  <2>5. written'[d] = written[d] \/ written'[d] = <<>>
    BY <1>3 DEF Restart, TypeOK
  <2> QED BY <2>2, <2>4, <2>5 DEF Keeps, WritesKept, l, t
<1>4. ASSUME NEW k \in Links, LinkDown(k) PROVE Keeps(s, d)
  <2>1. UNCHANGED <<rx, written>> BY <1>4 DEF LinkDown, ghosts
  <2>2. Shrinks(l)
    <3>1. PICK n \in 0..Len(up[k]) : up' = [up EXCEPT ![k] = SubSeq(@, 1, n)]
      BY <1>4 DEF LinkDown
    <3>2. up[k] \in Seq(Messages) BY DEF TypeOK
    <3>3. /\ Len(SubSeq(up[k], 1, n)) = n
          /\ \A i \in 1..n : SubSeq(up[k], 1, n)[i] = up[k][i]
      BY <3>2
    <3>4. CASE k = l
      <4>1. up'[l] = SubSeq(up[l], 1, n) BY <1>0, <3>1, <3>4 DEF TypeOK
      <4>2. n <= Len(up[l]) /\ n \in Nat BY <3>2, <3>4
      <4> QED BY <3>3, <3>4, <4>1, <4>2 DEF Shrinks
    <3>5. CASE k # l BY <1>0, <3>1, <3>5, Unshrunk DEF TypeOK
    <3> QED BY <3>4, <3>5
  <2> QED BY <1>h, <2>1, <2>2 DEF Keeps, WritesKept, l, t
<1>5. ASSUME NEW u \in Tasks, RxStep(u) PROVE Keeps(s, d) \/ Takes(s, d) \/ HandWrites(d)
  <2>1. CASE Receive(u)
    <3>1. UNCHANGED written
      BY <2>1 DEF Receive, ReceiveOnServer, ReceiveOnClient, ghosts
    <3>2. ASSUME NEW k \in Links, u = <<k[2], k[2]>>, ReceiveOnServer(k[2], k)
          PROVE  Keeps(s, d) \/ Takes(s, d)
      <4>1. k \in Devices \X Devices /\ rx[u] = RxIdle /\ rx \in RxType
        BY <3>2, DevicesAssumption DEF ReceiveOnServer, TypeOK, RxType
      <4>2. up[k] # <<>> /\ up' = [up EXCEPT ![k] = Tail(@)] /\ Accept(u, Head(up[k]))
        BY <3>2 DEF ReceiveOnServer
      <4>3. InHand(s, u)' => rx'[u].pc \notin WriteDone /\ rx'[u].msg = Head(up[k])
        BY <4>1, <4>2, IdlePlaces DEF Accept, InHand, RxType, WriteDone
      <4>4. CASE k = l
        BY <1>0, <3>1, <3>2, <4>2, <4>3, <4>4 DEF Takes, TypeOK, l, t
      <4>5. CASE k # l
        <5>1. up'[l] = up[l] BY <1>0, <4>2, <4>5 DEF TypeOK
        <5>2. CASE u = t
          <6>1. k[2] = d /\ k[1] # s
            BY <1>0, <3>2, <4>1, <4>5, <5>2 DEF l, t
          <6>2. up[k] \in Seq(Messages) BY DEF TypeOK
          <6>3. Head(up[k]) = up[k][1] /\ 1 \in 1..Len(up[k]) BY <4>2, <6>2
          <6>4. Sender(Head(up[k])) # s BY <6>1, <6>3 DEF Origin
          <6>5. ~InHand(s, t)' BY <4>3, <5>2, <6>4 DEF InHand
          <6> QED BY <1>0, <3>1, <5>1, <6>5, Unshrunk DEF Keeps, HandKept, WritesKept, l, t
        <5>3. CASE u # t
          <6>1. rx'[t] = rx[t] BY <1>0, <1>5, <5>3, OtherHand
          <6> QED BY <1>k, <3>1, <5>1, <6>1
        <5> QED BY <5>2, <5>3
      <4> QED BY <4>4, <4>5
    <3>3. ASSUME u \in Links, NEW m \in down[u], ReceiveOnClient(u, m)
          PROVE  Keeps(s, d)
      <4>1. up' = up /\ u # t
        BY <3>3, NoSelfLink DEF ReceiveOnClient, t
      <4>2. rx'[t] = rx[t] BY <1>0, <1>5, <4>1, OtherHand
      <4> QED BY <1>k, <3>1, <4>1, <4>2
    <3> QED BY <2>1, <3>2, <3>3 DEF Receive
  <2>2. CASE ~Receive(u)
    <3>1. up' = up
      BY <1>5, <2>2 DEF RxStep, CheckHash, CheckWriter, OnlyRx, WriteOk, WriteFails,
         RememberWrite, MarkUuid, MarkProcessed, net
    <3>2. HandKept(s, t) BY <1>0, <1>5, <2>2, OtherHand, OwnHand
    <3>3. CASE WriteOk(u)
      <4>1. RxWrites(u) BY <3>3, WriteIsSeen
      <4>2. CASE u = t BY <3>1, <4>1, <4>2 DEF HandWrites, t
      <4>3. CASE u # t
        <5>1. CASE u[1] = d
          <6>1. u \in Links /\ u[2] \in Devices /\ u = <<d, u[2]>>
            BY <4>3, <5>1, DevicesAssumption DEF Tasks, t
          <6>2. Sender(rx[u].msg) = u[2]
            BY <4>1, <6>1 DEF RxWrites, Origin, RxPcs
          <6>3. u[2] # s BY <6>1 DEF OneWay
          <6>4. Entry(u) \in Writes
            <7>1. rx[u].msg \in Messages BY <4>1, RxBusy DEF RxWrites, RxPcs
            <7>2. Len(marks[u[1]]) \in Nat BY <5>1 DEF TypeOK
            <7> QED BY <7>1, <7>2 DEF Entry, Writes
          <6>5. written'[d] = Append(written[d], Entry(u)) BY <4>1, <5>1 DEF RxWrites
          <6>6. Entry(u).msg = rx[u].msg BY DEF Entry
          <6>7. WritesKept(s, d) BY <6>2, <6>3, <6>4, <6>5, <6>6 DEF WritesKept
          <6> QED BY <1>0, <3>1, <3>2, <6>7, Unshrunk DEF Keeps, l, t
        <5>2. CASE u[1] # d
          <6>1. written'[d] = written[d] BY <3>3, <5>2 DEF WriteOk, TypeOK
          <6> QED BY <1>0, <3>1, <3>2, <6>1, Unshrunk DEF Keeps, WritesKept, l, t
        <5> QED BY <5>1, <5>2
      <4> QED BY <4>2, <4>3
    <3>4. CASE ~WriteOk(u)
      <4>1. written' = written
        BY <1>5, <2>2, <3>4 DEF RxStep, CheckHash, CheckWriter, OnlyRx, WriteFails,
           RememberWrite, MarkUuid, MarkProcessed, ghosts
      <4> QED BY <1>0, <3>1, <3>2, <4>1, Unshrunk DEF Keeps, WritesKept, l, t
    <3> QED BY <3>3, <3>4
  <2> QED BY <2>1, <2>2
<1>6. ASSUME NEW e \in Devices, TakeChange(e) \/ MarkSent(e) \/ Poll(e)
      PROVE  UNCHANGED <<up, rx, written>>
  BY <1>6 DEF TakeChange, MarkSent, Poll, net, ghosts
<1>7. ASSUME \/ \E e \in Copiers, x \in Contents : UserCopy(e, x)
             \/ \E k \in Links : LinkRestored(k)
             \/ UNCHANGED vars
      PROVE  UNCHANGED <<up, rx, written>>
  BY <1>7 DEF UserCopy, LinkRestored, net, ghosts, vars
<1> QED BY <1>1, <1>2, <1>3, <1>4, <1>5, <1>6, <1>7 DEF Next, PushStep

\* Messages are on the connections, and in the hands of the tasks, of their senders.
LEMMA OriginStep == TypeOK /\ Origin /\ [Next]_vars => Origin'
<1> SUFFICES ASSUME TypeOK, Origin, [Next]_vars PROVE Origin'
  OBVIOUS
<1> DEFINE InUp(l) == \A i \in 1..Len(up[l]) : Sender(up[l][i]) = l[1]
           InDown(l) == \A m \in down[l] : Sender(m) = l[2]
           InRx(l) == rx[l].pc \in RxPcs => Sender(rx[l].msg) = l[2]
<1> SUFFICES ASSUME NEW l \in Links PROVE InUp(l)' /\ InDown(l)' /\ InRx(l)'
  BY DEF Origin
<1>0. InUp(l) /\ InDown(l) /\ InRx(l) BY DEF Origin
<1>l. l \in Tasks /\ l \in Devices \X Devices /\ l # <<l[2], l[2]>>
  BY DevicesAssumption, NoSelfLink DEF Tasks
<1>n. up[l] \in Seq(Messages) /\ Len(up[l]) \in Nat BY DEF TypeOK
<1>u. Shrinks(l) => InUp(l)'
  <2>1. Shrinks(l) => \A i \in 1..Len(up'[l]) : i \in 1..Len(up[l])
    BY <1>n DEF Shrinks
  <2> QED BY <1>0, <2>1 DEF Shrinks
<1>d. down'[l] \subseteq down[l] => InDown(l)' BY <1>0
<1>r. (\A s : HandKept(s, l)) => InRx(l)'
  BY <1>0 DEF HandKept, InHand
<1>k. rx'[l] = rx[l] => InRx(l)' BY <1>0
<1> HIDE DEF InUp, InDown, InRx
<1>1. CASE UNCHANGED <<up, down, rx>>
  BY <1>1, <1>d, <1>k, <1>u, Unshrunk
<1>2. ASSUME NEW e \in Devices, Send(e) PROVE InUp(l)' /\ InDown(l)' /\ InRx(l)'
  <2>1. Sender(Outgoing(e)) = e BY DEF Sender, Outgoing
  <2>2. InDown(l)'
    BY <1>0, <1>2, <2>1 DEF Send, InDown
  <2>3. InUp(l)'
    <3>1. CASE up'[l] = up[l] BY <3>1, <1>u, Unshrunk
    <3>2. CASE l[1] = e /\ up'[l] = Append(up[l], Outgoing(e))
      BY <1>0, <1>n, <2>1, <3>2 DEF InUp
    <3> QED BY <1>2, <3>1, <3>2 DEF Send
  <2> QED BY <1>2, <1>k, <2>2, <2>3 DEF Send
<1>3. ASSUME NEW e \in Devices, Restart(e) PROVE InUp(l)' /\ InDown(l)' /\ InRx(l)'
  <2>1. up'[l] = up[l] \/ up'[l] = <<>> BY <1>3 DEF Restart
  <2>2. Shrinks(l)
    <3>1. up'[l] = <<>> => Shrinks(l) BY <1>n DEF Shrinks
    <3> QED BY <2>1, <3>1, Unshrunk
  <2>3. down'[l] \subseteq down[l] BY <1>3 DEF Restart
  <2>4. InRx(l)'
    <3>1. rx'[l] = rx[l] \/ rx'[l] = RxIdle BY <1>l, <1>3 DEF Restart
    <3>2. rx'[l] = RxIdle => InRx(l)' BY IdlePlaces DEF InRx
    <3> QED BY <1>k, <3>1, <3>2
  <2> QED BY <1>d, <1>u, <2>2, <2>3, <2>4
<1>4. ASSUME NEW k \in Links, LinkDown(k) PROVE InUp(l)' /\ InDown(l)' /\ InRx(l)'
  <2>1. down'[l] \subseteq down[l] /\ rx' = rx BY <1>4 DEF LinkDown, TypeOK
  <2> QED BY <1>4, <1>d, <1>k, <1>u, <2>1, CutShrinks
<1>5. ASSUME NEW u \in Tasks, RxStep(u) PROVE InUp(l)' /\ InDown(l)' /\ InRx(l)'
  <2>1. CASE ~Receive(u)
    <3>1. UNCHANGED <<up, down>>
      BY <1>5, <2>1 DEF RxStep, CheckHash, CheckWriter, OnlyRx, WriteOk, WriteFails,
         RememberWrite, MarkUuid, MarkProcessed, net
    <3>2. \A s : HandKept(s, l) BY <1>l, <1>5, <2>1, OtherHand, OwnHand
    <3> QED BY <1>d, <1>r, <1>u, <3>1, <3>2, Unshrunk
  <2>2. ASSUME NEW k \in Links, u = <<k[2], k[2]>>, ReceiveOnServer(k[2], k)
        PROVE  InUp(l)' /\ InDown(l)' /\ InRx(l)'
    <3>1. down' = down /\ up' = [up EXCEPT ![k] = Tail(@)] /\ up[k] # <<>>
      BY <2>2 DEF ReceiveOnServer
    <3>2. u # l BY <1>l, <2>2, DevicesAssumption, NoSelfLink
    <3>3. rx'[l] = rx[l] BY <1>l, <1>5, <3>2, OtherHand
    <3>4. InUp(l)'
      <4>1. CASE k = l
        <5>1. up'[l] = Tail(up[l]) /\ up[l] # <<>> BY <3>1, <4>1 DEF TypeOK
        <5>2. /\ Len(Tail(up[l])) = Len(up[l]) - 1
              /\ \A i \in 1..Len(up[l]) - 1 : Tail(up[l])[i] = up[l][i + 1]
          BY <1>n, <5>1
        <5>3. \A i \in 1..Len(up[l]) - 1 : i + 1 \in 1..Len(up[l]) BY <1>n
        <5> QED BY <1>0, <5>1, <5>2, <5>3 DEF InUp
      <4>2. CASE k # l
        <5>1. up'[l] = up[l] BY <3>1, <4>2 DEF TypeOK
        <5> QED BY <1>u, <5>1, Unshrunk
      <4> QED BY <4>1, <4>2
    <3> QED BY <1>d, <1>k, <3>1, <3>3, <3>4
  <2>3. ASSUME u \in Links, NEW m \in down[u], ReceiveOnClient(u, m)
        PROVE  InUp(l)' /\ InDown(l)' /\ InRx(l)'
    <3>1. up' = up /\ down' = [down EXCEPT ![u] = @ \ {m}] /\ Accept(u, m)
          /\ rx[u] = RxIdle /\ rx \in RxType
      BY <2>3 DEF ReceiveOnClient, TypeOK, RxType
    <3>2. down'[l] \subseteq down[l] BY <3>1 DEF TypeOK
    <3>3. InRx(l)'
      <4>1. CASE u = l
        <5>1. Sender(m) = l[2] BY <2>3, <4>1 DEF Origin
        <5>2. rx'[l] = RxIdle \/ rx'[l].msg = m
          BY <1>l, <3>1, <4>1 DEF Accept, RxType
        <5> QED BY <5>1, <5>2, IdlePlaces DEF InRx
      <4>2. CASE u # l
        BY <1>k, <1>l, <1>5, <4>2, OtherHand
      <4> QED BY <4>1, <4>2
    <3> QED BY <1>d, <1>u, <3>1, <3>2, <3>3, Unshrunk
  <2> QED BY <2>1, <2>2, <2>3 DEF Receive
<1>6. ASSUME NEW e \in Devices, TakeChange(e) \/ MarkSent(e) \/ Poll(e)
      PROVE  UNCHANGED <<up, down, rx>>
  BY <1>6 DEF TakeChange, MarkSent, Poll, net, ghosts
<1>7. ASSUME \/ \E e \in Copiers, x \in Contents : UserCopy(e, x)
             \/ \E k \in Links : LinkRestored(k)
             \/ UNCHANGED vars
      PROVE  UNCHANGED <<up, down, rx>>
  BY <1>7 DEF UserCopy, LinkRestored, net, ghosts, vars
<1> QED BY <1>1, <1>2, <1>3, <1>4, <1>5, <1>6, <1>7 DEF Next, PushStep

\* What is ahead of all that is to come stays so.
LEMMA AheadKept ==
  ASSUME TypeOK, [Next]_vars, NEW s \in Devices, NEW d \in Devices, <<s, d>> \in Links,
         NEW n \in Nat, Ahead(n, <<s, d>>), Shrinks(<<s, d>>)
  PROVE  Ahead(n, <<s, d>>)'
<1> DEFINE l == <<s, d>>
<1>1. Len(up[l]) \in Nat /\ n < NextNum(s) /\ l[1] = s BY DEF TypeOK, Ahead
<1>2. n < NextNum(s)' BY <1>1, NumbersGrow
<1> HIDE DEF l
<1>3. \A i \in 1..Len(up'[l]) : i \in 1..Len(up[l]) /\ up'[l][i] = up[l][i]
  BY <1>1 DEF Shrinks, l
<1>4. \A i \in 1..Len(up'[l]) : n < Num(up'[l][i])
  BY <1>3 DEF Ahead, l, Num
<1> QED BY <1>1, <1>2, <1>4 DEF Ahead, l

\* The number of a message.
LEMMA NumType == \A m \in Messages : Num(m) \in Nat
BY DEF Messages, Uuids, Num

\* A message that is sent comes after all others.
LEMMA SentIsLast ==
  ASSUME TypeOK, NEW s \in Devices, NEW d \in Devices, <<s, d>> \in Links, SendsTo(s, d)
  PROVE  /\ \A n \in Nat : Ahead(n, <<s, d>>) => Ahead(n, <<s, d>>)'
         /\ UpInOrder(<<s, d>>) => UpInOrder(<<s, d>>)'
<1> DEFINE l == <<s, d>>
           L == Len(sent[s])
           k == Len(up[l])
<1>1. L \in Nat /\ k \in Nat /\ up[l] \in Seq(Messages) /\ l[1] = s
  <2>1. L \in Nat BY DEF TypeOK
  <2>2. up[l] \in Seq(Messages) BY DEF TypeOK
  <2> QED BY <2>1, <2>2
<1>2. NextNum(s) = L /\ NextNum(s)' = L + 1 /\ up'[l] = Append(up[l], Outgoing(s))
  BY DEF SendsTo
<1>3. Num(Outgoing(s)) = L BY DEF Num, Outgoing
<1> HIDE DEF l, L
<1>4. Len(up'[l]) = k + 1 /\ up'[l][k + 1] = Outgoing(s)
      /\ \A i \in 1..k : up'[l][i] = up[l][i]
  BY <1>1, <1>2
<1>5. \A i \in 1..k : Num(up[l][i]) \in Nat BY <1>1, NumType
<1>6. ASSUME NEW n \in Nat, Ahead(n, l) PROVE Ahead(n, l)'
  <2>1. n < L BY <1>1, <1>2, <1>6 DEF Ahead
  <2>2. \A i \in 1..k + 1 : n < Num(up'[l][i])
    <3> SUFFICES ASSUME NEW i \in 1..k + 1 PROVE n < Num(up'[l][i])
      OBVIOUS
    <3>1. i \in 1..k \/ i = k + 1 BY <1>1
    <3> QED BY <1>3, <1>4, <1>6, <2>1, <3>1 DEF Ahead, Num
  <2>3. n < L + 1 BY <1>1, <2>1
  <2> QED BY <1>1, <1>2, <1>4, <2>2, <2>3 DEF Ahead, Num
<1>7. ASSUME UpInOrder(l) PROVE UpInOrder(l)'
  <2>1. \A i \in 1..k : Num(up[l][i]) < L BY <1>1, <1>2, <1>7 DEF UpInOrder
  <2>2. \A i \in 1..k + 1 : Num(up'[l][i]) < L + 1
    <3> SUFFICES ASSUME NEW i \in 1..k + 1 PROVE Num(up'[l][i]) < L + 1
      OBVIOUS
    <3>1. i \in 1..k \/ i = k + 1 BY <1>1
    <3>2. CASE i \in 1..k
      <4>1. up'[l][i] = up[l][i] BY <1>4, <3>2
      <4>2. Num(up'[l][i]) < L /\ Num(up'[l][i]) \in Nat BY <1>5, <2>1, <3>2, <4>1
      <4> QED BY <1>1, <4>2
    <3>3. CASE i = k + 1
      <4>1. up'[l][i] = Outgoing(s) BY <1>4, <3>3
      <4>2. Num(up'[l][i]) = L BY <1>3, <4>1
      <4> QED BY <1>1, <4>2
    <3> QED BY <3>1, <3>2, <3>3
  <2>3. \A i, j \in 1..k + 1 : i < j => Num(up'[l][i]) < Num(up'[l][j])
    <3> SUFFICES ASSUME NEW i \in 1..k + 1, NEW j \in 1..k + 1, i < j
                 PROVE  Num(up'[l][i]) < Num(up'[l][j])
      OBVIOUS
    <3>1. i \in 1..k /\ (j \in 1..k \/ j = k + 1) BY <1>1
    <3>2. CASE j \in 1..k BY <1>1, <1>4, <1>7, <3>1, <3>2 DEF UpInOrder, Num
    <3>3. CASE j = k + 1 BY <1>3, <1>4, <2>1, <3>1, <3>3 DEF Num
    <3> QED BY <3>1, <3>2, <3>3
  <2> QED BY <1>1, <1>2, <1>4, <2>2, <2>3 DEF UpInOrder, Num
<1> QED BY <1>6, <1>7 DEF l

\* The messages that a step takes from the queue or loses.
LEMMA UpStep ==
  ASSUME TypeOK, Origin, [Next]_vars, NEW s \in Devices, NEW d \in Devices,
         OneWay(s, d), UpInOrder(<<s, d>>)
  PROVE  UpInOrder(<<s, d>>)'
<1> DEFINE l == <<s, d>>
<1>0. l \in Links /\ l[1] = s BY DEF OneWay
<1>n. up[l] \in Seq(Messages) /\ Len(up[l]) \in Nat BY <1>0 DEF TypeOK
<1>m. \A i \in 1..Len(up[l]) : Num(up[l][i]) \in Nat BY <1>n, NumType
<1>s. NextNum(s) \in Nat /\ NextNum(s)' \in Nat /\ NextNum(s) <= NextNum(s)'
  BY NumbersGrow
<1> SUFFICES UpInOrder(l)'
  OBVIOUS
<1> HIDE DEF l
<1>1. ASSUME NEW n \in Nat, \A i \in 1..Len(up'[l]) : i + n \in 1..Len(up[l])
                                                      /\ up'[l][i] = up[l][i + n]
      PROVE  UpInOrder(l)'
  <2>1. \A i \in 1..Len(up'[l]) : Num(up'[l][i]) < NextNum(s)'
    <3> SUFFICES ASSUME NEW i \in 1..Len(up'[l]) PROVE Num(up'[l][i]) < NextNum(s)'
      OBVIOUS
    <3>1. Num(up[l][i + n]) < NextNum(s) /\ Num(up[l][i + n]) \in Nat
      BY <1>0, <1>1, <1>m DEF UpInOrder, l
    <3> QED BY <1>1, <1>s, <3>1
  <2>2. ASSUME NEW i \in 1..Len(up'[l]), NEW j \in 1..Len(up'[l]), i < j
        PROVE  Num(up'[l][i]) < Num(up'[l][j])
    <3>1. i + n < j + n BY <2>2, <1>1
    <3> QED BY <1>1, <2>2, <3>1 DEF UpInOrder, l
  <2> QED BY <1>0, <2>1, <2>2 DEF UpInOrder, Num
<1>2. CASE Shrinks(l)
  <2>1. \A i \in 1..Len(up'[l]) : i + 0 \in 1..Len(up[l]) /\ up'[l][i] = up[l][i + 0]
    BY <1>n, <1>2 DEF Shrinks
  <2> QED BY <1>1, <2>1
<1>3. CASE up'[l] = up[l] BY <1>0, <1>2, <1>3, Unshrunk
<1>4. CASE up[l] # <<>> /\ up'[l] = Tail(up[l])
  <2>1. /\ Len(Tail(up[l])) = Len(up[l]) - 1
        /\ \A i \in 1..Len(up[l]) - 1 : Tail(up[l])[i] = up[l][i + 1]
    BY <1>n, <1>4
  <2>2. \A i \in 1..Len(up'[l]) : i + 1 \in 1..Len(up[l]) /\ up'[l][i] = up[l][i + 1]
    BY <1>n, <1>4, <2>1
  <2> QED BY <1>1, <2>2
<1> QED BY <1>0, <1>2, <1>3, <1>4, OrderViews, SentIsLast DEF Keeps, Takes, HandWrites, l

\* What is taken is before all that is left, and after what was ahead of the queue.
LEMMA TakenIsFirst ==
  ASSUME TypeOK, [Next]_vars, NEW s \in Devices, NEW d \in Devices, <<s, d>> \in Links,
         Takes(s, d), UpInOrder(<<s, d>>)
  PROVE  /\ \A n \in Nat : n = Num(Head(up[<<s, d>>])) => Ahead(n, <<s, d>>)'
         /\ \A n \in Nat : Ahead(n, <<s, d>>) => /\ n < Num(Head(up[<<s, d>>]))
                                                 /\ Ahead(n, <<s, d>>)'
<1> DEFINE l == <<s, d>>
           q == up[l]
<1>1. q \in Seq(Messages) /\ q # <<>> /\ l[1] = s BY DEF TypeOK, Takes
<1>2. /\ Len(q) \in Nat /\ 1 \in 1..Len(q) /\ Head(q) = q[1]
      /\ Len(Tail(q)) = Len(q) - 1
      /\ \A i \in 1..Len(q) - 1 : Tail(q)[i] = q[i + 1]
  BY <1>1
<1>3. up'[l] = Tail(q) BY DEF Takes
<1>4. NextNum(s) \in Nat /\ NextNum(s)' \in Nat /\ NextNum(s) <= NextNum(s)'
  BY NumbersGrow
<1>5. \A i \in 1..Len(q) : Num(q[i]) \in Nat BY <1>1, NumType
<1> SUFFICES /\ \A n \in Nat : n = Num(Head(q)) => Ahead(n, l)'
             /\ \A n \in Nat : Ahead(n, l) => n < Num(Head(q)) /\ Ahead(n, l)'
  OBVIOUS
<1>6. /\ \A i \in 1..Len(q) : Num(q[i]) < NextNum(s)
      /\ \A i, j \in 1..Len(q) : i < j => Num(q[i]) < Num(q[j])
  BY <1>1 DEF UpInOrder
<1>7. \A i \in 1..Len(up'[l]) : /\ i + 1 \in 1..Len(q) /\ 1 < i + 1
                                /\ up'[l][i] = q[i + 1]
  BY <1>2, <1>3
<1>8. \A n \in Nat : Ahead(n, l) <=> /\ n < NextNum(s)
                                     /\ \A i \in 1..Len(q) : n < Num(q[i])
  BY <1>1 DEF Ahead
<1>9. ASSUME NEW n \in Nat, n < NextNum(s), \A i \in 2..Len(q) : n < Num(q[i])
      PROVE  Ahead(n, l)'
  <2>1. n < NextNum(s)' BY <1>4, <1>9
  <2>2. \A i \in 1..Len(up'[l]) : n < Num(up'[l][i]) BY <1>2, <1>7, <1>9, SMTT(30)
  <2> HIDE DEF l
  <2> QED BY <1>1, <2>1, <2>2 DEF Ahead, Num
<1> HIDE DEF q, l
<1>10. ASSUME NEW n \in Nat, n = Num(Head(q)) PROVE Ahead(n, l)'
  <2>1. n < NextNum(s) /\ \A i \in 2..Len(q) : n < Num(q[i])
    BY <1>2, <1>6, <1>10
  <2> QED BY <1>9, <2>1
<1>11. ASSUME NEW n \in Nat, Ahead(n, l) PROVE n < Num(Head(q)) /\ Ahead(n, l)'
  BY <1>2, <1>8, <1>9, <1>11
<1> QED BY <1>10, <1>11

\* The message in hand.
LEMMA HandStep ==
  ASSUME TypeOK, Origin, [Next]_vars, NEW s \in Devices, NEW d \in Devices,
         OneWay(s, d), Pipeline(s, d)
  PROVE  HandInOrder(s, d)'
<1> DEFINE l == <<s, d>>
           t == <<d, d>>
<1>0. l \in Links /\ t \in Tasks BY DEF OneWay, Tasks
<1>t. InHand(s, t) => Num(rx[t].msg) \in Nat
  BY <1>0, RxBusy, NumType DEF InHand
<1>1. InHand(s, t) => Ahead(Num(rx[t].msg), l) BY DEF Pipeline, HandInOrder
<1> SUFFICES ASSUME NEW n, n = Num(rx'[t].msg), InHand(s, t)' PROVE Ahead(n, l)'
  BY DEF HandInOrder, Ahead, Num
<1> HIDE DEF l, t
<1>2. CASE Shrinks(l) /\ HandKept(s, t)
  <2>1. InHand(s, t) /\ rx'[t].msg = rx[t].msg BY <1>2 DEF HandKept
  <2> QED BY <1>0, <1>1, <1>2, <1>t, <2>1, AheadKept DEF l
<1>3. CASE SendsTo(s, d)
  <2>1. InHand(s, t) /\ rx'[t].msg = rx[t].msg BY <1>3 DEF SendsTo, InHand
  <2> QED BY <1>0, <1>1, <1>3, <1>t, <2>1, SentIsLast DEF l
<1>4. CASE Takes(s, d)
  <2>1. n = Num(Head(up[l])) BY <1>4 DEF Takes, l, t
  <2>2. n \in Nat
    <3>1. up[l] \in Seq(Messages) /\ up[l] # <<>> BY <1>0, <1>4 DEF TypeOK, Takes, l
    <3> QED BY <2>1, <3>1, NumType
  <2>3. UpInOrder(l) BY DEF Pipeline, l
  <2> QED BY <1>0, <1>4, <2>1, <2>2, <2>3, TakenIsFirst DEF l
<1>5. CASE HandWrites(d)
  <2>1. InHand(s, t) /\ rx'[t].msg = rx[t].msg /\ up'[l] = up[l]
    BY <1>5 DEF HandWrites, RxWrites, InHand, RxPcs, t
  <2> QED BY <1>0, <1>1, <1>t, <2>1, AheadKept, Unshrunk DEF l
<1> QED BY <1>2, <1>3, <1>4, <1>5, OrderViews DEF Keeps, l, t

\* The log of writes of d.
LEMMA WrittenType ==
  ASSUME TypeOK, NEW d \in Devices
  PROVE  /\ written[d] \in Seq(Writes) /\ Len(written[d]) \in Nat
         /\ \A k \in 1..Len(written[d]) : written[d][k].msg \in Messages
<1>1. written[d] \in Seq(Writes) BY DEF TypeOK, Writes
<1>2. \A k \in 1..Len(written[d]) : written[d][k] \in Writes BY <1>1
<1> QED BY <1>1, <1>2 DEF Writes

\* What a step adds to the log of writes of d.
LEMMA WritesStep ==
  ASSUME TypeOK, [Next]_vars, NEW s \in Devices, NEW d \in Devices,
         Keeps(s, d) \/ SendsTo(s, d) \/ Takes(s, d) \/ HandWrites(d)
  PROVE  \A k \in 1..Len(written'[d]) : Sender(written'[d][k].msg) = s =>
           \/ k \in 1..Len(written[d]) /\ written'[d][k] = written[d][k]
           \/ /\ k = Len(written[d]) + 1 /\ HandWrites(d)
              /\ written'[d][k].msg = rx[<<d, d>>].msg
<1> DEFINE w == written[d]
<1>1. w \in Seq(Writes) /\ Len(w) \in Nat BY WrittenType
<1>2. CASE written'[d] = w BY <1>2
<1>3. CASE written'[d] = <<>> BY <1>3
<1>4. ASSUME NEW e \in Writes, written'[d] = Append(w, e),
             Sender(e.msg) # s \/ (HandWrites(d) /\ e.msg = rx[<<d, d>>].msg),
             NEW k \in 1..Len(written'[d]), Sender(written'[d][k].msg) = s
      PROVE  \/ k \in 1..Len(w) /\ written'[d][k] = w[k]
             \/ k = Len(w) + 1 /\ HandWrites(d) /\ written'[d][k].msg = rx[<<d, d>>].msg
  <2>1. Len(written'[d]) = Len(w) + 1 /\ written'[d][Len(w) + 1] = e
        /\ \A i \in 1..Len(w) : written'[d][i] = w[i]
    BY <1>1, <1>4
  <2>2. k \in 1..Len(w) \/ k = Len(w) + 1 BY <1>1, <1>4, <2>1
  <2> QED BY <1>4, <2>1, <2>2
<1>5. CASE HandWrites(d)
  <2>1. written'[d] = Append(w, Entry(<<d, d>>)) /\ rx[<<d, d>>].pc \in RxPcs
    BY <1>5 DEF HandWrites, RxWrites, RxPcs
  <2>2. <<d, d>> \in Tasks BY DEF Tasks
  <2>3. Entry(<<d, d>>) \in Writes /\ Entry(<<d, d>>).msg = rx[<<d, d>>].msg
    <3>1. rx[<<d, d>>].msg \in Messages BY <2>1, <2>2, RxBusy
    <3>2. Len(marks[d]) \in Nat BY DEF TypeOK
    <3> QED BY <2>2, <3>1, <3>2 DEF Entry, Writes
  <2> QED BY <1>4, <1>5, <2>1, <2>3
<1> QED BY <1>2, <1>3, <1>4, <1>5 DEF Keeps, WritesKept, SendsTo, Takes

\* What is written.
LEMMA WriteStep ==
  ASSUME TypeOK, Origin, [Next]_vars, NEW s \in Devices, NEW d \in Devices,
         OneWay(s, d), Pipeline(s, d)
  PROVE  WriteInOrder(s, d)' /\ Ordered(s, d)'
<1> DEFINE l == <<s, d>>
           t == <<d, d>>
           w == written[d]
           view == Keeps(s, d) \/ SendsTo(s, d) \/ Takes(s, d) \/ HandWrites(d)
<1>0. l \in Links /\ t \in Tasks BY DEF OneWay, Tasks
<1>1. w \in Seq(Writes) /\ Len(w) \in Nat BY WrittenType
<1>2. \A k \in 1..Len(w) : Num(w[k].msg) \in Nat
  BY WrittenType, NumType
<1>t. InHand(s, t) => Num(rx[t].msg) \in Nat /\ Ahead(Num(rx[t].msg), l)
  BY <1>0, RxBusy, NumType DEF InHand, Pipeline, HandInOrder
<1>3. \A k \in 1..Len(w) : Sender(w[k].msg) = s =>
        /\ Ahead(Num(w[k].msg), l)
        /\ InHand(s, t) /\ rx[t].pc \notin WriteDone => Num(w[k].msg) < Num(rx[t].msg)
  BY DEF Pipeline, WriteInOrder
<1>4. \A i, j \in 1..Len(w) :
        i < j /\ Sender(w[i].msg) = s /\ Sender(w[j].msg) = s
          => Num(w[i].msg) < Num(w[j].msg)
  BY DEF Pipeline, Ordered
<1>v. view BY OrderViews
<1>5. \A k \in 1..Len(written'[d]) : Sender(written'[d][k].msg) = s =>
        \/ k \in 1..Len(w) /\ written'[d][k] = w[k]
        \/ k = Len(w) + 1 /\ HandWrites(d) /\ written'[d][k].msg = rx[t].msg
  BY <1>v, WritesStep
<1>6. HandWrites(d) => /\ up'[l] = up[l] /\ rx[t].pc = "write" /\ rx'[t].pc = "remember"
                    /\ rx'[t].msg = rx[t].msg
  BY DEF HandWrites, RxWrites
<1>7. HandWrites(d) /\ Sender(rx[t].msg) = s => InHand(s, t) /\ rx[t].pc \notin WriteDone
  BY <1>6 DEF InHand, RxPcs, WriteDone
\* an entry of the log stays ahead
<1>8. ASSUME NEW n \in Nat, Ahead(n, l) PROVE Ahead(n, l)'
  <2>1. CASE Shrinks(l) BY <1>0, <1>8, <2>1, AheadKept
  <2>2. CASE SendsTo(s, d) BY <1>0, <1>8, <2>2, SentIsLast
  <2>3. CASE Takes(s, d)
    <3>1. UpInOrder(l) BY DEF Pipeline
    <3> QED BY <1>0, <1>8, <2>3, <3>1, TakenIsFirst
  <2>4. CASE HandWrites(d) BY <1>0, <1>6, <2>1, <2>4, Unshrunk
  <2> QED BY <1>v, <2>1, <2>2, <2>3, <2>4 DEF Keeps
\* and before what is in hand then
<1>9. ASSUME NEW k \in 1..Len(w), Sender(w[k].msg) = s, InHand(s, t)',
             rx'[t].pc \notin WriteDone
      PROVE  Num(w[k].msg) < Num(rx'[t].msg)
  <2>1. CASE InHand(s, t) /\ rx[t].pc \notin WriteDone /\ rx'[t].msg = rx[t].msg
    BY <1>3, <1>9, <2>1
  <2>2. CASE Takes(s, d)
    <3>1. rx'[t].msg = Head(up[l]) BY <1>9, <2>2 DEF Takes
    <3>2. UpInOrder(l) BY DEF Pipeline
    <3>3. Num(w[k].msg) \in Nat /\ Ahead(Num(w[k].msg), l) BY <1>2, <1>3, <1>9
    <3>4. Num(w[k].msg) < Num(Head(up[l])) BY <1>0, <2>2, <3>2, <3>3, TakenIsFirst
    <3> QED BY <3>1, <3>4
  <2>3. CASE Keeps(s, d) BY <1>9, <2>1, <2>3 DEF Keeps, HandKept
  <2>4. CASE SendsTo(s, d) BY <1>9, <2>1, <2>4 DEF SendsTo, InHand
  <2>5. CASE HandWrites(d) BY <1>6, <1>9, <2>5 DEF WriteDone
  <2> QED BY <1>v, <2>2, <2>3, <2>4, <2>5
<1>10. WriteInOrder(s, d)'
  <2> SUFFICES ASSUME NEW k \in 1..Len(written'[d]), Sender(written'[d][k].msg) = s,
                      NEW n, n = Num(written'[d][k].msg)
               PROVE  /\ Ahead(n, l)'
                      /\ InHand(s, t)' /\ rx'[t].pc \notin WriteDone
                           => n < Num(rx'[t].msg)
    BY DEF WriteInOrder, Ahead, Num, Sender
  <2> HIDE DEF l, t, w, view
  <2>1. CASE k \in 1..Len(w) /\ written'[d][k] = w[k]
    BY <1>2, <1>3, <1>8, <1>9, <2>1
  <2>2. CASE k = Len(w) + 1 /\ HandWrites(d) /\ written'[d][k].msg = rx[t].msg
    <3>1. InHand(s, t) BY <1>7, <2>2
    <3>2. n \in Nat /\ Ahead(n, l) BY <1>t, <2>2, <3>1
    <3> QED BY <1>6, <1>8, <2>2, <3>2 DEF WriteDone
  <2> QED BY <1>5, <2>1, <2>2
<1>11. Ordered(s, d)'
  <2> SUFFICES ASSUME NEW i \in 1..Len(written'[d]), NEW j \in 1..Len(written'[d]), i < j,
                      Sender(written'[d][i].msg) = s, Sender(written'[d][j].msg) = s
               PROVE  Num(written'[d][i].msg) < Num(written'[d][j].msg)
    BY DEF Ordered, Num, Sender
  <2> HIDE DEF l, t, w, view
  <2>1. i \in 1..Len(w) /\ written'[d][i] = w[i] BY <1>1, <1>5
  <2>2. CASE j \in 1..Len(w) /\ written'[d][j] = w[j] BY <1>4, <2>1, <2>2
  <2>3. CASE j = Len(w) + 1 /\ HandWrites(d) /\ written'[d][j].msg = rx[t].msg
    BY <1>3, <1>7, <2>1, <2>3
  <2> QED BY <1>5, <2>2, <2>3
<1> QED BY <1>10, <1>11

\* At the start nothing is on its way, in hand or written.
LEMMA OrderInit == Init => OrderInv
<1> SUFFICES ASSUME Init PROVE OrderInv
  OBVIOUS
<1>1. Origin
  <2>1. \A l \in Links : l \in Tasks BY DEF Tasks
  <2> QED BY <2>1, IdlePlaces DEF Init, Origin
<1>2. ASSUME NEW s \in Devices, NEW d \in Devices, OneWay(s, d) PROVE Pipeline(s, d)
  <2>1. up[<<s, d>>] = <<>> /\ written[d] = <<>> BY <1>2 DEF Init, OneWay
  <2>2. rx[<<d, d>>] = RxIdle BY DEF Init, Tasks
  <2> QED BY <2>1, <2>2, IdlePlaces
      DEF Pipeline, UpInOrder, HandInOrder, WriteInOrder, Ordered, InHand
<1> QED BY <1>1, <1>2 DEF OrderInv

\* What is written, in hand and on the way between two devices is in the order in which
\* it was pushed.
THEOREM OrderInvariant == Spec => []OrderInv
<1>1. TypeOK /\ OrderInv /\ [Next]_vars => OrderInv'
  <2> SUFFICES ASSUME TypeOK, OrderInv, [Next]_vars PROVE OrderInv'
    OBVIOUS
  <2>1. Origin' BY OriginStep DEF OrderInv
  <2>2. ASSUME NEW s \in Devices, NEW d \in Devices, OneWay(s, d) PROVE Pipeline(s, d)'
    <3>1. Pipeline(s, d) /\ Origin BY <2>2 DEF OrderInv
    <3>2. UpInOrder(<<s, d>>)' BY <2>2, <3>1, UpStep DEF Pipeline
    <3> QED BY <2>2, <3>1, <3>2, HandStep, WriteStep DEF Pipeline
  <2> QED BY <2>1, <2>2 DEF OrderInv, OneWay
<1> QED BY <1>1, OrderInit, TypeCorrect, PTL DEF Spec

\* A device that hears of another only as its server writes the other's messages in the
\* order in which they were pushed (client.send, handle_incoming_messages_task).
THEOREM WritesInOrder == Spec => []InOrderWrites
<1>1. OrderInv => InOrderWrites
  BY DEF OrderInv, Pipeline, Ordered, InOrderWrites, OneWay, Num
<1> QED BY <1>1, OrderInvariant, PTL

-----------------------------------------------------------------------------
(* No message is skipped.  All that is between two devices is followed from   *)
(* the push to its end: what a task drops is known, and what is known is      *)
(* marked or in the hand of a task that is about to mark it.                  *)

\* The message m is on a connection or in the hand of a task.
Around(m) ==
  \/ \E l \in Links : \E i \in 1..Len(up[l]) : up[l][i] = m
  \/ \E l \in Links : m \in down[l]
  \/ \E t \in Tasks : rx[t].pc \in RxPcs /\ rx[t].msg = m

WasSent(u) == u[1] \in Devices /\ u[2] \in 1..Len(sent[u[1]])
ContentOf(u) == sent[u[1]][u[2]].content

\* What is sent and what is around is what its sender has pushed under that UUID.
Genuine ==
  /\ \A d \in Devices : push[d].pc = "send" =>
       WasSent(<<d, Len(sent[d])>>) /\ push[d].content = ContentOf(<<d, Len(sent[d])>>)
  /\ \A m : Around(m) => WasSent(m.uuid) /\ m.content = ContentOf(m.uuid)

\* A UUID that one of d's caches holds stands for a content that is marked, or that
\* the task which has written it is about to mark.
Marking == {"markUuid", "markHash"}

Known(d, u) ==
  \/ Holds(marks[d], ContentOf(u))
  \/ \E t \in TasksOf(d) : rx[t].pc \in Marking /\ rx[t].msg.uuid = u

Remembered ==
  \A d \in Devices, u \in Uuids :
    Holds(uuidCache[d], u) \/ Holds(writerCache[d], u) => WasSent(u) /\ Known(d, u)

AllUp == faults = 0 => linkUp = Links

ArrivalInv == AllUp /\ Genuine /\ Remembered /\ NoneSkipped

\* What may be sent, and what has been, by one device in one step.
PushSending(d) ==
  \/ push'[d] = push[d] /\ sent'[d] = sent[d]
  \/ PushTakes(d)
  \/ /\ push'[d].pc # "send" /\ sent'[d] = sent[d]
     /\ push[d].pc = "send" => Send(d) \/ Restart(d)

\* Every step is one of these to a device's push task.
LEMMA PushSends ==
  ASSUME TypeOK, [Next]_vars, NEW d \in Devices
  PROVE  PushSending(d)
<1>1. CASE UNCHANGED <<push, sent>>
  BY <1>1 DEF PushSending
<1>2. ASSUME NEW e \in Devices, TakeChange(e) PROVE PushSending(d)
  <2>1. CASE e = d /\ ShouldSend(d, Head(changes[d]))
    <3>1. changes[d] \in Seq(Contents) /\ changes[d] # <<>>
      BY <1>2, <2>1 DEF TakeChange, TypeOK
    <3>2. Head(changes[d]) \in Contents
      BY <3>1
    <3>3. PushTakes(d)
      BY <1>2, <2>1, <3>2 DEF TakeChange, PushTakes, ShouldSend, MarksKept, caches, TypeOK
    <3> QED BY <3>3 DEF PushSending
  <2>2. CASE ~(e = d /\ ShouldSend(d, Head(changes[d])))
    BY <1>2, <2>2 DEF TakeChange, PushSending, TypeOK
  <2> QED BY <2>1, <2>2
<1>3. ASSUME NEW e \in Devices, Send(e) PROVE PushSending(d)
  <2>1. sent' = sent /\ push' = [push EXCEPT ![e].pc = "mark"] /\ push[e].pc = "send"
    BY <1>3 DEF Send, ghosts
  <2>2. CASE e = d
    <3>1. push[d] \in [pc : PushPcs, content : Contents]
      BY <2>1, <2>2, PushBusy DEF PushPcs
    <3>2. push'[d].pc = "mark"
      BY <2>1, <2>2, <3>1 DEF TypeOK
    <3> QED BY <1>3, <2>1, <2>2, <3>2 DEF PushSending
  <2>3. CASE e # d
    BY <2>1, <2>3 DEF PushSending, TypeOK
  <2> QED BY <2>2, <2>3
<1>4. ASSUME NEW e \in Devices, MarkSent(e) \/ Restart(e) PROVE PushSending(d)
  <2>1. sent' = sent /\ push' = [push EXCEPT ![e] = Idle]
    BY <1>4 DEF MarkSent, Restart
  <2>2. CASE e = d
    <3>1. push'[d] = Idle BY <2>1, <2>2 DEF TypeOK
    <3>2. push[d].pc = "send" => Restart(d)
      BY <1>4, <2>2 DEF MarkSent
    <3> QED BY <2>1, <3>1, <3>2 DEF PushSending, Idle
  <2>3. CASE e # d
    BY <2>1, <2>3 DEF PushSending, TypeOK
  <2> QED BY <2>2, <2>3
<1>5. ASSUME NEW t \in Tasks, RxStep(t) PROVE UNCHANGED <<push, sent>>
  BY <1>5 DEF RxStep, Receive, ReceiveOnServer, ReceiveOnClient, CheckHash, CheckWriter,
     OnlyRx, WriteOk, WriteFails, RememberWrite, MarkUuid, MarkProcessed, ghosts
<1>6. ASSUME \/ \E e \in Copiers, x \in Contents : UserCopy(e, x)
             \/ \E e \in Devices : Poll(e)
             \/ \E l \in Links : LinkDown(l) \/ LinkRestored(l)
             \/ UNCHANGED vars
      PROVE  UNCHANGED <<push, sent>>
  BY <1>6 DEF UserCopy, Poll, LinkDown, LinkRestored, ghosts, vars
<1> QED BY <1>1, <1>2, <1>3, <1>4, <1>5, <1>6 DEF Next, PushStep

\* What was sent stays sent.
LEMMA SentStays ==
  ASSUME TypeOK, [Next]_vars, NEW u \in Uuids, WasSent(u)
  PROVE  WasSent(u)' /\ ContentOf(u)' = ContentOf(u)
<1> DEFINE d == u[1]
           n == u[2]
<1>1. d \in Devices /\ n \in 1..Len(sent[d]) BY DEF WasSent
<1>2. sent[d] \in Seq(Sends) BY <1>1 DEF TypeOK, Sends
<1>3. CASE sent'[d] = sent[d]
  BY <1>1, <1>3 DEF WasSent, ContentOf
<1>4. CASE PushTakes(d)
  <2>1. PICK e : sent'[d] = Append(sent[d], e) BY <1>4 DEF PushTakes
  <2>2. n \in 1..Len(sent'[d]) /\ sent'[d][n] = sent[d][n] BY <1>1, <1>2, <2>1
  <2> QED BY <1>1, <2>2 DEF WasSent, ContentOf
<1> QED BY <1>1, <1>3, <1>4, PushSends DEF PushSending

\* The push task's message is the last that was sent.
LEMMA SentIsNamed ==
  ASSUME TypeOK, [Next]_vars, Genuine, NEW d \in Devices, push'[d].pc = "send"
  PROVE  /\ WasSent(<<d, Len(sent[d])>>)'
         /\ push'[d].content = ContentOf(<<d, Len(sent[d])>>)'
<1> DEFINE u == <<d, Len(sent[d])>>
<1>1. sent[d] \in Seq(Sends) BY DEF TypeOK, Sends
<1>2. CASE push'[d] = push[d] /\ sent'[d] = sent[d]
  BY <1>2 DEF Genuine, WasSent, ContentOf
<1>3. CASE PushTakes(d)
  <2>1. PICK x \in Contents :
          /\ push'[d] = [pc |-> "send", content |-> x]
          /\ sent'[d] = Append(sent[d],
               [content |-> x, at |-> Len(marks[d]), epoch |-> epoch[d]])
    BY <1>3 DEF PushTakes
  <2>2. Len(sent'[d]) = Len(sent[d]) + 1 /\ Len(sent[d]) \in Nat
        /\ sent'[d][Len(sent[d]) + 1].content = x
    BY <1>1, <2>1
  <2> QED BY <2>1, <2>2 DEF WasSent, ContentOf
<1> QED BY <1>2, <1>3, PushSends DEF PushSending

\* What a task has in hand it had before, or it has taken it from a connection.
LEMMA HandsFromQueues ==
  ASSUME TypeOK, [Next]_vars, NEW t \in Tasks, rx'[t].pc \in RxPcs
  PROVE  \/ rx[t].pc \in RxPcs /\ rx'[t].msg = rx[t].msg
         \/ \E l \in Links : \/ \E i \in 1..Len(up[l]) : up[l][i] = rx'[t].msg
                             \/ rx'[t].msg \in down[l]
<1> DEFINE Had == rx[t].pc \in RxPcs /\ rx'[t].msg = rx[t].msg
<1>0. rx \in RxType BY DEF TypeOK, RxType
<1>1. rx'[t] = rx[t] => Had OBVIOUS
<1>2. (\A s : HandKept(s, t)) => Had BY DEF HandKept, InHand
<1>3. ASSUME NEW e \in Devices, Restart(e) PROVE Had
  <2>1. rx'[t] = rx[t] \/ rx'[t] = RxIdle BY <1>3 DEF Restart
  <2> QED BY <1>1, <2>1, IdlePlaces
<1>4. ASSUME NEW u \in Tasks, RxStep(u), ~Receive(u) PROVE Had
  BY <1>2, <1>4, OtherHand, OwnHand
<1>5. ASSUME NEW k \in Links, NEW u \in Tasks, u = <<k[2], k[2]>>, ReceiveOnServer(k[2], k)
      PROVE  Had \/ \E i \in 1..Len(up[k]) : up[k][i] = rx'[t].msg
  <2>1. Accept(u, Head(up[k])) /\ up[k] # <<>> /\ up[k] \in Seq(Messages)
    BY <1>5 DEF ReceiveOnServer, TypeOK
  <2>2. 1 \in 1..Len(up[k]) /\ Head(up[k]) = up[k][1] BY <2>1
  <2>3. rx'[t] = rx[t] \/ rx'[t].msg = Head(up[k]) BY <1>0, <2>1 DEF Accept, RxType
  <2> QED BY <1>1, <2>2, <2>3
<1>6. ASSUME NEW u \in Links, NEW m \in down[u], ReceiveOnClient(u, m)
      PROVE  Had \/ rx'[t].msg \in down[u]
  <2>1. Accept(u, m) /\ u \in Tasks BY <1>6 DEF ReceiveOnClient, Tasks
  <2>2. rx'[t] = rx[t] \/ rx'[t].msg = m BY <1>0, <2>1 DEF Accept, RxType
  <2> QED BY <1>1, <1>6, <2>2
<1>7. ASSUME NEW e \in Devices, TakeChange(e) \/ Send(e) \/ MarkSent(e) \/ Poll(e)
      PROVE  UNCHANGED rx
  BY <1>7 DEF TakeChange, Send, MarkSent, Poll
<1>8. ASSUME \/ \E e \in Copiers, x \in Contents : UserCopy(e, x)
             \/ \E k \in Links : LinkDown(k) \/ LinkRestored(k)
             \/ UNCHANGED vars
      PROVE  UNCHANGED rx
  BY <1>8 DEF UserCopy, LinkDown, LinkRestored, vars
<1> HIDE DEF Had
<1>9. ASSUME NEW u \in Tasks, RxStep(u)
      PROVE  \/ Had
             \/ \E l \in Links : \/ \E i \in 1..Len(up[l]) : up[l][i] = rx'[t].msg
                                 \/ rx'[t].msg \in down[l]
  BY <1>4, <1>5, <1>6, <1>9 DEF Receive
<1> QED BY <1>1, <1>3, <1>7, <1>8, <1>9 DEF Next, PushStep, Had

\* What is on a connection was there before, or has just been sent.
JustSent(m) == \E e \in Devices : push[e].pc = "send" /\ m = Outgoing(e)

\* A connection carries what it carried, or what a push task sends in this step.
LEMMA QueuesFromPushes ==
  ASSUME TypeOK, [Next]_vars, NEW l \in Links
  PROVE  /\ \A i \in 1..Len(up'[l]) :
              (\E j \in 1..Len(up[l]) : up[l][j] = up'[l][i]) \/ JustSent(up'[l][i])
         /\ \A m \in down'[l] : m \in down[l] \/ JustSent(m)
<1> DEFINE UpOld == \A i \in 1..Len(up'[l]) : \E j \in 1..Len(up[l]) : up[l][j] = up'[l][i]
           DownOld == down'[l] \subseteq down[l]
<1>n. up[l] \in Seq(Messages) /\ Len(up[l]) \in Nat BY DEF TypeOK
<1>u. Shrinks(l) => UpOld
  <2>1. Shrinks(l) => \A i \in 1..Len(up'[l]) : i \in 1..Len(up[l])
    BY <1>n DEF Shrinks
  <2> QED BY <2>1 DEF Shrinks
<1> HIDE DEF UpOld
<1>1. CASE UNCHANGED <<up, down>>
  BY <1>1, <1>u, Unshrunk DEF UpOld
<1>2. ASSUME NEW e \in Devices, Send(e)
      PROVE  /\ \A i \in 1..Len(up'[l]) :
                  (\E j \in 1..Len(up[l]) : up[l][j] = up'[l][i]) \/ JustSent(up'[l][i])
             /\ \A m \in down'[l] : m \in down[l] \/ JustSent(m)
  <2>1. JustSent(Outgoing(e)) BY <1>2 DEF Send, JustSent
  <2>2. down'[l] \subseteq down[l] \cup {Outgoing(e)} BY <1>2 DEF Send
  <2>3. CASE up'[l] = up[l] BY <1>u, <2>1, <2>2, <2>3, Unshrunk DEF UpOld
  <2>4. CASE up'[l] = Append(up[l], Outgoing(e))
    <3>1. Len(up'[l]) = Len(up[l]) + 1 /\ up'[l][Len(up[l]) + 1] = Outgoing(e)
          /\ \A j \in 1..Len(up[l]) : up'[l][j] = up[l][j]
      BY <1>n, <2>4
    <3>2. \A i \in 1..Len(up'[l]) : i \in 1..Len(up[l]) \/ i = Len(up[l]) + 1
      BY <1>n, <3>1
    <3> QED BY <2>1, <2>2, <3>1, <3>2
  <2> QED BY <1>2, <2>3, <2>4 DEF Send
<1>3. ASSUME NEW e \in Devices, Restart(e) PROVE UpOld /\ DownOld
  <2>1. up'[l] = up[l] \/ up'[l] = <<>> BY <1>3 DEF Restart
  <2>2. up'[l] = <<>> => Shrinks(l) BY <1>n DEF Shrinks
  <2>3. down'[l] \subseteq down[l] BY <1>3 DEF Restart
  <2> QED BY <1>u, <2>1, <2>2, <2>3, Unshrunk
<1>4. ASSUME NEW k \in Links, LinkDown(k) PROVE UpOld /\ DownOld
  <2>1. down'[l] \subseteq down[l] BY <1>4 DEF LinkDown, TypeOK
  <2> QED BY <1>4, <1>u, <2>1, CutShrinks
<1>5. ASSUME NEW k \in Links, ReceiveOnServer(k[2], k) PROVE UpOld /\ DownOld
  <2>1. down' = down /\ up' = [up EXCEPT ![k] = Tail(@)] /\ up[k] # <<>>
    BY <1>5 DEF ReceiveOnServer
  <2>2. CASE k = l
    <3>1. up'[l] = Tail(up[l]) /\ up[l] # <<>> BY <2>1, <2>2 DEF TypeOK
    <3>2. /\ Len(Tail(up[l])) = Len(up[l]) - 1
          /\ \A i \in 1..Len(up[l]) - 1 : Tail(up[l])[i] = up[l][i + 1]
      BY <1>n, <3>1
    <3>3. \A i \in 1..Len(up[l]) - 1 : i + 1 \in 1..Len(up[l]) BY <1>n
    <3> QED BY <2>1, <3>1, <3>2, <3>3 DEF UpOld
  <2>3. CASE k # l
    <3>1. up'[l] = up[l] BY <2>1, <2>3 DEF TypeOK
    <3> QED BY <1>u, <2>1, <3>1, Unshrunk
  <2> QED BY <2>2, <2>3
<1>6. ASSUME NEW u \in Links, NEW m \in down[u], ReceiveOnClient(u, m)
      PROVE  UpOld /\ DownOld
  <2>1. up' = up /\ down' = [down EXCEPT ![u] = @ \ {m}] BY <1>6 DEF ReceiveOnClient
  <2>2. down'[l] \subseteq down[l] BY <2>1 DEF TypeOK
  <2> QED BY <1>u, <2>1, <2>2, Unshrunk
<1>7. ASSUME NEW u \in Tasks, RxStep(u), ~Receive(u) PROVE UNCHANGED <<up, down>>
  BY <1>7 DEF RxStep, CheckHash, CheckWriter, OnlyRx, WriteOk, WriteFails, RememberWrite,
     MarkUuid, MarkProcessed, net
<1>8. ASSUME NEW e \in Devices, TakeChange(e) \/ MarkSent(e) \/ Poll(e)
      PROVE  UNCHANGED <<up, down>>
  BY <1>8 DEF TakeChange, MarkSent, Poll, net
<1>9. ASSUME \/ \E e \in Copiers, x \in Contents : UserCopy(e, x)
             \/ \E k \in Links : LinkRestored(k)
             \/ UNCHANGED vars
      PROVE  UNCHANGED <<up, down>>
  BY <1>9 DEF UserCopy, LinkRestored, net, vars
<1>10. UpOld /\ DownOld
         => /\ \A i \in 1..Len(up'[l]) :
                 (\E j \in 1..Len(up[l]) : up[l][j] = up'[l][i]) \/ JustSent(up'[l][i])
            /\ \A m \in down'[l] : m \in down[l] \/ JustSent(m)
  BY DEF UpOld
<1> HIDE DEF DownOld
<1> QED BY <1>1, <1>2, <1>3, <1>4, <1>5, <1>6, <1>7, <1>8, <1>9, <1>10
        DEF Next, PushStep, RxStep, Receive

\* No message comes from nowhere.
LEMMA NoneFromNowhere ==
  ASSUME TypeOK, [Next]_vars, NEW m, Around(m)'
  PROVE  Around(m) \/ JustSent(m)
<1>1. ASSUME NEW l \in Links, NEW i \in 1..Len(up'[l]), up'[l][i] = m
      PROVE  Around(m) \/ JustSent(m)
  BY <1>1, QueuesFromPushes DEF Around
<1>2. ASSUME NEW l \in Links, m \in down'[l] PROVE Around(m) \/ JustSent(m)
  BY <1>2, QueuesFromPushes DEF Around
<1>3. ASSUME NEW t \in Tasks, rx'[t].pc \in RxPcs, rx'[t].msg = m PROVE Around(m)
  BY <1>3, HandsFromQueues DEF Around
<1> QED BY <1>1, <1>2, <1>3 DEF Around

\* What is around is a message with a UUID.
LEMMA AroundType ==
  ASSUME TypeOK, NEW m, Around(m)
  PROVE  m \in Messages /\ m.uuid \in Uuids
<1>1. m \in Messages
  <2>1. ASSUME NEW l \in Links, NEW i \in 1..Len(up[l]), up[l][i] = m PROVE m \in Messages
    <3>1. up[l] \in Seq(Messages) BY DEF TypeOK
    <3> QED BY <2>1, <3>1
  <2>2. ASSUME NEW l \in Links, m \in down[l] PROVE m \in Messages
    BY <2>2 DEF TypeOK
  <2>3. ASSUME NEW t \in Tasks, rx[t].pc \in RxPcs, rx[t].msg = m PROVE m \in Messages
    BY <2>3, RxBusy
  <2> QED BY <2>1, <2>2, <2>3 DEF Around
<1> QED BY <1>1 DEF Messages

\* Messages stay genuine.
LEMMA GenuineStep ==
  ASSUME TypeOK, [Next]_vars, Genuine
  PROVE  Genuine'
<1>1. ASSUME NEW m, Around(m)' PROVE WasSent(m.uuid)' /\ m.content = ContentOf(m.uuid)'
  <2>1. CASE Around(m)
    <3>1. WasSent(m.uuid) /\ m.content = ContentOf(m.uuid) BY <2>1 DEF Genuine
    <3>2. m.uuid \in Uuids BY <2>1, AroundType
    <3> QED BY <3>1, <3>2, SentStays
  <2>2. ASSUME NEW e \in Devices, push[e].pc = "send", m = Outgoing(e)
        PROVE  WasSent(m.uuid)' /\ m.content = ContentOf(m.uuid)'
    <3>1. m.uuid = <<e, Len(sent[e])>> /\ m.content = push[e].content
      BY <2>2 DEF Outgoing
    <3>2. WasSent(m.uuid) /\ m.content = ContentOf(m.uuid)
      BY <2>2, <3>1 DEF Genuine
    <3>3. m.uuid \in Uuids
      <4>1. Len(sent[e]) \in Nat BY DEF TypeOK
      <4> QED BY <3>1, <4>1 DEF Uuids
    <3> QED BY <3>2, <3>3, SentStays
  <2> QED BY <1>1, <2>1, <2>2, NoneFromNowhere DEF JustSent
<1> QED BY <1>1, SentIsNamed DEF Genuine

\* What a bounded memory holds after an addition.
LEMMA AddHolds ==
  ASSUME NEW S, NEW cache \in Seq(S), NEW x \in S, NEW cap \in Nat \ {0},
         NEW y, Holds(Add(cache, x, cap), y)
  PROVE  Holds(cache, y) \/ y = x
<1> DEFINE kept == IF Len(cache) >= cap THEN Tail(cache) ELSE cache
<1>1. kept \in Seq(S) /\ \A i \in 1..Len(kept) : \E j \in 1..Len(cache) : kept[i] = cache[j]
  <2>1. CASE Len(cache) >= cap
    <3>1. cache # <<>> BY <2>1
    <3>2. /\ Tail(cache) \in Seq(S) /\ Len(Tail(cache)) = Len(cache) - 1
          /\ \A i \in 1..Len(cache) - 1 : Tail(cache)[i] = cache[i + 1]
      BY <3>1
    <3>3. \A i \in 1..Len(cache) - 1 : i + 1 \in 1..Len(cache) OBVIOUS
    <3> QED BY <2>1, <3>2, <3>3
  <2>2. CASE ~(Len(cache) >= cap) BY <2>2
  <2> QED BY <2>1, <2>2
<1>2. Add(cache, x, cap) = Append(kept, x) BY DEF Add
<1> HIDE DEF kept
<1>3. PICK i \in 1..Len(Append(kept, x)) : Append(kept, x)[i] = y BY <1>2 DEF Holds
<1>4. /\ Len(Append(kept, x)) = Len(kept) + 1 /\ Append(kept, x)[Len(kept) + 1] = x
      /\ \A j \in 1..Len(kept) : Append(kept, x)[j] = kept[j]
  BY <1>1
<1>5. i \in 1..Len(kept) \/ i = Len(kept) + 1 BY <1>1, <1>3, <1>4
<1> QED BY <1>1, <1>3, <1>4, <1>5 DEF Holds

\* A device that does not restart keeps its marks.
LEMMA MarksStay ==
  ASSUME TypeOK, [Next]_vars, NEW d \in Devices, ~Restart(d), NEW x, Holds(marks[d], x)
  PROVE  Holds(marks'[d], x)
<1>1. epoch'[d] = epoch[d]
  <2>1. ASSUME NEW e \in Devices, Restart(e) PROVE epoch'[d] = epoch[d]
    BY <2>1 DEF Restart, TypeOK
  <2>2. ASSUME NEW e \in Devices, Poll(e) \/ PushStep(e) PROVE epoch' = epoch
    BY <2>2 DEF Poll, PushStep, TakeChange, Send, MarkSent, ghosts
  <2>3. ASSUME NEW t \in Tasks, RxStep(t) PROVE epoch' = epoch
    BY <2>3 DEF RxStep, Receive, ReceiveOnServer, ReceiveOnClient, CheckHash, CheckWriter,
       OnlyRx, WriteOk, WriteFails, RememberWrite, MarkUuid, MarkProcessed, ghosts
  <2>4. ASSUME \/ \E e \in Copiers, y \in Contents : UserCopy(e, y)
               \/ \E l \in Links : LinkDown(l) \/ LinkRestored(l)
               \/ UNCHANGED vars
        PROVE  epoch' = epoch
    BY <2>4 DEF UserCopy, LinkDown, LinkRestored, ghosts, vars
  <2> QED BY <2>1, <2>2, <2>3, <2>4 DEF Next
<1>2. epoch[d] \in Nat /\ marks[d] \in Seq(Contents) BY DEF TypeOK
<1>3. ~Restarted(d) BY <1>1, <1>2 DEF Restarted
<1>4. MarksGrow(d)
  BY <1>3, PushViews DEF PushView, PushTakes, PushMarks, PushQuiet, MarksGrow
<1>5. CASE MarksKept(d) BY <1>5 DEF MarksKept
<1>6. ASSUME NEW y \in Contents, MarkAdded(d, y) PROVE Holds(marks'[d], x)
  <2>1. marks'[d] = Append(marks[d], y) BY <1>6 DEF MarkAdded
  <2>2. /\ Len(marks'[d]) = Len(marks[d]) + 1
        /\ \A i \in 1..Len(marks[d]) : i \in 1..Len(marks'[d]) /\ marks'[d][i] = marks[d][i]
    BY <1>2, <2>1
  <2> QED BY <2>2 DEF Holds
<1> QED BY <1>4, <1>5, <1>6 DEF MarksGrow

\* What a device remembers it remembered before, or has the task in hand that adds it.
AddsUuid(t, u) ==
  /\ rx[t].pc \in RxPcs /\ rx[t].msg.uuid = u
  /\ rx'[t].pc \in Marking /\ rx'[t].msg = rx[t].msg

\* A step adds to a cache of d only the UUID that a task of d has in hand.
LEMMA CacheViews ==
  ASSUME TypeOK, [Next]_vars, NEW d \in Devices, ~Restart(d), NEW u,
         Holds(uuidCache'[d], u) \/ Holds(writerCache'[d], u)
  PROVE  \/ Holds(uuidCache[d], u) \/ Holds(writerCache[d], u)
         \/ \E t \in TasksOf(d) : AddsUuid(t, u)
<1> DEFINE Same == uuidCache'[d] = uuidCache[d] /\ writerCache'[d] = writerCache[d]
           Goal == \/ Holds(uuidCache[d], u) \/ Holds(writerCache[d], u)
                   \/ \E t \in TasksOf(d) : AddsUuid(t, u)
<1>0. Same => Goal OBVIOUS
<1>t. rx \in RxType /\ uuidCache[d] \in Seq(Uuids) /\ writerCache[d] \in Seq(Uuids)
  BY DEF TypeOK, RxType
<1>1. ASSUME NEW e \in Devices, Restart(e) PROVE Same
  BY <1>1 DEF Restart, TypeOK
<1>2. ASSUME NEW t \in Tasks, RememberWrite(t) PROVE Goal
  <2>1. /\ writerCache' = [writerCache EXCEPT ![t[1]] = Add(@, rx[t].msg.uuid, CacheSize)]
        /\ uuidCache' = uuidCache /\ Become(t, "markUuid") /\ rx[t].pc \in RxPcs
    BY <1>2 DEF RememberWrite, RxPcs
  <2>2. CASE t[1] = d
    <3>1. writerCache'[d] = Add(writerCache[d], rx[t].msg.uuid, CacheSize)
      BY <2>1, <2>2 DEF TypeOK
    <3>2. rx[t].msg.uuid \in Uuids BY <2>1, RxBusy
    <3>3. Holds(writerCache'[d], u) => Holds(writerCache[d], u) \/ u = rx[t].msg.uuid
      BY <1>t, <3>1, <3>2, AddHolds, CacheSizeAssumption
    <3>4. rx'[t].pc = "markUuid" /\ rx'[t].msg = rx[t].msg
      BY <1>t, <2>1, RxBusy DEF Become, RxType
    <3>5. u = rx[t].msg.uuid => AddsUuid(t, u)
      BY <2>1, <3>4 DEF AddsUuid, Marking
    <3> QED BY <2>1, <2>2, <3>3, <3>5 DEF TasksOf
  <2>3. CASE t[1] # d BY <1>0, <2>1, <2>3 DEF TypeOK
  <2> QED BY <2>2, <2>3
<1>3. ASSUME NEW t \in Tasks, MarkUuid(t) PROVE Goal
  <2>1. /\ uuidCache' = [uuidCache EXCEPT ![t[1]] = Add(@, rx[t].msg.uuid, CacheSize)]
        /\ writerCache' = writerCache /\ Become(t, "markHash") /\ rx[t].pc \in RxPcs
    BY <1>3 DEF MarkUuid, RxPcs
  <2>2. CASE t[1] = d
    <3>1. uuidCache'[d] = Add(uuidCache[d], rx[t].msg.uuid, CacheSize)
      BY <2>1, <2>2 DEF TypeOK
    <3>2. rx[t].msg.uuid \in Uuids BY <2>1, RxBusy
    <3>3. Holds(uuidCache'[d], u) => Holds(uuidCache[d], u) \/ u = rx[t].msg.uuid
      BY <1>t, <3>1, <3>2, AddHolds, CacheSizeAssumption
    <3>4. rx'[t].pc = "markHash" /\ rx'[t].msg = rx[t].msg
      BY <1>t, <2>1, RxBusy DEF Become, RxType
    <3>5. u = rx[t].msg.uuid => AddsUuid(t, u)
      BY <2>1, <3>4 DEF AddsUuid, Marking
    <3> QED BY <2>1, <2>2, <3>3, <3>5 DEF TasksOf
  <2>3. CASE t[1] # d BY <1>0, <2>1, <2>3 DEF TypeOK
  <2> QED BY <2>2, <2>3
<1>4. ASSUME NEW t \in Tasks, RxStep(t), ~RememberWrite(t), ~MarkUuid(t) PROVE Same
  BY <1>4 DEF RxStep, Receive, ReceiveOnServer, ReceiveOnClient, CheckHash, CheckWriter,
     OnlyRx, WriteOk, WriteFails, MarkProcessed, caches
<1>5. ASSUME NEW e \in Devices, Poll(e) \/ PushStep(e) PROVE Same
  BY <1>5 DEF Poll, PushStep, TakeChange, Send, MarkSent, caches
<1>6. ASSUME \/ \E e \in Copiers, y \in Contents : UserCopy(e, y)
             \/ \E l \in Links : LinkDown(l) \/ LinkRestored(l)
             \/ UNCHANGED vars
      PROVE  Same
  BY <1>6 DEF UserCopy, LinkDown, LinkRestored, caches, vars
<1> HIDE DEF Same, Goal
<1>7. Goal BY <1>0, <1>1, <1>2, <1>3, <1>4, <1>5, <1>6 DEF Next
<1> QED BY <1>7 DEF Goal

\* What becomes of the message in a task's hand.
StaysInHand(t) ==
  /\ rx'[t].pc \in RxPcs /\ rx'[t].msg = rx[t].msg
  /\ rx[t].pc \in Marking => rx'[t].pc \in Marking

HandFate(t) ==
  \/ StaysInHand(t)
  \/ rx[t].pc = "hash" /\ Holds(hashCache[t[1]], rx[t].msg.content)
  \/ /\ rx[t].pc = "writer" /\ Holds(writerCache[t[1]], rx[t].msg.uuid)
     /\ \A u \in Tasks : u # t => rx'[u] = rx[u]
  \/ rx[t].pc = "write" /\ rx[t].msg.uuid \in failed'[t[1]]
  \/ Holds(marks'[t[1]], rx[t].msg.content)

\* A message in hand stays there, is dropped for one of these reasons, or is marked.
LEMMA HandFates ==
  ASSUME TypeOK, [Next]_vars, NEW t \in Tasks, rx[t].pc \in RxPcs, ~Restart(t[1])
  PROVE  HandFate(t)
<1> DEFINE d == t[1]
<1>0. /\ rx \in RxType /\ d \in Devices
      /\ rx[t] \in [pc : RxPcs, msg : Messages, tries : 0..MaxAttempts - 1]
  BY TaskOwner, RxBusy DEF TypeOK, RxType
<1>1. CASE rx'[t] = rx[t]
  BY <1>1 DEF HandFate, StaysInHand
<1>2. ASSUME NEW pc \in RxPcs, Become(t, pc), rx[t].pc \in Marking => pc \in Marking
      PROVE  HandFate(t)
  <2>1. rx'[t].pc = pc /\ rx'[t].msg = rx[t].msg BY <1>0, <1>2 DEF Become, RxType
  <2> QED BY <1>2, <2>1 DEF HandFate, StaysInHand
<1>3. CASE CheckHash(t)
  BY <1>2, <1>3 DEF CheckHash, HandFate, Marking, RxPcs
<1>4. CASE CheckWriter(t)
  <2>1. CASE Holds(writerCache[d], rx[t].msg.uuid)
    <3>1. \A u \in Tasks : u # t => rx'[u] = rx[u]
      BY <1>4, OtherHand DEF RxStep
    <3> QED BY <1>4, <2>1, <3>1 DEF CheckWriter, HandFate
  <2>2. CASE ~Holds(writerCache[d], rx[t].msg.uuid)
    BY <1>2, <1>4, <2>2 DEF CheckWriter, Marking, RxPcs
  <2> QED BY <2>1, <2>2
<1>5. CASE WriteOk(t) \/ RememberWrite(t) \/ MarkUuid(t)
  BY <1>2, <1>5 DEF WriteOk, RememberWrite, MarkUuid, Marking, RxPcs
<1>6. CASE WriteFails(t)
  <2>1. CASE rx[t].tries + 1 >= MaxAttempts
    <3>1. rx[t].msg.uuid \in failed'[d] BY <1>0, <1>6, <2>1 DEF WriteFails, TypeOK
    <3> QED BY <1>6, <3>1 DEF WriteFails, HandFate
  <2>2. CASE ~(rx[t].tries + 1 >= MaxAttempts)
    <3>1. rx' = [rx EXCEPT ![t].tries = @ + 1] BY <1>6, <2>2 DEF WriteFails
    <3>2. rx'[t].pc = rx[t].pc /\ rx'[t].msg = rx[t].msg BY <1>0, <3>1 DEF RxType
    <3> QED BY <3>2 DEF HandFate, StaysInHand
  <2> QED BY <2>1, <2>2
<1>7. CASE MarkProcessed(t)
  <2>1. marks'[d] = Append(marks[d], rx[t].msg.content) /\ marks[d] \in Seq(Contents)
    BY <1>0, <1>7 DEF MarkProcessed, MarkHash, TypeOK
  <2>2. rx[t].msg.content \in Contents BY RxBusy
  <2>3. Holds(marks'[d], rx[t].msg.content)
    <3>1. /\ Len(marks'[d]) = Len(marks[d]) + 1 /\ Len(marks[d]) \in Nat
          /\ marks'[d][Len(marks[d]) + 1] = rx[t].msg.content
      BY <2>1, <2>2
    <3> QED BY <3>1 DEF Holds
  <2> QED BY <2>3 DEF HandFate
<1>8. CASE Receive(t)
  <2>1. rx[t] = RxIdle BY <1>8 DEF Receive, ReceiveOnServer, ReceiveOnClient
  <2> QED BY <2>1, IdlePlaces
<1>9. ASSUME NEW u \in Tasks, RxStep(u) PROVE HandFate(t)
  <2>1. CASE u = t BY <1>3, <1>4, <1>5, <1>6, <1>7, <1>8, <1>9, <2>1 DEF RxStep
  <2>2. CASE u # t BY <1>1, <1>9, <2>2, OtherHand
  <2> QED BY <2>1, <2>2
<1>10. ASSUME NEW e \in Devices, Restart(e) PROVE rx'[t] = rx[t]
  BY <1>10 DEF Restart
<1>11. ASSUME NEW e \in Devices, Poll(e) \/ PushStep(e) PROVE rx' = rx
  BY <1>11 DEF Poll, PushStep, TakeChange, Send, MarkSent
<1>12. ASSUME \/ \E e \in Copiers, y \in Contents : UserCopy(e, y)
              \/ \E l \in Links : LinkDown(l) \/ LinkRestored(l)
              \/ UNCHANGED vars
       PROVE  rx' = rx
  BY <1>12 DEF UserCopy, LinkDown, LinkRestored, vars
<1> QED BY <1>1, <1>9, <1>10, <1>11, <1>12 DEF Next

\* What is in a task's hand is around.
LEMMA HandIsAround ==
  ASSUME TypeOK, Genuine, NEW t \in Tasks, rx[t].pc \in RxPcs
  PROVE  LET u == rx[t].msg.uuid IN
         u \in Uuids /\ WasSent(u) /\ rx[t].msg.content = ContentOf(u)
<1>1. Around(rx[t].msg) BY DEF Around
<1> QED BY <1>1, RxBusy DEF Genuine

\* What is known stays so while the device runs.
LEMMA KnownStays ==
  ASSUME TypeOK, [Next]_vars, Genuine, NEW d \in Devices, ~Restart(d),
         NEW u \in Uuids, WasSent(u), Known(d, u)
  PROVE  Known(d, u)'
<1>1. ContentOf(u)' = ContentOf(u) BY SentStays
<1>2. CASE Holds(marks[d], ContentOf(u))
  <2>1. Holds(marks'[d], ContentOf(u)) BY <1>2, MarksStay
  <2> QED BY <1>1, <2>1 DEF Known
<1>3. ASSUME NEW t \in TasksOf(d), rx[t].pc \in Marking, rx[t].msg.uuid = u
      PROVE  Known(d, u)'
  <2>1. t \in Tasks /\ t[1] = d /\ rx[t].pc \in RxPcs BY <1>3 DEF TasksOf, Marking, RxPcs
  <2>2. HandFate(t) BY <2>1, HandFates
  <2>3. rx[t].msg.content = ContentOf(u) BY <1>3, <2>1, HandIsAround
  <2>4. StaysInHand(t) \/ Holds(marks'[d], ContentOf(u))
    BY <1>3, <2>1, <2>2, <2>3 DEF HandFate, Marking
  <2> QED BY <1>1, <1>3, <2>4 DEF StaysInHand, Known
<1> QED BY <1>2, <1>3 DEF Known

\* The caches remember what is known.
LEMMA RememberedStep ==
  ASSUME TypeOK, [Next]_vars, Genuine, Remembered
  PROVE  Remembered'
<1> SUFFICES ASSUME NEW d \in Devices, NEW u \in Uuids,
                    Holds(uuidCache'[d], u) \/ Holds(writerCache'[d], u)
             PROVE  WasSent(u)' /\ Known(d, u)'
  BY DEF Remembered
<1>1. CASE Restart(d)
  <2>1. uuidCache'[d] = <<>> /\ writerCache'[d] = <<>> BY <1>1 DEF Restart, TypeOK
  <2> QED BY <2>1 DEF Holds
<1>2. CASE ~Restart(d)
  <2>1. CASE Holds(uuidCache[d], u) \/ Holds(writerCache[d], u)
    <3>1. WasSent(u) /\ Known(d, u) BY <2>1 DEF Remembered
    <3> QED BY <1>2, <3>1, SentStays, KnownStays
  <2>2. ASSUME NEW t \in TasksOf(d), AddsUuid(t, u) PROVE WasSent(u)' /\ Known(d, u)'
    <3>1. t \in Tasks /\ rx[t].pc \in RxPcs /\ rx[t].msg.uuid = u
      BY <2>2 DEF TasksOf, AddsUuid
    <3>2. WasSent(u) BY <3>1, HandIsAround
    <3>3. Known(d, u)' BY <2>2 DEF AddsUuid, Known
    <3> QED BY <3>2, <3>3, SentStays
  <2> QED BY <1>2, <2>1, <2>2, CacheViews
<1> QED BY <1>1, <1>2

\* Where there has been no fault, there is none in this step, and all connections are up.
LEMMA AllUpStep ==
  ASSUME TypeOK, [Next]_vars, AllUp, faults' = 0
  PROVE  /\ faults = 0 /\ linkUp = Links /\ linkUp' = Links
         /\ \A d \in Devices : ~Restart(d)
         /\ \A l \in Links : ~LinkDown(l)
<1>1. faults \in Nat BY DEF TypeOK
<1>2. \A d \in Devices : ~Restart(d) BY <1>1 DEF Restart
<1>3. \A l \in Links : ~LinkDown(l) BY <1>1 DEF LinkDown
<1>4. faults' = faults /\ (linkUp' = linkUp \/ \E l \in Links : linkUp' = linkUp \cup {l})
  <2>1. ASSUME NEW e \in Devices, Poll(e) \/ PushStep(e)
        PROVE  faults' = faults /\ linkUp' = linkUp
    BY <2>1 DEF Poll, PushStep, TakeChange, Send, MarkSent, bounds, net
  <2>2. ASSUME NEW t \in Tasks, RxStep(t) PROVE faults' = faults /\ linkUp' = linkUp
    BY <2>2 DEF RxStep, Receive, ReceiveOnServer, ReceiveOnClient, CheckHash, CheckWriter,
       OnlyRx, WriteOk, WriteFails, RememberWrite, MarkUuid, MarkProcessed, bounds, net
  <2>3. ASSUME \/ \E e \in Copiers, y \in Contents : UserCopy(e, y)
               \/ UNCHANGED vars
        PROVE  faults' = faults /\ linkUp' = linkUp
    BY <2>3 DEF UserCopy, bounds, net, vars
  <2>4. ASSUME NEW l \in Links, LinkRestored(l)
        PROVE  faults' = faults /\ linkUp' = linkUp \cup {l}
    BY <2>4 DEF LinkRestored, bounds
  <2> QED BY <1>2, <1>3, <2>1, <2>2, <2>3, <2>4 DEF Next
<1> QED BY <1>2, <1>3, <1>4 DEF AllUp

\* A message that is not skipped.
Fine(d, s, n) == Settled(d, s, n) \/ OnItsWay(d, s, n)

\* The UUID of a device's n-th message.
LEMMA SentUuid ==
  ASSUME TypeOK, NEW s \in Devices, NEW n \in 1..Len(sent[s])
  PROVE  /\ <<s, n>> \in Uuids /\ WasSent(<<s, n>>)
         /\ ContentOf(<<s, n>>) = sent[s][n].content
<1>1. Len(sent[s]) \in Nat BY DEF TypeOK
<1>2. n \in Nat BY <1>1
<1> QED BY <1>2 DEF Uuids, WasSent, ContentOf

\* What is settled stays so while the device runs.
LEMMA SettledStays ==
  ASSUME TypeOK, [Next]_vars, NEW d \in Devices, ~Restart(d), NEW s \in Devices,
         NEW n \in 1..Len(sent[s]), Settled(d, s, n)
  PROVE  Settled(d, s, n)'
<1>1. sent'[s][n].content = sent[s][n].content
  <2>1. ContentOf(<<s, n>>)' = ContentOf(<<s, n>>) BY SentUuid, SentStays
  <2> QED BY <2>1 DEF ContentOf
<1>2. failed[d] \subseteq failed'[d]
  <2>1. ASSUME NEW e \in Devices, Restart(e) \/ Poll(e) \/ PushStep(e) PROVE failed' = failed
    BY <2>1 DEF Restart, Poll, PushStep, TakeChange, Send, MarkSent, ghosts
  <2>2. ASSUME NEW t \in Tasks, WriteFails(t) PROVE failed[d] \subseteq failed'[d]
    <3>1. failed' = failed
            \/ failed' = [failed EXCEPT ![t[1]] = @ \cup {rx[t].msg.uuid}]
      BY <2>2 DEF WriteFails
    <3>2. failed \in [Devices -> SUBSET Uuids] BY DEF TypeOK
    <3> QED BY <3>1, <3>2
  <2>3. ASSUME NEW t \in Tasks, RxStep(t), ~WriteFails(t) PROVE failed' = failed
    BY <2>3 DEF RxStep, Receive, ReceiveOnServer, ReceiveOnClient, CheckHash, CheckWriter,
       OnlyRx, WriteOk, RememberWrite, MarkUuid, MarkProcessed, ghosts
  <2>4. ASSUME \/ \E e \in Copiers, y \in Contents : UserCopy(e, y)
               \/ \E l \in Links : LinkDown(l) \/ LinkRestored(l)
               \/ UNCHANGED vars
        PROVE  failed' = failed
    BY <2>4 DEF UserCopy, LinkDown, LinkRestored, ghosts, vars
  <2> QED BY <2>1, <2>2, <2>3, <2>4 DEF Next
<1> QED BY <1>1, <1>2, MarksStay DEF Settled

\* A marked content is settled, after a step as before it.
LEMMA MarkSettles ==
  ASSUME TypeOK, [Next]_vars, NEW d \in Devices, NEW s \in Devices,
         NEW n \in 1..Len(sent[s]), Holds(marks'[d], sent[s][n].content)
  PROVE  Settled(d, s, n)'
<1>1. ContentOf(<<s, n>>)' = ContentOf(<<s, n>>) BY SentUuid, SentStays
<1>2. sent'[s][n].content = sent[s][n].content BY <1>1 DEF ContentOf
<1> QED BY <1>2 DEF Settled

\* What the hash cache holds is marked.
LEMMA WindowHolds ==
  ASSUME NEW S, NEW cache \in Seq(S), NEW log \in Seq(S), NEW cap \in Nat,
         IsWindow(cache, log, cap), NEW x, Holds(cache, x)
  PROVE  Holds(log, x)
<1>1. PICK i \in 1..Len(cache) : cache[i] = x BY DEF Holds
<1>2. cache[i] = log[Len(log) - Len(cache) + i] /\ Len(cache) <= Len(log)
  BY DEF IsWindow
<1>3. Len(log) - Len(cache) + i \in 1..Len(log)
  <2>1. Len(log) \in Nat /\ Len(cache) \in Nat OBVIOUS
  <2> QED BY <1>2, <2>1
<1> QED BY <1>1, <1>2, <1>3 DEF Holds

\* A task that drops what it has in hand drops what is settled or in another hand.
LEMMA NoneDropped ==
  ASSUME TypeOK, [Next]_vars, HashWindow, Genuine, Remembered,
         NEW d \in Devices, ~Restart(d), NEW s \in Devices, NEW n \in 1..Len(sent[s]),
         NEW t \in TasksOf(d), rx[t].pc \in RxPcs, rx[t].msg.uuid = <<s, n>>
  PROVE  Fine(d, s, n)'
<1> DEFINE u == <<s, n>>
           c == sent[s][n].content
<1>1. t \in Tasks /\ t[1] = d BY DEF TasksOf
<1>2. u \in Uuids /\ WasSent(u) /\ rx[t].msg.content = c /\ ContentOf(u) = c
  BY <1>1, HandIsAround DEF ContentOf
<1>3. Holds(marks[d], c) => Fine(d, s, n)'
  BY MarksStay, MarkSettles DEF Fine
<1>4. CASE StaysInHand(t)
  BY <1>1, <1>4 DEF StaysInHand, Fine, OnItsWay
<1>5. CASE Holds(hashCache[d], c)
  <2>1. IsWindow(hashCache[d], marks[d], CacheSize) BY DEF HashWindow
  <2>2. marks[d] \in Seq(Contents) /\ hashCache[d] \in Seq(Contents) BY DEF TypeOK
  <2>3. Holds(marks[d], c) BY <1>5, <2>1, <2>2, WindowHolds, CacheSizeAssumption
  <2> QED BY <1>3, <2>3
<1>6. CASE /\ rx[t].pc = "writer" /\ Holds(writerCache[d], u)
           /\ \A v \in Tasks : v # t => rx'[v] = rx[v]
  <2>1. Known(d, u) BY <1>2, <1>6 DEF Remembered
  <2>2. ASSUME NEW v \in TasksOf(d), rx[v].pc \in Marking, rx[v].msg.uuid = u
        PROVE  Fine(d, s, n)'
    <3>1. v # t /\ v \in Tasks /\ rx[v].pc \in RxPcs
      BY <1>6, <2>2 DEF Marking, TasksOf, RxPcs
    <3>2. rx'[v] = rx[v] BY <1>6, <3>1
    <3> QED BY <2>2, <3>1, <3>2 DEF Fine, OnItsWay
  <2> QED BY <1>2, <1>3, <2>1, <2>2 DEF Known
<1>7. CASE u \in failed'[d]
  BY <1>7 DEF Settled, Fine
<1>8. CASE Holds(marks'[d], c)
  BY <1>8, MarkSettles DEF Fine
<1>9. HandFate(t) BY <1>1, HandFates
<1> QED BY <1>1, <1>2, <1>4, <1>5, <1>6, <1>7, <1>8, <1>9 DEF HandFate

\* A message that is taken from a connection is in hand, or settled, or in another hand.
LEMMA NoneRefused ==
  ASSUME TypeOK, [Next]_vars, Genuine, Remembered,
         NEW d \in Devices, ~Restart(d), NEW s \in Devices, NEW n \in 1..Len(sent[s]),
         NEW t \in TasksOf(d), NEW m, Around(m), m.uuid = <<s, n>>, Accept(t, m)
  PROVE  Fine(d, s, n)'
<1> DEFINE u == <<s, n>>
<1>1. t \in Tasks /\ t[1] = d /\ rx \in RxType /\ Sender(m) = s /\ u \in Uuids
  <2>1. t \in Tasks /\ t[1] = d BY DEF TasksOf
  <2>2. rx \in RxType BY DEF TypeOK, RxType
  <2>3. Sender(m) = s BY DEF Sender
  <2> QED BY <2>1, <2>2, <2>3, SentUuid
<1>2. CASE <<d, s>> \notin Paired
  BY <1>2 DEF Fine, Settled
<1>3. CASE Holds(uuidCache[d], u)
  <2>1. Known(d, u) /\ ContentOf(u) = sent[s][n].content
    BY <1>1, <1>3 DEF Remembered, ContentOf
  <2>2. CASE Holds(marks[d], sent[s][n].content)
    BY <2>2, MarksStay, MarkSettles DEF Fine
  <2>3. ASSUME NEW v \in TasksOf(d), rx[v].pc \in Marking, rx[v].msg.uuid = u
        PROVE  Fine(d, s, n)'
    <3>1. rx' = rx BY <1>1, <1>3 DEF Accept
    <3>2. rx[v].pc \in RxPcs BY <2>3 DEF Marking, RxPcs
    <3> QED BY <2>3, <3>1, <3>2 DEF Fine, OnItsWay
  <2> QED BY <2>1, <2>2, <2>3 DEF Known
<1>4. CASE <<d, s>> \in Paired /\ ~Holds(uuidCache[d], u)
  <2>1. rx'[t] = [pc |-> "hash", msg |-> m, tries |-> 0]
    BY <1>1, <1>4 DEF Accept, RxType
  <2>2. rx'[t].pc \in RxPcs /\ rx'[t].msg.uuid = u BY <2>1 DEF RxPcs
  <2> QED BY <2>2 DEF Fine, OnItsWay
<1> QED BY <1>2, <1>3, <1>4

\* What is on the ordered side of a connection stays there or is taken.
LEMMA NoneLostUp ==
  ASSUME TypeOK, [Next]_vars, AllUp, Genuine, Remembered, faults' = 0,
         NEW d \in Devices, NEW s \in Devices, NEW n \in 1..Len(sent[s]), <<s, d>> \in Links,
         NEW i \in 1..Len(up[<<s, d>>]), up[<<s, d>>][i].uuid = <<s, n>>
  PROVE  Fine(d, s, n)'
<1> DEFINE l == <<s, d>>
<1>0. l \in Links /\ l[1] = s /\ l[2] = d OBVIOUS
<1>1. ~Restart(d) /\ (\A e \in Devices : ~Restart(e)) /\ \A k \in Links : ~LinkDown(k)
  BY AllUpStep
<1>2. up[l] \in Seq(Messages) /\ Len(up[l]) \in Nat BY DEF TypeOK
<1>3. ASSUME NEW j \in 1..Len(up'[l]), up'[l][j] = up[l][i] PROVE Fine(d, s, n)'
  BY <1>3 DEF Fine, OnItsWay
<1>4. CASE up'[l] = up[l] BY <1>3, <1>4
<1>5. ASSUME NEW e \in Devices, Send(e) PROVE Fine(d, s, n)'
  <2>1. CASE up'[l] = Append(up[l], Outgoing(e))
    <3>1. i \in 1..Len(up'[l]) /\ up'[l][i] = up[l][i] BY <1>2, <2>1
    <3> QED BY <1>3, <3>1
  <2> QED BY <1>0, <1>4, <1>5, <2>1 DEF Send
<1>6. ASSUME NEW k \in Links, ReceiveOnServer(k[2], k) PROVE Fine(d, s, n)'
  <2>1. up' = [up EXCEPT ![k] = Tail(@)] /\ Accept(<<k[2], k[2]>>, Head(up[k]))
    BY <1>6 DEF ReceiveOnServer
  <2>2. CASE k # l
    <3>1. up'[l] = up[l] BY <2>1, <2>2 DEF TypeOK
    <3> QED BY <1>4, <3>1
  <2>3. CASE k = l /\ i = 1
    <3>1. Head(up[l]) = up[l][1] BY <1>2
    <3>2. <<d, d>> \in TasksOf(d) BY DEF TasksOf, Tasks
    <3>3. Accept(<<d, d>>, up[l][1]) BY <1>0, <2>1, <2>3, <3>1
    <3>4. Around(up[l][1]) BY <2>3 DEF Around
    <3> QED BY <1>1, <2>3, <3>2, <3>3, <3>4, NoneRefused
  <2>4. CASE k = l /\ i # 1
    <3>1. up'[l] = Tail(up[l]) /\ up[l] # <<>> BY <2>1, <2>4 DEF TypeOK
    <3>2. /\ Len(Tail(up[l])) = Len(up[l]) - 1
          /\ \A j \in 1..Len(up[l]) - 1 : Tail(up[l])[j] = up[l][j + 1]
      BY <1>2, <3>1
    <3>3. i - 1 \in 1..Len(up[l]) - 1 /\ i - 1 + 1 = i BY <1>2, <2>4
    <3>4. i - 1 \in 1..Len(up'[l]) /\ up'[l][i - 1] = up[l][i] BY <3>1, <3>2, <3>3
    <3> QED BY <1>3, <3>4
  <2> QED BY <2>2, <2>3, <2>4
<1>7. ASSUME NEW u \in Tasks, RxStep(u), \A k \in Links : ~ReceiveOnServer(k[2], k)
      PROVE  up' = up
  BY <1>7 DEF RxStep, Receive, ReceiveOnClient, CheckHash, CheckWriter, OnlyRx, WriteOk,
     WriteFails, RememberWrite, MarkUuid, MarkProcessed, net
<1>8. ASSUME NEW e \in Devices, TakeChange(e) \/ MarkSent(e) \/ Poll(e) PROVE up' = up
  BY <1>8 DEF TakeChange, MarkSent, Poll, net
<1>9. ASSUME \/ \E e \in Copiers, x \in Contents : UserCopy(e, x)
             \/ \E k \in Links : LinkRestored(k)
             \/ UNCHANGED vars
      PROVE  up' = up
  BY <1>9 DEF UserCopy, LinkRestored, net, vars
<1> HIDE DEF l
<1> QED BY <1>1, <1>4, <1>5, <1>6, <1>7, <1>8, <1>9 DEF Next, PushStep

\* The same on the side where no order is kept.
LEMMA NoneLostDown ==
  ASSUME TypeOK, [Next]_vars, AllUp, Genuine, Remembered, faults' = 0,
         NEW d \in Devices, NEW s \in Devices, NEW n \in 1..Len(sent[s]), <<d, s>> \in Links,
         NEW m \in down[<<d, s>>], m.uuid = <<s, n>>
  PROVE  Fine(d, s, n)'
<1> DEFINE l == <<d, s>>
<1>0. l \in Links /\ l[1] = d /\ l[2] = s OBVIOUS
<1>1. ~Restart(d) /\ (\A e \in Devices : ~Restart(e)) /\ \A k \in Links : ~LinkDown(k)
  BY AllUpStep
<1>2. CASE m \in down'[l] BY <1>2 DEF Fine, OnItsWay
<1>3. ASSUME NEW e \in Devices, Send(e) PROVE m \in down'[l]
  BY <1>3 DEF Send
<1>4. ASSUME NEW k \in Links, NEW x \in down[k], ReceiveOnClient(k, x) PROVE Fine(d, s, n)'
  <2>1. down' = [down EXCEPT ![k] = @ \ {x}] /\ Accept(k, x)
    BY <1>4 DEF ReceiveOnClient
  <2>2. CASE k # l \/ x # m
    <3>1. m \in down'[l] BY <2>1, <2>2 DEF TypeOK
    <3> QED BY <1>2, <3>1
  <2>3. CASE k = l /\ x = m
    <3>1. l \in TasksOf(d) BY <1>0 DEF TasksOf, Tasks
    <3>2. Around(m) BY <1>0 DEF Around
    <3>3. Accept(l, m) BY <2>1, <2>3
    <3> HIDE DEF l
    <3> QED BY <1>1, <3>1, <3>2, <3>3, NoneRefused
  <2> QED BY <2>2, <2>3
<1>5. ASSUME NEW u \in Tasks, RxStep(u),
             \A k \in Links : \A x \in down[k] : ~ReceiveOnClient(k, x)
      PROVE  down' = down
  BY <1>5 DEF RxStep, Receive, ReceiveOnServer, CheckHash, CheckWriter, OnlyRx, WriteOk,
     WriteFails, RememberWrite, MarkUuid, MarkProcessed, net
<1>6. ASSUME NEW e \in Devices, TakeChange(e) \/ MarkSent(e) \/ Poll(e) PROVE down' = down
  BY <1>6 DEF TakeChange, MarkSent, Poll, net
<1>7. ASSUME \/ \E e \in Copiers, x \in Contents : UserCopy(e, x)
             \/ \E k \in Links : LinkRestored(k)
             \/ UNCHANGED vars
      PROVE  down' = down
  BY <1>7 DEF UserCopy, LinkRestored, net, vars
<1>8. down' = down => m \in down'[l] OBVIOUS
<1> HIDE DEF l
<1> QED BY <1>1, <1>2, <1>3, <1>4, <1>5, <1>6, <1>7, <1>8 DEF Next, PushStep

\* What is being sent is sent on every connection there is.
LEMMA NoneUnsent ==
  ASSUME TypeOK, [Next]_vars, AllUp, faults' = 0,
         NEW d \in Devices, NEW s \in Devices, <<s, d>> \in Links \/ <<d, s>> \in Links,
         push[s].pc = "send", NEW n, n = Len(sent[s])
  PROVE  Fine(d, s, n)'
<1>1. ~Restart(s) /\ linkUp = Links BY AllUpStep
<1>2. CASE push'[s] = push[s] /\ sent'[s] = sent[s]
  BY <1>2 DEF Fine, OnItsWay
<1>3. ~PushTakes(s)
  <2>1. push[s] # Idle BY DEF Idle
  <2> QED BY <2>1 DEF PushTakes
<1>4. CASE Send(s)
  <2>1. Outgoing(s).uuid = <<s, n>> BY DEF Outgoing
  <2>2. CASE <<s, d>> \in Links
    <3> DEFINE l == <<s, d>>
    <3>1. up'[l] = Append(up[l], Outgoing(s)) BY <1>1, <1>4, <2>2 DEF Send
    <3>2. up[l] \in Seq(Messages) BY <2>2 DEF TypeOK
    <3>3. /\ Len(up[l]) + 1 \in 1..Len(up'[l])
          /\ up'[l][Len(up[l]) + 1] = Outgoing(s)
      BY <3>1, <3>2
    <3> QED BY <2>1, <2>2, <3>3 DEF Fine, OnItsWay
  <2>3. CASE <<d, s>> \in Links
    <3>1. Outgoing(s) \in down'[<<d, s>>] BY <1>1, <1>4, <2>3 DEF Send
    <3> QED BY <2>1, <2>3, <3>1 DEF Fine, OnItsWay
  <2> QED BY <2>2, <2>3
<1> QED BY <1>1, <1>2, <1>3, <1>4, PushSends DEF PushSending

\* No step makes a device skip a message.
LEMMA NoneSkippedStep ==
  ASSUME TypeOK, [Next]_vars, HashWindow, ArrivalInv
  PROVE  NoneSkipped'
<1> SUFFICES ASSUME faults' = 0, NEW l \in Links,
                    NEW s \in {l[1], l[2]}, NEW d \in {l[1], l[2]}, s # d,
                    NEW n \in 1..Len(sent'[s])
             PROVE  Fine(d, s, n)'
  BY DEF NoneSkipped, Fine
<1>0. AllUp /\ Genuine /\ Remembered BY DEF ArrivalInv
<1>1. /\ s \in Devices /\ d \in Devices /\ l \in Devices \X Devices
      /\ <<s, d>> \in Links \/ <<d, s>> \in Links
  BY DevicesAssumption
<1>2. ~Restart(d) /\ faults = 0 BY <1>0, <1>1, AllUpStep
<1>3. CASE n \in 1..Len(sent[s])
  <2>1. Fine(d, s, n) BY <1>2, <1>3 DEF ArrivalInv, NoneSkipped, Fine
  <2>2. CASE Settled(d, s, n) BY <1>1, <1>2, <1>3, <2>2, SettledStays DEF Fine
  <2>3. CASE push[s].pc = "send" /\ n = Len(sent[s])
    BY <1>0, <1>1, <2>3, NoneUnsent
  <2>4. ASSUME <<s, d>> \in Links, NEW i \in 1..Len(up[<<s, d>>]),
               up[<<s, d>>][i].uuid = <<s, n>>
        PROVE  Fine(d, s, n)'
    BY <1>0, <1>1, <1>3, <2>4, NoneLostUp
  <2>5. ASSUME <<d, s>> \in Links, NEW m \in down[<<d, s>>], m.uuid = <<s, n>>
        PROVE  Fine(d, s, n)'
    BY <1>0, <1>1, <1>3, <2>5, NoneLostDown
  <2>6. ASSUME NEW t \in TasksOf(d), rx[t].pc \in RxPcs, rx[t].msg.uuid = <<s, n>>
        PROVE  Fine(d, s, n)'
    BY <1>0, <1>1, <1>2, <1>3, <2>6, NoneDropped
  <2> QED BY <2>1, <2>2, <2>3, <2>4, <2>5, <2>6 DEF Fine, OnItsWay
<1>4. CASE n \notin 1..Len(sent[s])
  <2>1. PushTakes(s) BY <1>1, <1>4, PushSends DEF PushSending
  <2>2. PICK e : sent'[s] = Append(sent[s], e) /\ push'[s].pc = "send"
    BY <2>1 DEF PushTakes
  <2>3. sent[s] \in Seq(Sends) BY <1>1 DEF TypeOK, Sends
  <2>4. n = Len(sent'[s])
    <3>1. Len(sent'[s]) = Len(sent[s]) + 1 /\ Len(sent[s]) \in Nat BY <2>2, <2>3
    <3> QED BY <1>4, <3>1
  <2> QED BY <2>2, <2>4 DEF Fine, OnItsWay
<1> QED BY <1>3, <1>4

\* At the start nothing has been sent.
LEMMA ArrivalInit == Init => ArrivalInv
<1> SUFFICES ASSUME Init PROVE ArrivalInv
  OBVIOUS
<1>1. \A d \in Devices : sent[d] = <<>> /\ push[d] = Idle BY DEF Init
<1>2. \A m : ~Around(m)
  BY IdlePlaces DEF Init, Around
<1>3. Genuine BY <1>1, <1>2 DEF Genuine, Idle
<1>4. Remembered BY DEF Init, Remembered, Holds
<1>5. NoneSkipped
  <2>1. ASSUME NEW l \in Links, NEW s \in {l[1], l[2]} PROVE Len(sent[s]) = 0
    BY <1>1, <2>1, DevicesAssumption
  <2> QED BY <2>1 DEF NoneSkipped
<1> QED BY <1>3, <1>4, <1>5 DEF Init, ArrivalInv, AllUp

\* The inductive invariant: what is between two devices is what was sent, and what a
\* cache remembers has been dealt with.
THEOREM ArrivalInvariant == Spec => []ArrivalInv
<1>1. TypeOK /\ SpacingInv /\ ArrivalInv /\ [Next]_vars => ArrivalInv'
  <2> SUFFICES ASSUME TypeOK, SpacingInv, ArrivalInv, [Next]_vars PROVE ArrivalInv'
    OBVIOUS
  <2>1. AllUp' BY AllUpStep DEF ArrivalInv, AllUp
  <2>2. Genuine' BY GenuineStep DEF ArrivalInv
  <2>3. Remembered' BY RememberedStep DEF ArrivalInv
  <2>4. NoneSkipped' BY NoneSkippedStep DEF SpacingInv
  <2> QED BY <2>1, <2>2, <2>3, <2>4 DEF ArrivalInv
<1> QED BY <1>1, ArrivalInit, TypeCorrect, SpacingInvariant, PTL DEF Spec

\* While there is no fault, every message that was pushed is dealt with at every connected
\* device or on its way there (broadcast, send, should_process_message, write).
THEOREM NoMessageSkipped == Spec => []NoneSkipped
<1>1. ArrivalInv => NoneSkipped
  BY DEF ArrivalInv
<1> QED BY <1>1, ArrivalInvariant, PTL
=============================================================================
