------------------------- MODULE ClipboardSyncProofs -------------------------
(* Proofs about ClipboardSync, for any number of devices, contents, links and *)
(* any cache size.                                                            *)
EXTENDS ClipboardSync, TLAPS

-----------------------------------------------------------------------------
(* The bounded memory (FifoCache), for every capacity and every content       *)

\* Adding keeps a sequence over S one over S.
LEMMA AddType ==
  ASSUME NEW S, NEW cache \in Seq(S), NEW x \in S, NEW cap \in Nat \ {0}
  PROVE  Add(cache, x, cap) \in Seq(S)
<1>1. CASE Len(cache) >= cap
  BY <1>1 DEF Add
<1>2. CASE ~(Len(cache) >= cap)
  BY <1>2 DEF Add
<1> QED BY <1>1, <1>2

\* Adding an element to the cache and to the log keeps the cache the last cap
\* elements of the log (add_uuid, add_hash, add_uuid_to_cache).
LEMMA AddKeepsWindow ==
  ASSUME NEW S, NEW cache \in Seq(S), NEW log \in Seq(S), NEW x \in S,
         NEW cap \in Nat \ {0}, IsWindow(cache, log, cap)
  PROVE  IsWindow(Add(cache, x, cap), Append(log, x), cap)
<1>1. CASE Len(cache) >= cap
  <2>1. Len(cache) = cap BY <1>1 DEF IsWindow
  <2> DEFINE t == Tail(cache)
  <2>2. t \in Seq(S) /\ Len(t) = cap - 1 /\ \A i \in 1..Len(t) : t[i] = cache[i + 1]
    BY <2>1
  <2>3. Add(cache, x, cap) = Append(t, x)
    BY <1>1 DEF Add
  <2>4. \A i \in 1..Len(t) : t[i] = log[Len(log) + 1 - cap + i]
    BY <2>1, <2>2 DEF IsWindow
  <2> HIDE DEF t
  <2> DEFINE c == Append(t, x)
             l == Append(log, x)
  <2>5. Len(c) = cap /\ Len(l) = Len(log) + 1 /\ cap <= Len(log)
    BY <2>1, <2>2 DEF IsWindow
  <2>6. ASSUME NEW i \in 1..Len(c) PROVE c[i] = l[Len(l) - Len(c) + i]
    <3>1. CASE i = cap
      BY <3>1, <2>2, <2>5
    <3>2. CASE i # cap
      <4>1. i \in 1..Len(t) BY <3>2, <2>2, <2>5
      <4>2. c[i] = t[i] BY <4>1, <2>2
      <4>3. Len(log) + 1 - cap + i \in 1..Len(log) BY <4>1, <2>2, <2>5
      <4>4. QED BY <4>1, <4>2, <4>3, <2>4, <2>5
    <3> QED BY <3>1, <3>2
  <2> HIDE DEF c, l
  <2>7. IsWindow(c, l, cap)
    BY <2>5, <2>6 DEF IsWindow
  <2> QED BY <2>7, <2>3 DEF c, l
<1>2. CASE Len(cache) < cap
  <2>1. Add(cache, x, cap) = Append(cache, x)
    BY <1>2 DEF Add
  <2> DEFINE c == Append(cache, x)
             l == Append(log, x)
  <2>2. /\ Len(c) = Len(cache) + 1 /\ Len(l) = Len(log) + 1
        /\ Len(c) <= cap /\ Len(c) = Len(l)
    BY <1>2 DEF IsWindow
  <2>3. ASSUME NEW i \in 1..Len(c) PROVE c[i] = l[Len(l) - Len(c) + i]
    <3>1. Len(l) - Len(c) + i = i BY <2>2
    <3>2. CASE i = Len(c) BY <3>1, <3>2, <2>2
    <3>3. CASE i # Len(c)
      <4>1. i \in 1..Len(cache) /\ i \in 1..Len(log) BY <3>3, <2>2
      <4>2. c[i] = cache[i] /\ l[i] = log[i] BY <4>1
      <4>3. cache[i] = log[i] BY <4>1, <1>2 DEF IsWindow
      <4> QED BY <4>2, <4>3, <3>1
    <3> QED BY <3>2, <3>3
  <2> HIDE DEF c, l
  <2>4. IsWindow(c, l, cap)
    BY <2>2, <2>3 DEF IsWindow
  <2> QED BY <2>4, <2>1 DEF c, l
<1> QED BY <1>1, <1>2

\* What the cache has forgotten was logged at least cap elements ago.
LEMMA ForgottenIsOld ==
  ASSUME NEW S, NEW cache \in Seq(S), NEW log \in Seq(S), NEW x,
         NEW cap \in Nat \ {0}, IsWindow(cache, log, cap), ~Holds(cache, x),
         NEW k \in 1..Len(log), log[k] = x
  PROVE  Len(log) >= k + cap
<1> SUFFICES ASSUME Len(log) < k + cap PROVE FALSE
  OBVIOUS
<1> DEFINE i == k - (Len(log) - Len(cache))
<1>1. i \in 1..Len(cache)
  BY DEF IsWindow
<1>2. cache[i] = log[Len(log) - Len(cache) + i]
  <2> HIDE DEF i
  <2> QED BY <1>1 DEF IsWindow
<1>3. Len(log) - Len(cache) + i = k
  OBVIOUS
<1> QED BY <1>1, <1>2, <1>3 DEF Holds

-----------------------------------------------------------------------------
(* The devices and their tasks                                                *)

\* A task belongs to a device.
LEMMA TaskOwner ==
  ASSUME NEW t \in Tasks
  PROVE  t[1] \in Devices
BY DevicesAssumption DEF Tasks

\* Appending to one of a family of sequences.
LEMMA AppendAt ==
  ASSUME NEW D, NEW S, NEW f \in [D -> Seq(S)], NEW d \in D, NEW e \in S
  PROVE  [f EXCEPT ![d] = Append(@, e)] \in [D -> Seq(S)]
OBVIOUS

\* The records of the idle tasks have no task place as their pc.
LEMMA IdlePlaces ==
  /\ Idle.pc \notin PushPcs
  /\ RxIdle.pc \notin RxPcs
BY DEF Idle, RxIdle, PushPcs, RxPcs

\* A receiving task with work has a message whose parts have their types.
LEMMA RxBusy ==
  ASSUME TypeOK, NEW t \in Tasks, rx[t].pc \in RxPcs
  PROVE  /\ rx[t] \in [pc : RxPcs, msg : Messages, tries : 0..MaxAttempts - 1]
         /\ rx[t].msg.uuid \in Uuids
         /\ rx[t].msg.content \in Contents
         /\ Sender(rx[t].msg) \in Devices
BY IdlePlaces DEF TypeOK, Messages, Uuids, Sender

\* A push task with work has a content.
LEMMA PushBusy ==
  ASSUME TypeOK, NEW d \in Devices, push[d].pc \in PushPcs
  PROVE  push[d] \in [pc : PushPcs, content : Contents]
BY IdlePlaces DEF TypeOK

-----------------------------------------------------------------------------
(* Type correctness *)

LEMMA TypeInit == Init => TypeOK
BY DEF Init, TypeOK

LEMMA TypeUserPoll ==
  ASSUME TypeOK, NEW d \in Devices,
         (\E x \in Contents : UserCopy(d, x)) \/ Poll(d)
  PROVE  TypeOK'
<1>1. ASSUME NEW x \in Contents, UserCopy(d, x) PROVE TypeOK'
  <2>1. clipboard' \in [Devices -> Contents \cup {NoContent}]
    BY <1>1 DEF UserCopy, TypeOK
  <2>2. copied' \in [Devices -> SUBSET Contents] /\ copies' \in Nat
    BY <1>1 DEF UserCopy, TypeOK
  <2> QED BY <1>1, <2>1, <2>2 DEF TypeOK, UserCopy, caches, net
<1>2. ASSUME Poll(d) PROVE TypeOK'
  <2>1. clipboard[d] \in Contents BY <1>2 DEF Poll, TypeOK
  <2>2. lastHash' \in [Devices -> Contents \cup {NoContent}]
    BY <1>2, <2>1 DEF Poll, TypeOK
  <2>3. changes' \in [Devices -> Seq(Contents)]
    BY <1>2, <2>1 DEF Poll, TypeOK
  <2> QED BY <1>2, <2>2, <2>3 DEF TypeOK, Poll, caches, net, bounds, ghosts
<1> QED BY <1>1, <1>2

LEMMA TypePush ==
  ASSUME TypeOK, NEW d \in Devices, PushStep(d)
  PROVE  TypeOK'
<1>1. CASE TakeChange(d)
  <2>1. Head(changes[d]) \in Contents /\ Tail(changes[d]) \in Seq(Contents)
    BY <1>1 DEF TakeChange, TypeOK
  <2>2. Len(marks[d]) \in Nat /\ epoch[d] \in Nat
    BY DEF TypeOK
  <2>3. changes' \in [Devices -> Seq(Contents)]
    BY <1>1, <2>1 DEF TakeChange, TypeOK
  <2>4. push' \in [Devices -> {Idle} \cup [pc : PushPcs, content : Contents]]
    <3>1. [pc |-> "send", content |-> Head(changes[d])]
            \in [pc : PushPcs, content : Contents]
      BY <2>1 DEF PushPcs
    <3>2. push' = push \/
          push' = [push EXCEPT ![d] = [pc |-> "send", content |-> Head(changes[d])]]
      BY <1>1 DEF TakeChange
    <3> QED BY <3>1, <3>2 DEF TypeOK
  <2>5. sent' \in [Devices -> Seq([content : Contents, at : Nat, epoch : Nat])]
    <3> DEFINE e == [content |-> Head(changes[d]), at |-> Len(marks[d]),
                     epoch |-> epoch[d]]
               S == [content : Contents, at : Nat, epoch : Nat]
    <3>1. e \in S
      BY <2>1, <2>2
    <3>2. sent' = sent \/ sent' = [sent EXCEPT ![d] = Append(@, e)]
      BY <1>1 DEF TakeChange
    <3>3. sent \in [Devices -> Seq(S)]
      BY DEF TypeOK
    <3> HIDE DEF e, S
    <3>4. sent' \in [Devices -> Seq(S)]
      <4>1. [sent EXCEPT ![d] = Append(@, e)] \in [Devices -> Seq(S)]
        BY <3>1, <3>3, d \in Devices, AppendAt
      <4> QED BY <4>1, <3>2, <3>3
    <3> QED BY <3>4 DEF S
  <2> QED BY <1>1, <2>3, <2>4, <2>5 DEF TypeOK, TakeChange, caches, net, bounds
<1>2. CASE Send(d)
  <2>1. push[d] \in [pc : PushPcs, content : Contents]
    BY <1>2, PushBusy DEF Send, PushPcs
  <2>2. Outgoing(d) \in Messages
    BY <2>1 DEF Outgoing, Messages, Uuids, TypeOK
  <2>3. up' \in [Links -> Seq(Messages)] /\ down' \in [Links -> SUBSET Messages]
    BY <1>2, <2>2 DEF Send, TypeOK
  <2>4. push' \in [Devices -> {Idle} \cup [pc : PushPcs, content : Contents]]
    BY <1>2, <2>1 DEF Send, TypeOK, PushPcs
  <2> QED BY <1>2, <2>3, <2>4 DEF TypeOK, Send, caches, bounds, ghosts
<1>3. CASE MarkSent(d)
  <2>1. push[d].content \in Contents
    BY <1>3, PushBusy DEF MarkSent, PushPcs
  <2>2. Add(hashCache[d], push[d].content, CacheSize) \in Seq(Contents)
    BY <2>1, AddType, CacheSizeAssumption DEF TypeOK
  <2>3. hashCache' \in [Devices -> Seq(Contents)] /\ marks' \in [Devices -> Seq(Contents)]
    BY <1>3, <2>1, <2>2 DEF MarkSent, MarkHash, TypeOK
  <2>4. history' \in [Devices -> Seq([content : Contents, from : Devices])]
    <3> DEFINE e == [content |-> push[d].content, from |-> d]
               S == [content : Contents, from : Devices]
    <3>1. e \in S /\ history \in [Devices -> Seq(S)]
      BY <2>1 DEF TypeOK
    <3>2. history' = [history EXCEPT ![d] = Append(@, e)]
      BY <1>3 DEF MarkSent, Record
    <3> HIDE DEF e, S
    <3>3. history' \in [Devices -> Seq(S)]
      BY <3>1, <3>2, AppendAt
    <3> QED BY <3>3 DEF S
  <2>5. push' \in [Devices -> {Idle} \cup [pc : PushPcs, content : Contents]]
    BY <1>3 DEF MarkSent, TypeOK
  <2> QED BY <1>3, <2>3, <2>4, <2>5 DEF TypeOK, MarkSent, net, bounds
<1> QED BY <1>1, <1>2, <1>3 DEF PushStep

\* The values a receiving task goes through.
RxType == [Tasks -> {RxIdle} \cup [pc : RxPcs, msg : Messages, tries : 0..MaxAttempts - 1]]

LEMMA RxMoves ==
  ASSUME TypeOK, NEW t \in Tasks,
         \/ Finish(t)
         \/ rx[t].pc \in RxPcs /\ \E pc \in RxPcs : Become(t, pc)
         \/ \E m \in Messages : Accept(t, m)
  PROVE  rx' \in RxType
<1>0. rx \in RxType BY DEF TypeOK, RxType
<1>1. CASE Finish(t)
  BY <1>0, <1>1 DEF Finish, RxType
<1>2. ASSUME rx[t].pc \in RxPcs, NEW pc \in RxPcs, Become(t, pc) PROVE rx' \in RxType
  BY <1>0, <1>2, RxBusy DEF Become, RxType
<1>3. ASSUME NEW m \in Messages, Accept(t, m) PROVE rx' \in RxType
  <2>1. [pc |-> "hash", msg |-> m, tries |-> 0]
          \in [pc : RxPcs, msg : Messages, tries : 0..MaxAttempts - 1]
    BY MaxAttemptsAssumption DEF RxPcs
  <2> QED BY <1>0, <1>3, <2>1 DEF Accept, RxType
<1> QED BY <1>1, <1>2, <1>3

LEMMA TypeReceive ==
  ASSUME TypeOK, NEW t \in Tasks, Receive(t)
  PROVE  TypeOK'
<1>1. ASSUME NEW l \in Links, t = <<l[2], l[2]>>, ReceiveOnServer(l[2], l)
      PROVE  TypeOK'
  <2>1. Head(up[l]) \in Messages /\ Tail(up[l]) \in Seq(Messages)
    BY <1>1 DEF ReceiveOnServer, TypeOK
  <2>2. rx' \in RxType
    BY <1>1, <2>1, RxMoves DEF ReceiveOnServer
  <2>3. up' \in [Links -> Seq(Messages)]
    BY <1>1, <2>1 DEF ReceiveOnServer, TypeOK
  <2> QED BY <1>1, <2>2, <2>3
      DEF TypeOK, RxType, ReceiveOnServer, caches, bounds, ghosts
<1>2. ASSUME t \in Links, NEW m \in down[t], ReceiveOnClient(t, m)
      PROVE  TypeOK'
  <2>1. m \in Messages
    BY <1>2 DEF TypeOK
  <2>2. rx' \in RxType
    BY <1>2, <2>1, RxMoves DEF ReceiveOnClient
  <2>3. down' \in [Links -> SUBSET Messages]
    BY <1>2 DEF ReceiveOnClient, TypeOK
  <2> QED BY <1>2, <2>2, <2>3
      DEF TypeOK, RxType, ReceiveOnClient, caches, bounds, ghosts
<1> QED BY <1>1, <1>2 DEF Receive

LEMMA TypeChecks ==
  ASSUME TypeOK, NEW t \in Tasks, CheckHash(t) \/ CheckWriter(t)
  PROVE  TypeOK'
<1>1. rx[t].pc \in RxPcs
  BY DEF CheckHash, CheckWriter, RxPcs
<1>2. Finish(t) \/ Become(t, "writer") \/ Become(t, "write")
  BY DEF CheckHash, CheckWriter
<1>3. "writer" \in RxPcs /\ "write" \in RxPcs
  BY DEF RxPcs
<1>4. rx' \in RxType
  BY <1>1, <1>2, <1>3, RxMoves
<1>5. OnlyRx
  BY DEF CheckHash, CheckWriter
<1> QED BY <1>4, <1>5 DEF TypeOK, RxType, OnlyRx, caches, net, bounds, ghosts

LEMMA TypeWrite ==
  ASSUME TypeOK, NEW t \in Tasks, WriteOk(t) \/ WriteFails(t)
  PROVE  TypeOK'
<1> DEFINE d == t[1]
<1>0. rx[t].pc \in RxPcs /\ d \in Devices
  BY TaskOwner DEF WriteOk, WriteFails, RxPcs
<1>1. CASE WriteOk(t)
  <2>1. rx' \in RxType
    <3>1. Become(t, "remember") /\ "remember" \in RxPcs
      BY <1>1 DEF WriteOk, RxPcs
    <3> QED BY <1>0, <3>1, RxMoves
  <2>2. clipboard' \in [Devices -> Contents \cup {NoContent}]
    BY <1>0, <1>1, RxBusy DEF WriteOk, TypeOK
  <2>3. written' \in [Devices -> Seq([msg : Messages, task : Tasks, at : Nat])]
    <3> DEFINE e == [msg |-> rx[t].msg, task |-> t, at |-> Len(marks[d])]
               S == [msg : Messages, task : Tasks, at : Nat]
    <3>1. Len(marks[d]) \in Nat
      BY <1>0 DEF TypeOK
    <3>2. e \in S /\ written \in [Devices -> Seq(S)]
      BY <1>0, <3>1, RxBusy DEF TypeOK
    <3>3. written' = [written EXCEPT ![d] = Append(@, e)]
      BY <1>1 DEF WriteOk
    <3> HIDE DEF e, S, d
    <3>4. written' \in [Devices -> Seq(S)]
      BY <1>0, <3>2, <3>3, AppendAt
    <3> QED BY <3>4 DEF S
  <2> QED BY <1>1, <2>1, <2>2, <2>3 DEF TypeOK, RxType, WriteOk, caches, net, bounds
<1>2. CASE WriteFails(t)
  <2>0. rx[t] \in [pc : RxPcs, msg : Messages, tries : 0..MaxAttempts - 1]
    BY <1>0, RxBusy
  <2>1. rx' \in RxType
    <3>1. CASE Finish(t) BY <3>1, RxMoves
    <3>2. CASE /\ ~(rx[t].tries + 1 >= MaxAttempts)
               /\ rx' = [rx EXCEPT ![t].tries = @ + 1]
      <4>1. rx[t].tries + 1 \in 0..MaxAttempts - 1
        BY <2>0, <3>2, MaxAttemptsAssumption
      <4> QED BY <2>0, <3>2, <4>1 DEF TypeOK, RxType
    <3> QED BY <1>2, <3>1, <3>2 DEF WriteFails
  <2>2. failed' \in [Devices -> SUBSET Uuids]
    <3>1. rx[t].msg.uuid \in Uuids BY <1>0, RxBusy
    <3>2. failed' = failed \/ failed' = [failed EXCEPT ![d] = @ \cup {rx[t].msg.uuid}]
      BY <1>2 DEF WriteFails
    <3>3. failed \in [Devices -> SUBSET Uuids] BY DEF TypeOK
    <3> HIDE DEF d
    <3>4. failed[d] \cup {rx[t].msg.uuid} \in SUBSET Uuids
      BY <1>0, <3>1, <3>3
    <3> QED BY <1>0, <3>2, <3>3, <3>4
  <2> QED BY <1>2, <2>1, <2>2 DEF TypeOK, RxType, WriteFails, caches, net, bounds
<1> QED BY <1>1, <1>2


LEMMA TypeMarks ==
  ASSUME TypeOK, NEW t \in Tasks,
         RememberWrite(t) \/ MarkUuid(t) \/ MarkProcessed(t)
  PROVE  TypeOK'
<1> DEFINE d == t[1]
           m == rx[t].msg
<1>0. /\ rx[t].pc \in RxPcs /\ d \in Devices
      /\ m.uuid \in Uuids /\ m.content \in Contents /\ Sender(m) \in Devices
  <2>1. rx[t].pc \in RxPcs
    BY DEF RememberWrite, MarkUuid, MarkProcessed, RxPcs
  <2> QED BY <2>1, TaskOwner, RxBusy
<1>1. /\ Add(writerCache[d], m.uuid, CacheSize) \in Seq(Uuids)
      /\ Add(uuidCache[d], m.uuid, CacheSize) \in Seq(Uuids)
      /\ Add(hashCache[d], m.content, CacheSize) \in Seq(Contents)
  <2>1. writerCache[d] \in Seq(Uuids) /\ uuidCache[d] \in Seq(Uuids)
        /\ hashCache[d] \in Seq(Contents)
    BY <1>0 DEF TypeOK
  <2> HIDE DEF d, m
  <2> QED BY <1>0, <2>1, AddType, CacheSizeAssumption
<1>2. CASE RememberWrite(t)
  <2>1. rx' \in RxType
    <3>1. Become(t, "markUuid") /\ "markUuid" \in RxPcs
      BY <1>2 DEF RememberWrite, RxPcs
    <3> QED BY <1>0, <3>1, RxMoves
  <2>2. writerCache' \in [Devices -> Seq(Uuids)]
    BY <1>0, <1>1, <1>2 DEF RememberWrite, TypeOK
  <2> QED BY <1>2, <2>1, <2>2 DEF TypeOK, RxType, RememberWrite, net, bounds, ghosts
<1>3. CASE MarkUuid(t)
  <2>1. rx' \in RxType
    <3>1. Become(t, "markHash") /\ "markHash" \in RxPcs
      BY <1>3 DEF MarkUuid, RxPcs
    <3> QED BY <1>0, <3>1, RxMoves
  <2>2. uuidCache' \in [Devices -> Seq(Uuids)]
    BY <1>0, <1>1, <1>3 DEF MarkUuid, TypeOK
  <2> QED BY <1>3, <2>1, <2>2 DEF TypeOK, RxType, MarkUuid, net, bounds, ghosts
<1>4. CASE MarkProcessed(t)
  <2>1. rx' \in RxType
    BY <1>4, RxMoves DEF MarkProcessed
  <2>2. hashCache' \in [Devices -> Seq(Contents)] /\ marks' \in [Devices -> Seq(Contents)]
    <3>1. /\ hashCache' = [hashCache EXCEPT ![d] = Add(@, m.content, CacheSize)]
          /\ marks' = [marks EXCEPT ![d] = Append(@, m.content)]
      BY <1>4 DEF MarkProcessed, MarkHash
    <3> HIDE DEF d, m
    <3>2. marks' \in [Devices -> Seq(Contents)]
      BY <1>0, <3>1, AppendAt DEF TypeOK
    <3> QED BY <1>0, <1>1, <3>1, <3>2 DEF TypeOK
  <2>3. history' \in [Devices -> Seq([content : Contents, from : Devices])]
    <3> DEFINE e == [content |-> m.content, from |-> Sender(m)]
               S == [content : Contents, from : Devices]
    <3>1. e \in S /\ history \in [Devices -> Seq(S)]
      BY <1>0 DEF TypeOK
    <3>2. history' = [history EXCEPT ![d] = Append(@, e)]
      BY <1>4 DEF MarkProcessed, Record
    <3> HIDE DEF e, S, d
    <3>3. history' \in [Devices -> Seq(S)]
      BY <1>0, <3>1, <3>2, AppendAt
    <3> QED BY <3>3 DEF S
  <2> QED BY <1>4, <2>1, <2>2, <2>3 DEF TypeOK, RxType, MarkProcessed, net, bounds
<1> QED BY <1>2, <1>3, <1>4

LEMMA TypeLinks ==
  ASSUME TypeOK, NEW l \in Links, LinkDown(l) \/ LinkRestored(l)
  PROVE  TypeOK'
<1>1. CASE LinkDown(l)
  <2>1. up' \in [Links -> Seq(Messages)]
    <3>1. PICK n \in 0..Len(up[l]) : up' = [up EXCEPT ![l] = SubSeq(@, 1, n)]
      BY <1>1 DEF LinkDown
    <3>2. up[l] \in Seq(Messages) BY DEF TypeOK
    <3>3. SubSeq(up[l], 1, n) \in Seq(Messages)
      BY <3>2
    <3> QED BY <3>1, <3>3 DEF TypeOK
  <2>2. down' \in [Links -> SUBSET Messages]
    BY <1>1 DEF LinkDown, TypeOK
  <2>3. linkUp' \subseteq Links /\ faults' \in Nat
    BY <1>1 DEF LinkDown, TypeOK
  <2> QED BY <1>1, <2>1, <2>2, <2>3 DEF TypeOK, LinkDown, caches, ghosts
<1>2. CASE LinkRestored(l)
  BY <1>2 DEF TypeOK, LinkRestored, caches, bounds, ghosts
<1> QED BY <1>1, <1>2

LEMMA TypeRestart ==
  ASSUME TypeOK, NEW d \in Devices, Restart(d)
  PROVE  TypeOK'
<1>1. lastHash' \in [Devices -> Contents \cup {NoContent}]
  BY DEF Restart, TypeOK
<1>2. /\ changes' \in [Devices -> Seq(Contents)]
      /\ marks' \in [Devices -> Seq(Contents)]
      /\ hashCache' \in [Devices -> Seq(Contents)]
  BY DEF Restart, TypeOK
<1>3. uuidCache' \in [Devices -> Seq(Uuids)] /\ writerCache' \in [Devices -> Seq(Uuids)]
  BY DEF Restart, TypeOK
<1>4. push' \in [Devices -> {Idle} \cup [pc : PushPcs, content : Contents]]
  BY DEF Restart, TypeOK
<1>5. rx' \in RxType
  BY DEF Restart, TypeOK, RxType
<1>6. up' \in [Links -> Seq(Messages)] /\ down' \in [Links -> SUBSET Messages]
  BY DEF Restart, TypeOK
<1>7. linkUp' \subseteq Links /\ faults' \in Nat /\ epoch' \in [Devices -> Nat]
  BY DEF Restart, TypeOK
<1>8. written' \in [Devices -> Seq([msg : Messages, task : Tasks, at : Nat])]
  <2> DEFINE S == [msg : Messages, task : Tasks, at : Nat]
  <2>1. written \in [Devices -> Seq(S)] BY DEF TypeOK
  <2>2. written' = [written EXCEPT ![d] = <<>>] BY DEF Restart
  <2> HIDE DEF S
  <2>3. written' \in [Devices -> Seq(S)] BY <2>1, <2>2
  <2> QED BY <2>3 DEF S
<1> QED BY <1>1, <1>2, <1>3, <1>4, <1>5, <1>6, <1>7, <1>8 DEF TypeOK, RxType, Restart

\* Every state has the declared types, whatever the network and the users do.
THEOREM TypeCorrect == Spec => []TypeOK
<1>1. TypeOK /\ [Next]_vars => TypeOK'
  <2> SUFFICES ASSUME TypeOK, [Next]_vars PROVE TypeOK'
    OBVIOUS
  <2>1. ASSUME NEW d \in Copiers, NEW x \in Contents, UserCopy(d, x) PROVE TypeOK'
    BY <2>1, TypeUserPoll, CopiersAssumption
  <2>2. ASSUME NEW d \in Devices, Poll(d) \/ PushStep(d) \/ Restart(d) PROVE TypeOK'
    BY <2>2, TypeUserPoll, TypePush, TypeRestart
  <2>3. ASSUME NEW t \in Tasks, RxStep(t) PROVE TypeOK'
    BY <2>3, TypeReceive, TypeChecks, TypeWrite, TypeMarks DEF RxStep
  <2>4. ASSUME NEW l \in Links, LinkDown(l) \/ LinkRestored(l) PROVE TypeOK'
    BY <2>4, TypeLinks
  <2>5. CASE UNCHANGED vars
    BY <2>5 DEF TypeOK, vars, caches, net, bounds, ghosts
  <2> QED BY <2>1, <2>2, <2>3, <2>4, <2>5 DEF Next
<1> QED BY <1>1, TypeInit, PTL DEF Spec

=============================================================================
