---------------------------- MODULE PairingProofs ----------------------------
(* Proofs about Pairing, for any devices and connections and for any number  *)
(* of requests, removals, clipboard messages and failures.                   *)
EXTENDS Pairing, TLAPS

Operations == [kind : Kinds, device : Devices \cup {None},
               task : Tasks \cup {None}, turn : Nat]

\* A task belongs to a device; a server's task is one and is no client's.
LEMMA TaskOwner ==
  ASSUME NEW t \in Tasks
  PROVE  t[1] \in Devices /\ t # None
BY LinksAssumption, NoneAssumption DEF Tasks

\* The task of a server is one, of that device, and no client's.
LEMMA ServerTasks ==
  ASSUME NEW d \in Devices
  PROVE  /\ Server(d) \in Tasks /\ Server(d)[1] = d
         /\ Server(d) \notin Links
         /\ \A e \in Devices : Server(e) = Server(d) => e = d
BY NoSelfLink DEF Tasks, Server

\* A connection is the task of its client.
LEMMA LinkTasks ==
  ASSUME NEW l \in Links
  PROVE  l \in Tasks /\ l[1] \in Devices /\ l[2] \in Devices
BY LinksAssumption DEF Tasks

\* An operation that is queued comes after the others ...
LEMMA QueueView ==
  ASSUME TypeOK, NEW d \in Devices, NEW op \in Operations, Queue(d, op),
         NEW x \in Devices, NEW i \in 1..Len(ops'[x])
  PROVE  \/ i \in 1..Len(ops[x]) /\ ops'[x][i] = ops[x][i]
         \/ x = d /\ i = Len(ops[d]) + 1 /\ ops'[x][i] = op
<1>1. ops \in [Devices -> Seq(Operations)]
  BY DEF TypeOK, Operations
<1>2. ops' = [ops EXCEPT ![d] = Append(ops[d], op)]
  BY DEF Queue
<1> HIDE DEF Operations
<1>3. CASE x = d
  BY <1>1, <1>2, <1>3
<1>4. CASE x # d
  BY <1>1, <1>2, <1>4
<1> QED BY <1>3, <1>4

\* ... and one that is taken was the first.
LEMMA TakeView ==
  ASSUME TypeOK, NEW d \in Devices, NEW kind, Take(d, kind)
  PROVE  /\ 1 \in 1..Len(ops[d])
         /\ Head(ops[d]) = ops[d][1] /\ Head(ops[d]) \in Operations
         /\ Head(ops[d]).kind = kind
         /\ kind # "List" => Head(ops[d]).device \in Devices
         /\ \A x \in Devices : \A i \in 1..Len(ops'[x]) :
              \/ x = d /\ i + 1 \in 1..Len(ops[d]) /\ ops'[x][i] = ops[d][i + 1]
              \/ x # d /\ i \in 1..Len(ops[x]) /\ ops'[x][i] = ops[x][i]
<1>1. ops \in [Devices -> Seq(Operations)]
  BY DEF TypeOK, Operations
<1>2. ops' = [ops EXCEPT ![d] = Tail(ops[d])] /\ ops[d] # <<>> /\ Head(ops[d]).kind = kind
  BY DEF Take
<1>3. 1 \in 1..Len(ops[d]) /\ Head(ops[d]) = ops[d][1] /\ ops[d][1] \in Operations
  <2> HIDE DEF Operations
  <2> QED BY <1>1, <1>2
<1>4. kind # "List" => Head(ops[d]).device \in Devices
  <2>1. ops[d][1].device = None => ops[d][1].kind = "List"
    BY <1>3 DEF TypeOK
  <2>2. ops[d][1].device \in Devices \cup {None}
    BY <1>3 DEF Operations
  <2> QED BY <2>1, <2>2, <1>2, <1>3
<1>5. ASSUME NEW x \in Devices, NEW i \in 1..Len(ops'[x])
      PROVE  \/ x = d /\ i + 1 \in 1..Len(ops[d]) /\ ops'[x][i] = ops[d][i + 1]
             \/ x # d /\ i \in 1..Len(ops[x]) /\ ops'[x][i] = ops[x][i]
  <2> HIDE DEF Operations
  <2>1. CASE x = d
    <3>1. ops'[x] = Tail(ops[d]) BY <1>1, <1>2, <2>1
    <3>2. Len(Tail(ops[d])) = Len(ops[d]) - 1 BY <1>1, <1>2
    <3> QED BY <1>1, <1>2, <2>1, <3>1, <3>2
  <2>2. CASE x # d
    BY <1>1, <1>2, <2>2
  <2> QED BY <2>1, <2>2
<1> QED BY <1>2, <1>3, <1>4, <1>5

\* What was queued before stays where it is, and the new operation is there, ...
LEMMA QueueKeeps ==
  ASSUME TypeOK, NEW d \in Devices, NEW op \in Operations, Queue(d, op)
  PROVE  /\ \A x \in Devices : \A i \in 1..Len(ops[x]) :
              i \in 1..Len(ops'[x]) /\ ops'[x][i] = ops[x][i]
         /\ \E i \in 1..Len(ops'[d]) : ops'[d][i] = op
<1>1. ops \in [Devices -> Seq(Operations)]
  BY DEF TypeOK, Operations
<1>2. ops' = [ops EXCEPT ![d] = Append(ops[d], op)]
  BY DEF Queue
<1> HIDE DEF Operations
<1>3. ASSUME NEW x \in Devices, NEW i \in 1..Len(ops[x])
      PROVE  i \in 1..Len(ops'[x]) /\ ops'[x][i] = ops[x][i]
  <2>1. CASE x = d BY <1>1, <1>2, <2>1
  <2>2. CASE x # d BY <1>1, <1>2, <2>2
  <2> QED BY <2>1, <2>2
<1>4. /\ Len(ops[d]) + 1 \in 1..Len(ops'[d])
      /\ ops'[d][Len(ops[d]) + 1] = op
  BY <1>1, <1>2
<1> QED BY <1>3, <1>4

\* ... and all but the first move up by one.
LEMMA TakeKeeps ==
  ASSUME TypeOK, NEW d \in Devices, NEW kind, Take(d, kind),
         NEW x \in Devices, NEW i \in 1..Len(ops[x])
  PROVE  \/ x = d /\ i = 1
         \/ x = d /\ i - 1 \in 1..Len(ops'[x]) /\ ops'[x][i - 1] = ops[x][i]
         \/ x # d /\ i \in 1..Len(ops'[x]) /\ ops'[x][i] = ops[x][i]
<1>1. ops \in [Devices -> Seq(Operations)]
  BY DEF TypeOK, Operations
<1>2. ops' = [ops EXCEPT ![d] = Tail(ops[d])] /\ ops[d] # <<>>
  BY DEF Take
<1> HIDE DEF Operations
<1>3. CASE x = d /\ i # 1
  <2>1. ops'[x] = Tail(ops[x]) BY <1>1, <1>2, <1>3
  <2>2. Len(Tail(ops[x])) = Len(ops[x]) - 1 BY <1>1, <1>2, <1>3
  <2> QED BY <1>1, <1>2, <1>3, <2>1, <2>2
<1>4. CASE x # d
  BY <1>1, <1>2, <1>4
<1> QED BY <1>3, <1>4

-----------------------------------------------------------------------------
(* Type correctness *)

OpsOK ==
  /\ ops \in [Devices -> Seq(Operations)]
  /\ \A d \in Devices : \A i \in 1..Len(ops[d]) :
       ops[d][i].device = None => ops[d][i].kind = "List"

States == [at : Places, peer : Devices \cup {None}, turn : Nat]
RxOK == rx \in [Tasks -> States]

\* Queueing an operation keeps the channels well-typed.
LEMMA QueueType ==
  ASSUME TypeOK, NEW d \in Devices, NEW op \in Operations,
         op.device = None => op.kind = "List", Queue(d, op)
  PROVE  OpsOK'
<1>1. ops' \in [Devices -> Seq(Operations)]
  <2>1. ops \in [Devices -> Seq(Operations)]
    BY DEF TypeOK, Operations
  <2> HIDE DEF Operations
  <2> QED BY <2>1 DEF Queue
<1>2. ASSUME NEW x \in Devices, NEW i \in 1..Len(ops'[x])
      PROVE  ops'[x][i].device = None => ops'[x][i].kind = "List"
  <2>1. \A y \in Devices : \A j \in 1..Len(ops[y]) :
          ops[y][j].device = None => ops[y][j].kind = "List"
    BY DEF TypeOK
  <2>2. \/ i \in 1..Len(ops[x]) /\ ops'[x][i] = ops[x][i]
        \/ ops'[x][i] = op
    BY QueueView
  <2> QED BY <2>1, <2>2
<1> QED BY <1>1, <1>2 DEF OpsOK

\* So does taking one, which is then an operation of that kind.
LEMMA TakeType ==
  ASSUME TypeOK, NEW d \in Devices, NEW kind, Take(d, kind)
  PROVE  OpsOK'
<1>1. ops' \in [Devices -> Seq(Operations)]
  <2>1. ops \in [Devices -> Seq(Operations)]
    BY DEF TypeOK, Operations
  <2> HIDE DEF Operations
  <2> QED BY <2>1 DEF Take
<1>2. ASSUME NEW x \in Devices, NEW i \in 1..Len(ops'[x])
      PROVE  ops'[x][i].device = None => ops'[x][i].kind = "List"
  <2>1. \A y \in Devices : \A j \in 1..Len(ops[y]) :
          ops[y][j].device = None => ops[y][j].kind = "List"
    BY DEF TypeOK
  <2>2. \/ i + 1 \in 1..Len(ops[x]) /\ ops'[x][i] = ops[x][i + 1]
        \/ i \in 1..Len(ops[x]) /\ ops'[x][i] = ops[x][i]
    BY TakeView
  <2> QED BY <2>1, <2>2
<1> QED BY <1>1, <1>2 DEF OpsOK

\* The state of a task keeps its type with another place and peer.
LEMMA OtherState ==
  ASSUME NEW s \in States, NEW place \in Places, NEW e \in Devices \cup {None}
  PROVE  [s EXCEPT !.at = place, !.peer = e] \in States
BY DEF States

\* A task in another state.
LEMMA StateType ==
  ASSUME TypeOK, NEW t \in Tasks, NEW r \in States, rx' = [rx EXCEPT ![t] = r]
  PROVE  RxOK'
BY DEF TypeOK, RxOK, States

\* The tasks stay well-typed when one of them goes on ...
LEMMA BecomeType ==
  ASSUME TypeOK, NEW t \in Tasks, NEW place \in Places, Become(t, place)
  PROVE  RxOK'
<1> DEFINE r == [rx[t] EXCEPT !.at = place]
<1>0. rx[t] \in States BY DEF TypeOK, States
<1>1. r \in States BY <1>0 DEF States
<1>2. rx' = [rx EXCEPT ![t] = r] BY DEF Become
<1> HIDE DEF r
<1> QED BY <1>1, <1>2, StateType

\* ... or is done.
LEMMA FinishType ==
  ASSUME TypeOK, NEW t \in Tasks, Finish(t)
  PROVE  RxOK'
<1> DEFINE r == [rx[t] EXCEPT !.at = "idle", !.peer = None]
<1>1. r \in States
  <2>1. rx[t] \in States BY DEF TypeOK, States
  <2>2. None \in Devices \cup {None} /\ "idle" \in Places BY DEF Places
  <2> QED BY <2>1, <2>2, OtherState
<1>2. rx' = [rx EXCEPT ![t] = r] BY DEF Finish, TypeOK
<1> HIDE DEF r
<1> QED BY <1>1, <1>2, StateType

\* The bounds keep their range.
LEMMA EventType ==
  ASSUME TypeOK, NEW n \in {0, 1}, Event(n), n = 1 => requests < MaxRequests
  PROVE  requests' \in 0..MaxRequests /\ events' \in 0..MaxEvents
BY BoundsAssumption DEF Event, TypeOK

\* The same, for a step that is no request.
LEMMA BoundsType ==
  ASSUME TypeOK, UNCHANGED bounds \/ Event(0)
  PROVE  requests' \in 0..MaxRequests /\ events' \in 0..MaxEvents
<1>1. CASE UNCHANGED bounds BY <1>1 DEF bounds, TypeOK
<1>2. CASE Event(0) BY <1>2, EventType
<1> QED BY <1>1, <1>2

\* A task takes a clipboard message of e.
ClipTaken(t, e) == [at |-> "clip", peer |-> e, turn |-> rx[t].turn]

\* The state of a task that has taken a clipboard message ...
LEMMA ClipState ==
  ASSUME TypeOK, NEW t \in Tasks, NEW e \in Devices, CheckClip(t, e)
  PROVE  ClipTaken(t, e) \in States /\ rx' = [rx EXCEPT ![t] = ClipTaken(t, e)]
<1>1. rx[t] \in States /\ rx \in [Tasks -> States]
  BY DEF TypeOK, States
<1>2. ClipTaken(t, e) \in States
  BY <1>1 DEF ClipTaken, States, Places
<1>3. ASSUME NEW s \in States
      PROVE  [[s EXCEPT !.at = "clip"] EXCEPT !.peer = e]
               = [at |-> "clip", peer |-> e, turn |-> s.turn]
  <2>1. [s EXCEPT !.at = "clip"] = [at |-> "clip", peer |-> s.peer, turn |-> s.turn]
    BY <1>3 DEF States
  <2>2. [[at |-> "clip", peer |-> s.peer, turn |-> s.turn] EXCEPT !.peer = e]
          = [at |-> "clip", peer |-> e, turn |-> s.turn]
    OBVIOUS
  <2> QED BY <2>1, <2>2
<1>4. rx' = [rx EXCEPT ![t] = [[rx[t] EXCEPT !.at = "clip"] EXCEPT !.peer = e]]
  BY <1>1 DEF CheckClip
<1> QED BY <1>1, <1>2, <1>3, <1>4 DEF ClipTaken

\* ... and the operation it has queued.
LEMMA ClipOp ==
  ASSUME NEW t \in Tasks, NEW e \in Devices
  PROVE  LET op == Op("Check", e, t, 0) IN
         /\ op \in Operations
         /\ op.kind = "Check" /\ op.device = e /\ op.device # None /\ op.task = t
BY NoneAssumption DEF Op, Operations, Kinds

\* Taking a clipboard message keeps the types ...
LEMMA ClipType ==
  ASSUME TypeOK, NEW t \in Tasks, NEW e \in Devices, CheckClip(t, e)
  PROVE  OpsOK' /\ RxOK' /\ late' \subseteq Tasks
<1> DEFINE op == Op("Check", e, t, 0)
<1>1. op \in Operations /\ op.device # None BY ClipOp
<1>2. t[1] \in Devices /\ Queue(t[1], op) BY TaskOwner DEF CheckClip
<1> HIDE DEF op
<1>3. OpsOK' BY <1>1, <1>2, QueueType
<1>4. RxOK' BY ClipState, StateType
<1>5. late' \subseteq Tasks BY DEF CheckClip, TypeOK
<1> QED BY <1>3, <1>4, <1>5

\* ... and so does writing it.
LEMMA WriteType ==
  ASSUME TypeOK, Awaited, NEW t \in Tasks, WriteClip(t)
  PROVE  TypeOK'
<1>1. RxOK' BY FinishType DEF WriteClip
<1>2. written' \subseteq Devices \X Devices
  <2>1. t[1] \in Devices /\ rx[t].peer \in Devices BY TaskOwner DEF Awaited, WriteClip
  <2> QED BY <2>1 DEF WriteClip, TypeOK
<1> QED BY <1>1, <1>2 DEF WriteClip, TypeOK, RxOK, States, window, net, bounds, consent

\* The two parts of the type invariant that most steps change.
LEMMA TypeParts == TypeOK => OpsOK /\ RxOK
BY DEF TypeOK, OpsOK, RxOK, States, Operations, States

\* A message is taken from the channel of a server.
LEMMA TakeUp ==
  ASSUME TypeOK, NEW d \in Devices, up[d] # <<>>, up' = [up EXCEPT ![d] = Tail(@)]
  PROVE  up' \in [Devices -> Seq(Devices \X {"request", "clip"})]
<1>1. up[d] \in Seq(Devices \X {"request", "clip"}) BY DEF TypeOK
<1>2. Tail(up[d]) \in Seq(Devices \X {"request", "clip"}) BY <1>1
<1> QED BY <1>2 DEF TypeOK

\* What the server's message task does.
LEMMA TypeServer ==
  ASSUME TypeOK, Awaited, NEW d \in Devices, ServerTask(d) \/ TimeOut(d)
  PROVE  TypeOK'
<1> DEFINE t == Server(d)
<1>1. t \in Tasks /\ rx[t] \in [at : Places, peer : Devices \cup {None}, turn : Nat]
  BY ServerTasks DEF TypeOK
<1>2. ASSUME NEW l \in Links, l[2] = d, TakeRequest(l) PROVE TypeOK'
  <2>1. l[1] \in Devices BY LinkTasks
  <2> DEFINE op == Op("Check", l[1], t, rx[t].turn + 1)
  <2>2. op \in Operations /\ op.device # None
    BY <1>1, <2>1, NoneAssumption DEF Op, Operations, Kinds
  <2>3. OpsOK'
    BY <1>2, <2>2, QueueType DEF TakeRequest
  <2>4. RxOK'
    <3> DEFINE r == [at |-> "check", peer |-> l[1], turn |-> rx[t].turn + 1]
    <3>1. r \in States BY <1>1, <2>1 DEF States, Places
    <3>2. rx' = [rx EXCEPT ![t] = r] BY <1>1, <1>2 DEF TakeRequest
    <3> HIDE DEF r
    <3> QED BY <1>1, <3>1, <3>2, StateType
  <2>5. up' \in [Devices -> Seq(Devices \X {"request", "clip"})]
    BY <1>2, TakeUp DEF TakeRequest
  <2> QED BY <1>2, <2>3, <2>4, <2>5
       DEF TakeRequest, TypeOK, OpsOK, RxOK, States, Operations, window, bounds, ghosts,
           consent, clipLog
<1>3. CASE Ask(d)
  <2>1. rx[t].peer \in Devices BY <1>1, <1>3 DEF Ask, Awaited
  <2> DEFINE op == Op("Pending", rx[t].peer, t, rx[t].turn)
  <2>2. op \in Operations /\ op.device # None
    BY <1>1, <2>1, NoneAssumption DEF Op, Operations, Kinds
  <2>3. OpsOK'
    BY <1>3, <2>2, QueueType DEF Ask
  <2>4. RxOK'
    BY <1>1, <1>3, BecomeType DEF Ask, Places
  <2>5. prompt' \in [Devices -> Devices \cup {None}]
    BY <1>3, <2>1 DEF Ask, TypeOK
  <2> QED BY <1>3, <2>3, <2>4, <2>5
       DEF Ask, TypeOK, OpsOK, RxOK, States, Operations, net, bounds, ghosts, consent,
           clipLog
<1>4. CASE StartAdd(d)
  <2>1. rx[t].peer \in Devices BY <1>1, <1>4 DEF StartAdd, Awaited
  <2> DEFINE op == Op("Add", rx[t].peer, t, 0)
  <2>2. op \in Operations /\ op.device # None
    BY <1>1, <2>1, NoneAssumption DEF Op, Operations, Kinds
  <2>3. OpsOK'
    BY <1>4, <2>2, QueueType DEF StartAdd
  <2>4. RxOK'
    BY <1>1, <1>4, BecomeType DEF StartAdd, Places
  <2>5. barred' \subseteq Devices \X Devices
    BY <1>4 DEF StartAdd, Unbar, TypeOK
  <2> QED BY <1>4, <2>3, <2>4, <2>5
       DEF StartAdd, TypeOK, OpsOK, RxOK, States, Operations, window, net, bounds, consent
<1>5. CASE Respond(d)
  <2>1. rx[t].peer \in Devices BY <1>1, <1>5 DEF Respond, Awaited
  <2> DEFINE answer == [ok |-> rx[t].at = "accept", for |-> rx[t].peer, n |-> rx[t].turn]
  <2>2. answer \in Answers
    BY <1>1, <2>1 DEF Answers
  <2>3. down' \in [Links -> SUBSET Answers]
    <3>1. down' = [l \in Links |->
                     IF l = <<serving[d], d>> THEN down[l] \cup {answer} ELSE down[l]]
      BY <1>5 DEF Respond
    <3> HIDE DEF answer
    <3> QED BY <2>2, <3>1 DEF TypeOK
  <2>4. RxOK'
    BY <1>1, <1>5, FinishType DEF Respond
  <2> QED BY <1>5, <2>3, <2>4, TypeParts
       DEF Respond, TypeOK, OpsOK, RxOK, States, Operations, window, bounds, ghosts,
           consent, clipLog
<1>6. CASE TimeOut(d)
  <2>1. RxOK'
    BY <1>1, <1>6, BecomeType DEF TimeOut, Places
  <2> QED BY <1>6, <2>1
       DEF TimeOut, TypeOK, RxOK, States, window, net, bounds, ghosts, consent, clipLog
<1>7. ASSUME NEW l \in Links, l[2] = d, TakeClip(l) PROVE TypeOK'
  <2>1. OpsOK' /\ RxOK' /\ late' \subseteq Tasks
    BY <1>1, <1>7, LinkTasks, ClipType DEF TakeClip
  <2>2. up' \in [Devices -> Seq(Devices \X {"request", "clip"})]
    BY <1>7, TakeUp DEF TakeClip
  <2> QED BY <1>7, <2>1, <2>2
       DEF TakeClip, TypeOK, OpsOK, RxOK, States, Operations, window, bounds, consent
<1>8. CASE WriteClip(t)
  BY <1>1, <1>8, WriteType
<1> QED BY <1>2, <1>3, <1>4, <1>5, <1>6, <1>7, <1>8 DEF ServerTask

\* What the clients' message tasks do, and connecting clients.
LEMMA TypeClient ==
  ASSUME TypeOK, Awaited, NEW l \in Links, Connect(l) \/ Disconnect(l) \/ ClientTask(l)
  PROVE  TypeOK'
<1>0. l[1] \in Devices /\ l[2] \in Devices BY LinkTasks
<1>1. CASE Connect(l)
  <2>1. up' \in [Devices -> Seq(Devices \X {"request", "clip"})]
    <3>1. up' = up \/ up' = [up EXCEPT ![l[2]] = Append(@, <<l[1], "request">>)]
      BY <1>1 DEF Connect
    <3>2. Append(up[l[2]], <<l[1], "request">>) \in Seq(Devices \X {"request", "clip"})
      <4>1. up[l[2]] \in Seq(Devices \X {"request", "clip"}) BY <1>0 DEF TypeOK
      <4>2. <<l[1], "request">> \in Devices \X {"request", "clip"} BY <1>0
      <4> QED BY <4>1, <4>2
    <3> QED BY <3>1, <3>2 DEF TypeOK
  <2>2. requests' \in 0..MaxRequests /\ events' \in 0..MaxEvents
    BY <1>1, EventType DEF Connect
  <2>3. serving' \in [Devices -> Devices \cup {None}]
    BY <1>0, <1>1 DEF Connect, TypeOK
  <2> QED BY <1>1, <2>1, <2>2, <2>3 DEF Connect, TypeOK, window, ghosts, consent, clipLog
<1>1a. CASE Disconnect(l)
  <2> DEFINE Messages == Devices \X {"request", "clip"}
  <2>1. up' \in [Devices -> Seq(Messages)]
    <3>1. PICK n \in 0..Len(up[l[2]]) : up' = [up EXCEPT ![l[2]] = SubSeq(@, 1, n)]
      BY <1>1a DEF Disconnect
    <3>2. up[l[2]] \in Seq(Messages) BY <1>0 DEF TypeOK
    <3> HIDE DEF Messages
    <3>3. SubSeq(up[l[2]], 1, n) \in Seq(Messages) BY <3>1, <3>2
    <3>4. up \in [Devices -> Seq(Messages)] BY DEF TypeOK, Messages
    <3> QED BY <3>1, <3>3, <3>4
  <2>2. down' \in [Links -> SUBSET Answers]
    BY <1>1a DEF Disconnect, TypeOK
  <2>3. inbox' \in [Links -> Nat]
    <3>1. PICK n \in 0..inbox[l] : inbox' = [inbox EXCEPT ![l] = n]
      BY <1>1a DEF Disconnect
    <3> QED BY <3>1 DEF TypeOK
  <2>4. serving' \in [Devices -> Devices \cup {None}]
    BY <1>0, <1>1a DEF Disconnect, TypeOK
  <2>5. UNCHANGED <<paired, pending, ops, rx, prompt, loading, requests, events>>
    BY <1>1a DEF Disconnect, window, bounds
  <2>6. UNCHANGED <<approved, rejected, accepted, removed, barred, late, unstored, written>>
    BY <1>1a DEF Disconnect, ghosts, consent, clipLog
  <2> QED BY <2>1, <2>2, <2>3, <2>4, <2>5, <2>6 DEF TypeOK
<1>2. ASSUME NEW m \in down[l], TakeAnswer(l, m) PROVE TypeOK'
  <2>1. down' \in [Links -> SUBSET Answers]
    BY <1>2 DEF TakeAnswer, TypeOK
  <2> DEFINE op == Op("Add", l[2], l, 0)
  <2>2. l \in Tasks /\ l[1] \in Devices /\ l[2] \in Devices
    BY LinkTasks
  <2>3. op \in Operations /\ op.device # None
    BY <2>2, NoneAssumption DEF Op, Operations, Kinds
  <2>4. OpsOK'
    <3>1. CASE m.ok BY <1>2, <2>2, <2>3, <3>1, QueueType DEF TakeAnswer
    <3>2. CASE ~m.ok BY <1>2, <3>2, TypeParts DEF TakeAnswer, OpsOK
    <3> QED BY <3>1, <3>2
  <2>5. RxOK'
    <3>1. CASE m.ok
      <4> DEFINE r == [rx[l] EXCEPT !.at = "noting", !.peer = l[2]]
      <4>1. r \in States
        <5>1. rx[l] \in States BY <2>2 DEF TypeOK, States
        <5> QED BY <5>1, <2>2, OtherState DEF Places
      <4>2. rx' = [rx EXCEPT ![l] = r] BY <1>2, <2>2, <3>1 DEF TakeAnswer, TypeOK
      <4> HIDE DEF r
      <4> QED BY <2>2, <4>1, <4>2, StateType
    <3>2. CASE ~m.ok BY <1>2, <3>2, TypeParts DEF TakeAnswer, RxOK
    <3> QED BY <3>1, <3>2
  <2>6. barred' \subseteq Devices \X Devices
    BY <1>2 DEF TakeAnswer, Unbar, TypeOK
  <2> QED BY <1>2, <2>1, <2>4, <2>5, <2>6
       DEF TakeAnswer, TypeOK, OpsOK, RxOK, States, Operations, window, bounds, consent
<1>3. CASE TakeServerClip(l)
  <2>1. OpsOK' /\ RxOK' /\ late' \subseteq Tasks
    BY <1>3, LinkTasks, ClipType DEF TakeServerClip
  <2>2. inbox' \in [Links -> Nat]
    BY <1>3 DEF TakeServerClip, TypeOK
  <2> QED BY <1>3, <2>1, <2>2
       DEF TakeServerClip, TypeOK, OpsOK, RxOK, States, Operations, window, bounds, consent
<1>4. CASE WriteClip(l)
  BY <1>4, LinkTasks, WriteType
<1> QED BY <1>1, <1>1a, <1>2, <1>3, <1>4 DEF ClientTask

\* A push keeps the types.
LEMMA TypePush ==
  ASSUME TypeOK, NEW d \in Devices, Push(d)
  PROVE  TypeOK'
<1>1. requests' \in 0..MaxRequests /\ events' \in 0..MaxEvents
  BY BoundsType DEF Push
<1>2. up' \in [Devices -> Seq(Devices \X {"request", "clip"})]
  <2>1. up' = [e \in Devices |->
                 IF serving[e] = d THEN Append(up[e], <<d, "clip">>) ELSE up[e]]
    BY DEF Push
  <2>2. \A e \in Devices : /\ up[e] \in Seq(Devices \X {"request", "clip"})
                          /\ Append(up[e], <<d, "clip">>)
                               \in Seq(Devices \X {"request", "clip"})
    BY DEF TypeOK
  <2> QED BY <2>1, <2>2
<1>3. inbox' \in [Links -> Nat]
  BY DEF Push, TypeOK
<1> QED BY <1>1, <1>2, <1>3 DEF Push, TypeOK, window, ghosts, consent, clipLog

\* What the user does at the window.
LEMMA TypeWindow ==
  ASSUME TypeOK, NEW d \in Devices, Window(d)
  PROVE  TypeOK'
<1>0. ASSUME NEW e \in Devices, NEW kind \in Kinds
      PROVE  Op(kind, e, None, 0) \in Operations /\ Op(kind, e, None, 0).device # None
  BY NoneAssumption DEF Op, Operations
<1>1. prompt[d] # None => prompt[d] \in Devices
  BY DEF TypeOK
<1>2. CASE Approve(d)
  <2>1. OpsOK'
    BY <1>0, <1>1, <1>2, QueueType DEF Approve, Kinds
  <2>2. prompt' \in [Devices -> Devices \cup {None}] /\ approved' \subseteq Devices \X Devices
    BY <1>1, <1>2 DEF Approve, TypeOK
  <2> QED BY <1>2, <2>1, <2>2 DEF Approve, TypeOK, OpsOK, Operations, net, bounds, clipLog
<1>3. CASE Reject(d)
  <2>1. OpsOK'
    BY <1>0, <1>1, <1>3, QueueType DEF Reject, Kinds
  <2>2. prompt' \in [Devices -> Devices \cup {None}]
    BY <1>3 DEF Reject, TypeOK
  <2> QED BY <1>3, <2>1, <2>2
             DEF Reject, TypeOK, OpsOK, Operations, net, bounds, ghosts, consent, clipLog
<1>4. CASE Load(d)
  <2>1. Op("List", None, None, 0) \in Operations /\ Op("List", None, None, 0).kind = "List"
    BY DEF Op, Operations, Kinds
  <2>2. OpsOK'
    BY <1>4, <2>1, QueueType DEF Load
  <2>3. loading' \subseteq Devices
    BY <1>4 DEF Load, TypeOK
  <2>4. requests' \in 0..MaxRequests /\ events' \in 0..MaxEvents
    BY <1>4, BoundsType DEF Load
  <2> QED BY <1>4, <2>2, <2>3, <2>4
             DEF Load, TypeOK, OpsOK, Operations, net, bounds, ghosts, consent, clipLog
<1>5. ASSUME NEW e \in Devices, Remove(d, e) PROVE TypeOK'
  <2>1. OpsOK'
    BY <1>0, <1>5, QueueType DEF Remove, Kinds
  <2>2. /\ requests' \in 0..MaxRequests /\ events' \in 0..MaxEvents
        /\ removed' \subseteq Devices \X Devices /\ barred' \subseteq Devices \X Devices
    <3>1. requests' \in 0..MaxRequests /\ events' \in 0..MaxEvents
      BY <1>5, BoundsType DEF Remove
    <3>2. removed' \subseteq Devices \X Devices /\ barred' \subseteq Devices \X Devices
      BY <1>5 DEF Remove, TypeOK
    <3> QED BY <3>1, <3>2
  <2> QED BY <1>5, <2>1, <2>2 DEF Remove, TypeOK, OpsOK, Operations, window, net
<1> QED BY <1>2, <1>3, <1>4, <1>5 DEF Window

\* What the storage thread does.
LEMMA TypeStorage ==
  ASSUME TypeOK, Awaited, NEW d \in Devices, Storage(d)
  PROVE  TypeOK'
<1> DEFINE op == Head(ops[d])
<1>1. CASE HandleCheck(d) \/ CheckFails(d)
  <2>1. op = ops[d][1] /\ 1 \in 1..Len(ops[d]) /\ op.kind = "Check" /\ OpsOK'
    BY <1>1, TakeView, TakeType DEF HandleCheck, CheckFails
  <2>2. op.task \in Tasks
    BY <2>1 DEF Awaited, IsAwaited
  <2>3. RxOK'
    <3>1. \/ \E place \in {"accept", "ask", "write"} : Become(op.task, place)
          \/ Finish(op.task)
      BY <1>1 DEF HandleCheck, CheckFails, Checked
    <3>2. {"accept", "ask", "write"} \subseteq Places
      BY DEF Places
    <3> HIDE DEF op
    <3> QED BY <2>2, <3>1, <3>2, BecomeType, FinishType
  <2>4. requests' \in 0..MaxRequests /\ events' \in 0..MaxEvents
    BY <1>1, BoundsType DEF HandleCheck, CheckFails
  <2>5. UNCHANGED <<paired, pending, window, net, ghosts>>
    BY <1>1 DEF HandleCheck, CheckFails
  <2> HIDE DEF op
  <2> QED BY <2>1, <2>3, <2>4, <2>5
       DEF TypeOK, OpsOK, RxOK, States, Operations, window, net, ghosts, consent, clipLog
<1>2. CASE HandleAdd(d) \/ AddFails(d)
  <2>1. /\ op = ops[d][1] /\ 1 \in 1..Len(ops[d]) /\ op.kind = "Add"
        /\ op.device \in Devices /\ OpsOK'
    BY <1>2, TakeView, TakeType DEF HandleAdd, AddFails
  <2>2. op.task \in Tasks /\ op.task # None
    BY <2>1, TaskOwner DEF Awaited, IsAwaited
  <2>3. RxOK'
    <3>1. Become(op.task, "accept") \/ Finish(op.task)
      BY <1>2, <2>2 DEF HandleAdd, AddFails, Added
    <3>2. "accept" \in Places
      BY DEF Places
    <3> HIDE DEF op
    <3> QED BY <2>2, <3>1, <3>2, BecomeType, FinishType
  <2>4. paired' \in [Devices -> SUBSET Devices]
    <3>1. paired' \in {paired, [paired EXCEPT ![d] = @ \cup {op.device}]}
      BY <1>2 DEF HandleAdd, AddFails
    <3>2. paired \in [Devices -> SUBSET Devices] /\ op.device \in Devices
      BY <2>1 DEF TypeOK
    <3> HIDE DEF op
    <3>3. CASE paired' = [paired EXCEPT ![d] = @ \cup {op.device}]
      <4>1. paired[d] \cup {op.device} \in SUBSET Devices BY <3>2
      <4> QED BY <3>2, <3>3, <4>1
    <3> QED BY <3>1, <3>2, <3>3
  <2>5. accepted' \subseteq Devices \X Devices /\ unstored' \subseteq Devices \X Devices
    <3>1. <<d, op.device>> \in Devices \X Devices
      BY <2>1
    <3>2. /\ accepted' \subseteq accepted \cup {<<d, op.device>>}
          /\ unstored' \subseteq unstored \cup {<<d, op.device>>}
      BY <1>2 DEF HandleAdd, AddFails, consent, clipLog
    <3> HIDE DEF op
    <3> QED BY <3>1, <3>2 DEF TypeOK
  <2>6. requests' \in 0..MaxRequests /\ events' \in 0..MaxEvents
    BY <1>2, BoundsType DEF HandleAdd, AddFails
  <2>7. UNCHANGED <<pending, window, net, approved, rejected, removed, barred, late, written>>
    BY <1>2 DEF HandleAdd, AddFails, consent, clipLog
  <2> HIDE DEF op
  <2> QED BY <2>1, <2>3, <2>4, <2>5, <2>6, <2>7
       DEF TypeOK, OpsOK, RxOK, States, Operations, window, net
<1>3. CASE HandleRemove(d)
  <2>1. OpsOK'
    BY <1>3, TakeType DEF HandleRemove
  <2>2. paired' \in [Devices -> SUBSET Devices]
    BY <1>3 DEF HandleRemove, TypeOK
  <2> QED BY <1>3, <2>1, <2>2
       DEF HandleRemove, TypeOK, OpsOK, Operations, window, net, bounds, ghosts, consent,
           clipLog
<1>9. CASE RemoveFails(d)
  <2>1. OpsOK'
    BY <1>9, TakeType DEF RemoveFails
  <2>2. requests' \in 0..MaxRequests /\ events' \in 0..MaxEvents
    BY <1>9, BoundsType DEF RemoveFails
  <2>3. barred' \subseteq Devices \X Devices /\ late' \subseteq Tasks
    BY <1>9 DEF RemoveFails, Unbar, TypeOK
  <2> QED BY <1>9, <2>1, <2>2, <2>3
       DEF RemoveFails, TypeOK, OpsOK, Operations, window, net, consent
<1>4. CASE HandlePending(d)
  <2>1. op \in Operations /\ OpsOK'
    BY <1>4, TakeView, TakeType DEF HandlePending
  <2>2. op.turn \in Nat
    BY <2>1 DEF Operations
  <2>3. pending' \in [Devices -> [Devices -> Nat]]
    <3> HIDE DEF op
    <3> QED BY <1>4, <2>2 DEF HandlePending, TypeOK, op
  <2> QED BY <1>4, <2>1, <2>3
       DEF HandlePending, TypeOK, OpsOK, Operations, window, net, bounds, ghosts, consent,
           clipLog
<1>5. ASSUME NEW place \in Places, Reply(d, place)
      PROVE  pending' \in [Devices -> [Devices -> Nat]] /\ RxOK'
  <2>1. pending' \in [Devices -> [Devices -> Nat]]
    BY <1>5 DEF Reply, TypeOK
  <2>2. Become(Server(d), place) \/ UNCHANGED rx
    BY <1>5 DEF Reply
  <2>3. RxOK'
    BY <2>2, ServerTasks, BecomeType, TypeParts DEF RxOK
  <2> QED BY <2>1, <2>3
<1>6. CASE HandleApprove(d)
  <2>1. OpsOK'
    BY <1>6, TakeType DEF HandleApprove
  <2>2. pending' \in [Devices -> [Devices -> Nat]] /\ RxOK'
    BY <1>5, <1>6 DEF HandleApprove, Places
  <2> QED BY <1>6, <2>1, <2>2
       DEF HandleApprove, TypeOK, OpsOK, RxOK, States, Operations, window, net, bounds,
           ghosts, consent, clipLog
<1>7. CASE HandleReject(d)
  <2>1. OpsOK' /\ op.device \in Devices
    BY <1>7, TakeType, TakeView DEF HandleReject
  <2>2. pending' \in [Devices -> [Devices -> Nat]] /\ RxOK'
    BY <1>5, <1>7 DEF HandleReject, Places
  <2>3. rejected' \subseteq Devices \X Devices
    BY <1>7, <2>1 DEF HandleReject, TypeOK
  <2> QED BY <1>7, <2>1, <2>2, <2>3
       DEF HandleReject, TypeOK, OpsOK, RxOK, States, Operations, window, net, bounds,
           clipLog
<1>8. CASE HandleList(d)
  <2>1. OpsOK'
    BY <1>8, TakeType DEF HandleList
  <2>2. prompt' \in [Devices -> Devices \cup {None}]
    BY <1>8 DEF HandleList, TypeOK
  <2> QED BY <1>8, <2>1, <2>2
       DEF HandleList, TypeOK, OpsOK, Operations, net, bounds, ghosts, consent, clipLog
<1> QED BY <1>1, <1>2, <1>3, <1>4, <1>6, <1>7, <1>8, <1>9 DEF Storage

\* Every step keeps the types.
LEMMA TypeStep ==
  ASSUME TypeOK, Awaited, [Next]_vars
  PROVE  TypeOK'
<1>1. CASE Next
  BY <1>1, LoadersAssumption, TypePush, TypeServer, TypeClient, TypeWindow, TypeStorage
     DEF Next
<1>2. CASE UNCHANGED vars
  BY <1>2 DEF vars, window, net, bounds, ghosts, consent, clipLog, TypeOK
<1> QED BY <1>1, <1>2

-----------------------------------------------------------------------------
(* Operations a task waits for *)

\* One task goes into state r; the others stay as they are.
Moves(t, r) == rx'[t] = r /\ \A s \in Tasks : s # t => rx'[s] = rx[s]

\* What one task does, as the change of its record: it goes on, ...
LEMMA BecomeMoves ==
  ASSUME TypeOK, NEW t \in Tasks, NEW place, Become(t, place)
  PROVE  Moves(t, [at |-> place, peer |-> rx[t].peer, turn |-> rx[t].turn])
<1>1. rx[t] \in States /\ rx \in [Tasks -> States]
  BY DEF TypeOK, States
<1>2. [rx[t] EXCEPT !.at = place] = [at |-> place, peer |-> rx[t].peer, turn |-> rx[t].turn]
  BY <1>1 DEF States
<1>3. rx'[t] = [rx[t] EXCEPT !.at = place]
  BY <1>1 DEF Become
<1>4. \A s \in Tasks : s # t => rx'[s] = rx[s]
  BY <1>1 DEF Become
<1> QED BY <1>2, <1>3, <1>4 DEF Moves

\* ... is done ...
LEMMA FinishMoves ==
  ASSUME TypeOK, NEW t \in Tasks, Finish(t)
  PROVE  Moves(t, [at |-> "idle", peer |-> None, turn |-> rx[t].turn])
<1>1. rx[t] \in States /\ rx \in [Tasks -> States]
  BY DEF TypeOK, States
<1>2. [[rx[t] EXCEPT !.at = "idle"] EXCEPT !.peer = None]
        = [at |-> "idle", peer |-> None, turn |-> rx[t].turn]
  <2>1. ASSUME NEW s \in States
        PROVE  [[s EXCEPT !.at = "idle"] EXCEPT !.peer = None]
                 = [at |-> "idle", peer |-> None, turn |-> s.turn]
    <3>1. [s EXCEPT !.at = "idle"] = [at |-> "idle", peer |-> s.peer, turn |-> s.turn]
      BY <2>1 DEF States
    <3>2. [[at |-> "idle", peer |-> s.peer, turn |-> s.turn] EXCEPT !.peer = None]
            = [at |-> "idle", peer |-> None, turn |-> s.turn]
      OBVIOUS
    <3> QED BY <3>1, <3>2
  <2> QED BY <1>1, <2>1
<1>3. rx'[t] = [[rx[t] EXCEPT !.at = "idle"] EXCEPT !.peer = None]
  BY <1>1 DEF Finish
<1>4. \A s \in Tasks : s # t => rx'[s] = rx[s]
  BY <1>1 DEF Finish
<1> QED BY <1>2, <1>3, <1>4 DEF Moves

\* A step of a task that waits for nothing, and that asks the storage thread nothing.
LEMMA AwaitedMove ==
  ASSUME TypeOK, Awaited, UNCHANGED ops,
         NEW t \in Tasks, NEW r, Moves(t, r), rx[t].at \notin Waiting,
         r.at \notin Waiting, r.at # "idle" => r.peer \in Devices
  PROVE  Awaited'
<1>1. ASSUME NEW s \in Tasks, rx'[s].at # "idle" PROVE rx'[s].peer \in Devices
  BY <1>1 DEF Moves, Awaited
<1>2. ASSUME NEW d \in Devices, NEW i \in 1..Len(ops[d]), IsAwaited(ops[d][i])
      PROVE  /\ ops[d][i].task \in Tasks /\ ops[d][i].task[1] = d
             /\ rx'[ops[d][i].task].at \in AwaitedAt(ops[d][i])
             /\ rx'[ops[d][i].task].peer = ops[d][i].device
             /\ \A j \in 1..Len(ops[d]) :
                  IsAwaited(ops[d][j]) /\ ops[d][j].task = ops[d][i].task => i = j
  BY <1>2 DEF Awaited, Moves, Waiting, AwaitedAt
<1>3. ASSUME NEW s \in Tasks, rx'[s].at \in Waiting PROVE HasAsked(s)'
  <2>1. HasAsked(s) BY <1>3 DEF Moves, Awaited
  <2> QED BY <2>1 DEF HasAsked
<1> QED BY <1>1, <1>2, <1>3 DEF Awaited

\* A step that queues an operation: its task waits for it from now on, and waited for
\* none before.
LEMMA AwaitedQueue ==
  ASSUME TypeOK, Awaited, NEW d \in Devices, NEW op \in Operations, Queue(d, op),
         NEW t \in Tasks, t[1] = d, NEW r, Moves(t, r),
         r.at # "idle" => r.peer \in Devices,
         \/ rx[t].at \notin Waiting
         \/ r = rx[t] /\ ~IsAwaited(op),
         r.at \in Waiting => r = rx[t] \/ IsAwaited(op),
         IsAwaited(op) => op.task = t /\ r.at \in AwaitedAt(op) /\ r.peer = op.device
  PROVE  Awaited'
<1>1. ASSUME NEW s \in Tasks, rx'[s].at # "idle" PROVE rx'[s].peer \in Devices
  BY <1>1 DEF Moves, Awaited
<1>2. ASSUME NEW x \in Devices, NEW i \in 1..Len(ops[x]), IsAwaited(ops[x][i])
      PROVE  /\ ops[x][i].task \in Tasks /\ ops[x][i].task[1] = x
             /\ rx'[ops[x][i].task].at \in AwaitedAt(ops[x][i])
             /\ rx'[ops[x][i].task].peer = ops[x][i].device
             /\ IsAwaited(op) => ops[x][i].task # op.task
  BY <1>2 DEF Awaited, Moves, Waiting, AwaitedAt
<1>3. ASSUME NEW x \in Devices, NEW i \in 1..Len(ops'[x]), IsAwaited(ops'[x][i])
      PROVE  /\ ops'[x][i].task \in Tasks /\ ops'[x][i].task[1] = x
             /\ rx'[ops'[x][i].task].at \in AwaitedAt(ops'[x][i])
             /\ rx'[ops'[x][i].task].peer = ops'[x][i].device
  <2>1. CASE i \in 1..Len(ops[x]) /\ ops'[x][i] = ops[x][i]
    BY <1>2, <1>3, <2>1
  <2>2. CASE x = d /\ ops'[x][i] = op
    BY <1>3, <2>2 DEF Moves
  <2> QED BY <2>1, <2>2, QueueView
<1>4. ASSUME NEW x \in Devices, NEW i \in 1..Len(ops'[x]), IsAwaited(ops'[x][i]),
             NEW j \in 1..Len(ops'[x]), IsAwaited(ops'[x][j]),
             ops'[x][j].task = ops'[x][i].task
      PROVE  i = j
  <2>1. \/ i \in 1..Len(ops[x]) /\ ops'[x][i] = ops[x][i]
        \/ x = d /\ i = Len(ops[d]) + 1 /\ ops'[x][i] = op
    BY QueueView
  <2>2. \/ j \in 1..Len(ops[x]) /\ ops'[x][j] = ops[x][j]
        \/ x = d /\ j = Len(ops[d]) + 1 /\ ops'[x][j] = op
    BY QueueView
  <2>3. CASE i \in 1..Len(ops[x]) /\ j \in 1..Len(ops[x])
             /\ ops'[x][i] = ops[x][i] /\ ops'[x][j] = ops[x][j]
    BY <1>4, <2>3 DEF Awaited
  <2> QED BY <1>2, <1>4, <2>1, <2>2, <2>3
<1>5. ASSUME NEW s \in Tasks, rx'[s].at \in Waiting PROVE HasAsked(s)'
  <2>1. s[1] \in Devices BY TaskOwner
  <2>2. CASE s = t /\ IsAwaited(op)
    BY <2>2, QueueKeeps DEF HasAsked
  <2>3. CASE ~(s = t /\ IsAwaited(op))
    <3>1. HasAsked(s) BY <1>5, <2>3 DEF Moves, Awaited
    <3>2. PICK i \in 1..Len(ops[s[1]]) :
            IsAwaited(ops[s[1]][i]) /\ ops[s[1]][i].task = s
      BY <3>1 DEF HasAsked
    <3>3. i \in 1..Len(ops'[s[1]]) /\ ops'[s[1]][i] = ops[s[1]][i]
      BY <2>1, QueueKeeps
    <3> QED BY <3>2, <3>3 DEF HasAsked
  <2> QED BY <2>2, <2>3
<1> QED BY <1>1, <1>3, <1>4, <1>5 DEF Awaited

\* A step of the storage thread: at most the task that waits for it goes on, or one that
\* waits for nothing there.
LEMMA AwaitedTake ==
  ASSUME TypeOK, Awaited, NEW d \in Devices, NEW kind, Take(d, kind),
         NEW t \in Tasks, NEW r, Moves(t, r),
         r.at # "idle" => r.peer \in Devices,
         \/ rx[t].at \notin Waiting
         \/ r = rx[t]
         \/ IsAwaited(ops[d][1]) /\ t = ops[d][1].task,
         IsAwaited(ops[d][1]) => t = ops[d][1].task /\ r.at \notin Waiting,
         r.at \in Waiting => r = rx[t]
  PROVE  Awaited'
<1>0. 1 \in 1..Len(ops[d])
  BY TakeView
<1>1. ASSUME NEW s \in Tasks, rx'[s].at # "idle" PROVE rx'[s].peer \in Devices
  BY <1>1 DEF Moves, Awaited
<1>2. ASSUME NEW x \in Devices, NEW i \in 1..Len(ops[x]), IsAwaited(ops[x][i]),
             x # d \/ i # 1
      PROVE  /\ ops[x][i].task \in Tasks /\ ops[x][i].task[1] = x
             /\ rx'[ops[x][i].task].at \in AwaitedAt(ops[x][i])
             /\ rx'[ops[x][i].task].peer = ops[x][i].device
  <2>1. /\ ops[x][i].task \in Tasks /\ ops[x][i].task[1] = x
        /\ rx[ops[x][i].task].at \in AwaitedAt(ops[x][i])
        /\ rx[ops[x][i].task].peer = ops[x][i].device
    BY <1>2 DEF Awaited
  <2>2. IsAwaited(ops[d][1]) => ops[d][1].task # ops[x][i].task
    BY <1>0, <1>2 DEF Awaited
  <2>3. ops[x][i].task = t => r = rx[t]
    BY <2>1, <2>2 DEF Waiting, AwaitedAt
  <2> QED BY <2>1, <2>3 DEF Moves
<1>3. ASSUME NEW x \in Devices, NEW i \in 1..Len(ops'[x])
      PROVE  \E k \in 1..Len(ops[x]) :
               /\ ops'[x][i] = ops[x][k]
               /\ k = IF x = d THEN i + 1 ELSE i
               /\ x # d \/ k # 1
  BY TakeView
<1>4. ASSUME NEW x \in Devices, NEW i \in 1..Len(ops'[x]), IsAwaited(ops'[x][i])
      PROVE  /\ ops'[x][i].task \in Tasks /\ ops'[x][i].task[1] = x
             /\ rx'[ops'[x][i].task].at \in AwaitedAt(ops'[x][i])
             /\ rx'[ops'[x][i].task].peer = ops'[x][i].device
  <2>1. PICK k \in 1..Len(ops[x]) : ops'[x][i] = ops[x][k] /\ (x # d \/ k # 1)
    BY <1>3
  <2> QED BY <1>2, <1>4, <2>1
<1>5. ASSUME NEW x \in Devices, NEW i \in 1..Len(ops'[x]), IsAwaited(ops'[x][i]),
             NEW j \in 1..Len(ops'[x]), IsAwaited(ops'[x][j]),
             ops'[x][j].task = ops'[x][i].task
      PROVE  i = j
  <2>1. PICK k \in 1..Len(ops[x]) :
          ops'[x][i] = ops[x][k] /\ k = IF x = d THEN i + 1 ELSE i
    BY <1>3
  <2>2. PICK n \in 1..Len(ops[x]) :
          ops'[x][j] = ops[x][n] /\ n = IF x = d THEN j + 1 ELSE j
    BY <1>3
  <2>3. k = n
    BY <1>5, <2>1, <2>2 DEF Awaited
  <2> QED BY <2>1, <2>2, <2>3
<1>6. ASSUME NEW s \in Tasks, rx'[s].at \in Waiting PROVE HasAsked(s)'
  <2>1. rx[s].at \in Waiting /\ (IsAwaited(ops[d][1]) => ops[d][1].task # s)
    BY <1>6 DEF Moves
  <2>2. HasAsked(s) /\ s[1] \in Devices
    BY <2>1, TaskOwner DEF Awaited
  <2>3. PICK i \in 1..Len(ops[s[1]]) :
          IsAwaited(ops[s[1]][i]) /\ ops[s[1]][i].task = s
    BY <2>2 DEF HasAsked
  <2>4. ~(s[1] = d /\ i = 1)
    BY <2>1, <2>3
  <2>5. PICK k \in 1..Len(ops'[s[1]]) : ops'[s[1]][k] = ops[s[1]][i]
    BY <2>2, <2>4, TakeKeeps
  <2> QED BY <2>3, <2>5 DEF HasAsked
<1> QED BY <1>1, <1>4, <1>5, <1>6 DEF Awaited

\* ... or stays as it is.
LEMMA StaysMoves ==
  ASSUME NEW t \in Tasks, UNCHANGED rx
  PROVE  Moves(t, rx[t])
BY DEF Moves

\* A task takes a clipboard message, or is done with it.
LEMMA AwaitedClip ==
  ASSUME TypeOK, Awaited, NEW t \in Tasks, NEW e \in Devices, CheckClip(t, e)
  PROVE  Awaited'
<1> DEFINE r == ClipTaken(t, e)
           op == Op("Check", e, t, 0)
           d == t[1]
<1>1. d \in Devices BY TaskOwner
<1>2. op \in Operations /\ op.kind = "Check" /\ op.device = e /\ op.task = t
  BY ClipOp
<1>3. Moves(t, r)
  <2>1. rx \in [Tasks -> States] BY DEF TypeOK, States
  <2>2. rx' = [rx EXCEPT ![t] = r] BY ClipState
  <2> HIDE DEF r
  <2> QED BY <2>1, <2>2 DEF Moves
<1>4. r.at = "clip" /\ r.peer = e BY DEF ClipTaken
<1>5. rx[t].at \notin Waiting /\ Queue(d, op) BY DEF CheckClip, Waiting
<1> HIDE DEF r, op, d
<1>6. t[1] = d BY DEF d
<1> QED BY <1>1, <1>2, <1>3, <1>4, <1>5, <1>6, AwaitedQueue DEF AwaitedAt, IsAwaited

\* Awaited is kept by a write, ...
LEMMA AwaitedWrite ==
  ASSUME TypeOK, Awaited, NEW t \in Tasks, WriteClip(t)
  PROVE  Awaited'
<1> DEFINE r == [at |-> "idle", peer |-> None, turn |-> rx[t].turn]
<1>1. Moves(t, r) /\ r.at = "idle" /\ UNCHANGED ops /\ {r.at, rx[t].at} \cap Waiting = {}
  BY FinishMoves DEF WriteClip, Waiting
<1> HIDE DEF r
<1> QED BY <1>1, AwaitedMove

\* ... by the server's task, ...
LEMMA AwaitedServer ==
  ASSUME TypeOK, Awaited, NEW d \in Devices, ServerTask(d) \/ TimeOut(d)
  PROVE  Awaited'
<1> DEFINE t == Server(d)
<1>1. /\ t \in Tasks /\ t[1] = d
      /\ rx[t] \in [at : Places, peer : Devices \cup {None}, turn : Nat]
  BY ServerTasks DEF TypeOK
<1>2. ASSUME NEW l \in Links, l[2] = d, TakeRequest(l) PROVE Awaited'
  <2> DEFINE r == [at |-> "check", peer |-> l[1], turn |-> rx[t].turn + 1]
             op == Op("Check", l[1], t, rx[t].turn + 1)
  <2>1. l[1] \in Devices BY LinkTasks
  <2>2. op \in Operations
    BY <1>1, <2>1 DEF Op, Operations, Kinds
  <2>3. Moves(t, r)
    BY <1>1, <1>2 DEF TakeRequest, Moves, TypeOK
  <2>4. rx[t].at \notin Waiting /\ Queue(d, op)
    BY <1>2 DEF TakeRequest, Waiting
  <2>5. r.at = "check" /\ r.peer = l[1] /\ op.task = t /\ op.device = l[1] /\ op.kind = "Check"
    BY DEF Op
  <2> HIDE DEF t, r, op
  <2> QED BY <1>1, <2>1, <2>2, <2>3, <2>4, <2>5, AwaitedQueue DEF AwaitedAt, IsAwaited
<1>3. CASE Ask(d)
  <2> DEFINE r == [at |-> "wait", peer |-> rx[t].peer, turn |-> rx[t].turn]
             op == Op("Pending", rx[t].peer, t, rx[t].turn)
  <2>1. rx[t].peer \in Devices BY <1>1, <1>3 DEF Ask, Awaited
  <2>2. op \in Operations
    BY <1>1, <2>1 DEF Op, Operations, Kinds
  <2>3. Moves(t, r)
    BY <1>1, <1>3, BecomeMoves DEF Ask
  <2>4. rx[t].at \notin Waiting /\ Queue(d, op)
    BY <1>3 DEF Ask, Waiting
  <2>5. r.peer = rx[t].peer /\ ~IsAwaited(op)
    BY DEF Op, IsAwaited
  <2>6. r.at \notin Waiting
    BY DEF Waiting
  <2> HIDE DEF t, r, op
  <2> QED BY <1>1, <2>1, <2>2, <2>3, <2>4, <2>5, <2>6, AwaitedQueue
<1>4. CASE StartAdd(d)
  <2> DEFINE r == [at |-> "adding", peer |-> rx[t].peer, turn |-> rx[t].turn]
             op == Op("Add", rx[t].peer, t, 0)
  <2>1. rx[t].peer \in Devices BY <1>1, <1>4 DEF StartAdd, Awaited
  <2>2. op \in Operations
    BY <1>1, <2>1 DEF Op, Operations, Kinds
  <2>3. Moves(t, r)
    BY <1>1, <1>4, BecomeMoves DEF StartAdd
  <2>4. rx[t].at \notin Waiting /\ Queue(d, op)
    BY <1>4 DEF StartAdd, Waiting
  <2>5. /\ r.at = "adding" /\ r.peer = rx[t].peer
        /\ op.task = t /\ op.device = rx[t].peer /\ op.kind = "Add"
    BY DEF Op
  <2> HIDE DEF t, r, op
  <2> QED BY <1>1, <2>1, <2>2, <2>3, <2>4, <2>5, AwaitedQueue DEF AwaitedAt, IsAwaited
<1>5. CASE Respond(d)
  <2> DEFINE r == [at |-> "idle", peer |-> None, turn |-> rx[t].turn]
  <2>1. Moves(t, r) /\ r.at = "idle" /\ UNCHANGED ops /\ {r.at, rx[t].at} \cap Waiting = {}
    BY <1>1, <1>5, FinishMoves DEF Respond, Waiting
  <2> HIDE DEF t, r
  <2> QED BY <1>1, <2>1, AwaitedMove
<1>6. CASE TimeOut(d)
  <2> DEFINE r == [at |-> "refuse", peer |-> rx[t].peer, turn |-> rx[t].turn]
  <2>1. rx[t].peer \in Devices BY <1>1, <1>6 DEF TimeOut, Awaited
  <2>2. /\ Moves(t, r) /\ r.peer = rx[t].peer /\ UNCHANGED ops
        /\ {r.at, rx[t].at} \cap Waiting = {}
    BY <1>1, <1>6, BecomeMoves DEF TimeOut, Waiting
  <2> HIDE DEF t, r
  <2> QED BY <1>1, <2>1, <2>2, AwaitedMove
<1>7. ASSUME NEW l \in Links, l[2] = d, TakeClip(l) PROVE Awaited'
  BY <1>1, <1>7, LinkTasks, AwaitedClip DEF TakeClip
<1>8. CASE WriteClip(t)
  BY <1>1, <1>8, AwaitedWrite
<1> QED BY <1>2, <1>3, <1>4, <1>5, <1>6, <1>7, <1>8 DEF ServerTask

\* ... by the tasks of clients, ...
LEMMA AwaitedClient ==
  ASSUME TypeOK, Awaited, NEW l \in Links, Connect(l) \/ Disconnect(l) \/ ClientTask(l)
  PROVE  Awaited'
<1>1. ASSUME UNCHANGED <<rx, ops>> PROVE Awaited'
  BY <1>1 DEF Awaited, HasAsked
<1>5. CASE TakeServerClip(l)
  BY <1>5, LinkTasks, AwaitedClip DEF TakeServerClip
<1>6. CASE WriteClip(l)
  BY <1>6, LinkTasks, AwaitedWrite
<1>2. CASE Connect(l) \/ Disconnect(l)
  BY <1>1, <1>2 DEF Connect, Disconnect
<1>3. ASSUME NEW m \in down[l], TakeAnswer(l, m), m.ok PROVE Awaited'
  <2> DEFINE r == [at |-> "noting", peer |-> l[2], turn |-> rx[l].turn]
             op == Op("Add", l[2], l, 0)
  <2>1. l \in Tasks /\ l[1] \in Devices /\ l[2] \in Devices
    BY LinkTasks
  <2>2. op \in Operations
    BY <2>1 DEF Op, Operations, Kinds
  <2>3. Moves(l, r)
    <3>1. rx \in [Tasks -> States] BY DEF TypeOK, States
    <3>2. rx'[l] = [[rx[l] EXCEPT !.at = "noting"] EXCEPT !.peer = l[2]]
      BY <1>3, <2>1, <3>1 DEF TakeAnswer
    <3>3. [rx[l] EXCEPT !.at = "noting"]
            = [at |-> "noting", peer |-> rx[l].peer, turn |-> rx[l].turn]
      BY <2>1, <3>1 DEF States
    <3>4. [[at |-> "noting", peer |-> rx[l].peer, turn |-> rx[l].turn] EXCEPT !.peer = l[2]] = r
      OBVIOUS
    <3>5. \A s \in Tasks : s # l => rx'[s] = rx[s]
      BY <1>3, <3>1 DEF TakeAnswer
    <3> QED BY <3>2, <3>3, <3>4, <3>5 DEF Moves
  <2>4. rx[l].at \notin Waiting /\ Queue(l[1], op)
    BY <1>3 DEF TakeAnswer, Waiting
  <2>5. r.at = "noting" /\ r.peer = l[2] /\ op.task = l /\ op.device = l[2] /\ op.kind = "Add"
    BY DEF Op
  <2> HIDE DEF r, op
  <2> QED BY <2>1, <2>2, <2>3, <2>4, <2>5, AwaitedQueue DEF AwaitedAt, IsAwaited
<1>4. ASSUME NEW m \in down[l], TakeAnswer(l, m), ~m.ok PROVE Awaited'
  BY <1>1, <1>4 DEF TakeAnswer
<1> QED BY <1>2, <1>3, <1>4, <1>5, <1>6 DEF ClientTask

\* ... by the window ...
LEMMA AwaitedWindow ==
  ASSUME TypeOK, Awaited, NEW d \in Devices, Window(d)
  PROVE  Awaited'
<1> DEFINE t == Server(d)
<1>1. t \in Tasks /\ t[1] = d /\ (rx[t].at # "idle" => rx[t].peer \in Devices)
  BY ServerTasks DEF Awaited
<1>2. ASSUME NEW op \in Operations, op.kind \notin {"Check", "Add"}, Queue(d, op),
             UNCHANGED rx
      PROVE  Awaited'
  <2>1. Moves(t, rx[t]) /\ ~IsAwaited(op)
    BY <1>1, <1>2, StaysMoves DEF IsAwaited
  <2> HIDE DEF t
  <2> QED BY <1>1, <1>2, <2>1, AwaitedQueue
<1>3. ASSUME NEW e \in Devices \cup {None}, NEW kind \in Kinds
      PROVE  Op(kind, e, None, 0) \in Operations /\ Op(kind, e, None, 0).kind = kind
  BY DEF Op, Operations
<1>4. prompt[d] \in Devices \cup {None}
  BY DEF TypeOK
<1>5. {"Approve", "Reject", "List", "Remove"} \subseteq Kinds \ {"Check", "Add"}
  BY DEF Kinds
<1> HIDE DEF t
<1>6. CASE Approve(d)
  BY <1>2, <1>3, <1>4, <1>5, <1>6 DEF Approve
<1>7. CASE Reject(d)
  BY <1>2, <1>3, <1>4, <1>5, <1>7 DEF Reject
<1>8. CASE Load(d)
  BY <1>2, <1>3, <1>5, <1>8 DEF Load
<1>9. ASSUME NEW e \in Devices, Remove(d, e) PROVE Awaited'
  BY <1>2, <1>3, <1>5, <1>9 DEF Remove
<1> QED BY <1>6, <1>7, <1>8, <1>9 DEF Window

\* What Reply does to the server's task.
LEMMA ReplyMoves ==
  ASSUME TypeOK, NEW d \in Devices, NEW place, Reply(d, place)
  PROVE  \/ UNCHANGED rx
         \/ /\ rx[Server(d)].at = "wait"
            /\ pending[d][Head(ops[d]).device] # 0
            /\ rx[Server(d)].turn = pending[d][Head(ops[d]).device]
            /\ Moves(Server(d), [at |-> place, peer |-> rx[Server(d)].peer,
                                 turn |-> rx[Server(d)].turn])
BY ServerTasks, BecomeMoves DEF Reply

\* ... and by the storage thread.
LEMMA AwaitedStorage ==
  ASSUME TypeOK, Awaited, NEW d \in Devices, Storage(d)
  PROVE  Awaited'
<1> DEFINE t == Server(d)
           head == ops[d][1]
<1>1. t \in Tasks /\ (rx[t].at # "idle" => rx[t].peer \in Devices)
  BY ServerTasks DEF Awaited
<1>0. {"accept", "ask", "write"} \subseteq Places \ Waiting
  BY DEF Places, Waiting
\* the task that waits for the operation goes on
<1>2. ASSUME NEW kind \in {"Check", "Add"}, Take(d, kind), NEW place \in Places \ Waiting,
             Become(head.task, place) \/ Finish(head.task)
      PROVE  Awaited'
  <2> DEFINE u == head.task
  <2>1. 1 \in 1..Len(ops[d]) /\ IsAwaited(head)
    BY <1>2, TakeView DEF IsAwaited
  <2>2. u \in Tasks /\ rx[u].at # "idle" /\ rx[u].peer \in Devices
    BY <2>1 DEF Awaited, AwaitedAt
  <2>3. CASE Become(u, place)
    <3> DEFINE r == [at |-> place, peer |-> rx[u].peer, turn |-> rx[u].turn]
    <3>1. Moves(u, r) /\ r.peer = rx[u].peer /\ r.at \notin Waiting
      BY <2>2, <2>3, BecomeMoves
    <3>2. u = ops[d][1].task /\ IsAwaited(ops[d][1])
      BY <2>1
    <3> HIDE DEF t, u, r, head
    <3> QED BY <1>2, <2>2, <3>1, <3>2, AwaitedTake
  <2>4. CASE Finish(u)
    <3> DEFINE r == [at |-> "idle", peer |-> None, turn |-> rx[u].turn]
    <3>1. Moves(u, r) /\ r.at = "idle" /\ r.at \notin Waiting
      BY <2>2, <2>4, FinishMoves DEF Waiting
    <3>2. u = ops[d][1].task /\ IsAwaited(ops[d][1])
      BY <2>1
    <3> HIDE DEF t, u, r, head
    <3> QED BY <1>2, <2>2, <3>1, <3>2, AwaitedTake
  <2> QED BY <1>2, <2>3, <2>4
\* nobody waits for the operation
<1>3. ASSUME NEW kind, kind \notin {"Check", "Add"}, Take(d, kind), UNCHANGED rx
      PROVE  Awaited'
  <2>1. ~IsAwaited(ops[d][1]) /\ Moves(t, rx[t])
    BY <1>1, <1>3, TakeView, StaysMoves DEF IsAwaited
  <2> HIDE DEF t, head
  <2> QED BY <1>1, <1>3, <2>1, AwaitedTake
<1>4. ASSUME NEW kind, kind \notin {"Check", "Add"}, Take(d, kind),
             NEW place \in Places \ Waiting, Reply(d, place)
      PROVE  Awaited'
  <2>1. CASE UNCHANGED rx
    BY <1>3, <1>4, <2>1
  <2>2. CASE rx[t].at = "wait" /\ Moves(t, [at |-> place, peer |-> rx[t].peer,
                                            turn |-> rx[t].turn])
    <3> DEFINE r == [at |-> place, peer |-> rx[t].peer, turn |-> rx[t].turn]
    <3>1. /\ ~IsAwaited(ops[d][1]) /\ Moves(t, r) /\ r.peer = rx[t].peer
          /\ rx[t].at # "idle" /\ rx[t].at \notin Waiting /\ r.at \notin Waiting
      BY <1>4, <2>2, TakeView DEF IsAwaited, Waiting
    <3> HIDE DEF t, r, head
    <3> QED BY <1>1, <1>4, <3>1, AwaitedTake
  <2> QED BY <1>4, <2>1, <2>2, ReplyMoves
<1>5. CASE HandleCheck(d) \/ CheckFails(d)
  <2>1. Take(d, "Check") /\ head = Head(ops[d])
    BY <1>5, TakeView DEF HandleCheck, CheckFails
  <2>2. (\E place \in Places \ Waiting : Become(head.task, place)) \/ Finish(head.task)
    <3>1. \E yes : Checked(head.task, yes)
      BY <1>5, <2>1 DEF HandleCheck, CheckFails
    <3> HIDE DEF head
    <3> QED BY <1>0, <3>1 DEF Checked
  <2> QED BY <1>0, <1>2, <2>1, <2>2
<1>6. CASE HandleAdd(d) \/ AddFails(d)
  <2>1. Take(d, "Add") /\ head = Head(ops[d])
    BY <1>6, TakeView DEF HandleAdd, AddFails
  <2>2. head.task # None
    BY <2>1, TakeView, TaskOwner DEF Awaited, IsAwaited
  <2>3. Become(head.task, "accept") \/ Finish(head.task)
    BY <1>6, <2>1, <2>2 DEF HandleAdd, AddFails, Added
  <2> QED BY <1>0, <1>2, <2>1, <2>3
<1>7. CASE HandleRemove(d) \/ RemoveFails(d)
  BY <1>3, <1>7 DEF HandleRemove, RemoveFails
<1>8. CASE HandlePending(d)
  BY <1>3, <1>8 DEF HandlePending
<1>9. CASE HandleApprove(d)
  BY <1>4, <1>9 DEF HandleApprove, Places, Waiting
<1>10. CASE HandleReject(d)
  BY <1>4, <1>10 DEF HandleReject, Places, Waiting
<1>11. CASE HandleList(d)
  BY <1>3, <1>11 DEF HandleList
<1> QED BY <1>5, <1>6, <1>7, <1>8, <1>9, <1>10, <1>11 DEF Storage

\* Every step keeps Awaited.
LEMMA AwaitedStep ==
  ASSUME TypeOK, Awaited, [Next]_vars
  PROVE  Awaited'
<1>1. CASE Next
  <2>1. ASSUME NEW d \in Devices, Push(d) PROVE Awaited'
    BY <2>1 DEF Push, Awaited, HasAsked
  <2> QED BY <1>1, <2>1, LoadersAssumption, AwaitedServer, AwaitedClient, AwaitedWindow,
             AwaitedStorage
      DEF Next
<1>2. CASE UNCHANGED vars
  BY <1>2 DEF vars, Awaited, HasAsked
<1> QED BY <1>1, <1>2

\* Types and Awaited hold at first.
LEMMA TypeInit == Init => TypeOK /\ Awaited
<1> SUFFICES ASSUME Init PROVE TypeOK /\ Awaited
  OBVIOUS
<1>1. TypeOK
  BY BoundsAssumption, LoadersAssumption DEF Init, TypeOK, Places
<1>2. Awaited
  BY DEF Init, Awaited, Waiting
<1> QED BY <1>1, <1>2

\* Types hold always: no operation without a device reaches the storage thread except
\* the listing.
THEOREM PairingTypeCorrect == Spec => []TypeOK
<1>1. Init => TypeOK /\ Awaited
  BY TypeInit
<1>2. TypeOK /\ Awaited /\ [Next]_vars => TypeOK' /\ Awaited'
  BY TypeStep, AwaitedStep
<1> QED BY <1>1, <1>2, PTL DEF Spec

-----------------------------------------------------------------------------
(* What a step can do to a message task, to the operations and to the tables *)

Goes(t, from, to) ==
  rx[t].at = from /\ rx'[t] = [at |-> to, peer |-> rx[t].peer, turn |-> rx[t].turn]

\* The user of d has approved the device that the turn-th request of its server names.
ApprovalAt(d, turn) ==
  \E i \in 1..Len(ops[d]) :
    ops[d][i].kind = "Approve" /\ turn # 0 /\ ops[d][i].device \in Devices
      /\ pending[d][ops[d][i].device] = turn

OkAnswer(l) == \E m \in down[l] : m.ok

Tables == <<paired, removed, unstored>>

\* The next operation asks whether the peer of t is paired.
CheckedFirst(t) ==
  LET op == ops[t[1]][1] IN
  /\ 1 \in 1..Len(ops[t[1]])
  /\ op.kind = "Check" /\ op.task = t /\ op.device = rx[t].peer

TaskView(t) ==
  \/ rx'[t] = rx[t]
  \/ /\ rx[t].at = "idle" /\ rx'[t].at = "check" /\ rx'[t].turn = rx[t].turn + 1
     /\ <<rx'[t].peer, t[1]>> \in Links
  \/ Goes(t, "check", "ask")
  \/ Goes(t, "check", "accept") /\ rx[t].peer \in paired[t[1]] /\ UNCHANGED Tables
  \/ Goes(t, "ask", "wait")
  \/ Goes(t, "wait", "refuse")
  \/ Goes(t, "wait", "add") /\ t = Server(t[1]) /\ ApprovalAt(t[1], rx[t].turn)
  \/ Goes(t, "add", "adding")
  \/ /\ Goes(t, "adding", "accept")
     /\ rx[t].peer \in paired'[t[1]] \/ <<t[1], rx[t].peer>> \in unstored'
  \/ rx[t].at = "idle" /\ rx'[t].at = "clip" /\ rx'[t].turn = rx[t].turn
  \/ Goes(t, "clip", "write") /\ rx[t].peer \in paired[t[1]] /\ CheckedFirst(t)
  \/ /\ rx[t].at \in {"accept", "refuse", "noting", "clip", "write"} /\ rx'[t].at = "idle"
     /\ rx'[t].turn = rx[t].turn
  \/ /\ t \in Links /\ OkAnswer(t) /\ rx[t].at = "idle" /\ rx'[t].at = "noting"
     /\ rx'[t].peer = t[2]

\* A task that another task's step leaves alone.
LEMMA OthersStay ==
  ASSUME NEW u \in Tasks, NEW r, Moves(u, r), NEW t \in Tasks, u = t => TaskView(t)
  PROVE  TaskView(t)
BY DEF Moves, TaskView

\* What the steps of clipboard messages do to a task, ...
LEMMA ClipView ==
  ASSUME TypeOK, NEW u \in Tasks, NEW e \in Devices, CheckClip(u, e) \/ WriteClip(u),
         NEW t \in Tasks
  PROVE  TaskView(t)
<1>1. CASE CheckClip(u, e)
  <2> DEFINE r == ClipTaken(u, e)
  <2>1. Moves(u, r)
    <3>1. rx \in [Tasks -> States] BY DEF TypeOK, States
    <3>2. rx' = [rx EXCEPT ![u] = r] BY <1>1, ClipState
    <3> HIDE DEF r
    <3> QED BY <3>1, <3>2 DEF Moves
  <2>2. rx[u].at = "idle" /\ r.at = "clip" /\ r.turn = rx[u].turn
    BY <1>1 DEF CheckClip, ClipTaken
  <2> HIDE DEF r
  <2>3. u = t => TaskView(t) BY <2>1, <2>2 DEF TaskView, Moves
  <2> QED BY <2>1, <2>3, OthersStay
<1>2. CASE WriteClip(u)
  <2>1. Moves(u, [at |-> "idle", peer |-> None, turn |-> rx[u].turn])
    BY <1>2, FinishMoves DEF WriteClip
  <2>2. u = t => TaskView(t)
    BY <1>2, <2>1 DEF WriteClip, TaskView, Moves
  <2> QED BY <2>1, <2>2, OthersStay
<1> QED BY <1>1, <1>2

\* ... what the server's steps do, ...
LEMMA ServerTaskView ==
  ASSUME TypeOK, NEW d \in Devices, ServerTask(d) \/ TimeOut(d), NEW t \in Tasks
  PROVE  TaskView(t)
<1> DEFINE u == Server(d)
<1>1. u \in Tasks BY ServerTasks
<1>2. ASSUME NEW l \in Links, l[2] = d, TakeRequest(l) PROVE TaskView(t)
  <2>1. Moves(u, [at |-> "check", peer |-> l[1], turn |-> rx[u].turn + 1])
    BY <1>1, <1>2 DEF TakeRequest, Moves, TypeOK
  <2>2. u[1] = d /\ <<l[1], d>> \in Links
    BY <1>2, ServerTasks, LinksAssumption
  <2>3. u = t => TaskView(t)
    BY <1>2, <2>1, <2>2 DEF TakeRequest, TaskView, Moves
  <2> QED BY <1>1, <2>1, <2>3, OthersStay
<1>3. CASE Ask(d)
  <2>1. Moves(u, [at |-> "wait", peer |-> rx[u].peer, turn |-> rx[u].turn])
    BY <1>1, <1>3, BecomeMoves DEF Ask
  <2>2. u = t => TaskView(t)
    BY <1>3, <2>1 DEF Ask, TaskView, Goes, Moves
  <2> QED BY <1>1, <2>1, <2>2, OthersStay
<1>4. CASE StartAdd(d)
  <2>1. Moves(u, [at |-> "adding", peer |-> rx[u].peer, turn |-> rx[u].turn])
    BY <1>1, <1>4, BecomeMoves DEF StartAdd
  <2>2. u = t => TaskView(t)
    BY <1>4, <2>1 DEF StartAdd, TaskView, Goes, Moves
  <2> QED BY <1>1, <2>1, <2>2, OthersStay
<1>5. CASE Respond(d)
  <2>1. Moves(u, [at |-> "idle", peer |-> None, turn |-> rx[u].turn])
    BY <1>1, <1>5, FinishMoves DEF Respond
  <2>2. u = t => TaskView(t)
    BY <1>5, <2>1 DEF Respond, TaskView, Moves
  <2> QED BY <1>1, <2>1, <2>2, OthersStay
<1>6. CASE TimeOut(d)
  <2>1. Moves(u, [at |-> "refuse", peer |-> rx[u].peer, turn |-> rx[u].turn])
    BY <1>1, <1>6, BecomeMoves DEF TimeOut
  <2>2. u = t => TaskView(t)
    BY <1>6, <2>1 DEF TimeOut, TaskView, Goes, Moves
  <2> QED BY <1>1, <2>1, <2>2, OthersStay
<1>7. ASSUME NEW l \in Links, l[2] = d, TakeClip(l) PROVE TaskView(t)
  BY <1>1, <1>7, LinkTasks, ClipView DEF TakeClip
<1>8. CASE WriteClip(u)
  BY <1>1, <1>8, ClipView
<1> QED BY <1>2, <1>3, <1>4, <1>5, <1>6, <1>7, <1>8 DEF ServerTask

\* ... what those of the clients do ...
LEMMA ClientTaskView ==
  ASSUME TypeOK, NEW l \in Links, ClientTask(l), NEW t \in Tasks
  PROVE  TaskView(t)
<1>1. ASSUME NEW m \in down[l], TakeAnswer(l, m), m.ok PROVE TaskView(t)
  <2>1. l \in Tasks /\ rx \in [Tasks -> States]
    BY LinkTasks DEF TypeOK, States
  <2>2. /\ rx'[l].at = "noting" /\ rx'[l].peer = l[2]
        /\ \A s \in Tasks : s # l => rx'[s] = rx[s]
    BY <1>1, <2>1 DEF TakeAnswer, States
  <2> QED BY <1>1, <2>2 DEF TaskView, OkAnswer, TakeAnswer
<1>2. ASSUME NEW m \in down[l], TakeAnswer(l, m), ~m.ok PROVE TaskView(t)
  BY <1>2 DEF TakeAnswer, TaskView
<1>3. CASE TakeServerClip(l)
  BY <1>3, LinkTasks, ClipView DEF TakeServerClip
<1>4. CASE WriteClip(l)
  BY <1>4, LinkTasks, ClipView
<1> QED BY <1>1, <1>2, <1>3, <1>4 DEF ClientTask

\* ... and what the replies of the storage thread do.
LEMMA StorageView ==
  ASSUME TypeOK, Awaited, NEW d \in Devices, Storage(d), NEW t \in Tasks
  PROVE  TaskView(t)
<1> DEFINE op == Head(ops[d])
<1>1. ASSUME UNCHANGED rx PROVE TaskView(t)
  BY <1>1 DEF TaskView
<1>2. CASE HandleCheck(d) \/ CheckFails(d)
  <2> DEFINE u == op.task
  <2>1. op = ops[d][1] /\ 1 \in 1..Len(ops[d]) /\ op.kind = "Check"
    BY <1>2, TakeView DEF HandleCheck, CheckFails
  <2>2. u \in Tasks /\ u[1] = d /\ rx[u].at \in {"check", "clip"} /\ rx[u].peer = op.device
    BY <2>1 DEF Awaited, IsAwaited, AwaitedAt
  <2>3. PICK yes \in BOOLEAN : Checked(u, yes) /\ (yes => op.device \in paired[d])
    <3>1. Checked(u, FALSE) \/ Checked(u, op.device \in paired[d])
      BY <1>2 DEF HandleCheck, CheckFails
    <3>2. (op.device \in paired[d]) \in BOOLEAN
      OBVIOUS
    <3> HIDE DEF u, op
    <3> QED BY <3>1, <3>2, Zenon
  <2>4. UNCHANGED Tables
    BY <1>2 DEF HandleCheck, CheckFails, Tables, ghosts, consent, clipLog
  <2>5. ASSUME NEW place, Become(u, place)
        PROVE  Moves(u, [at |-> place, peer |-> rx[u].peer, turn |-> rx[u].turn])
    <3> HIDE DEF u
    <3> QED BY <2>2, <2>5, BecomeMoves
  <2>6. Finish(u) => Moves(u, [at |-> "idle", peer |-> None, turn |-> rx[u].turn])
    <3> HIDE DEF u
    <3> QED BY <2>2, FinishMoves
  <2>7. PICK r : Moves(u, r)
        /\ \/ /\ rx[u].at = "check" /\ yes
              /\ r = [at |-> "accept", peer |-> rx[u].peer, turn |-> rx[u].turn]
           \/ rx[u].at = "check" /\ r = [at |-> "ask", peer |-> rx[u].peer, turn |-> rx[u].turn]
           \/ /\ rx[u].at = "clip" /\ yes
              /\ r = [at |-> "write", peer |-> rx[u].peer, turn |-> rx[u].turn]
           \/ rx[u].at = "clip" /\ r = [at |-> "idle", peer |-> None, turn |-> rx[u].turn]
    <3> HIDE DEF u, op
    <3> QED BY <2>3, <2>5, <2>6 DEF Checked
  <2>9. CheckedFirst(u)
    BY <2>1, <2>2 DEF CheckedFirst
  <2>8. u = t => TaskView(t)
    <3> HIDE DEF u, op
    <3> QED BY <2>2, <2>3, <2>4, <2>7, <2>9 DEF TaskView, Goes, Moves
  <2> HIDE DEF u, op
  <2> QED BY <2>2, <2>7, <2>8, OthersStay
<1>3. CASE HandleAdd(d) \/ AddFails(d)
  <2> DEFINE u == op.task
  <2>1. op = ops[d][1] /\ 1 \in 1..Len(ops[d]) /\ op.kind = "Add" /\ op.device \in Devices
    BY <1>3, TakeView DEF HandleAdd, AddFails
  <2>2. /\ u \in Tasks /\ u[1] = d /\ rx[u].at \in {"adding", "noting"}
        /\ rx[u].peer = op.device /\ u # None
    BY <2>1, TaskOwner DEF Awaited, IsAwaited, AwaitedAt
  <2>3. op.device \in paired'[d] \/ <<d, op.device>> \in unstored'
    BY <1>3, <2>1 DEF HandleAdd, AddFails, TypeOK
  <2>4. CASE rx[u].at = "adding"
    <3>1. Moves(u, [at |-> "accept", peer |-> rx[u].peer, turn |-> rx[u].turn])
      BY <1>3, <2>2, <2>4, BecomeMoves DEF HandleAdd, AddFails, Added
    <3>2. u = t => TaskView(t)
      <4> HIDE DEF u, op
      <4> QED BY <2>2, <2>3, <2>4, <3>1 DEF TaskView, Goes, Moves
    <3> QED BY <2>2, <3>1, <3>2, OthersStay
  <2>5. CASE rx[u].at = "noting"
    <3>1. Moves(u, [at |-> "idle", peer |-> None, turn |-> rx[u].turn])
      BY <1>3, <2>2, <2>5, FinishMoves DEF HandleAdd, AddFails, Added
    <3>2. u = t => TaskView(t)
      <4> HIDE DEF u, op
      <4> QED BY <2>2, <2>5, <3>1 DEF TaskView, Moves
    <3> QED BY <2>2, <3>1, <3>2, OthersStay
  <2> QED BY <2>2, <2>4, <2>5
<1>4. CASE HandleApprove(d)
  <2> DEFINE u == Server(d)
  <2>1. op = ops[d][1] /\ 1 \in 1..Len(ops[d]) /\ op.kind = "Approve" /\ op.device \in Devices
    BY <1>4, TakeView DEF HandleApprove
  <2>2. u \in Tasks /\ u[1] = d
    BY ServerTasks
  <2>3. ASSUME rx[u].at = "wait", pending[d][op.device] # 0, rx[u].turn = pending[d][op.device],
               Moves(u, [at |-> "add", peer |-> rx[u].peer, turn |-> rx[u].turn])
        PROVE  TaskView(t)
    <3>1. ApprovalAt(d, rx[u].turn)
      BY <2>1, <2>3 DEF ApprovalAt
    <3>2. u = Server(u[1])
      BY <2>2
    <3>3. u = t => TaskView(t)
      <4> HIDE DEF u, op
      <4> QED BY <2>2, <2>3, <3>1, <3>2 DEF TaskView, Goes, Moves
    <3> QED BY <2>2, <2>3, <3>3, OthersStay
  <2> QED BY <1>1, <1>4, <2>3, ReplyMoves DEF HandleApprove
<1>5. CASE HandleReject(d)
  <2> DEFINE u == Server(d)
  <2>1. u \in Tasks
    BY ServerTasks
  <2>2. ASSUME rx[u].at = "wait",
               Moves(u, [at |-> "refuse", peer |-> rx[u].peer, turn |-> rx[u].turn])
        PROVE  TaskView(t)
    <3>1. u = t => TaskView(t)
      BY <2>2 DEF TaskView, Goes, Moves
    <3> QED BY <2>1, <2>2, <3>1, OthersStay
  <2> QED BY <1>1, <1>5, <2>2, ReplyMoves DEF HandleReject
<1>6. CASE HandleRemove(d) \/ RemoveFails(d) \/ HandlePending(d) \/ HandleList(d)
  BY <1>1, <1>6 DEF HandleRemove, RemoveFails, HandlePending, HandleList
<1> QED BY <1>2, <1>3, <1>4, <1>5, <1>6 DEF Storage

\* Every step moves a task in one of the listed ways.
LEMMA TaskSteps ==
  ASSUME TypeOK, Awaited, [Next]_vars, NEW t \in Tasks
  PROVE  TaskView(t)
<1>1. ASSUME UNCHANGED rx PROVE TaskView(t)
  BY <1>1 DEF TaskView
<1>2. ASSUME NEW d \in Devices, Window(d) PROVE TaskView(t)
  BY <1>1, <1>2 DEF Window, Approve, Reject, Load, Remove
<1>3. ASSUME NEW l \in Links, Connect(l) \/ Disconnect(l) PROVE TaskView(t)
  BY <1>1, <1>3 DEF Connect, Disconnect
<1>4. ASSUME NEW d \in Devices, Push(d) PROVE TaskView(t)
  BY <1>1, <1>4 DEF Push
<1> QED BY <1>1, <1>2, <1>3, <1>4, LoadersAssumption, ServerTaskView, ClientTaskView,
           StorageView
    DEF Next, vars

\* Where an operation that is queued comes from.
NewOp(x, op) ==
  \/ op.kind \in {"Check", "Reject", "List"}
  \/ op.kind = "Remove" /\ <<x, op.device>> \in removed'
  \/ op.kind = "Approve" /\ <<x, op.device>> \in approved'
  \/ /\ op.kind = "Pending" /\ Goes(Server(x), "ask", "wait")
     /\ op.device = rx[Server(x)].peer /\ op.turn = rx[Server(x)].turn
  \/ op.kind = "Add" /\ rx[Server(x)].at = "add" /\ op.device = rx[Server(x)].peer
  \/ op.kind = "Add" /\ \E l \in Links : OkAnswer(l) /\ l[1] = x /\ op.device = l[2]

OpView(x, i) ==
  \/ \E k \in 1..Len(ops[x]) : ops'[x][i] = ops[x][k]
  \/ NewOp(x, ops'[x][i])

\* A queued operation is the new one, the others were there before.
LEMMA QueueOpView ==
  ASSUME TypeOK, NEW d \in Devices, NEW op \in Operations, Queue(d, op), NewOp(d, op),
         NEW x \in Devices, NEW i \in 1..Len(ops'[x])
  PROVE  OpView(x, i)
<1>1. \/ i \in 1..Len(ops[x]) /\ ops'[x][i] = ops[x][i]
      \/ x = d /\ ops'[x][i] = op
  BY QueueView
<1>2. CASE i \in 1..Len(ops[x]) /\ ops'[x][i] = ops[x][i]
  BY <1>2 DEF OpView
<1>3. CASE x = d /\ ops'[x][i] = op
  BY <1>3 DEF OpView
<1> QED BY <1>1, <1>2, <1>3

\* Those of a taken channel were there before, ...
LEMMA TakeOpView ==
  ASSUME TypeOK, NEW d \in Devices, NEW kind, Take(d, kind),
         NEW x \in Devices, NEW i \in 1..Len(ops'[x])
  PROVE  OpView(x, i)
<1>1. \A y \in Devices : \A j \in 1..Len(ops'[y]) :
        \/ y = d /\ j + 1 \in 1..Len(ops[d]) /\ ops'[y][j] = ops[d][j + 1]
        \/ y # d /\ j \in 1..Len(ops[y]) /\ ops'[y][j] = ops[y][j]
  BY TakeView
<1>2. CASE x = d
  <2>1. i + 1 \in 1..Len(ops[x]) /\ ops'[x][i] = ops[x][i + 1]
    BY <1>1, <1>2
  <2> QED BY <2>1 DEF OpView
<1>3. CASE x # d
  <2>1. i \in 1..Len(ops[x]) /\ ops'[x][i] = ops[x][i]
    BY <1>1, <1>3
  <2> QED BY <2>1 DEF OpView
<1> QED BY <1>2, <1>3

\* ... as are those of a channel that is left alone ...
LEMMA SameOpView ==
  ASSUME UNCHANGED ops, NEW x \in Devices, NEW i \in 1..Len(ops'[x])
  PROVE  OpView(x, i)
BY DEF OpView

\* ... and a clipboard message adds its check.
LEMMA ClipOpView ==
  ASSUME TypeOK, NEW t \in Tasks, NEW e \in Devices, CheckClip(t, e),
         NEW x \in Devices, NEW i \in 1..Len(ops'[x])
  PROVE  OpView(x, i)
<1> DEFINE op == Op("Check", e, t, 0)
<1>1. op \in Operations /\ op.kind = "Check" BY ClipOp
<1>2. t[1] \in Devices /\ Queue(t[1], op) BY TaskOwner DEF CheckClip
<1> HIDE DEF op
<1> QED BY <1>1, <1>2, QueueOpView DEF NewOp

\* Every operation was there before or is new, and justified.
LEMMA OpSteps ==
  ASSUME TypeOK, Awaited, [Next]_vars, NEW x \in Devices, NEW i \in 1..Len(ops'[x])
  PROVE  OpView(x, i)
<1>1. ASSUME NEW d \in Devices, ServerTask(d) \/ TimeOut(d) PROVE OpView(x, i)
  <2> DEFINE t == Server(d)
  <2>1. t \in Tasks /\ rx[t].turn \in Nat /\ (rx[t].at # "idle" => rx[t].peer \in Devices)
    BY ServerTasks DEF TypeOK, Awaited
  <2>2. ASSUME NEW l \in Links, l[2] = d, TakeRequest(l) PROVE OpView(x, i)
    <3> DEFINE op == Op("Check", l[1], t, rx[t].turn + 1)
    <3>1. op \in Operations
      BY <2>1, LinkTasks DEF Op, Operations, Kinds
    <3>2. op.kind = "Check"
      BY DEF Op
    <3>3. Queue(d, op)
      BY <2>2 DEF TakeRequest
    <3> HIDE DEF op
    <3> QED BY <3>1, <3>2, <3>3, QueueOpView DEF NewOp
  <2>3. CASE Ask(d)
    <3> DEFINE op == Op("Pending", rx[t].peer, t, rx[t].turn)
    <3>1. op \in Operations
      BY <2>1, <2>3 DEF Ask, Op, Operations, Kinds
    <3>2. op.kind = "Pending" /\ op.device = rx[t].peer /\ op.turn = rx[t].turn
      BY DEF Op
    <3>3. Queue(d, op) /\ Goes(t, "ask", "wait")
      BY <2>1, <2>3, BecomeMoves DEF Ask, Goes, Moves
    <3> HIDE DEF op
    <3> QED BY <3>1, <3>2, <3>3, QueueOpView DEF NewOp
  <2>4. CASE StartAdd(d)
    <3> DEFINE op == Op("Add", rx[t].peer, t, 0)
    <3>1. op \in Operations
      BY <2>1, <2>4 DEF StartAdd, Op, Operations, Kinds
    <3>2. op.kind = "Add" /\ op.device = rx[t].peer
      BY DEF Op
    <3>3. Queue(d, op) /\ rx[t].at = "add"
      BY <2>4 DEF StartAdd
    <3> HIDE DEF op
    <3> QED BY <3>1, <3>2, <3>3, QueueOpView DEF NewOp
  <2>5. CASE Respond(d) \/ TimeOut(d) \/ WriteClip(t)
    BY <2>5, SameOpView DEF Respond, TimeOut, WriteClip
  <2>6. ASSUME NEW l \in Links, l[2] = d, TakeClip(l) PROVE OpView(x, i)
    BY <2>1, <2>6, LinkTasks, ClipOpView DEF TakeClip
  <2> QED BY <1>1, <2>2, <2>3, <2>4, <2>5, <2>6 DEF ServerTask
<1>2. ASSUME NEW l \in Links, Connect(l) \/ Disconnect(l) \/ ClientTask(l) PROVE OpView(x, i)
  <2>1. CASE Connect(l) \/ Disconnect(l)
    BY <2>1, SameOpView DEF Connect, Disconnect
  <2>2. ASSUME NEW m \in down[l], TakeAnswer(l, m), m.ok PROVE OpView(x, i)
    <3> DEFINE op == Op("Add", l[2], l, 0)
    <3>1. l[1] \in Devices /\ op \in Operations
      BY LinkTasks DEF Op, Operations, Kinds
    <3>2. op.kind = "Add" /\ op.device = l[2]
      BY DEF Op
    <3>3. Queue(l[1], op) /\ OkAnswer(l)
      BY <2>2 DEF TakeAnswer, OkAnswer
    <3> HIDE DEF op
    <3> QED BY <3>1, <3>2, <3>3, QueueOpView DEF NewOp
  <2>3. ASSUME NEW m \in down[l], TakeAnswer(l, m), ~m.ok PROVE OpView(x, i)
    BY <2>3, SameOpView DEF TakeAnswer
  <2>4. CASE TakeServerClip(l)
    BY <2>4, LinkTasks, ClipOpView DEF TakeServerClip
  <2>5. CASE WriteClip(l)
    BY <2>5, SameOpView DEF WriteClip
  <2> QED BY <1>2, <2>1, <2>2, <2>3, <2>4, <2>5 DEF ClientTask
<1>3. ASSUME NEW d \in Devices, Window(d) PROVE OpView(x, i)
  <2>1. ASSUME NEW e \in Devices \cup {None}, NEW kind \in Kinds
        PROVE  /\ Op(kind, e, None, 0) \in Operations
               /\ Op(kind, e, None, 0).kind = kind /\ Op(kind, e, None, 0).device = e
    BY DEF Op, Operations
  <2>2. prompt[d] \in Devices \cup {None}
    BY DEF TypeOK
  <2>3. {"Approve", "Reject", "List", "Remove"} \subseteq Kinds
    BY DEF Kinds
  <2>4. CASE Approve(d)
    <3> DEFINE op == Op("Approve", prompt[d], None, 0)
    <3>1. op \in Operations /\ op.kind = "Approve" /\ op.device = prompt[d]
      BY <2>1, <2>2, <2>3
    <3>2. Queue(d, op) /\ <<d, prompt[d]>> \in approved'
      BY <2>4 DEF Approve
    <3> HIDE DEF op
    <3> QED BY <3>1, <3>2, QueueOpView DEF NewOp
  <2>5. CASE Reject(d)
    <3> DEFINE op == Op("Reject", prompt[d], None, 0)
    <3>1. op \in Operations /\ op.kind = "Reject"
      BY <2>1, <2>2, <2>3
    <3>2. Queue(d, op)
      BY <2>5 DEF Reject
    <3> HIDE DEF op
    <3> QED BY <3>1, <3>2, QueueOpView DEF NewOp
  <2>6. CASE Load(d)
    <3> DEFINE op == Op("List", None, None, 0)
    <3>1. op \in Operations /\ op.kind = "List"
      BY <2>1, <2>3
    <3>2. Queue(d, op)
      BY <2>6 DEF Load
    <3> HIDE DEF op
    <3> QED BY <3>1, <3>2, QueueOpView DEF NewOp
  <2>7. ASSUME NEW e \in Devices, Remove(d, e) PROVE OpView(x, i)
    <3> DEFINE op == Op("Remove", e, None, 0)
    <3>1. op \in Operations /\ op.kind = "Remove" /\ op.device = e
      BY <2>1, <2>3
    <3>2. Queue(d, op) /\ <<d, e>> \in removed'
      BY <2>7 DEF Remove
    <3> HIDE DEF op
    <3> QED BY <3>1, <3>2, QueueOpView DEF NewOp
  <2> QED BY <1>3, <2>4, <2>5, <2>6, <2>7 DEF Window
<1>4. ASSUME NEW d \in Devices, Storage(d) PROVE OpView(x, i)
  <2>1. \E kind \in Kinds : Take(d, kind)
    BY <1>4
    DEF Storage, HandleCheck, HandleAdd, HandleRemove, HandlePending, HandleApprove,
        HandleReject, HandleList, CheckFails, AddFails, RemoveFails, Kinds
  <2> QED BY <2>1, TakeOpView
<1>5. CASE UNCHANGED vars
  BY <1>5, SameOpView DEF vars
<1>6. ASSUME NEW d \in Devices, Push(d) PROVE OpView(x, i)
  BY <1>6, SameOpView DEF Push
<1> QED BY <1>1, <1>2, <1>3, <1>4, <1>5, <1>6, LoadersAssumption DEF Next

\* An operation of this kind on e waits at d.
Queued(d, kind, e) ==
  \E i \in 1..Len(ops[d]) : ops[d][i].kind = kind /\ ops[d][i].device = e

\* What a step does to the table and to the reply senders of d, ...
TableView(d) ==
  /\ \A e \in paired[d] : e \in paired'[d] \/ Queued(d, "Remove", e)
  /\ \A e \in paired'[d] : e \in paired[d] \/ Queued(d, "Add", e)
  /\ \A e \in Devices :
       \/ pending'[d][e] \in {pending[d][e], 0}
       \/ \E i \in 1..Len(ops[d]) :
            /\ ops[d][i].kind = "Pending" /\ ops[d][i].device = e
            /\ ops[d][i].turn = pending'[d][e]

\* ... to the answers on their way, ...
AnswerView(l) ==
  \A m \in down'[l] :
    \/ m \in down[l]
    \/ LET t == Server(l[2]) IN
         /\ rx[t].at \in {"accept", "refuse"} /\ UNCHANGED Tables
         /\ m.ok = (rx[t].at = "accept") /\ m.for = rx[t].peer

\* ... and to the history variables.
GhostView ==
  /\ approved \subseteq approved' /\ removed \subseteq removed'
  /\ unstored \subseteq unstored'
  /\ \A p \in written' :
       p \in written \/ \E t \in Tasks : rx[t].at = "write" /\ p = <<t[1], rx[t].peer>>
  /\ \A p \in accepted' :
       \/ p \in accepted
       \/ \E t \in Tasks : rx[t].at = "adding" /\ p = <<t[1], rx[t].peer>>

\* What the storage thread does to the tables ...
LEMMA StorageTables ==
  ASSUME TypeOK, Awaited, NEW d \in Devices, Storage(d)
  PROVE  (\A x \in Devices : TableView(x)) /\ GhostView
<1> DEFINE op == Head(ops[d])
<1>0. paired \in [Devices -> SUBSET Devices] /\ pending \in [Devices -> [Devices -> Nat]]
  BY DEF TypeOK
<1>1. ASSUME UNCHANGED <<paired, pending, approved, removed, accepted, written>>,
             unstored \subseteq unstored'
      PROVE  (\A x \in Devices : TableView(x)) /\ GhostView
  BY <1>1 DEF TableView, GhostView
<1>2. CASE HandleAdd(d)
  <2>1. op = ops[d][1] /\ 1 \in 1..Len(ops[d]) /\ op.kind = "Add"
    BY <1>2, TakeView DEF HandleAdd
  <2>2. /\ op.task \in Tasks /\ op.task[1] = d /\ rx[op.task].peer = op.device
        /\ op.task # None
    BY <2>1, TaskOwner DEF Awaited, IsAwaited
  <2>3. Queued(d, "Add", op.device)
    BY <2>1 DEF Queued
  <2>4. paired' = [paired EXCEPT ![d] = paired[d] \cup {op.device}] /\ UNCHANGED pending
    BY <1>2 DEF HandleAdd
  <2>5. \A x \in Devices : TableView(x)
    <3> HIDE DEF op
    <3> QED BY <1>0, <2>3, <2>4 DEF TableView
  <2>6. accepted' = accepted \/
        (rx[op.task].at = "adding" /\ accepted' = accepted \cup {<<d, op.device>>})
    BY <1>2, <2>2 DEF HandleAdd
  <2>7. UNCHANGED <<approved, removed, unstored, written>>
    BY <1>2 DEF HandleAdd, clipLog
  <2>8. GhostView
    <3> HIDE DEF op
    <3> QED BY <2>2, <2>6, <2>7 DEF GhostView
  <2> QED BY <2>5, <2>8
<1>3. CASE HandleRemove(d)
  <2>1. op = ops[d][1] /\ 1 \in 1..Len(ops[d]) /\ op.kind = "Remove"
    BY <1>3, TakeView DEF HandleRemove
  <2>2. Queued(d, "Remove", op.device)
    BY <2>1 DEF Queued
  <2>3. paired' = [paired EXCEPT ![d] = paired[d] \ {op.device}] /\ UNCHANGED pending
    BY <1>3 DEF HandleRemove
  <2>4. \A x \in Devices : TableView(x)
    <3> HIDE DEF op
    <3> QED BY <1>0, <2>2, <2>3 DEF TableView
  <2>5. GhostView
    BY <1>3 DEF HandleRemove, GhostView, ghosts, consent, clipLog
  <2> QED BY <2>4, <2>5
<1>4. CASE HandlePending(d)
  <2>1. /\ op = ops[d][1] /\ 1 \in 1..Len(ops[d]) /\ op.kind = "Pending"
        /\ op.device \in Devices
    BY <1>4, TakeView DEF HandlePending
  <2>2. pending' = [pending EXCEPT ![d] = [pending[d] EXCEPT ![op.device] = op.turn]]
        /\ UNCHANGED paired
    BY <1>4 DEF HandlePending
  <2>3. \A x \in Devices : TableView(x)
    <3>1. \A x \in Devices, e \in Devices :
            \/ pending'[x][e] = pending[x][e]
            \/ x = d /\ e = op.device /\ pending'[x][e] = op.turn
      <4> HIDE DEF op
      <4> QED BY <1>0, <2>1, <2>2
    <3>2. \A x \in Devices, e \in Devices :
            x = d /\ e = op.device /\ pending'[x][e] = op.turn
            => \E i \in 1..Len(ops[x]) :
                 ops[x][i].kind = "Pending" /\ ops[x][i].device = e
                   /\ ops[x][i].turn = pending'[x][e]
      BY <2>1
    <3> HIDE DEF op
    <3> QED BY <2>2, <3>1, <3>2 DEF TableView
  <2>4. GhostView
    BY <1>4 DEF HandlePending, GhostView, ghosts, consent, clipLog
  <2> QED BY <2>3, <2>4
<1>5. ASSUME NEW place, Reply(d, place), 
             UNCHANGED <<paired, approved, removed, accepted, unstored, written>>
      PROVE  (\A x \in Devices : TableView(x)) /\ GhostView
  <2>1. pending' = [pending EXCEPT ![d] = [pending[d] EXCEPT ![op.device] = 0]]
    BY <1>5 DEF Reply
  <2>2. \A x \in Devices, e \in Devices : pending'[x][e] \in {pending[x][e], 0}
    <3> HIDE DEF op
    <3> QED BY <1>0, <2>1
  <2> QED BY <1>5, <2>2 DEF TableView, GhostView
<1>6. CASE HandleApprove(d)
  BY <1>5, <1>6 DEF HandleApprove, ghosts, consent, clipLog
<1>7. CASE HandleReject(d)
  BY <1>5, <1>7 DEF HandleReject, clipLog
<1>8. CASE HandleCheck(d) \/ CheckFails(d) \/ AddFails(d) \/ RemoveFails(d) \/ HandleList(d)
  <2>1. /\ UNCHANGED <<paired, pending, approved, removed, accepted, written>>
        /\ unstored \subseteq unstored'
    BY <1>8 DEF HandleCheck, CheckFails, AddFails, RemoveFails, HandleList, ghosts, consent,
                clipLog
  <2> QED BY <1>1, <2>1
<1> QED BY <1>2, <1>3, <1>4, <1>6, <1>7, <1>8 DEF Storage

\* ... is all that any step does to them.
LEMMA TableSteps ==
  ASSUME TypeOK, Awaited, [Next]_vars
  PROVE  (\A d \in Devices : TableView(d)) /\ GhostView
<1>1. ASSUME UNCHANGED <<paired, pending, accepted, unstored>>,
             approved \subseteq approved', removed \subseteq removed',
             \/ written' = written
             \/ \E t \in Tasks : rx[t].at = "write"
                               /\ written' = written \cup {<<t[1], rx[t].peer>>}
      PROVE  (\A d \in Devices : TableView(d)) /\ GhostView
  BY <1>1 DEF TableView, GhostView
<1>2. ASSUME NEW d \in Devices, ServerTask(d) \/ TimeOut(d)
      PROVE  (\A x \in Devices : TableView(x)) /\ GhostView
  BY <1>1, <1>2, ServerTasks
  DEF ServerTask, TimeOut, TakeRequest, TakeClip, WriteClip, Ask, StartAdd, Respond, ghosts,
      consent, clipLog
<1>3. ASSUME NEW l \in Links, Connect(l) \/ Disconnect(l) \/ ClientTask(l)
      PROVE  (\A x \in Devices : TableView(x)) /\ GhostView
  BY <1>1, <1>3, LinkTasks
  DEF Connect, Disconnect, ClientTask, TakeAnswer, TakeServerClip, WriteClip, ghosts, consent,
      clipLog
<1>4. ASSUME NEW d \in Devices, Window(d)
      PROVE  (\A x \in Devices : TableView(x)) /\ GhostView
  BY <1>1, <1>4 DEF Window, Approve, Reject, Load, Remove, ghosts, consent, clipLog
<1>5. CASE UNCHANGED vars
  BY <1>1, <1>5 DEF vars, ghosts, consent, clipLog
<1>6. ASSUME NEW d \in Devices, Push(d)
      PROVE  (\A x \in Devices : TableView(x)) /\ GhostView
  BY <1>1, <1>6 DEF Push, ghosts, consent, clipLog
<1> QED BY <1>2, <1>3, <1>4, <1>5, <1>6, LoadersAssumption, StorageTables DEF Next

\* Every answer was there before or is the server's present one.
LEMMA AnswerSteps ==
  ASSUME TypeOK, [Next]_vars, NEW l \in Links
  PROVE  AnswerView(l)
<1>1. ASSUME UNCHANGED down PROVE AnswerView(l)
  BY <1>1 DEF AnswerView
<1>2. ASSUME NEW d \in Devices, Respond(d) PROVE AnswerView(l)
  <2> DEFINE answer == [ok |-> rx[Server(d)].at = "accept", for |-> rx[Server(d)].peer,
                        n |-> rx[Server(d)].turn]
  <2>1. down' = [k \in Links |->
                   IF k = <<serving[d], d>> THEN down[k] \cup {answer} ELSE down[k]]
    BY <1>2 DEF Respond
  <2>2. \A m \in down'[l] : m \in down[l] \/ (l[2] = d /\ m = answer)
    <3> HIDE DEF answer
    <3> QED BY <2>1
  <2>3. rx[Server(d)].at \in {"accept", "refuse"} /\ UNCHANGED Tables
    BY <1>2 DEF Respond, Tables, ghosts, consent, clipLog
  <2>4. answer.ok = (rx[Server(d)].at = "accept") /\ answer.for = rx[Server(d)].peer
    OBVIOUS
  <2> HIDE DEF answer
  <2> QED BY <2>2, <2>3, <2>4 DEF AnswerView
<1>3. ASSUME NEW k \in Links, NEW m \in down[k], TakeAnswer(k, m) PROVE AnswerView(l)
  <2>1. down' = [down EXCEPT ![k] = @ \ {m}]
    BY <1>3 DEF TakeAnswer
  <2> QED BY <2>1 DEF AnswerView, TypeOK
<1>4. ASSUME NEW d \in Devices,
             \/ \E k \in Links : TakeRequest(k) \/ TakeClip(k) \/ TakeServerClip(k)
             \/ \E t \in Tasks : WriteClip(t)
             \/ Push(d) \/ Ask(d) \/ StartAdd(d) \/ TimeOut(d) \/ Window(d) \/ Storage(d)
      PROVE  UNCHANGED down
  BY <1>4
  DEF TakeRequest, TakeClip, TakeServerClip, WriteClip, Push, Ask, StartAdd, TimeOut, net,
      Window, Approve, Reject, Load, Remove, Storage, HandleCheck, HandleAdd, HandleRemove,
      CheckFails, AddFails, RemoveFails, HandlePending, HandleApprove, HandleReject, HandleList
<1>5. CASE UNCHANGED vars
  BY <1>1, <1>5 DEF vars, net
<1>6. ASSUME NEW k \in Links, Connect(k) PROVE UNCHANGED down
  BY <1>6 DEF Connect
<1>8. ASSUME NEW k \in Links, Disconnect(k) PROVE AnswerView(l)
  <2>1. PICK arrived \in SUBSET down[k] : down' = [down EXCEPT ![k] = arrived]
    BY <1>8 DEF Disconnect
  <2> QED BY <2>1 DEF AnswerView, TypeOK
<1>7. ASSUME NEW k \in Links, ClientTask(k) PROVE AnswerView(l)
  BY <1>1, <1>3, <1>4, <1>7, LinkTasks DEF ClientTask
<1> QED BY <1>1, <1>2, <1>4, <1>5, <1>6, <1>7, <1>8, LoadersAssumption, ServerTasks
    DEF Next, ServerTask

-----------------------------------------------------------------------------
(* The inductive invariant *)

\* OfTurn after the step, for the turn and the device named before it.
OfTurnNext(t, n, e) ==
  /\ n <= rx'[t].turn
  /\ n = rx'[t].turn /\ n # 0 /\ rx'[t].at \notin Apart => rx'[t].peer = e

\* A reply sender that was for the peer of the current turn, if for any, still is.
LEMMA OfTurnKept ==
  ASSUME TypeOK, NEW d \in Devices, TaskView(Server(d)), NEW n \in Nat, NEW e,
         OfTurn(Server(d), n, e)
  PROVE  OfTurnNext(Server(d), n, e)
<1> DEFINE t == Server(d)
<1>1. t \notin Links /\ rx[t].turn \in Nat
  BY ServerTasks DEF TypeOK
<1>2. n <= rx[t].turn /\ (n = rx[t].turn /\ n # 0 /\ rx[t].at \notin Apart => rx[t].peer = e)
  BY DEF OfTurn
<1>3. TaskView(t)
  OBVIOUS
<1> HIDE DEF t
<1>4. \/ rx'[t] = rx[t]
      \/ rx'[t].turn = rx[t].turn + 1
      \/ /\ rx[t].at \notin Apart
         /\ rx'[t].peer = rx[t].peer /\ rx'[t].turn = rx[t].turn
      \/ rx'[t].at \in Apart /\ rx'[t].turn = rx[t].turn
  BY <1>1, <1>3 DEF TaskView, Goes, Apart
<1>5. OfTurnNext(t, n, e)
  BY <1>1, <1>2, <1>4 DEF OfTurnNext
<1> QED BY <1>5 DEF t

\* Every step keeps CurrentTurn, ...
LEMMA CurrentTurnStep ==
  ASSUME TypeOK, TypeOK', Awaited, CurrentTurn, [Next]_vars
  PROVE  CurrentTurn'
<1>1. ASSUME NEW d \in Devices, NEW n \in Nat, NEW e, OfTurn(Server(d), n, e)
      PROVE  OfTurnNext(Server(d), n, e)
  BY <1>1, TaskSteps, ServerTasks, OfTurnKept
<1>2. ASSUME NEW d \in Devices, NEW i \in 1..Len(ops[d]), ops[d][i].kind = "Pending"
      PROVE  OfTurnNext(Server(d), ops[d][i].turn, ops[d][i].device)
  <2>1. ops[d][i].turn \in Nat
    <3>1. ops \in [Devices -> Seq(Operations)]
      BY DEF TypeOK, Operations
    <3>2. ops[d][i] \in Operations
      <4> HIDE DEF Operations
      <4> QED BY <3>1
    <3> QED BY <3>2 DEF Operations
  <2>2. OfTurn(Server(d), ops[d][i].turn, ops[d][i].device)
    BY <1>2 DEF CurrentTurn
  <2> QED BY <1>1, <2>1, <2>2
<1>3. ASSUME NEW d \in Devices, NEW e \in Devices
      PROVE  OfTurnNext(Server(d), pending'[d][e], e)
  <2>1. CASE pending'[d][e] = pending[d][e]
    <3>1. OfTurn(Server(d), pending[d][e], e) /\ pending[d][e] \in Nat
      BY DEF CurrentTurn, TypeOK
    <3> QED BY <1>1, <2>1, <3>1
  <2>2. CASE pending'[d][e] = 0
    <3>1. rx'[Server(d)].turn \in Nat
      BY ServerTasks DEF TypeOK
    <3> QED BY <2>2, <3>1 DEF OfTurnNext
  <2>3. ASSUME NEW i \in 1..Len(ops[d]), ops[d][i].kind = "Pending", ops[d][i].device = e,
               ops[d][i].turn = pending'[d][e]
        PROVE  OfTurnNext(Server(d), pending'[d][e], e)
    <3>1. OfTurnNext(Server(d), ops[d][i].turn, ops[d][i].device)
      BY <1>2, <2>3
    <3> QED BY <2>3, <3>1
  <2> QED BY <2>1, <2>2, <2>3, TableSteps DEF TableView
<1>4. ASSUME NEW d \in Devices, NEW i \in 1..Len(ops'[d]), ops'[d][i].kind = "Pending"
      PROVE  OfTurnNext(Server(d), ops'[d][i].turn, ops'[d][i].device)
  <2>1. CASE \E k \in 1..Len(ops[d]) : ops'[d][i] = ops[d][k]
    <3>1. PICK k \in 1..Len(ops[d]) : ops'[d][i] = ops[d][k]
      BY <2>1
    <3>2. OfTurnNext(Server(d), ops[d][k].turn, ops[d][k].device)
      BY <1>2, <1>4, <3>1
    <3> QED BY <3>1, <3>2
  <2>2. CASE NewOp(d, ops'[d][i])
    <3>1. /\ Goes(Server(d), "ask", "wait")
          /\ ops'[d][i].device = rx[Server(d)].peer
          /\ ops'[d][i].turn = rx[Server(d)].turn
      BY <1>4, <2>2 DEF NewOp
    <3>2. rx[Server(d)].turn \in Nat
      BY ServerTasks DEF TypeOK
    <3> QED BY <3>1, <3>2 DEF Goes, OfTurnNext
  <2> QED BY <2>1, <2>2, OpSteps DEF OpView
<1> QED BY <1>3, <1>4 DEF CurrentTurn, OfTurn, OfTurnNext, Server

\* ... Approvals, ...
LEMMA ApprovalsStep ==
  ASSUME TypeOK, Awaited, CurrentTurn, Approvals, [Next]_vars
  PROVE  Approvals'
<1>0. GhostView
  BY TableSteps
<1>1. accepted' \subseteq approved'
  BY <1>0 DEF GhostView, Approvals, AddedWithApproval
<1>2. ASSUME NEW t \in Tasks, rx'[t].at \in {"add", "adding"}
      PROVE  <<t[1], rx'[t].peer>> \in approved'
  <2>1. TaskView(t)
    BY TaskSteps
  <2>2. CASE rx[t].at \in {"add", "adding"} /\ rx'[t].peer = rx[t].peer
    BY <1>0, <2>2 DEF GhostView, Approvals
  <2>3. CASE /\ Goes(t, "wait", "add") /\ t = Server(t[1])
             /\ ApprovalAt(t[1], rx[t].turn)
    <3>1. t[1] \in Devices
      BY TaskOwner
    <3>2. PICK i \in 1..Len(ops[t[1]]) :
            /\ ops[t[1]][i].kind = "Approve" /\ rx[t].turn # 0
            /\ ops[t[1]][i].device \in Devices
            /\ pending[t[1]][ops[t[1]][i].device] = rx[t].turn
      BY <2>3 DEF ApprovalAt
    <3>3. <<t[1], ops[t[1]][i].device>> \in approved
      BY <3>1, <3>2 DEF Approvals
    <3>4. OfTurn(t, rx[t].turn, ops[t[1]][i].device)
      BY <2>3, <3>1, <3>2 DEF CurrentTurn
    <3>5. rx[t].peer = ops[t[1]][i].device
      BY <2>3, <3>2, <3>4 DEF OfTurn, Goes, Apart
    <3> QED BY <1>0, <2>3, <3>3, <3>5 DEF GhostView, Goes
  <2> QED BY <1>2, <2>1, <2>2, <2>3 DEF TaskView, Goes
<1>3. ASSUME NEW d \in Devices, NEW i \in 1..Len(ops'[d]), ops'[d][i].kind = "Approve"
      PROVE  <<d, ops'[d][i].device>> \in approved'
  <2>1. OpView(d, i)
    BY OpSteps
  <2>2. CASE \E k \in 1..Len(ops[d]) : ops'[d][i] = ops[d][k]
    BY <1>0, <1>3, <2>2 DEF GhostView, Approvals
  <2>3. CASE NewOp(d, ops'[d][i])
    BY <1>3, <2>3 DEF NewOp
  <2> QED BY <2>1, <2>2, <2>3 DEF OpView
<1> QED BY <1>1, <1>2, <1>3 DEF Approvals, AddedWithApproval

\* What is in the table, or has been removed by the user, is so after the step.
LEMMA StoredKept ==
  ASSUME TypeOK, Awaited, Told, [Next]_vars, NEW d \in Devices, NEW e,
         e \in paired[d] \/ Excused(d, e)
  PROVE  e \in paired'[d] \/ <<d, e>> \in removed' \cup unstored'
<1>1. TableView(d) /\ removed \subseteq removed' /\ unstored \subseteq unstored'
  BY TableSteps DEF GhostView
<1>2. Queued(d, "Remove", e) => <<d, e>> \in removed
  BY DEF Queued, Told
<1> QED BY <1>1, <1>2 DEF TableView, Excused

\* ... Told ...
LEMMA ToldStep ==
  ASSUME TypeOK, Awaited, Told, [Next]_vars
  PROVE  Told'
<1>1. ASSUME NEW l \in Links, NEW m \in down'[l], m.ok
      PROVE  m.for \in paired'[l[2]] \/ <<l[2], m.for>> \in removed' \cup unstored'
  <2>1. l[2] \in Devices
    BY LinkTasks
  <2>2. CASE m \in down[l]
    <3>1. m.for \in paired[l[2]] \/ Excused(l[2], m.for)
      BY <1>1, <2>2 DEF Told, StoredBeforeTold
    <3> QED BY <2>1, <3>1, StoredKept
  <2>3. CASE LET t == Server(l[2]) IN
               /\ rx[t].at \in {"accept", "refuse"} /\ UNCHANGED Tables
               /\ m.ok = (rx[t].at = "accept") /\ m.for = rx[t].peer
    <3>1. Server(l[2]) \in Tasks /\ Server(l[2])[1] = l[2]
      BY <2>1, ServerTasks
    <3>2. rx[Server(l[2])].at = "accept"
      BY <1>1, <2>3
    <3>3. m.for \in paired[l[2]] \/ Excused(l[2], m.for)
      BY <2>3, <3>1, <3>2 DEF Told
    <3> QED BY <2>1, <3>3, StoredKept
  <2> QED BY <2>2, <2>3, AnswerSteps DEF AnswerView
<1>2. ASSUME NEW t \in Tasks, rx'[t].at = "accept"
      PROVE  rx'[t].peer \in paired'[t[1]] \/ <<t[1], rx'[t].peer>> \in removed' \cup unstored'
  <2>1. t[1] \in Devices
    BY TaskOwner
  <2>2. TaskView(t)
    BY TaskSteps
  <2>3. CASE rx'[t] = rx[t]
    <3>1. rx[t].peer \in paired[t[1]] \/ Excused(t[1], rx[t].peer)
      BY <1>2, <2>3 DEF Told
    <3>2. rx[t].peer \in paired'[t[1]] \/ <<t[1], rx[t].peer>> \in removed' \cup unstored'
      BY <2>1, <3>1, StoredKept
    <3> QED BY <2>3, <3>2
  <2>4. CASE /\ Goes(t, "check", "accept") /\ rx[t].peer \in paired[t[1]]
             /\ UNCHANGED Tables
    BY <2>4 DEF Goes, Tables
  <2>5. CASE /\ Goes(t, "adding", "accept")
             /\ rx[t].peer \in paired'[t[1]] \/ <<t[1], rx[t].peer>> \in unstored'
    BY <2>5 DEF Goes
  <2> QED BY <1>2, <2>2, <2>3, <2>4, <2>5 DEF TaskView, Goes
<1>3. ASSUME NEW d \in Devices, NEW i \in 1..Len(ops'[d]), ops'[d][i].kind = "Remove"
      PROVE  <<d, ops'[d][i].device>> \in removed'
  <2>1. OpView(d, i)
    BY OpSteps
  <2>2. CASE \E k \in 1..Len(ops[d]) : ops'[d][i] = ops[d][k]
    <3>1. PICK k \in 1..Len(ops[d]) : ops'[d][i] = ops[d][k]
      BY <2>2
    <3>2. <<d, ops[d][k].device>> \in removed
      BY <1>3, <3>1 DEF Told
    <3>3. removed \subseteq removed'
      BY TableSteps DEF GhostView
    <3> QED BY <3>1, <3>2, <3>3
  <2>3. CASE NewOp(d, ops'[d][i])
    BY <1>3, <2>3 DEF NewOp
  <2> QED BY <2>1, <2>2, <2>3 DEF OpView
<1> QED BY <1>1, <1>2, <1>3 DEF Told, StoredBeforeTold, Excused

\* ... and Untouched.
LEMMA UntouchedStep ==
  ASSUME TypeOK, Awaited, Untouched, [Next]_vars
  PROVE  Untouched'
<1> SUFFICES ASSUME approved' = {} PROVE Untouched'
  BY DEF Untouched
<1>1. /\ approved = {} /\ written = {}
      /\ \A d \in Devices : paired[d] = {}
      /\ \A t \in Tasks : rx[t].at \notin {"add", "adding", "accept", "noting", "write"}
      /\ \A l \in Links : \A m \in down[l] : ~m.ok
      /\ \A d \in Devices : \A i \in 1..Len(ops[d]) :
           ops[d][i].kind \notin {"Add", "Approve"}
  <2>1. approved = {}
    BY TableSteps DEF GhostView
  <2> QED BY <2>1 DEF Untouched, NothingWithoutApproval
<1>2. ASSUME NEW d \in Devices PROVE paired'[d] = {}
  <2>1. TableView(d)
    BY TableSteps
  <2>2. ASSUME NEW e \in paired'[d] PROVE FALSE
    BY <1>1, <2>1 DEF TableView, Queued
  <2> QED BY <2>2
<1>3. ASSUME NEW t \in Tasks
      PROVE  rx'[t].at \notin {"add", "adding", "accept", "noting", "write"}
  <2>1. TaskView(t) /\ t[1] \in Devices
    BY TaskSteps, TaskOwner
  <2>2. ~ApprovalAt(t[1], rx[t].turn) /\ rx[t].peer \notin paired[t[1]]
    BY <1>1, <2>1 DEF ApprovalAt
  <2>3. t \in Links => ~OkAnswer(t)
    BY <1>1 DEF OkAnswer
  <2> QED BY <1>1, <2>1, <2>2, <2>3 DEF TaskView, Goes
<1>4. ASSUME NEW l \in Links, NEW m \in down'[l] PROVE ~m.ok
  <2>1. Server(l[2]) \in Tasks
    BY LinkTasks, ServerTasks
  <2> QED BY <1>1, <2>1, AnswerSteps DEF AnswerView
<1>5. ASSUME NEW d \in Devices, NEW i \in 1..Len(ops'[d])
      PROVE  ops'[d][i].kind \notin {"Add", "Approve"}
  <2>1. OpView(d, i) /\ Server(d) \in Tasks
    BY OpSteps, ServerTasks
  <2>2. CASE \E k \in 1..Len(ops[d]) : ops'[d][i] = ops[d][k]
    BY <1>1, <2>2
  <2>3. CASE NewOp(d, ops'[d][i])
    BY <1>1, <2>1, <2>3 DEF NewOp, OkAnswer
  <2> QED BY <2>1, <2>2, <2>3 DEF OpView
<1>6. written' = {}
  BY <1>1, TableSteps DEF GhostView
<1> QED BY <1>2, <1>3, <1>4, <1>5, <1>6 DEF Untouched, NothingWithoutApproval

-----------------------------------------------------------------------------
(* Removed devices *)

\* What a step does to the operations of d, to its table and to the devices its user
\* has removed: nothing, ...
KeepsOps(d) ==
  /\ ops'[d] = ops[d] /\ paired'[d] = paired[d]
  /\ \A e \in Devices : <<d, e>> \in barred' => <<d, e>> \in barred

\* ... one more, ...
AddsOp(d, op) ==
  /\ ops'[d] = Append(ops[d], op) /\ paired'[d] = paired[d]
  /\ \A e \in Devices :
       <<d, e>> \in barred' => \/ IsOp(op, "Remove", e)
                               \/ <<d, e>> \in barred /\ ~IsOp(op, "Add", e)
  /\ op.kind = "Check" /\ op.task \in late' /\ rx'[op.task].at = "clip"
       => <<d, op.device>> \in barred

\* ... or the first one done.
DoesOp(d) ==
  /\ ops[d] # <<>> /\ ops'[d] = Tail(ops[d])
  /\ \A e \in Devices :
       /\ e \in paired'[d] => e \in paired[d] \/ IsOp(ops[d][1], "Add", e)
       /\ <<d, e>> \in barred' => <<d, e>> \in barred
       /\ IsOp(ops[d][1], "Remove", e) =>
            \/ e \notin paired'[d]
            \/ /\ <<d, e>> \notin barred'
               /\ \A t \in late' : t[1] = d => rx[t].peer # e

BarView(d) == KeepsOps(d) \/ (\E op \in Operations : AddsOp(d, op)) \/ DoesOp(d)

\* A step that queues an operation other than an insertion or a removal.
LEMMA QueueBars ==
  ASSUME TypeOK, NEW x \in Devices, NEW op \in Operations, Queue(x, op), UNCHANGED paired,
         \A d, e \in Devices :
           <<d, e>> \in barred' => \/ d = x /\ IsOp(op, "Remove", e)
                                   \/ /\ <<d, e>> \in barred
                                      /\ d = x => ~IsOp(op, "Add", e),
         op.kind = "Check" /\ op.task \in late' /\ rx'[op.task].at = "clip"
           => <<x, op.device>> \in barred,
         NEW d \in Devices
  PROVE  BarView(d)
<1>1. ops \in [Devices -> Seq(Operations)] BY DEF TypeOK, Operations
<1>2. CASE d = x
  <2>1. ops'[d] = Append(ops[d], op) BY <1>1, <1>2 DEF Queue
  <2> HIDE DEF Operations
  <2>2. \A e \in Devices :
          <<d, e>> \in barred' => \/ IsOp(op, "Remove", e)
                                  \/ <<d, e>> \in barred /\ ~IsOp(op, "Add", e)
    BY <1>2
  <2>3. op.kind = "Check" /\ op.task \in late' /\ rx'[op.task].at = "clip"
          => <<d, op.device>> \in barred
    BY <1>2
  <2>4. paired'[d] = paired[d] OBVIOUS
  <2>5. AddsOp(d, op) BY <2>1, <2>2, <2>3, <2>4 DEF AddsOp
  <2> QED BY <2>5 DEF BarView
<1>3. CASE d # x
  <2>1. ops'[d] = ops[d] BY <1>1, <1>3 DEF Queue
  <2>2. KeepsOps(d) BY <1>3, <2>1 DEF KeepsOps
  <2> QED BY <2>2 DEF BarView
<1> QED BY <1>2, <1>3

\* What a clipboard message does to a channel and to whom the user has removed, ...
LEMMA ClipBars ==
  ASSUME TypeOK, NEW t \in Tasks, NEW e \in Devices, CheckClip(t, e),
         UNCHANGED <<paired, barred>>, NEW d \in Devices
  PROVE  BarView(d)
<1> DEFINE op == Op("Check", e, t, 0)
<1>1. op \in Operations /\ op.kind = "Check" /\ op.device = e /\ op.task = t
  BY ClipOp
<1>2. t[1] \in Devices /\ Queue(t[1], op) BY TaskOwner DEF CheckClip
<1>3. t \in late' => <<t[1], e>> \in barred BY DEF CheckClip
<1> HIDE DEF op
<1> QED BY <1>1, <1>2, <1>3, QueueBars DEF IsOp

\* ... what the server's task does, ...
LEMMA ServerBars ==
  ASSUME TypeOK, Awaited, NEW x \in Devices, ServerTask(x) \/ TimeOut(x), NEW d \in Devices
  PROVE  BarView(d)
<1> DEFINE t == Server(x)
<1>1. t \in Tasks /\ rx[t].turn \in Nat /\ (rx[t].at # "idle" => rx[t].peer \in Devices)
  BY ServerTasks DEF TypeOK, Awaited
<1>2. ASSUME NEW l \in Links, l[2] = x, TakeRequest(l) PROVE BarView(d)
  <2> DEFINE op == Op("Check", l[1], t, rx[t].turn + 1)
  <2>1. op \in Operations BY <1>1, LinkTasks DEF Op, Operations, Kinds
  <2>2. op.kind = "Check" /\ op.task = t BY DEF Op
  <2>3. Queue(x, op) /\ UNCHANGED <<paired, barred>>
    BY <1>2 DEF TakeRequest, ghosts, clipLog
  <2>4. rx'[t].at = "check"
    BY <1>1, <1>2 DEF TakeRequest, TypeOK
  <2> HIDE DEF op, t
  <2> QED BY <2>1, <2>2, <2>3, <2>4, QueueBars DEF IsOp
<1>3. CASE Ask(x)
  <2> DEFINE op == Op("Pending", rx[t].peer, t, rx[t].turn)
  <2>1. op \in Operations BY <1>1, <1>3 DEF Ask, Op, Operations, Kinds
  <2>2. op.kind = "Pending" BY DEF Op
  <2>3. Queue(x, op) /\ UNCHANGED <<paired, barred>> BY <1>3 DEF Ask, ghosts, clipLog
  <2> HIDE DEF op, t
  <2> QED BY <2>1, <2>2, <2>3, QueueBars DEF IsOp
<1>4. CASE StartAdd(x)
  <2> DEFINE op == Op("Add", rx[t].peer, t, 0)
  <2>1. op \in Operations BY <1>1, <1>4 DEF StartAdd, Op, Operations, Kinds
  <2>2. op.kind = "Add" /\ op.device = rx[t].peer BY DEF Op
  <2>3. Queue(x, op) /\ UNCHANGED paired /\ barred' = barred \ {<<x, rx[t].peer>>}
    BY <1>4 DEF StartAdd, Unbar
  <2> HIDE DEF op, t
  <2> QED BY <2>1, <2>2, <2>3, QueueBars DEF IsOp
<1>5. CASE Respond(x) \/ TimeOut(x) \/ WriteClip(t)
  <2>1. UNCHANGED <<ops, paired, barred>>
    BY <1>5 DEF Respond, TimeOut, WriteClip, ghosts, clipLog
  <2> QED BY <2>1 DEF BarView, KeepsOps
<1>6. ASSUME NEW l \in Links, l[2] = x, TakeClip(l) PROVE BarView(d)
  BY <1>1, <1>6, LinkTasks, ClipBars DEF TakeClip
<1> QED BY <1>2, <1>3, <1>4, <1>5, <1>6 DEF ServerTask

\* ... the tasks of clients, ...
LEMMA ClientBars ==
  ASSUME TypeOK, NEW d \in Devices, NEW l \in Links,
         Connect(l) \/ Disconnect(l) \/ ClientTask(l)
  PROVE  BarView(d)
<1>1. ASSUME UNCHANGED <<ops, paired, barred>> PROVE BarView(d)
  BY <1>1 DEF BarView, KeepsOps
<1>2. CASE Connect(l) \/ Disconnect(l)
  BY <1>1, <1>2 DEF Connect, Disconnect, ghosts, clipLog
<1>3. ASSUME NEW m \in down[l], TakeAnswer(l, m), m.ok PROVE BarView(d)
  <2> DEFINE op == Op("Add", l[2], l, 0)
  <2>1. l[1] \in Devices /\ op \in Operations BY LinkTasks DEF Op, Operations, Kinds
  <2>2. op.kind = "Add" /\ op.device = l[2] BY DEF Op
  <2>3. Queue(l[1], op) /\ UNCHANGED paired /\ barred' = barred \ {<<l[1], l[2]>>}
    BY <1>3 DEF TakeAnswer, Unbar
  <2> HIDE DEF op
  <2> QED BY <2>1, <2>2, <2>3, QueueBars DEF IsOp
<1>4. ASSUME NEW m \in down[l], TakeAnswer(l, m), ~m.ok PROVE BarView(d)
  BY <1>1, <1>4 DEF TakeAnswer
<1>5. CASE TakeServerClip(l)
  BY <1>5, LinkTasks, ClipBars DEF TakeServerClip
<1>6. CASE WriteClip(l)
  BY <1>1, <1>6 DEF WriteClip
<1> QED BY <1>2, <1>3, <1>4, <1>5, <1>6 DEF ClientTask

\* ... the window ...
LEMMA WindowBars ==
  ASSUME TypeOK, NEW x \in Devices, Window(x), NEW d \in Devices
  PROVE  BarView(d)
<1>1. ASSUME NEW e \in Devices \cup {None}, NEW kind \in Kinds
      PROVE  /\ Op(kind, e, None, 0) \in Operations
             /\ Op(kind, e, None, 0).kind = kind /\ Op(kind, e, None, 0).device = e
  BY DEF Op, Operations
<1>2. prompt[x] \in Devices \cup {None} BY DEF TypeOK
<1>3. {"Approve", "Reject", "List", "Remove"} \subseteq Kinds BY DEF Kinds
<1>4. ASSUME NEW op \in Operations, op.kind \in {"Approve", "Reject", "List"}, Queue(x, op),
             UNCHANGED <<paired, barred>>
      PROVE  BarView(d)
  BY <1>4, QueueBars DEF IsOp
<1>5. CASE Approve(x)
  BY <1>1, <1>2, <1>3, <1>4, <1>5 DEF Approve, clipLog
<1>6. CASE Reject(x)
  BY <1>1, <1>2, <1>3, <1>4, <1>6 DEF Reject, ghosts, clipLog
<1>7. CASE Load(x)
  BY <1>1, <1>3, <1>4, <1>7 DEF Load, ghosts, clipLog
<1>8. ASSUME NEW e \in Devices, Remove(x, e) PROVE BarView(d)
  <2> DEFINE op == Op("Remove", e, None, 0)
  <2>1. op \in Operations /\ op.kind = "Remove" /\ op.device = e BY <1>1, <1>3
  <2>2. Queue(x, op) /\ UNCHANGED paired /\ barred' = barred \cup {<<x, e>>}
    BY <1>8 DEF Remove
  <2> HIDE DEF op
  <2> QED BY <2>1, <2>2, QueueBars DEF IsOp
<1> QED BY <1>5, <1>6, <1>7, <1>8 DEF Window

\* ... and the storage thread.
LEMMA StorageBars ==
  ASSUME TypeOK, NEW x \in Devices, Storage(x), NEW d \in Devices
  PROVE  BarView(d)
<1> DEFINE head == Head(ops[x])
<1>0. ops \in [Devices -> Seq(Operations)] /\ paired \in [Devices -> SUBSET Devices]
  BY DEF TypeOK, Operations
<1>1. PICK kind \in Kinds : Take(x, kind)
  BY DEF Storage, HandleCheck, HandleAdd, HandleRemove, HandlePending, HandleApprove,
         HandleReject, HandleList, CheckFails, AddFails, RemoveFails, Kinds
<1>2. ops' = [ops EXCEPT ![x] = Tail(ops[x])] /\ ops[x] # <<>> /\ head = ops[x][1]
  BY <1>1, TakeView DEF Take
<1>3. \A e \in Devices : <<d, e>> \in barred' => <<d, e>> \in barred
  BY DEF Storage, HandleCheck, HandleAdd, HandleRemove, HandlePending, HandleApprove,
         HandleReject, HandleList, CheckFails, AddFails, RemoveFails, Unbar, ghosts, clipLog
<1>4. /\ d # x => paired'[d] = paired[d]
      /\ \A e \in Devices : e \in paired'[x] => e \in paired[x] \/ IsOp(head, "Add", e)
  <2>1. CASE HandleAdd(x)
    <3>1. paired' = [paired EXCEPT ![x] = paired[x] \cup {head.device}] /\ head.kind = "Add"
      BY <2>1 DEF HandleAdd, Take
    <3> HIDE DEF head
    <3> QED BY <1>0, <3>1 DEF IsOp
  <2>2. CASE HandleRemove(x)
    <3>1. paired' = [paired EXCEPT ![x] = paired[x] \ {head.device}]
      BY <2>2 DEF HandleRemove
    <3> HIDE DEF head
    <3> QED BY <1>0, <3>1
  <2>3. CASE UNCHANGED paired
    BY <2>3
  <2> QED BY <2>1, <2>2, <2>3
      DEF Storage, HandleCheck, HandlePending, HandleApprove, HandleReject, HandleList,
          CheckFails, AddFails, RemoveFails
<1>5. ASSUME NEW e \in Devices, IsOp(head, "Remove", e), e \in paired'[x]
      PROVE  <<x, e>> \notin barred' /\ \A t \in late' : t[1] = x => rx[t].peer # e
  <2>1. CASE HandleRemove(x)
    <3>1. paired' = [paired EXCEPT ![x] = paired[x] \ {head.device}] /\ head.device = e
      BY <1>5, <2>1 DEF HandleRemove, IsOp
    <3> HIDE DEF head
    <3> QED BY <1>0, <1>5, <3>1
  <2>2. CASE RemoveFails(x)
    <3>1. head.device = e BY <1>5 DEF IsOp
    <3>2. barred' = barred \ {<<x, e>>} /\ late' = {t \in late : t[1] # x \/ rx[t].peer # e}
      BY <2>2, <3>1 DEF RemoveFails, Unbar
    <3> QED BY <3>2
  <2>3. head.kind = "Remove"
    BY <1>5 DEF IsOp
  <2> QED BY <2>1, <2>2, <2>3
      DEF Storage, HandleCheck, HandleAdd, HandlePending, HandleApprove, HandleReject,
          HandleList, CheckFails, AddFails, Take
<1> HIDE DEF head
<1>6. CASE d = x
  <2>1. ops'[d] = Tail(ops[d]) BY <1>0, <1>2, <1>6
  <2>2. DoesOp(d) BY <1>2, <1>3, <1>4, <1>5, <1>6, <2>1 DEF DoesOp
  <2> QED BY <2>2 DEF BarView
<1>7. CASE d # x
  <2>1. ops'[d] = ops[d] BY <1>0, <1>2, <1>7
  <2> QED BY <1>3, <1>4, <1>7, <2>1 DEF BarView, KeepsOps
<1> QED BY <1>6, <1>7

\* Every step leaves a channel, adds to it or does its first operation.
LEMMA BarSteps ==
  ASSUME TypeOK, Awaited, [Next]_vars, NEW d \in Devices
  PROVE  BarView(d)
<1>1. ASSUME UNCHANGED <<ops, paired, barred>> PROVE BarView(d)
  BY <1>1 DEF BarView, KeepsOps
<1>2. ASSUME NEW x \in Devices, Push(x) PROVE BarView(d)
  BY <1>1, <1>2 DEF Push, ghosts, clipLog
<1>3. CASE UNCHANGED vars
  BY <1>1, <1>3 DEF vars, ghosts, clipLog
<1> QED BY <1>2, <1>3, LoadersAssumption, ServerBars, ClientBars, WindowBars, StorageBars
    DEF Next

\* A task becomes late only when it takes a message.
LEMMA LateSteps ==
  ASSUME TypeOK, [Next]_vars, NEW t \in late'
  PROVE  t \in late \/ rx[t].at = "idle"
<1>1. ASSUME NEW u, NEW e, CheckClip(u, e) PROVE t \in late \/ rx[t].at = "idle"
  BY <1>1 DEF CheckClip
<1>2. ASSUME late' \subseteq late PROVE t \in late
  BY <1>2
<1>3. ASSUME NEW d \in Devices, ServerTask(d) \/ TimeOut(d)
      PROVE  t \in late \/ rx[t].at = "idle"
  BY <1>1, <1>2, <1>3
  DEF ServerTask, TimeOut, TakeRequest, TakeClip, WriteClip, Ask, StartAdd, Respond, ghosts,
      clipLog
<1>4. ASSUME NEW l \in Links, Connect(l) \/ Disconnect(l) \/ ClientTask(l)
      PROVE  t \in late \/ rx[t].at = "idle"
  BY <1>1, <1>2, <1>4
  DEF Connect, Disconnect, ClientTask, TakeAnswer, TakeServerClip, WriteClip, ghosts, clipLog
<1>5. ASSUME NEW d \in Devices, Push(d) \/ Window(d) \/ Storage(d)
      PROVE  t \in late
  BY <1>2, <1>5
  DEF Push, Window, Approve, Reject, Load, Remove, Storage, HandleCheck, HandleAdd,
      HandleRemove, CheckFails, AddFails, RemoveFails, HandlePending, HandleApprove,
      HandleReject, HandleList, ghosts, clipLog
<1>6. CASE UNCHANGED vars
  BY <1>2, <1>6 DEF vars, ghosts, clipLog
<1> QED BY <1>3, <1>4, <1>5, <1>6, LoadersAssumption DEF Next

\* The channel of a device.
LEMMA ChannelType ==
  ASSUME TypeOK, NEW d \in Devices
  PROVE  Len(ops[d]) \in Nat /\ ops[d] \in Seq(Operations)
<1>1. ops[d] \in Seq(Operations) BY DEF TypeOK, Operations
<1> HIDE DEF Operations
<1> QED BY <1>1

\* A device that is out of the table of d after the operations before the i-th is so when
\* these stay as they are, ...
LEMMA OutKept ==
  ASSUME NEW d \in Devices, NEW e \in Devices, NEW i \in Nat, Out(d, e, i),
         paired'[d] = paired[d],
         \A k \in 1..Len(ops[d]) : k < i => k \in 1..Len(ops'[d]) /\ ops'[d][k] = ops[d][k],
         \A k \in 1..Len(ops'[d]) : k < i => k \in 1..Len(ops[d])
  PROVE  Out(d, e, i)'
<1>1. ASSUME NEW from \in Nat, NotAdded(d, e, from, i) PROVE NotAdded(d, e, from, i)'
  BY <1>1 DEF NotAdded
<1>2. CASE e \notin paired[d] /\ NotAdded(d, e, 0, i)
  BY <1>1, <1>2 DEF Out
<1>3. ASSUME NEW j \in 1..Len(ops[d]), j < i, IsOp(ops[d][j], "Remove", e), NotAdded(d, e, j, i)
      PROVE  Out(d, e, i)'
  <2>1. j \in 1..Len(ops'[d]) /\ IsOp(ops'[d][j], "Remove", e) BY <1>3
  <2>2. NotAdded(d, e, j, i)' BY <1>1, <1>3
  <2> QED BY <1>3, <2>1, <2>2 DEF Out
<1> QED BY <1>2, <1>3 DEF Out

\* ... and when the first of them is done, unless it is its removal and fails.
LEMMA OutDone ==
  ASSUME TypeOK, NEW d \in Devices, NEW e \in Devices, NEW i \in Nat, 0 < i,
         Out(d, e, i + 1), DoesOp(d), IsOp(ops[d][1], "Remove", e) => e \notin paired'[d]
  PROVE  Out(d, e, i)'
<1>1. /\ 1 \in 1..Len(ops[d])
      /\ \A k \in 1..Len(ops'[d]) : k + 1 \in 1..Len(ops[d]) /\ ops'[d][k] = ops[d][k + 1]
      /\ \A k \in 1..Len(ops[d]) :
           1 < k => k - 1 \in 1..Len(ops'[d]) /\ ops'[d][k - 1] = ops[d][k]
  <2>1. ops[d] \in Seq(Operations) /\ ops[d] # <<>> /\ ops'[d] = Tail(ops[d])
    BY DEF TypeOK, Operations, DoesOp
  <2> HIDE DEF Operations
  <2>2. Len(ops'[d]) = Len(ops[d]) - 1 /\ Len(ops[d]) \in Nat \ {0} BY <2>1
  <2>3. \A k \in 1..Len(ops'[d]) : ops'[d][k] = ops[d][k + 1] BY <2>1, <2>2
  <2> QED BY <2>2, <2>3
<1>2. ASSUME NEW from \in Nat, NotAdded(d, e, from + 1, i + 1)
      PROVE  NotAdded(d, e, from, i)'
  BY <1>1, <1>2 DEF NotAdded
<1>3. ASSUME NotAdded(d, e, 0, i + 1) \/ NotAdded(d, e, 1, i + 1) PROVE NotAdded(d, e, 0, i)'
  <2>1. NotAdded(d, e, 0 + 1, i + 1) BY <1>3 DEF NotAdded
  <2> QED BY <1>2, <2>1
<1>4. CASE e \notin paired[d] /\ NotAdded(d, e, 0, i + 1)
  <2>1. ~IsOp(ops[d][1], "Add", e) BY <1>1, <1>4 DEF NotAdded
  <2>2. e \notin paired'[d] BY <1>4, <2>1 DEF DoesOp
  <2> QED BY <1>3, <1>4, <2>2 DEF Out
<1>5. ASSUME NEW j \in 1..Len(ops[d]), j < i + 1, IsOp(ops[d][j], "Remove", e),
             NotAdded(d, e, j, i + 1)
      PROVE  Out(d, e, i)'
  <2>1. CASE j = 1
    BY <1>3, <1>5, <2>1 DEF Out
  <2>2. CASE 1 < j
    <3>1. j - 1 \in 1..Len(ops'[d]) /\ IsOp(ops'[d][j - 1], "Remove", e) BY <1>1, <1>5, <2>2
    <3>2. j - 1 \in Nat /\ (j - 1) + 1 = j /\ j - 1 < i BY <1>5, <2>2
    <3>3. NotAdded(d, e, (j - 1) + 1, i + 1) BY <1>5, <3>2
    <3>4. NotAdded(d, e, j - 1, i)' BY <1>2, <3>2, <3>3
    <3> QED BY <3>1, <3>2, <3>4 DEF Out
  <2> QED BY <2>1, <2>2
<1> QED BY <1>4, <1>5 DEF Out

\* Whom the user has removed.
LEMMA BarredStep ==
  ASSUME TypeOK, TypeOK', Awaited, OutOfTable, [Next]_vars,
         NEW d \in Devices, NEW e \in Devices, <<d, e>> \in barred',
         NEW n \in Nat, n = Len(ops'[d]) + 1
  PROVE  Out(d, e, n)'
<1>0. Len(ops[d]) \in Nat /\ ops[d] \in Seq(Operations)
  BY ChannelType
<1>1. <<d, e>> \in barred => Out(d, e, Len(ops[d]) + 1)
  BY DEF OutOfTable
<1>2. CASE KeepsOps(d)
  <2>1. n = Len(ops[d]) + 1 BY <1>2 DEF KeepsOps
  <2>2. Out(d, e, n) BY <1>1, <1>2, <2>1 DEF KeepsOps
  <2> QED BY <1>2, <2>2, OutKept DEF KeepsOps
<1>3. ASSUME NEW op \in Operations, AddsOp(d, op) PROVE Out(d, e, n)'
  <2> HIDE DEF Operations
  <2>1. /\ n = Len(ops[d]) + 2 /\ Len(ops'[d]) = Len(ops[d]) + 1
        /\ ops'[d][Len(ops[d]) + 1] = op
        /\ \A k \in 1..Len(ops[d]) : ops'[d][k] = ops[d][k]
    BY <1>0, <1>3 DEF AddsOp
  <2>2. CASE IsOp(op, "Remove", e)
    <3> DEFINE j == Len(ops[d]) + 1
    <3>1. j \in 1..Len(ops'[d]) /\ j < n /\ IsOp(ops'[d][j], "Remove", e) BY <1>0, <2>1, <2>2
    <3>2. \A k \in 1..Len(ops'[d]) : ~(j < k /\ k < n) BY <1>0, <2>1
    <3> HIDE DEF j
    <3> QED BY <3>1, <3>2 DEF Out, NotAdded
  <2>3. CASE <<d, e>> \in barred /\ ~IsOp(op, "Add", e)
    <3>1. PICK m \in Nat : m = Len(ops[d]) + 1 BY <1>0
    <3>2. Out(d, e, m) BY <1>1, <2>3, <3>1
    <3>3. Out(d, e, m)'
      <4>1. paired'[d] = paired[d] BY <1>3 DEF AddsOp
      <4>2. /\ \A k \in 1..Len(ops[d]) :
                 k < m => k \in 1..Len(ops'[d]) /\ ops'[d][k] = ops[d][k]
            /\ \A k \in 1..Len(ops'[d]) : k < m => k \in 1..Len(ops[d])
        BY <1>0, <2>1, <3>1
      <4> QED BY <3>2, <4>1, <4>2, OutKept
    <3>4. ASSUME NEW from \in Nat, NotAdded(d, e, from, m)' PROVE NotAdded(d, e, from, n)'
      BY <1>0, <2>1, <2>3, <3>1, <3>4 DEF NotAdded
    <3>5. m < n BY <1>0, <2>1, <3>1
    <3> QED BY <1>0, <2>1, <3>1, <3>3, <3>4, <3>5 DEF Out
  <2> QED BY <1>3, <2>2, <2>3 DEF AddsOp
<1>4. CASE DoesOp(d)
  <2>1. n = Len(ops[d]) /\ 0 < n
    <3> HIDE DEF Operations
    <3> QED BY <1>0, <1>4 DEF DoesOp
  <2>2. Out(d, e, n + 1) BY <1>1, <1>4, <2>1 DEF DoesOp
  <2>3. IsOp(ops[d][1], "Remove", e) => e \notin paired'[d] BY <1>4 DEF DoesOp
  <2> QED BY <1>4, <2>1, <2>2, <2>3, OutDone
<1> QED BY <1>2, <1>3, <1>4, BarSteps DEF BarView

\* The task that an operation is about was late before, and its message taken.
LEMMA LateCheck ==
  ASSUME TypeOK, Awaited, [Next]_vars, NEW d \in Devices, NEW k \in 1..Len(ops[d]),
         ops[d][k].kind = "Check", NEW t, t = ops[d][k].task, t \in late', rx'[t].at = "clip"
  PROVE  /\ t \in late /\ rx[t].at = "clip"
         /\ t[1] = d /\ rx[t].peer = ops[d][k].device
<1>1. t \in Tasks /\ rx[t].at \in {"check", "clip"} /\ t[1] = d /\ rx[t].peer = ops[d][k].device
  BY DEF Awaited, IsAwaited, AwaitedAt
<1>2. TaskView(t)
  BY <1>1, TaskSteps
<1>3. rx'[t] = rx[t]
  BY <1>1, <1>2 DEF TaskView, Goes
<1> QED BY <1>1, <1>3, LateSteps

\* Whose check is under way.
LEMMA CheckStep ==
  ASSUME TypeOK, TypeOK', Awaited, OutOfTable, [Next]_vars,
         NEW d \in Devices, NEW i \in 1..Len(ops'[d]), ops'[d][i].kind = "Check",
         ops'[d][i].task \in late', rx'[ops'[d][i].task].at = "clip",
         NEW e, e = ops'[d][i].device
  PROVE  Out(d, e, i)'
<1>0. Len(ops[d]) \in Nat /\ ops[d] \in Seq(Operations) /\ i \in Nat /\ 0 < i
  BY ChannelType
<1>1. e \in Devices
  <2>1. ops' \in [Devices -> Seq(Operations)]
    BY DEF TypeOK, Operations
  <2>2. ops'[d][i] \in Operations
    <3> HIDE DEF Operations
    <3> QED BY <2>1
  <2>3. e \in Devices \cup {None} BY <2>2 DEF Operations
  <2>4. e # None BY DEF TypeOK
  <2> QED BY <2>3, <2>4
<1>2. ASSUME NEW k \in 1..Len(ops[d]), ops'[d][i] = ops[d][k]
      PROVE  /\ Out(d, e, k)
             /\ \E t \in late' : t[1] = d /\ rx[t].peer = e
  <2>1. PICK t : t = ops[d][k].task OBVIOUS
  <2>2. t \in late /\ rx[t].at = "clip" /\ t[1] = d /\ rx[t].peer = e
    BY <1>2, <2>1, LateCheck
  <2> QED BY <1>2, <2>1, <2>2 DEF OutOfTable
<1>3. CASE KeepsOps(d)
  <2>1. Out(d, e, i) BY <1>2, <1>3 DEF KeepsOps
  <2> QED BY <1>0, <1>1, <1>3, <2>1, OutKept DEF KeepsOps
<1>4. ASSUME NEW op \in Operations, AddsOp(d, op) PROVE Out(d, e, i)'
  <2> HIDE DEF Operations
  <2>1. /\ Len(ops'[d]) = Len(ops[d]) + 1
        /\ ops'[d][Len(ops[d]) + 1] = op
        /\ \A k \in 1..Len(ops[d]) : ops'[d][k] = ops[d][k]
    BY <1>0, <1>4 DEF AddsOp
  <2>2. Out(d, e, i)
    <3>1. CASE i \in 1..Len(ops[d]) BY <1>2, <2>1, <3>1
    <3>2. CASE i = Len(ops[d]) + 1
      <4>1. <<d, e>> \in barred BY <1>4, <2>1, <3>2 DEF AddsOp
      <4> QED BY <1>1, <3>2, <4>1 DEF OutOfTable
    <3> QED BY <1>0, <2>1, <3>1, <3>2
  <2>3. paired'[d] = paired[d] BY <1>4 DEF AddsOp
  <2>4. /\ \A k \in 1..Len(ops[d]) : k < i => k \in 1..Len(ops'[d]) /\ ops'[d][k] = ops[d][k]
        /\ \A k \in 1..Len(ops'[d]) : k < i => k \in 1..Len(ops[d])
    BY <1>0, <2>1
  <2> QED BY <1>0, <1>1, <2>2, <2>3, <2>4, OutKept
<1>5. CASE DoesOp(d)
  <2>1. i + 1 \in 1..Len(ops[d]) /\ ops'[d][i] = ops[d][i + 1]
    <3> HIDE DEF Operations
    <3>1. ops'[d] = Tail(ops[d]) /\ ops[d] # <<>> BY <1>5 DEF DoesOp
    <3>2. Len(ops'[d]) = Len(ops[d]) - 1 BY <1>0, <3>1
    <3> QED BY <1>0, <3>1, <3>2
  <2>2. Out(d, e, i + 1) /\ \E t \in late' : t[1] = d /\ rx[t].peer = e
    BY <1>2, <2>1
  <2>3. IsOp(ops[d][1], "Remove", e) => e \notin paired'[d]
    BY <1>1, <1>5, <2>2 DEF DoesOp
  <2> QED BY <1>0, <1>1, <1>5, <2>2, <2>3, OutDone
<1> QED BY <1>3, <1>4, <1>5, BarSteps DEF BarView

\* Every step keeps OutOfTable.
LEMMA OutOfTableStep ==
  ASSUME TypeOK, TypeOK', Awaited, OutOfTable, [Next]_vars
  PROVE  OutOfTable'
<1>1. ASSUME NEW t \in late', rx'[t].at = "write" PROVE FALSE
  <2>1. t \in Tasks BY DEF TypeOK
  <2>2. TaskView(t) BY <2>1, TaskSteps
  <2>3. t \in late \/ rx[t].at = "idle" BY LateSteps
  <2>4. CASE rx'[t] = rx[t]
    BY <1>1, <2>3, <2>4 DEF OutOfTable, RemovedIsNotWritten
  <2>5. CASE Goes(t, "clip", "write") /\ rx[t].peer \in paired[t[1]] /\ CheckedFirst(t)
    <3>1. t \in late /\ rx[t].at = "clip" BY <2>3, <2>5 DEF Goes
    <3>2. t[1] \in Devices BY <2>1, TaskOwner
    <3>3. Out(t[1], rx[t].peer, 1)
      BY <2>5, <3>1, <3>2 DEF OutOfTable, CheckedFirst
    <3>4. \A j \in 1..Len(ops[t[1]]) : ~(j < 1)
      BY <2>5 DEF CheckedFirst
    <3> QED BY <2>5, <3>3, <3>4 DEF Out
  <2> QED BY <1>1, <2>2, <2>4, <2>5 DEF TaskView, Goes
<1>2. ASSUME NEW d \in Devices, NEW e \in Devices, <<d, e>> \in barred'
      PROVE  Out(d, e, Len(ops[d]) + 1)'
  <2>1. Len(ops'[d]) \in Nat
    <3>1. ops'[d] \in Seq(Operations) BY DEF TypeOK, Operations
    <3> HIDE DEF Operations
    <3> QED BY <3>1
  <2>2. PICK n \in Nat : n = Len(ops'[d]) + 1 BY <2>1
  <2>3. Out(d, e, n)' BY <1>2, <2>2, BarredStep
  <2> QED BY <2>2, <2>3 DEF Out, NotAdded
<1>3. ASSUME NEW d \in Devices, NEW i \in 1..Len(ops'[d]), ops'[d][i].kind = "Check",
             ops'[d][i].task \in late', rx'[ops'[d][i].task].at = "clip"
      PROVE  Out(d, ops[d][i].device, i)'
  <2>1. PICK e : e = ops'[d][i].device OBVIOUS
  <2>2. Out(d, e, i)' BY <1>3, <2>1, CheckStep
  <2> QED BY <2>1, <2>2 DEF Out, NotAdded
<1> QED BY <1>1, <1>2, <1>3 DEF OutOfTable, RemovedIsNotWritten

-----------------------------------------------------------------------------
(* Reply senders *)

\* The channel of x keeps its Pending operations, by one place further to the front at
\* most, and gets no other.
SendersStay(x) ==
  \E s \in {0, 1} :
    /\ \A i \in 1..Len(ops'[x]) : ops'[x][i].kind = "Pending" =>
         i + s \in 1..Len(ops[x]) /\ ops'[x][i] = ops[x][i + s]
    /\ \A i \in 1..Len(ops[x]) : ops[x][i].kind = "Pending" =>
         i - s \in 1..Len(ops'[x]) /\ ops'[x][i - s] = ops[x][i]

\* An operation of another kind that is queued ...
LEMMA QueueSenders ==
  ASSUME TypeOK, NEW d \in Devices, NEW op \in Operations, Queue(d, op),
         op.kind # "Pending", NEW x \in Devices
  PROVE  SendersStay(x)
<1>1. ASSUME NEW i \in 1..Len(ops'[x]), ops'[x][i].kind = "Pending"
      PROVE  i + 0 \in 1..Len(ops[x]) /\ ops'[x][i] = ops[x][i + 0]
  BY <1>1, QueueView
<1>2. ASSUME NEW i \in 1..Len(ops[x]), ops[x][i].kind = "Pending"
      PROVE  i - 0 \in 1..Len(ops'[x]) /\ ops'[x][i - 0] = ops[x][i]
  BY QueueKeeps
<1> QED BY <1>1, <1>2 DEF SendersStay

\* ... or taken leaves them there, ...
LEMMA TakeSenders ==
  ASSUME TypeOK, NEW d \in Devices, NEW kind, Take(d, kind), kind # "Pending",
         NEW x \in Devices
  PROVE  SendersStay(x)
<1>1. /\ ops[d][1].kind # "Pending"
      /\ \A y \in Devices : \A i \in 1..Len(ops'[y]) :
           \/ y = d /\ i + 1 \in 1..Len(ops[d]) /\ ops'[y][i] = ops[d][i + 1]
           \/ y # d /\ i \in 1..Len(ops[y]) /\ ops'[y][i] = ops[y][i]
  BY TakeView
<1>2. PICK s \in {0, 1} : s = IF x = d THEN 1 ELSE 0
  OBVIOUS
<1>3. ASSUME NEW i \in 1..Len(ops'[x]), ops'[x][i].kind = "Pending"
      PROVE  i + s \in 1..Len(ops[x]) /\ ops'[x][i] = ops[x][i + s]
  <2>1. \/ x = d /\ i + 1 \in 1..Len(ops[d]) /\ ops'[x][i] = ops[d][i + 1]
        \/ x # d /\ i \in 1..Len(ops[x]) /\ ops'[x][i] = ops[x][i]
    BY <1>1, Zenon
  <2>2. CASE x = d
    <3>1. s = 1 /\ i + 1 \in 1..Len(ops[x]) /\ ops'[x][i] = ops[x][i + 1]
      BY <1>2, <2>1, <2>2
    <3> QED BY <3>1
  <2>3. CASE x # d
    <3>1. s = 0 /\ i + 0 = i
      BY <1>2, <2>3
    <3>2. i \in 1..Len(ops[x]) /\ ops'[x][i] = ops[x][i]
      BY <2>1, <2>3
    <3> QED BY <3>1, <3>2
  <2> QED BY <2>2, <2>3
<1>4. ASSUME NEW i \in 1..Len(ops[x]), ops[x][i].kind = "Pending"
      PROVE  i - s \in 1..Len(ops'[x]) /\ ops'[x][i - s] = ops[x][i]
  <2>1. ~(x = d /\ i = 1)
    BY <1>1, <1>4
  <2> QED BY <1>2, <2>1, TakeKeeps
<1> QED BY <1>3, <1>4 DEF SendersStay

\* ... and so does a channel that is left alone.
LEMMA SameSenders ==
  ASSUME UNCHANGED ops, NEW x \in Devices
  PROVE  SendersStay(x)
<1>1. /\ \A i \in 1..Len(ops'[x]) : i + 0 \in 1..Len(ops[x]) /\ ops'[x][i] = ops[x][i + 0]
      /\ \A i \in 1..Len(ops[x]) : i - 0 \in 1..Len(ops'[x]) /\ ops'[x][i - 0] = ops[x][i]
  OBVIOUS
<1> QED BY <1>1 DEF SendersStay

\* A move of a message task that neither begins a request nor begins or ends a wait.
Quiet(r, s) ==
  /\ s.turn = r.turn
  /\ \/ s = r
     \/ r.at = "check" /\ s.at = "ask"
     \/ r.at # "wait" /\ s.at \notin {"check", "ask", "wait"}

SenderOK(d) == OneSender(d) /\ Answerable(d)

\* What such a move leaves of the senders.
LEMMA QuietSenders ==
  ASSUME TypeOK, NEW d \in Devices, SenderOK(d), SendersStay(d),
         Quiet(rx[Server(d)], rx'[Server(d)]),
         \A e \in Devices :
           \/ pending'[d][e] = pending[d][e]
           \/ /\ pending'[d][e] = 0
              /\ rx[Server(d)].at = "wait" => pending[d][e] # rx[Server(d)].turn,
         rx[Server(d)].at = "wait" => rx[Server(d)].peer \in Devices
  PROVE  SenderOK(d)'
<1> DEFINE t == Server(d)
<1>1. PICK s \in {0, 1} :
        /\ \A i \in 1..Len(ops'[d]) : ops'[d][i].kind = "Pending" =>
             i + s \in 1..Len(ops[d]) /\ ops'[d][i] = ops[d][i + s]
        /\ \A i \in 1..Len(ops[d]) : ops[d][i].kind = "Pending" =>
             i - s \in 1..Len(ops'[d]) /\ ops'[d][i - s] = ops[d][i]
  BY DEF SendersStay
<1>2. rx'[t].at \in {"check", "ask"} =>
        rx'[t].turn # 0 /\ \A e \in Devices : pending'[d][e] # rx'[t].turn
  BY DEF SenderOK, OneSender, Quiet
<1>3. ASSUME NEW i \in 1..Len(ops'[d]), ops'[d][i].kind = "Pending"
      PROVE  /\ rx'[t].at = "wait" /\ ops'[d][i].turn = rx'[t].turn
             /\ \A e \in Devices : pending'[d][e] # rx'[t].turn
             /\ \A j \in 1..Len(ops'[d]) : ops'[d][j].kind = "Pending" => i = j
  <2>1. i + s \in 1..Len(ops[d]) /\ ops'[d][i] = ops[d][i + s]
    BY <1>1, <1>3
  <2>2. /\ rx[t].at = "wait" /\ ops[d][i + s].turn = rx[t].turn
        /\ \A e \in Devices : pending[d][e] # rx[t].turn
        /\ \A j \in 1..Len(ops[d]) : ops[d][j].kind = "Pending" => i + s = j
    BY <1>3, <2>1 DEF SenderOK, OneSender
  <2>3. rx'[t] = rx[t] /\ rx[t].turn # 0
    BY <2>2 DEF Quiet, SenderOK, Answerable
  <2>4. ASSUME NEW j \in 1..Len(ops'[d]), ops'[d][j].kind = "Pending" PROVE i = j
    BY <1>1, <2>2, <2>4
  <2> QED BY <2>1, <2>2, <2>3, <2>4
<1>4. ASSUME rx'[t].at = "wait"
      PROVE  /\ rx'[t].turn # 0
             /\ \/ pending'[d][rx'[t].peer] = rx'[t].turn
                \/ \E i \in 1..Len(ops'[d]) :
                     ops'[d][i].kind = "Pending" /\ ops'[d][i].turn = rx'[t].turn
  <2>1. rx'[t] = rx[t]
    BY <1>4 DEF Quiet
  <2>2. rx[t].peer \in Devices
    BY <1>4, <2>1
  <2>3. /\ rx[t].turn # 0
        /\ \/ pending[d][rx[t].peer] = rx[t].turn
           \/ \E i \in 1..Len(ops[d]) :
                ops[d][i].kind = "Pending" /\ ops[d][i].turn = rx[t].turn
    BY <1>4, <2>1 DEF SenderOK, Answerable
  <2>4. CASE pending[d][rx[t].peer] = rx[t].turn
    <3>1. pending'[d][rx[t].peer] = pending[d][rx[t].peer]
      BY <1>4, <2>1, <2>2, <2>4
    <3> QED BY <2>1, <2>3, <2>4, <3>1
  <2>5. ASSUME NEW i \in 1..Len(ops[d]), ops[d][i].kind = "Pending",
               ops[d][i].turn = rx[t].turn
        PROVE  \E k \in 1..Len(ops'[d]) :
                 ops'[d][k].kind = "Pending" /\ ops'[d][k].turn = rx'[t].turn
    <3>1. i - s \in 1..Len(ops'[d]) /\ ops'[d][i - s] = ops[d][i]
      BY <1>1, <2>5
    <3> QED BY <2>1, <2>5, <3>1
  <2> QED BY <2>1, <2>3, <2>4, <2>5
<1>5. OneSender(d)'
  BY <1>2, <1>3 DEF OneSender, Server
<1>6. Answerable(d)'
  BY <1>4 DEF Answerable, Server
<1> QED BY <1>5, <1>6 DEF SenderOK

\* A step in which one task moves, quietly if it is the server's, and no reply sender is
\* kept or used.
LEMMA QuietStep ==
  ASSUME TypeOK, Awaited, NEW d \in Devices, SenderOK(d), SendersStay(d),
         NEW u \in Tasks, NEW r, Moves(u, r), u = Server(d) => Quiet(rx[u], r),
         UNCHANGED pending
  PROVE  SenderOK(d)'
<1>1. Server(d) \in Tasks
  BY ServerTasks
<1>2. Quiet(rx[Server(d)], rx'[Server(d)])
  BY <1>1 DEF Moves, Quiet
<1>3. rx[Server(d)].at = "wait" => rx[Server(d)].peer \in Devices
  BY <1>1 DEF Awaited
<1> QED BY <1>2, <1>3, QuietSenders

\* The same when no task moves.
LEMMA StillStep ==
  ASSUME TypeOK, Awaited, NEW d \in Devices, SenderOK(d), SendersStay(d),
         UNCHANGED <<rx, pending>>
  PROVE  SenderOK(d)'
<1>1. Server(d) \in Tasks
  BY ServerTasks
<1>2. Moves(Server(d), rx[Server(d)])
  BY <1>1, StaysMoves
<1> QED BY <1>1, <1>2, QuietStep DEF Quiet

\* A task takes a clipboard message, ...
LEMMA SenderClip ==
  ASSUME TypeOK, Awaited, NEW d \in Devices, SenderOK(d),
         NEW u \in Tasks, NEW e \in Devices, CheckClip(u, e), UNCHANGED pending
  PROVE  SenderOK(d)'
<1> DEFINE r == ClipTaken(u, e)
           op == Op("Check", e, u, 0)
<1>1. Moves(u, r)
  <2>1. rx \in [Tasks -> States] BY DEF TypeOK, States
  <2>2. rx' = [rx EXCEPT ![u] = r] BY ClipState
  <2> HIDE DEF r
  <2> QED BY <2>1, <2>2 DEF Moves
<1>2. Quiet(rx[u], r)
  BY DEF CheckClip, ClipTaken, Quiet
<1>3. op \in Operations /\ op.kind = "Check"
  BY ClipOp
<1>4. u[1] \in Devices /\ Queue(u[1], op)
  BY TaskOwner DEF CheckClip
<1> HIDE DEF r, op
<1>5. SendersStay(d)
  BY <1>3, <1>4, QueueSenders
<1> QED BY <1>1, <1>2, <1>5, QuietStep

\* ... or is done with it.
LEMMA SenderWrite ==
  ASSUME TypeOK, Awaited, NEW d \in Devices, SenderOK(d), NEW u \in Tasks, WriteClip(u)
  PROVE  SenderOK(d)'
<1> DEFINE r == [at |-> "idle", peer |-> None, turn |-> rx[u].turn]
<1>1. Moves(u, r) /\ UNCHANGED <<ops, pending>>
  BY FinishMoves DEF WriteClip
<1>2. Quiet(rx[u], r)
  BY DEF WriteClip, Quiet
<1> HIDE DEF r
<1> QED BY <1>1, <1>2, SameSenders, QuietStep

\* A server's task begins a request: all reply senders are of earlier turns.
LEMMA SenderRequest ==
  ASSUME TypeOK, Awaited, CurrentTurn, NEW d \in Devices, SenderOK(d),
         NEW l \in Links, l[2] = d, TakeRequest(l)
  PROVE  SenderOK(d)'
<1> DEFINE t == Server(d)
           op == Op("Check", l[1], t, rx[t].turn + 1)
<1>1. t \in Tasks /\ rx[t].turn \in Nat
  BY ServerTasks DEF TypeOK
<1>2. op \in Operations
  BY <1>1, LinkTasks DEF Op, Operations, Kinds
<1>3. op.kind = "Check"
  BY DEF Op
<1>4. Queue(d, op) /\ rx[t].at = "idle" /\ UNCHANGED pending
  BY DEF TakeRequest
<1>5. rx'[t].at = "check" /\ rx'[t].turn = rx[t].turn + 1
  BY <1>1 DEF TakeRequest, TypeOK
<1> HIDE DEF op
<1>6. SendersStay(d)
  BY <1>2, <1>3, <1>4, QueueSenders
<1>7. \A i \in 1..Len(ops[d]) : ops[d][i].kind # "Pending"
  BY <1>4 DEF SenderOK, OneSender
<1>8. \A i \in 1..Len(ops'[d]) : ops'[d][i].kind # "Pending"
  BY <1>6, <1>7 DEF SendersStay
<1>9. \A e \in Devices : pending'[d][e] # rx'[t].turn
  BY <1>1, <1>4, <1>5 DEF CurrentTurn, OfTurn, TypeOK
<1>10. OneSender(d)'
  BY <1>1, <1>5, <1>8, <1>9 DEF OneSender, Server
<1>11. Answerable(d)'
  BY <1>5 DEF Answerable, Server
<1> QED BY <1>10, <1>11 DEF SenderOK

\* It asks the user: the one reply sender of the turn is queued.
LEMMA SenderAsk ==
  ASSUME TypeOK, Awaited, NEW d \in Devices, SenderOK(d), Ask(d)
  PROVE  SenderOK(d)'
<1> DEFINE t == Server(d)
           op == Op("Pending", rx[t].peer, t, rx[t].turn)
<1>1. t \in Tasks /\ rx[t].turn \in Nat /\ rx[t].at = "ask" /\ rx[t].peer \in Devices
  BY ServerTasks DEF Ask, TypeOK, Awaited
<1>2. op \in Operations
  BY <1>1 DEF Op, Operations, Kinds
<1>3. op.kind = "Pending" /\ op.turn = rx[t].turn
  BY DEF Op
<1>4. Queue(d, op) /\ UNCHANGED pending
  BY DEF Ask
<1>5. rx'[t].at = "wait" /\ rx'[t].turn = rx[t].turn
  <2>1. Moves(t, [at |-> "wait", peer |-> rx[t].peer, turn |-> rx[t].turn])
    BY <1>1, BecomeMoves DEF Ask
  <2> QED BY <2>1 DEF Moves
<1>6. /\ rx[t].turn # 0 /\ \A e \in Devices : pending[d][e] # rx[t].turn
      /\ \A i \in 1..Len(ops[d]) : ops[d][i].kind # "Pending"
  BY <1>1 DEF SenderOK, OneSender
<1> HIDE DEF op
<1>7. \A i \in 1..Len(ops'[d]) :
        ops'[d][i].kind = "Pending" => i = Len(ops[d]) + 1 /\ ops'[d][i] = op
  BY <1>2, <1>4, <1>6, QueueView
<1>8. \E i \in 1..Len(ops'[d]) : ops'[d][i] = op
  BY <1>2, <1>4, QueueKeeps
<1>9. OneSender(d)'
  <2>1. ASSUME NEW i \in 1..Len(ops'[d]), ops'[d][i].kind = "Pending"
        PROVE  /\ rx'[t].at = "wait" /\ ops'[d][i].turn = rx'[t].turn
               /\ \A e \in Devices : pending'[d][e] # rx'[t].turn
               /\ \A j \in 1..Len(ops'[d]) : ops'[d][j].kind = "Pending" => i = j
    BY <1>3, <1>4, <1>5, <1>6, <1>7, <2>1
  <2> QED BY <1>5, <2>1 DEF OneSender, Server
<1>10. Answerable(d)'
  BY <1>3, <1>5, <1>6, <1>8 DEF Answerable, Server
<1> QED BY <1>9, <1>10 DEF SenderOK

\* A wait ends when its reply sender is not in the channel any more.
LEMMA SenderEnds ==
  ASSUME TypeOK, NEW d \in Devices, SendersStay(d),
         \A i \in 1..Len(ops[d]) : ops[d][i].kind # "Pending",
         rx'[Server(d)].at \in {"add", "refuse"}
  PROVE  SenderOK(d)'
<1>1. \A i \in 1..Len(ops'[d]) : ops'[d][i].kind # "Pending"
  BY DEF SendersStay
<1>2. OneSender(d)'
  BY <1>1 DEF OneSender, Server
<1>3. Answerable(d)'
  BY DEF Answerable, Server
<1> QED BY <1>2, <1>3 DEF SenderOK

\* The senders of a device are kept by the servers, ...
LEMMA SenderServer ==
  ASSUME TypeOK, Awaited, CurrentTurn, NEW d \in Devices, SenderOK(d),
         NEW x \in Devices, ServerTask(x) \/ TimeOut(x)
  PROVE  SenderOK(d)'
<1> DEFINE t == Server(x)
<1>1. /\ t \in Tasks /\ rx[t].turn \in Nat /\ (rx[t].at # "idle" => rx[t].peer \in Devices)
      /\ t = Server(d) => x = d
  BY ServerTasks DEF TypeOK, Awaited
<1>2. ASSUME NEW l \in Links, l[2] = x, TakeRequest(l) PROVE SenderOK(d)'
  <2>1. CASE x = d BY <1>2, <2>1, SenderRequest
  <2>2. CASE x # d
    <3> DEFINE r == [at |-> "check", peer |-> l[1], turn |-> rx[t].turn + 1]
               op == Op("Check", l[1], t, rx[t].turn + 1)
    <3>1. Moves(t, r)
      BY <1>1, <1>2 DEF TakeRequest, Moves, TypeOK
    <3>2. op \in Operations
      BY <1>1, LinkTasks DEF Op, Operations, Kinds
    <3>3. op.kind = "Check"
      BY DEF Op
    <3>4. Queue(x, op) /\ UNCHANGED pending
      BY <1>2 DEF TakeRequest
    <3> HIDE DEF op, r
    <3>5. SendersStay(d)
      BY <3>2, <3>3, <3>4, QueueSenders
    <3> HIDE DEF t
    <3> QED BY <1>1, <2>2, <3>1, <3>4, <3>5, QuietStep
  <2> QED BY <2>1, <2>2
<1>3. CASE Ask(x)
  <2>1. CASE x = d BY <1>3, <2>1, SenderAsk
  <2>2. CASE x # d
    <3> DEFINE r == [at |-> "wait", peer |-> rx[t].peer, turn |-> rx[t].turn]
               op == Op("Pending", rx[t].peer, t, rx[t].turn)
    <3>1. Moves(t, r)
      BY <1>1, <1>3, BecomeMoves DEF Ask
    <3>2. op \in Operations
      BY <1>1, <1>3 DEF Ask, Op, Operations, Kinds
    <3>3. Queue(x, op) /\ UNCHANGED pending
      BY <1>3 DEF Ask
    <3> HIDE DEF op, r
    <3>4. ops'[d] = ops[d]
      BY <2>2, <3>3 DEF Queue, TypeOK
    <3>5. SendersStay(d)
      BY <3>4 DEF SendersStay
    <3> HIDE DEF t
    <3> QED BY <1>1, <2>2, <3>1, <3>3, <3>5, QuietStep
  <2> QED BY <2>1, <2>2
<1>4. CASE StartAdd(x)
  <2> DEFINE r == [at |-> "adding", peer |-> rx[t].peer, turn |-> rx[t].turn]
             op == Op("Add", rx[t].peer, t, 0)
  <2>1. Moves(t, r)
    BY <1>1, <1>4, BecomeMoves DEF StartAdd
  <2>2. op \in Operations
    BY <1>1, <1>4 DEF StartAdd, Op, Operations, Kinds
  <2>3. op.kind = "Add"
    BY DEF Op
  <2>4. Queue(x, op) /\ UNCHANGED pending
    BY <1>4 DEF StartAdd
  <2>5. Quiet(rx[t], r)
    BY <1>4 DEF StartAdd, Quiet
  <2> HIDE DEF op, r
  <2>6. SendersStay(d)
    BY <2>2, <2>3, <2>4, QueueSenders
  <2> HIDE DEF t
  <2> QED BY <1>1, <2>1, <2>4, <2>5, <2>6, QuietStep
<1>5. CASE Respond(x)
  <2> DEFINE r == [at |-> "idle", peer |-> None, turn |-> rx[t].turn]
  <2>1. Moves(t, r) /\ UNCHANGED <<ops, pending>>
    BY <1>1, <1>5, FinishMoves DEF Respond
  <2>2. Quiet(rx[t], r)
    BY <1>5 DEF Respond, Quiet
  <2> HIDE DEF r, t
  <2> QED BY <1>1, <2>1, <2>2, SameSenders, QuietStep
<1>6. CASE TimeOut(x)
  <2> DEFINE r == [at |-> "refuse", peer |-> rx[t].peer, turn |-> rx[t].turn]
  <2>1. Moves(t, r) /\ UNCHANGED <<ops, pending>> /\ r.at = "refuse"
    BY <1>1, <1>6, BecomeMoves DEF TimeOut
  <2>2. SendersStay(d)
    BY <2>1, SameSenders
  <2>3. CASE x = d
    <3>1. \A i \in 1..Len(ops[d]) : ops[d][i].kind # "Pending"
      BY <1>6, <2>3 DEF TimeOut
    <3> QED BY <1>1, <2>1, <2>2, <2>3, <3>1, SenderEnds DEF Moves
  <2>4. CASE x # d
    <3> HIDE DEF r, t
    <3> QED BY <1>1, <2>1, <2>2, <2>4, QuietStep
  <2> QED BY <2>3, <2>4
<1>7. ASSUME NEW l \in Links, l[2] = x, TakeClip(l) PROVE SenderOK(d)'
  BY <1>1, <1>7, LinkTasks, SenderClip DEF TakeClip
<1>8. CASE WriteClip(t)
  BY <1>1, <1>8, SenderWrite
<1> QED BY <1>2, <1>3, <1>4, <1>5, <1>6, <1>7, <1>8 DEF ServerTask

\* ... by the clients, ...
LEMMA SenderClient ==
  ASSUME TypeOK, Awaited, NEW d \in Devices, SenderOK(d), NEW l \in Links,
         Connect(l) \/ Disconnect(l) \/ ClientTask(l)
  PROVE  SenderOK(d)'
<1>1. l \in Tasks /\ l[1] \in Devices /\ l[2] \in Devices /\ l # Server(d)
  BY LinkTasks, ServerTasks
<1>2. CASE Connect(l) \/ Disconnect(l)
  BY <1>2, SameSenders, StillStep DEF Connect, Disconnect
<1>3. ASSUME NEW m \in down[l], TakeAnswer(l, m), m.ok PROVE SenderOK(d)'
  <2> DEFINE op == Op("Add", l[2], l, 0)
  <2>1. op \in Operations
    BY <1>1 DEF Op, Operations, Kinds
  <2>2. op.kind = "Add"
    BY DEF Op
  <2>3. Queue(l[1], op) /\ UNCHANGED pending
    BY <1>3 DEF TakeAnswer
  <2>4. Moves(l, rx'[l])
    BY <1>3 DEF TakeAnswer, Moves, TypeOK
  <2> HIDE DEF op
  <2>5. SendersStay(d)
    BY <1>1, <2>1, <2>2, <2>3, QueueSenders
  <2>6. PICK r : r = rx'[l]
    OBVIOUS
  <2> QED BY <1>1, <2>3, <2>4, <2>5, <2>6, QuietStep DEF Moves
<1>4. ASSUME NEW m \in down[l], TakeAnswer(l, m), ~m.ok PROVE SenderOK(d)'
  BY <1>4, SameSenders, StillStep DEF TakeAnswer
<1>5. CASE TakeServerClip(l)
  BY <1>1, <1>5, SenderClip DEF TakeServerClip
<1>6. CASE WriteClip(l)
  BY <1>1, <1>6, SenderWrite
<1> QED BY <1>2, <1>3, <1>4, <1>5, <1>6 DEF ClientTask

\* ... by the windows, ...
LEMMA SenderWindow ==
  ASSUME TypeOK, Awaited, NEW d \in Devices, SenderOK(d), NEW x \in Devices, Window(x)
  PROVE  SenderOK(d)'
<1>1. ASSUME NEW op \in Operations, op.kind # "Pending", Queue(x, op),
             UNCHANGED <<rx, pending>>
      PROVE  SenderOK(d)'
  BY <1>1, QueueSenders, StillStep
<1>2. ASSUME NEW e \in Devices \cup {None}, NEW kind \in Kinds
      PROVE  Op(kind, e, None, 0) \in Operations /\ Op(kind, e, None, 0).kind = kind
  BY DEF Op, Operations
<1>3. prompt[x] \in Devices \cup {None}
  BY DEF TypeOK
<1>4. {"Approve", "Reject", "List", "Remove"} \subseteq Kinds \ {"Pending"}
  BY DEF Kinds
<1>5. CASE Approve(x)
  BY <1>1, <1>2, <1>3, <1>4, <1>5 DEF Approve
<1>6. CASE Reject(x)
  BY <1>1, <1>2, <1>3, <1>4, <1>6 DEF Reject
<1>7. CASE Load(x)
  BY <1>1, <1>2, <1>4, <1>7 DEF Load
<1>8. ASSUME NEW e \in Devices, Remove(x, e) PROVE SenderOK(d)'
  BY <1>1, <1>2, <1>4, <1>8 DEF Remove
<1> QED BY <1>5, <1>6, <1>7, <1>8 DEF Window

\* What keeping the sender of the turn leaves: none in the channel, one in the map.
LEMMA SenderKept ==
  ASSUME TypeOK, Awaited, CurrentTurn, NEW d \in Devices, SenderOK(d), HandlePending(d)
  PROVE  SenderOK(d)'
<1> DEFINE t == Server(d)
           op == Head(ops[d])
<1>1. /\ Take(d, "Pending") /\ UNCHANGED rx
      /\ pending' = [pending EXCEPT ![d] = [pending[d] EXCEPT ![op.device] = op.turn]]
  BY DEF HandlePending
<1>2. /\ op = ops[d][1] /\ 1 \in 1..Len(ops[d]) /\ op.kind = "Pending"
      /\ op.device \in Devices
  BY <1>1, TakeView
<1>3. /\ rx[t].at = "wait" /\ op.turn = rx[t].turn
      /\ \A j \in 1..Len(ops[d]) : ops[d][j].kind = "Pending" => 1 = j
  BY <1>2 DEF SenderOK, OneSender
<1>4. rx[t].turn # 0
  BY <1>3 DEF SenderOK, Answerable
<1>5. rx[t].peer = op.device
  <2>1. OfTurn(t, op.turn, op.device)
    BY <1>2 DEF CurrentTurn
  <2> QED BY <1>3, <1>4, <2>1 DEF OfTurn, Apart
<1>6. ASSUME NEW i \in 1..Len(ops'[d]) PROVE ops'[d][i].kind # "Pending"
  <2>1. i + 1 \in 1..Len(ops[d]) /\ ops'[d][i] = ops[d][i + 1]
    BY <1>1, TakeView
  <2>2. i + 1 # 1
    OBVIOUS
  <2> QED BY <1>3, <2>1, <2>2
<1>7. pending'[d][rx[t].peer] = rx[t].turn
  <2>1. pending[d] \in [Devices -> Nat] /\ pending \in [Devices -> [Devices -> Nat]]
    BY DEF TypeOK
  <2> HIDE DEF op
  <2> QED BY <1>1, <1>2, <1>3, <1>5, <2>1
<1>8. rx'[t] = rx[t]
  BY <1>1
<1>9. OneSender(d)'
  BY <1>3, <1>6, <1>8 DEF OneSender, Server
<1>10. Answerable(d)'
  BY <1>4, <1>7, <1>8 DEF Answerable, Server
<1> QED BY <1>9, <1>10 DEF SenderOK

\* A reply either ends the wait whose sender it uses, or uses one of an earlier turn.
LEMMA SenderReply ==
  ASSUME TypeOK, Awaited, CurrentTurn, NEW d \in Devices, SenderOK(d),
         NEW kind, kind # "Pending", kind # "List", Take(d, kind),
         NEW place \in {"add", "refuse"}, Reply(d, place)
  PROVE  SenderOK(d)'
<1> DEFINE t == Server(d)
           e == Head(ops[d]).device
<1>1. t \in Tasks /\ SendersStay(d) /\ e \in Devices
  BY ServerTasks, TakeSenders, TakeView
<1>2. /\ pending \in [Devices -> [Devices -> Nat]]
      /\ pending' = [pending EXCEPT ![d] = [pending[d] EXCEPT ![e] = 0]]
  BY DEF Reply, TypeOK
<1> HIDE DEF e
<1>3. \A f \in Devices : pending'[d][f] = IF f = e THEN 0 ELSE pending[d][f]
  BY <1>1, <1>2
<1>4. CASE /\ pending[d][e] # 0
           /\ rx[t].at = "wait" /\ rx[t].turn = pending[d][e]
  <2>1. Become(t, place)
    BY <1>4 DEF Reply, e
  <2>2. rx'[t].at = place
    <3>1. Moves(t, [at |-> place, peer |-> rx[t].peer, turn |-> rx[t].turn])
      BY <1>1, <2>1, BecomeMoves
    <3> QED BY <3>1 DEF Moves
  <2>3. \A i \in 1..Len(ops[d]) : ops[d][i].kind # "Pending"
    BY <1>1, <1>4 DEF SenderOK, OneSender
  <2> QED BY <1>1, <2>2, <2>3, SenderEnds
<1>5. CASE ~(/\ pending[d][e] # 0
             /\ rx[t].at = "wait" /\ rx[t].turn = pending[d][e])
  <2>1. UNCHANGED rx
    BY <1>5 DEF Reply, e
  <2>2. rx[t].at = "wait" => rx[t].turn # 0 /\ rx[t].peer \in Devices
    BY <1>1 DEF SenderOK, Answerable, Awaited
  <2> QED BY <1>1, <1>3, <1>5, <2>1, <2>2, QuietSenders DEF Quiet
<1> QED BY <1>4, <1>5

\* Nothing changes for a device when another one's storage thread handles a reply sender.
LEMMA SenderOthers ==
  ASSUME TypeOK, Awaited, NEW d \in Devices, SenderOK(d), NEW x \in Devices, x # d,
         UNCHANGED rx \/ (\E r : Moves(Server(x), r)),
         ops'[d] = ops[d], pending'[d] = pending[d]
  PROVE  SenderOK(d)'
<1>1. Server(d) \in Tasks /\ Server(d) # Server(x)
  BY ServerTasks
<1>2. rx'[Server(d)] = rx[Server(d)]
  BY <1>1 DEF Moves
<1>3. SendersStay(d)
  <2>1. /\ \A i \in 1..Len(ops'[d]) : i + 0 \in 1..Len(ops[d]) /\ ops'[d][i] = ops[d][i + 0]
        /\ \A i \in 1..Len(ops[d]) : i - 0 \in 1..Len(ops'[d]) /\ ops'[d][i - 0] = ops[d][i]
    OBVIOUS
  <2> QED BY <2>1 DEF SendersStay
<1>4. rx[Server(d)].at = "wait" => rx[Server(d)].peer \in Devices
  BY <1>1 DEF Awaited
<1> QED BY <1>2, <1>3, <1>4, QuietSenders DEF Quiet

\* ... and by the storage threads.
LEMMA SenderStorage ==
  ASSUME TypeOK, Awaited, CurrentTurn, NEW d \in Devices, SenderOK(d),
         NEW x \in Devices, Storage(x)
  PROVE  SenderOK(d)'
<1> DEFINE op == Head(ops[x])
<1>1. ASSUME NEW kind, Take(x, kind), x # d PROVE ops'[d] = ops[d]
  BY <1>1 DEF Take, TypeOK
<1>2. ASSUME NEW kind, kind # "Pending", Take(x, kind), UNCHANGED <<rx, pending>>
      PROVE  SenderOK(d)'
  BY <1>2, TakeSenders, StillStep
\* the task that waits for the operation goes on
<1>3. ASSUME NEW kind, kind # "Pending", Take(x, kind), UNCHANGED pending,
             op.task \in Tasks, rx[op.task].at # "wait",
             \/ \E place \in {"accept", "write"} : Become(op.task, place)
             \/ rx[op.task].at = "check" /\ Become(op.task, "ask")
             \/ Finish(op.task)
      PROVE  SenderOK(d)'
  <2> DEFINE u == op.task
  <2>1. SendersStay(d)
    BY <1>3, TakeSenders
  <2>2. PICK r : Moves(u, r) /\ Quiet(rx[u], r)
    <3> DEFINE s(place) == [at |-> place, peer |-> rx[u].peer, turn |-> rx[u].turn]
               f == [at |-> "idle", peer |-> None, turn |-> rx[u].turn]
    <3>1. \A place \in {"accept", "write"} : Quiet(rx[u], s(place))
      BY <1>3 DEF Quiet
    <3>2. rx[u].at = "check" => Quiet(rx[u], s("ask"))
      BY DEF Quiet
    <3>3. Quiet(rx[u], f)
      BY <1>3 DEF Quiet
    <3>4. \A place : Become(u, place) => Moves(u, s(place))
      <4> HIDE DEF op
      <4> QED BY <1>3, BecomeMoves
    <3>5. Finish(u) => Moves(u, f)
      <4> HIDE DEF op
      <4> QED BY <1>3, FinishMoves
    <3> HIDE DEF s, f, op
    <3> QED BY <1>3, <3>1, <3>2, <3>3, <3>4, <3>5
  <2> HIDE DEF op
  <2> QED BY <1>3, <2>1, <2>2, QuietStep
<1>4. CASE HandleCheck(x) \/ CheckFails(x)
  <2>1. Take(x, "Check") /\ UNCHANGED pending
    BY <1>4 DEF HandleCheck, CheckFails
  <2>2. op = ops[x][1] /\ 1 \in 1..Len(ops[x]) /\ op.kind = "Check"
    BY <2>1, TakeView
  <2>3. op.task \in Tasks /\ rx[op.task].at # "wait"
    BY <2>2 DEF Awaited, IsAwaited, AwaitedAt
  <2>4. \E yes : Checked(op.task, yes)
    BY <1>4 DEF HandleCheck, CheckFails
  <2> HIDE DEF op
  <2>5. \/ \E place \in {"accept", "write"} : Become(op.task, place)
        \/ rx[op.task].at = "check" /\ Become(op.task, "ask")
        \/ Finish(op.task)
    BY <2>4 DEF Checked
  <2> QED BY <1>3, <2>1, <2>3, <2>5
<1>5. CASE HandleAdd(x) \/ AddFails(x)
  <2>1. Take(x, "Add") /\ UNCHANGED pending
    BY <1>5 DEF HandleAdd, AddFails
  <2>2. op = ops[x][1] /\ 1 \in 1..Len(ops[x]) /\ op.kind = "Add"
    BY <2>1, TakeView
  <2>3. op.task \in Tasks /\ rx[op.task].at # "wait" /\ op.task # None
    BY <2>2, TaskOwner DEF Awaited, IsAwaited, AwaitedAt
  <2>4. Become(op.task, "accept") \/ Finish(op.task)
    BY <1>5, <2>3 DEF HandleAdd, AddFails, Added
  <2> HIDE DEF op
  <2> QED BY <1>3, <2>1, <2>3, <2>4
<1>6. CASE HandleRemove(x) \/ RemoveFails(x) \/ HandleList(x)
  BY <1>2, <1>6 DEF HandleRemove, RemoveFails, HandleList
<1>7. CASE HandlePending(x)
  <2>1. CASE x = d
    BY <1>7, <2>1, SenderKept
  <2>2. CASE x # d
    BY <1>1, <1>7, <2>2, SenderOthers DEF HandlePending, TypeOK
  <2> QED BY <2>1, <2>2
<1>8. ASSUME NEW kind, kind \notin {"Pending", "List"}, Take(x, kind),
             NEW place \in {"add", "refuse"}, Reply(x, place)
      PROVE  SenderOK(d)'
  <2>1. CASE x = d
    BY <1>8, <2>1, SenderReply
  <2>2. CASE x # d
    <3>1. UNCHANGED rx \/ \E r : Moves(Server(x), r)
      BY <1>8, ReplyMoves
    <3>2. pending'[d] = pending[d]
      BY <1>8, <2>2 DEF Reply, TypeOK
    <3> QED BY <1>1, <1>8, <2>2, <3>1, <3>2, SenderOthers
  <2> QED BY <2>1, <2>2
<1>9. CASE HandleApprove(x)
  BY <1>8, <1>9 DEF HandleApprove
<1>10. CASE HandleReject(x)
  BY <1>8, <1>10 DEF HandleReject
<1> QED BY <1>4, <1>5, <1>6, <1>7, <1>9, <1>10 DEF Storage

\* Every step keeps the reply senders in order, and the replies on their way.
LEMMA SenderStep ==
  ASSUME TypeOK, Awaited, CurrentTurn, [Next]_vars, NEW d \in Devices, SenderOK(d)
  PROVE  SenderOK(d)'
<1>1. ASSUME NEW x \in Devices, Push(x) PROVE SenderOK(d)'
  BY <1>1, SameSenders, StillStep DEF Push
<1>2. CASE UNCHANGED vars
  BY <1>2, SameSenders, StillStep DEF vars
<1> QED BY <1>1, <1>2, LoadersAssumption, SenderServer, SenderClient, SenderWindow,
           SenderStorage
    DEF Next

\* The inductive invariant holds at first.
LEMMA PairingInit == Init => PairingInv
<1> SUFFICES ASSUME Init PROVE PairingInv
  OBVIOUS
<1>1. Awaited
  BY TypeInit
<1>2. CurrentTurn
  BY ServerTasks DEF Init, CurrentTurn, OfTurn
<1>3. Approvals /\ Told /\ Untouched
  BY DEF Init, Approvals, AddedWithApproval, Told, StoredBeforeTold, Untouched,
         NothingWithoutApproval
<1>4. OutOfTable
  BY DEF Init, OutOfTable, RemovedIsNotWritten
<1>5. NoLostReply /\ \A d \in Devices : OneSender(d)
  BY ServerTasks DEF Init, NoLostReply, Waiting, Answerable, OneSender
<1> QED BY <1>1, <1>2, <1>3, <1>4, <1>5 DEF PairingInv

\* The inductive invariant of pairing: every reply goes to the task and the request it
\* is for, and everything on its way to a table stems from an approval.
THEOREM PairingInvariant == Spec => [](TypeOK /\ PairingInv)
<1>1. Init => TypeOK /\ PairingInv
  BY TypeInit, PairingInit
<1>2. TypeOK /\ PairingInv /\ [Next]_vars => TypeOK' /\ PairingInv'
  <2> SUFFICES ASSUME TypeOK, PairingInv, [Next]_vars PROVE TypeOK' /\ PairingInv'
    OBVIOUS
  <2>1. TypeOK' /\ Awaited' /\ CurrentTurn'
    BY TypeStep, AwaitedStep, CurrentTurnStep DEF PairingInv
  <2>2. Approvals' /\ Told' /\ Untouched' /\ OutOfTable'
    BY <2>1, ApprovalsStep, ToldStep, UntouchedStep, OutOfTableStep DEF PairingInv
  <2>3. \A d \in Devices : SenderOK(d)'
    BY SenderStep DEF PairingInv, NoLostReply, SenderOK
  <2>4. NoLostReply' /\ \A d \in Devices : OneSender(d)'
    BY <2>1, <2>3 DEF NoLostReply, SenderOK, Awaited
  <2> QED BY <2>1, <2>2, <2>4 DEF PairingInv
<1> QED BY <1>1, <1>2, PTL DEF Spec

\* A device that adds the sender of a request to its table has its user's approval of
\* that very device, with any number of requests, late answers and replaced prompts.
THEOREM ApprovedFirst == Spec => []AddedWithApproval
<1>1. PairingInv => AddedWithApproval
  BY DEF PairingInv, Approvals
<1> QED BY <1>1, PairingInvariant, PTL

\* Whoever is told that it is accepted is in the table by then, unless the user removed
\* it or the insertion failed.
THEOREM StoredFirst == Spec => []StoredBeforeTold
<1>1. PairingInv => StoredBeforeTold
  BY DEF PairingInv, Told
<1> QED BY <1>1, PairingInvariant, PTL

\* No table holds a device, and nothing of another device is written, before the first
\* approval by some user.
THEOREM ConsentFirst == Spec => []NothingWithoutApproval
<1>1. PairingInv => NothingWithoutApproval
  BY DEF PairingInv, Untouched, NothingWithoutApproval
<1> QED BY <1>1, PairingInvariant, PTL

\* No task waits in vain: the reply that a message task waits for is still to come, from
\* an operation in the channel, or through a reply sender that the user's answer will use.
THEOREM RepliesAreNotLost == Spec => []NoLostReply
<1>1. PairingInv => NoLostReply
  BY DEF PairingInv
<1> QED BY <1>1, PairingInvariant, PTL

\* What a removed device pushes is not written, unless its message was taken before the
\* user removed it or a pairing with it goes on: check and removal keep their order.
THEOREM RemovedStaysOut == Spec => []RemovedIsNotWritten
<1>1. PairingInv => RemovedIsNotWritten
  BY DEF PairingInv, OutOfTable
<1> QED BY <1>1, PairingInvariant, PTL

-----------------------------------------------------------------------------
(* Consent between two devices.  OnlyTheRequesterIsTold is violated when the   *)
(* client of a server has changed by the time of its answer.  That is the only *)
(* way: two devices, neither of which any other device ever connects to, are   *)
(* paired because the user of one of them approved the other, whatever the     *)
(* rest does.                                                                  *)

Agreed(d, e) == <<d, e>> \in approved \/ <<e, d>> \in approved

NoOtherClient(d, e) ==
  \A l \in Links : (l[2] = d => l[1] = e) /\ (l[2] = e => l[1] = d)

\* What d has stored, or written, of e.
Trusts(d, e) == e \in paired[d] \/ <<d, e>> \in written

\* The peer of a server's request is one of its clients.
PeersAreClients ==
  \A d \in Devices :
    rx[Server(d)].at \notin Apart => <<rx[Server(d)].peer, d>> \in Links

Consenting == {"add", "adding", "accept", "noting", "write"}

\* All that may become such an entry stems from an approval between the two.
AgreedInv ==
  \A d, e \in Devices : NoOtherClient(d, e) =>
    /\ Trusts(d, e) => Agreed(d, e)
    /\ \A t \in Tasks :
         t[1] = d /\ rx[t].peer = e /\ rx[t].at \in Consenting => Agreed(d, e)
    /\ \A l \in Links : l[1] = d /\ l[2] = e /\ OkAnswer(l) => Agreed(d, e)
    /\ Queued(d, "Add", e) => Agreed(d, e)

\* The peers stay clients.
LEMMA PeersStep ==
  ASSUME TypeOK, Awaited, PeersAreClients, [Next]_vars
  PROVE  PeersAreClients'
<1>1. ASSUME NEW d \in Devices, rx'[Server(d)].at \notin Apart
      PROVE  <<rx'[Server(d)].peer, d>> \in Links
  <2> DEFINE t == Server(d)
  <2>1. t \in Tasks /\ t[1] = d /\ t \notin Links
    BY ServerTasks
  <2>2. TaskView(t)
    BY <2>1, TaskSteps
  <2>3. rx[t].at \notin Apart => <<rx[t].peer, d>> \in Links
    BY DEF PeersAreClients
  <2>4. \/ rx'[t] = rx[t]
        \/ <<rx'[t].peer, t[1]>> \in Links
        \/ rx'[t].peer = rx[t].peer /\ rx[t].at \notin Apart
    <3> HIDE DEF t
    <3> QED BY <1>1, <2>1, <2>2 DEF TaskView, Goes, Apart, t
  <2> QED BY <1>1, <2>1, <2>3, <2>4
<1> QED BY <1>1 DEF PeersAreClients, Server

\* Every step keeps the consent of the two.
LEMMA AgreedStep ==
  ASSUME TypeOK, PairingInv, PeersAreClients, AgreedInv, [Next]_vars
  PROVE  AgreedInv'
<1> SUFFICES ASSUME NEW d \in Devices, NEW e \in Devices, NoOtherClient(d, e)
             PROVE  /\ Trusts(d, e)' => Agreed(d, e)'
                    /\ \A t \in Tasks :
                         t[1] = d /\ rx'[t].peer = e /\ rx'[t].at \in Consenting
                           => Agreed(d, e)'
                    /\ \A l \in Links : l[1] = d /\ l[2] = e /\ OkAnswer(l)' => Agreed(d, e)'
                    /\ Queued(d, "Add", e)' => Agreed(d, e)'
  BY DEF AgreedInv, NoOtherClient
<1>0. Awaited /\ Approvals /\ GhostView /\ \A x \in Devices : TableView(x)
  BY TableSteps DEF PairingInv
<1>1. Agreed(d, e) => Agreed(d, e)'
  BY <1>0 DEF GhostView, Agreed
<1>2. Agreed(d, e) <=> Agreed(e, d)
  BY DEF Agreed
<1>3. NoOtherClient(e, d)
  BY DEF NoOtherClient
<1>4. /\ Trusts(d, e) => Agreed(d, e)
      /\ \A t \in Tasks :
           t[1] = d /\ rx[t].peer = e /\ rx[t].at \in Consenting => Agreed(d, e)
      /\ \A l \in Links : l[1] = d /\ l[2] = e /\ OkAnswer(l) => Agreed(d, e)
      /\ Queued(d, "Add", e) => Agreed(d, e)
  BY DEF AgreedInv
<1>5. \A t \in Tasks :
        t[1] = e /\ rx[t].peer = d /\ rx[t].at \in Consenting => Agreed(e, d)
  BY <1>3 DEF AgreedInv
<1>6. ASSUME Trusts(d, e)' PROVE Agreed(d, e)'
  <2>1. CASE e \in paired'[d]
    BY <1>0, <1>1, <1>4, <2>1 DEF TableView, Trusts
  <2>2. CASE <<d, e>> \in written'
    <3>1. ASSUME NEW t \in Tasks, rx[t].at = "write", <<d, e>> = <<t[1], rx[t].peer>>
          PROVE  Agreed(d, e)'
      BY <1>1, <1>4, <3>1 DEF Consenting
    <3> QED BY <1>0, <1>1, <1>4, <2>2, <3>1 DEF GhostView, Trusts
  <2> QED BY <1>6, <2>1, <2>2 DEF Trusts
<1>7. ASSUME NEW t \in Tasks, t[1] = d, rx'[t].peer = e, rx'[t].at \in Consenting
      PROVE  Agreed(d, e)'
  <2>1. TaskView(t)
    BY <1>0, TaskSteps
  <2>2. CASE rx[t].at \in Consenting /\ rx[t].peer = rx'[t].peer
    BY <1>1, <1>4, <1>7, <2>2
  <2>3. CASE rx'[t].at = "accept" \/ rx'[t].at = "write"
    <3>1. CASE rx[t].peer \in paired[d] /\ rx[t].peer = rx'[t].peer
      BY <1>1, <1>4, <1>7, <3>1 DEF Trusts
    <3> QED BY <1>7, <2>1, <2>2, <2>3, <3>1 DEF TaskView, Goes, Consenting
  <2>4. CASE rx'[t].at = "noting"
    <3>1. CASE t \in Links /\ OkAnswer(t) /\ rx'[t].peer = t[2]
      BY <1>1, <1>4, <1>7, <3>1
    <3> QED BY <2>1, <2>2, <2>4, <3>1 DEF TaskView, Goes, Consenting
  <2>5. CASE rx'[t].at \in {"add", "adding"}
    <3>1. Approvals'
      BY <1>0, ApprovalsStep DEF PairingInv
    <3> QED BY <1>7, <2>5, <3>1 DEF Approvals, Agreed
  <2> QED BY <1>7, <2>3, <2>4, <2>5 DEF Consenting
<1>8. ASSUME NEW l \in Links, l[1] = d, l[2] = e, OkAnswer(l)' PROVE Agreed(d, e)'
  <2>1. PICK m \in down'[l] : m.ok
    BY <1>8 DEF OkAnswer
  <2>2. CASE m \in down[l]
    BY <1>1, <1>4, <1>8, <2>1, <2>2 DEF OkAnswer
  <2>3. CASE m \notin down[l]
    <3> DEFINE t == Server(e)
    <3>1. rx[t].at \in {"accept", "refuse"} /\ m.ok = (rx[t].at = "accept")
      BY <1>8, <2>1, <2>3, AnswerSteps DEF AnswerView
    <3>2. t \in Tasks /\ t[1] = e /\ rx[t].at = "accept"
      BY <2>1, <3>1, ServerTasks
    <3>3. <<rx[t].peer, e>> \in Links
      BY <3>2 DEF PeersAreClients, Apart
    <3>4. rx[t].peer = d
      BY <3>3 DEF NoOtherClient
    <3> QED BY <1>1, <1>2, <1>5, <3>2, <3>4 DEF Consenting
  <2> QED BY <2>2, <2>3
<1>9. ASSUME Queued(d, "Add", e)' PROVE Agreed(d, e)'
  <2>1. PICK i \in 1..Len(ops'[d]) : ops'[d][i].kind = "Add" /\ ops'[d][i].device = e
    BY <1>9 DEF Queued
  <2>2. OpView(d, i)
    BY <1>0, OpSteps
  <2>3. CASE \E k \in 1..Len(ops[d]) : ops'[d][i] = ops[d][k]
    BY <1>1, <1>4, <2>1, <2>3 DEF Queued
  <2>4. CASE rx[Server(d)].at = "add" /\ e = rx[Server(d)].peer
    BY <1>1, <1>4, <2>4, ServerTasks DEF Consenting
  <2>5. ASSUME NEW l \in Links, OkAnswer(l), l[1] = d, e = l[2] PROVE Agreed(d, e)'
    BY <1>1, <1>4, <2>5
  <2> QED BY <2>1, <2>2, <2>3, <2>4, <2>5 DEF OpView, NewOp
<1> QED BY <1>6, <1>7, <1>8, <1>9

\* What d stores or writes of e, neither ever having another client, was approved by a
\* user of the two.
ConsentBetween ==
  \A d, e \in Devices : NoOtherClient(d, e) /\ Trusts(d, e) => Agreed(d, e)

\* Two devices of which neither ever has another client have each other in their tables,
\* and write what the other pushes, only after the user of one has approved the other: the
\* answer that reaches whoever is the client by then (app.rs,
\* handle_incoming_messages_task) is the only leak.
THEOREM PairsConsent == Spec => []ConsentBetween
<1>1. Init => PeersAreClients /\ AgreedInv
  <2>1. ASSUME Init PROVE PeersAreClients
    BY <2>1, ServerTasks DEF Init, PeersAreClients, Apart
  <2>2. ASSUME Init PROVE AgreedInv
    BY <2>2 DEF Init, AgreedInv, Trusts, Consenting, OkAnswer, Queued
  <2> QED BY <2>1, <2>2
<1>2. TypeOK /\ PairingInv /\ PeersAreClients /\ AgreedInv /\ [Next]_vars
        => PeersAreClients' /\ AgreedInv'
  BY PeersStep, AgreedStep DEF PairingInv
<1>3. AgreedInv => ConsentBetween
  BY DEF AgreedInv, ConsentBetween
<1> QED BY <1>1, <1>2, <1>3, PairingInvariant, PTL DEF Spec
=============================================================================
