--------------------------- MODULE DiscoveryProofs ---------------------------
(***************************************************************************)
(* Proofs about the list of devices: its types, that who is gone leaves    *)
(* it in time and is not shown as online before, that who is linked stays, *)
(* and that a removal is of the remote it is about.                        *)
(***************************************************************************)
EXTENDS Discovery, TLAPS

Slot == Entries \cup {None}

\* A sequence over S with one more element, or without its head, is one over S.
LEMMA SeqSteps ==
  ASSUME NEW S, NEW s \in Seq(S)
  PROVE  /\ \A x \in S : /\ Append(s, x) \in Seq(S)
                         /\ Len(Append(s, x)) = Len(s) + 1
                         /\ Append(s, x)[Len(s) + 1] = x
                         /\ \A k \in 1 .. Len(s) : Append(s, x)[k] = s[k]
         /\ s # <<>> => /\ Head(s) \in S /\ Head(s) = s[1] /\ Tail(s) \in Seq(S)
                        /\ Len(Tail(s)) = Len(s) - 1 /\ Len(s) >= 1
                        /\ \A k \in 1 .. Len(s) - 1 : Tail(s)[k] = s[k + 1]
OBVIOUS

\* Sequences of different length differ.
LEMMA OtherLength == ASSUME NEW s, NEW t, Len(s) # Len(t) PROVE s # t
BY Zenon

(* The list *)

\* A new entry has its type, and the age 0.
LEMMA EntryType ==
  ASSUME NEW n \in Names, NEW f \in Names \cup {None}
  PROVE  /\ Entry(0, n, f) \in Entries
         /\ Entry(0, n, f).age = 0 /\ Entry(0, n, f).full = f
BY DEF Entry, Entries

\* What is inserted is the entry of one remote.
LEMMA InsertView ==
  ASSUME TypeOK, NEW d \in Remotes, NEW n \in Names, NEW f \in Names \cup {None},
         Insert(d, n, f)
  PROVE  /\ list' \in [Remotes -> Slot]
         /\ poisoned => list' = list
         /\ ~poisoned => /\ list'[d] = Entry(0, n, f)
                         /\ \A e \in Remotes \ {d} : list'[e] = list[e]
<1>1. list \in [Remotes -> Slot] BY DEF TypeOK, Slot
<1>2. Entry(0, n, f) \in Slot BY EntryType DEF Slot
<1>3. list' = IF poisoned THEN list ELSE [list EXCEPT ![d] = Entry(0, n, f)]
  BY DEF Insert, Write
<1> QED BY <1>1, <1>2, <1>3

\* What is deleted is the entries of gone.
LEMMA DeleteView ==
  ASSUME TypeOK, NEW gone, Delete(gone)
  PROVE  /\ list' \in [Remotes -> Slot]
         /\ poisoned => list' = list
         /\ ~poisoned => \A e \in Remotes :
                           list'[e] = IF e \in gone THEN None ELSE list[e]
<1>1. list \in [Remotes -> Slot] /\ None \in Slot BY DEF TypeOK, Slot
<1>2. list' = IF poisoned THEN list
              ELSE [e \in Remotes |-> IF e \in gone THEN None ELSE list[e]]
  BY DEF Delete, Write
<1> QED BY <1>1, <1>2

\* An entry of another age.
LEMMA AgeType ==
  ASSUME NEW r \in Entries, NEW x \in Int
  PROVE  /\ [r EXCEPT !.age = x] \in Entries
         /\ [r EXCEPT !.age = x].age = x /\ [r EXCEPT !.age = x].full = r.full
BY DEF Entries

\* With time only the ages change.
LEMMA OlderView ==
  ASSUME TypeOK, NEW j \in Int, GrowOlder(j)
  PROVE  /\ list' \in [Remotes -> Slot]
         /\ poisoned => list' = list
         /\ ~poisoned => \A e \in Remotes :
              /\ e \in Listed => list'[e] = [list[e] EXCEPT !.age = list[e].age + j]
              /\ e \notin Listed => list'[e] = None
<1>1. list \in [Remotes -> Slot] /\ None \in Slot BY DEF TypeOK, Slot
<1>2. list' = IF poisoned THEN list
              ELSE [e \in Remotes |-> IF e \in Listed
                                      THEN [list[e] EXCEPT !.age = list[e].age + j]
                                      ELSE None]
  BY DEF GrowOlder, Write
<1>3. ASSUME NEW e \in Listed
      PROVE  [list[e] EXCEPT !.age = list[e].age + j] \in Slot
  <2>1. list[e] \in Entries BY <1>1, <1>3 DEF Listed, Slot
  <2>2. list[e].age + j \in Int BY <2>1 DEF Entries
  <2> QED BY <2>1, <2>2, AgeType DEF Slot
<1> QED BY <1>1, <1>2, <1>3

\* A round makes the entries of linked remotes new.
LEMMA RoundView ==
  ASSUME TypeOK, Round
  PROVE  /\ list' \in [Remotes -> Slot]
         /\ \A e \in Remotes :
              /\ e \in Kept \cap Listed => list'[e] = [list[e] EXCEPT !.age = 0]
              /\ e \notin Kept \cap Listed => list'[e] = list[e]
<1>1. list \in [Remotes -> Slot] BY DEF TypeOK, Slot
<1>2. list' = [e \in Remotes |-> IF e \in Kept \cap Listed
                                 THEN [list[e] EXCEPT !.age = 0] ELSE list[e]]
  BY DEF Round
<1>3. ASSUME NEW e \in Listed
      PROVE  [list[e] EXCEPT !.age = 0] \in Slot
  <2>1. list[e] \in Entries BY <1>1, <1>3 DEF Listed, Slot
  <2> QED BY <2>1, AgeType DEF Slot
<1> QED BY <1>1, <1>2, <1>3
-----------------------------------------------------------------------------
(* Types                                                                   *)

\* The events that are appended have their type.
LEMMA EventTypes ==
  ASSUME NEW n \in Names
  PROVE  /\ \A d \in Remotes : Resolved(d, n) \in Events
         /\ \A by \in SUBSET Remotes : Removed(n, by) \in Events
BY DEF Resolved, Removed, Events

\* away keeps its type when it is set to zero.
LEMMA HereType ==
  ASSUME TypeOK, NEW d \in Remotes, Here(d)
  PROVE  away' \in [Remotes -> 0 .. LongAway]
<1>1. away \in [Remotes -> 0 .. LongAway] BY DEF TypeOK
<1>2. 0 \in 0 .. LongAway BY TimeAssumption DEF LongAway
<1> QED BY <1>1, <1>2 DEF Here

\* The event at the head has its type, and the rest of the queue.
LEMMA HeadTypes ==
  ASSUME TypeOK, events # <<>>
  PROVE  /\ Tail(events) \in Seq(Events) /\ Head(events).name \in Names
         /\ Head(events).what = "resolved" => Head(events).device \in Remotes
<1>1. events \in Seq(Events) BY DEF TypeOK
<1>2. Head(events) \in Events /\ Tail(events) \in Seq(Events) BY <1>1, SeqSteps
<1> QED BY <1>2 DEF Events

\* Each step keeps the types.
LEMMA TypesStep == TypeOK /\ [Next]_vars => TypeOK'
<1> SUFFICES ASSUME TypeOK, [Next]_vars PROVE TypeOK'
  OBVIOUS
<1>t. /\ changes + 1 \in Nat
      /\ clock \in {"right", "forward", "back"}
  BY DEF TypeOK
<1>1. ASSUME NEW d \in Remotes, Appear(d) PROVE TypeOK'
  <2>1. away' \in [Remotes -> 0 .. LongAway] BY <1>1, HereType DEF Appear
  <2>2. up' \in [Remotes -> BOOLEAN] BY <1>1 DEF Appear, TypeOK
  <2>3. shared' \in BOOLEAN BY <1>1 DEF Appear, Shares, TypeOK
  <2> QED BY <1>1, <1>t, <2>1, <2>2, <2>3 DEF Appear, Change, TypeOK, mdns, local, linked, task
<1>2. ASSUME NEW d \in Remotes, Leave(d) PROVE TypeOK'
  <2>1. up' \in [Remotes -> BOOLEAN] BY <1>2 DEF Leave, TypeOK
  <2> QED BY <1>2, <1>t, <2>1
        DEF Leave, Change, TypeOK, mdns, local, linked, task, ghosts
<1>3. ASSUME NEW d \in Remotes, Rename(d) PROVE TypeOK'
  <2>1. name' \in [Remotes -> Names] /\ shared' \in BOOLEAN
    BY <1>3 DEF Rename, Shares, TypeOK
  <2>2. cache' \subseteq Remotes \X Names /\ events' \in Seq(Events)
    <3>1. name[d] \in Names /\ Holders(name[d]) \ Others(d, name[d]) \in SUBSET Remotes
      BY DEF TypeOK, Holders
    <3>2. Removed(name[d], Holders(name[d]) \ Others(d, name[d])) \in Events
      BY <3>1, EventTypes
    <3>3. events \in Seq(Events) /\ cache \subseteq Remotes \X Names BY DEF TypeOK
    <3>4. /\ events' = events \/ events' = Append(events,
                          Removed(name[d], Holders(name[d]) \ Others(d, name[d])))
          /\ cache' \subseteq cache
      BY <1>3 DEF Rename, mdns
    <3> QED BY <3>2, <3>3, <3>4, SeqSteps
  <2> QED BY <1>3, <1>t, <2>1, <2>2 DEF Rename, Change, TypeOK, local, linked, task
<1>4. ASSUME NEW d \in Remotes, Resolve(d) PROVE TypeOK'
  <2>1. name[d] \in Names BY DEF TypeOK
  <2>2. Resolved(d, name[d]) \in Events BY <2>1, EventTypes
  <2>3. events' \in Seq(Events) BY <1>4, <2>2, SeqSteps DEF Resolve, TypeOK
  <2> QED BY <1>4, <2>1, <2>3 DEF Resolve, TypeOK, local, linked, task, ghosts
<1>5. ASSUME NEW n \in Names, Expire(n) PROVE TypeOK'
  <2>1. Holders(n) \in SUBSET Remotes BY DEF Holders
  <2>2. Removed(n, Holders(n)) \in Events BY <2>1, EventTypes
  <2>3. events' \in Seq(Events) BY <1>5, <2>2, SeqSteps DEF Expire, TypeOK
  <2> QED BY <1>5, <2>3 DEF Expire, TypeOK, local, linked, task, ghosts
<1>6. ASSUME NEW d \in Remotes, Hear(d) PROVE TypeOK'
  <2>1. list' \in [Remotes -> Slot]
    <3>1. CASE Insert(d, name[d], None)
      BY <3>1, InsertView DEF TypeOK
    <3>2. CASE list' = list BY <3>2 DEF TypeOK, Slot
    <3> QED BY <1>6, <3>1, <3>2 DEF Hear
  <2>2. changes' \in Nat BY <1>6 DEF Hear, Change, TypeOK
  <2> QED BY <1>6, <2>1, <2>2 DEF Hear, TypeOK, Slot, mdns, local, linked, task, ghosts
<1>7. CASE HandleResolved
  <2>1. /\ Tail(events) \in Seq(Events) /\ Head(events).name \in Names
        /\ Head(events).device \in Remotes
    BY <1>7, HeadTypes DEF HandleResolved, Event
  <2>2. list' \in [Remotes -> Slot]
    BY <1>7, <2>1, InsertView DEF HandleResolved
  <2>3. away' \in [Remotes -> 0 .. LongAway]
    BY <1>7, <2>1, HereType DEF HandleResolved
  <2> QED BY <1>7, <2>1, <2>2, <2>3
        DEF HandleResolved, TypeOK, Slot, local, linked, task
<1>8. CASE HandleRemoved
  <2>1. Tail(events) \in Seq(Events)
    BY <1>8, HeadTypes DEF HandleRemoved, Event
  <2>2. list' \in [Remotes -> Slot] BY <1>8, DeleteView DEF HandleRemoved
  <2> QED BY <1>8, <2>1, <2>2 DEF HandleRemoved, TypeOK, Slot, local, linked, task, ghosts
<1>9. CASE Sweep
  <2>1. list' \in [Remotes -> Slot]
    <3>1. CASE Delete(FromFuture \cup Offline) BY <3>1, DeleteView
    <3>2. CASE list' = list BY <3>2 DEF TypeOK, Slot
    <3> QED BY <1>9, <3>1, <3>2 DEF Sweep
  <2>2. poisoned' \in BOOLEAN BY <1>9 DEF Sweep, TypeOK
  <2>3. sweepIn' \in 0 .. SweepEvery BY <1>9, TimeAssumption DEF Sweep
  <2> QED BY <1>9, <2>1, <2>2, <2>3
        DEF Sweep, TypeOK, Slot, network, mdns, linked, task, ghosts
<1>10. CASE Round
  <2>1. list' \in [Remotes -> Slot] BY <1>10, RoundView
  <2>2. todo' \subseteq Remotes /\ beaten' \subseteq Remotes
    BY <1>10 DEF Round, Listed, TypeOK
  <2> QED BY <1>10, <2>1, <2>2 DEF Round, TypeOK, Slot, network, mdns, linked
<1>11. ASSUME NEW d \in Remotes, Dial(d) PROVE TypeOK'
  BY <1>11 DEF Dial, TypeOK, network, mdns, ghosts
<1>12. ASSUME NEW d \in Remotes, Accepted(d) PROVE TypeOK'
  BY <1>12, <1>t DEF Accepted, Change, TypeOK, network, mdns, task, ghosts
<1>13. ASSUME NEW d \in Remotes, Dropped(d) PROVE TypeOK'
  <2>1. away' \in [Remotes -> 0 .. LongAway] BY <1>13, HereType DEF Dropped
  <2> QED BY <1>13, <1>t, <2>1 DEF Dropped, Change, TypeOK, network, mdns, task
<1>14. CASE Tick
  <2>1. list' \in [Remotes -> Slot] BY <1>14, OlderView DEF Tick
  <2>2. away' \in [Remotes -> 0 .. LongAway]
    <3>1. away \in [Remotes -> 0 .. LongAway] /\ LongAway \in Nat
      BY TimeAssumption DEF TypeOK, LongAway
    <3>2. \A d \in Remotes : away[d] < LongAway => away[d] + 1 \in 0 .. LongAway
      BY <3>1
    <3>3. away' = [d \in Remotes |-> IF up[d] \/ Linked(d) THEN 0
                                     ELSE IF away[d] < LongAway THEN away[d] + 1
                                     ELSE away[d]]
      BY <1>14 DEF Tick
    <3> QED BY <3>1, <3>2, <3>3
  <2>3. sweepIn' \in 0 .. SweepEvery
    BY <1>14, TimeAssumption DEF Tick, TypeOK
  <2> QED BY <1>14, <2>1, <2>2, <2>3 DEF Tick, TypeOK, Slot, mdns, linked
<1>15. CASE SetClock
  <2>1. list' \in [Remotes -> Slot]
    BY <1>15, OlderView, TimeAssumption DEF SetClock
  <2>2. clock' \in {"right", "forward", "back"} BY <1>15 DEF SetClock
  <2> QED BY <1>15, <1>t, <2>1, <2>2
        DEF SetClock, Change, TypeOK, Slot, network, mdns, local, linked, task
<1>16. CASE UNCHANGED vars
  BY <1>16 DEF vars, TypeOK, network, mdns, local, linked, task, ghosts
<1> QED
  BY <1>1, <1>2, <1>3, <1>4, <1>5, <1>6, <1>7, <1>8, <1>9, <1>10, <1>11, <1>12,
     <1>13, <1>14, <1>15, <1>16 DEF Next, Discover

LEMMA TypesInit == Init => TypeOK
<1> SUFFICES ASSUME Init PROVE TypeOK
  OBVIOUS
<1>1. events \in Seq(Events) /\ sweepIn \in 0 .. SweepEvery /\ 0 \in 0 .. LongAway
  BY TimeAssumption DEF Init, LongAway
<1>2. name \in [Remotes -> Names] BY RemoteAssumption DEF Init
<1> QED BY <1>1, <1>2 DEF Init, TypeOK, Shares

\* Every variable keeps its type (mdns.rs, app.rs: the list, its threads and the task).
THEOREM Types == Spec => []TypeOK
BY TypesInit, TypesStep, PTL DEF Spec
-----------------------------------------------------------------------------
(* Ages and absences                                                       *)

\* A broadcast is due of remotes that run, and nobody who runs is missed.
Absence ==
  /\ \A d \in owed : up[d]
  /\ \A d \in Remotes : up[d] => away[d] = 0

\* The task has dealt with its last snapshot when its ticker ticks, and by then
\* nobody is missed who is linked.
RoundFirst ==
  roundDue /\ ~poisoned => todo = {} /\ \A d \in clients \cup inbound : away[d] = 0

\* An entry is at least as old as its remote has been missed, and since the last sweep
\* nobody listed has been missed for longer than Timeout and the time since then.
Ages ==
  clock # "back" =>
    /\ ~poisoned
    /\ \A d \in Listed : /\ away[d] <= list[d].age
                         /\ away[d] <= Timeout + SweepEvery - sweepIn

\* A linked remote that has had a heartbeat has had the last one.
Beats ==
  clock = "right" =>
    \A d \in beaten \cap Listed : list[d].age <= IF roundDue THEN 1 ELSE 0

AgeInv == Absence /\ RoundFirst /\ Ages /\ Beats

\* The steps that leave alone what the ages and absences depend on.
LEMMA AgesFramed ==
  ASSUME AgeInv, UNCHANGED <<list, clients, inbound, roundDue, todo, sweepIn, poisoned,
                             beaten, clock>>,
         Absence', \A d \in Remotes : away'[d] = away[d] \/ away'[d] = 0,
         TypeOK
  PROVE  AgeInv'
<1>1. RoundFirst'
  BY DEF AgeInv, RoundFirst, TypeOK
<1>2. Ages'
  <2>1. \A d \in Listed : away[d] \in Nat /\ list[d].age \in Int
    BY DEF Listed, TypeOK, Entries, LongAway
  <2>2. ASSUME clock # "back", NEW d \in Listed
        PROVE  /\ ~poisoned /\ away'[d] <= list[d].age
               /\ away'[d] <= Timeout + SweepEvery - sweepIn
    BY <2>1, <2>2, TimeAssumption, SMTT(30) DEF AgeInv, Ages, Listed, TypeOK
  <2>3. Listed' = Listed BY DEF Listed
  <2> QED BY <2>2, <2>3 DEF AgeInv, Ages
<1>3. Beats' BY DEF AgeInv, Beats, Listed
<1> QED BY <1>1, <1>2, <1>3 DEF AgeInv
\* The ranges of what is compared.
LEMMA Ranges ==
  ASSUME TypeOK
  PROVE  /\ Timeout \in Nat /\ Timeout >= 1 /\ SweepEvery \in Nat /\ SweepEvery >= 1
         /\ sweepIn \in Nat /\ sweepIn <= SweepEvery
         /\ \A d \in Remotes : away[d] \in Nat
         /\ \A d \in Listed : /\ d \in Remotes /\ list[d] \in Entries
                              /\ list[d].age \in Int
<1>1. Timeout \in Nat /\ Timeout >= 1 /\ SweepEvery \in Nat /\ SweepEvery >= 1
  BY TimeAssumption
<1>2. sweepIn \in Nat /\ sweepIn <= SweepEvery BY <1>1 DEF TypeOK
<1>3. \A d \in Remotes : away[d] \in Nat BY <1>1 DEF TypeOK, LongAway
<1>4. \A d \in Listed : d \in Remotes /\ list[d] \in Entries /\ list[d].age \in Int
  BY DEF TypeOK, Listed, Entries
<1> QED BY <1>1, <1>2, <1>3, <1>4

\* A remote that is heard of is not missed, and its entry is new.
LEMMA AgesInserted ==
  ASSUME TypeOK, AgeInv, NEW d \in Remotes, NEW n \in Names, NEW f \in Names \cup {None},
         Insert(d, n, f), away'[d] = 0,
         \A e \in Remotes \ {d} : away'[e] = away[e],
         UNCHANGED <<sweepIn, poisoned, clock, beaten, roundDue>>
  PROVE  Ages' /\ Beats'
<1>1. ASSUME ~poisoned, NEW e \in Listed'
      PROVE  IF e = d THEN list'[e].age = 0 /\ away'[e] = 0
             ELSE e \in Listed /\ list'[e] = list[e] /\ away'[e] = away[e]
  <2>1. e \in Remotes /\ list'[e] # None BY <1>1 DEF Listed
  <2> QED BY <1>1, <2>1, InsertView, EntryType DEF Listed
<1>2. Ages'
  <2> SUFFICES ASSUME clock # "back", NEW e \in Listed'
               PROVE  /\ away'[e] <= list'[e].age
                      /\ away'[e] <= Timeout + SweepEvery - sweepIn
    BY DEF AgeInv, Ages
  <2>1. ~poisoned BY DEF AgeInv, Ages
  <2> QED BY <1>1, <2>1, Ranges DEF AgeInv, Ages
<1>3. Beats'
  <2> SUFFICES ASSUME clock = "right", NEW e \in beaten \cap Listed'
               PROVE  list'[e].age <= IF roundDue THEN 1 ELSE 0
    BY DEF Beats
  <2>1. ~poisoned BY DEF AgeInv, Ages
  <2> QED BY <1>1, <2>1 DEF AgeInv, Beats
<1> QED BY <1>2, <1>3

\* A deletion brings no entry.
LEMMA DeletedEntries ==
  ASSUME TypeOK, NEW gone, Delete(gone), ~poisoned
  PROVE  \A e \in Listed' : e \in Listed /\ e \notin gone /\ list'[e] = list[e]
BY DeleteView DEF Listed

\* Each step of the network, the listeners and the sweep keeps AgeInv.
LEMMA AgeStepThreads ==
  ASSUME TypeOK, AgeInv,
         \/ \E d \in Remotes : Appear(d) \/ Leave(d) \/ Rename(d) \/ Resolve(d)
         \/ \E n \in Names : Expire(n)
         \/ \E d \in Remotes : Hear(d)
         \/ HandleResolved \/ HandleRemoved \/ Sweep
  PROVE  AgeInv'
<1>1. ASSUME NEW d \in Remotes, Appear(d) PROVE AgeInv'
  <2>1. /\ owed' = owed \cup {d} /\ up' = [up EXCEPT ![d] = TRUE]
        /\ away' = [away EXCEPT ![d] = 0]
    BY <1>1 DEF Appear, Here
  <2>2. Absence' BY <2>1 DEF AgeInv, Absence, TypeOK
  <2>3. \A e \in Remotes : away'[e] = away[e] \/ away'[e] = 0 BY <2>1 DEF TypeOK
  <2>4. UNCHANGED <<list, clients, inbound, roundDue, todo, sweepIn, poisoned, beaten,
                    clock>>
    BY <1>1 DEF Appear, local, linked, task
  <2> QED BY <2>2, <2>3, <2>4, AgesFramed
<1>2. ASSUME NEW d \in Remotes, Leave(d) PROVE AgeInv'
  <2>1. owed' = owed \ {d} /\ up' = [up EXCEPT ![d] = FALSE] /\ away' = away
    BY <1>2 DEF Leave, ghosts
  <2>2. Absence' BY <2>1 DEF AgeInv, Absence, TypeOK
  <2>4. UNCHANGED <<list, clients, inbound, roundDue, todo, sweepIn, poisoned, beaten,
                    clock>>
    BY <1>2 DEF Leave, local, linked, task, ghosts
  <2> QED BY <2>1, <2>2, <2>4, AgesFramed
<1>3. ASSUME \/ \E d \in Remotes : Rename(d) \/ Resolve(d)
             \/ \E n \in Names : Expire(n)
      PROVE  AgeInv'
  <2>1. UNCHANGED <<list, clients, inbound, roundDue, todo, sweepIn, poisoned, beaten,
                    clock, owed, up, away>>
    BY <1>3 DEF Rename, Resolve, Expire, local, linked, task, ghosts
  <2>2. Absence' BY <2>1 DEF AgeInv, Absence
  <2> QED BY <2>1, <2>2, AgesFramed
<1>4. ASSUME NEW d \in Remotes, Hear(d) PROVE AgeInv'
  <2>1. /\ UNCHANGED <<clients, inbound, roundDue, todo, sweepIn, poisoned, beaten,
                       clock, up, away>>
        /\ d \in owed /\ owed' = owed \ {d}
    BY <1>4 DEF Hear, local, linked, task, ghosts
  <2>2. Absence' /\ away[d] = 0 BY <2>1 DEF AgeInv, Absence
  <2>3. CASE list' = list BY <2>1, <2>2, <2>3, AgesFramed
  <2>4. CASE Insert(d, name[d], None)
    <3>1. name[d] \in Names BY DEF TypeOK
    <3>2. Ages' /\ Beats' BY <2>1, <2>2, <2>4, <3>1, AgesInserted
    <3>3. RoundFirst' BY <2>1 DEF AgeInv, RoundFirst
    <3> QED BY <2>2, <3>2, <3>3 DEF AgeInv
  <2> QED BY <1>4, <2>3, <2>4 DEF Hear
<1>5. CASE HandleResolved
  <2> DEFINE d == Head(events).device  n == Head(events).name
  <2>1. d \in Remotes /\ n \in Names
    BY <1>5, HeadTypes DEF HandleResolved, Event
  <2>2. /\ UNCHANGED <<clients, inbound, roundDue, todo, sweepIn, poisoned, beaten,
                       clock, up, owed>>
        /\ Insert(d, n, n) /\ away' = [away EXCEPT ![d] = 0]
    BY <1>5 DEF HandleResolved, Here, local, linked, task
  <2> HIDE DEF d, n
  <2>3. away'[d] = 0 /\ \A e \in Remotes \ {d} : away'[e] = away[e]
    BY <2>1, <2>2 DEF TypeOK
  <2>4. Absence' BY <2>1, <2>2, <2>3 DEF AgeInv, Absence
  <2>5. Ages' /\ Beats' BY <2>1, <2>2, <2>3, AgesInserted
  <2>6. RoundFirst' BY <2>1, <2>2, <2>3 DEF AgeInv, RoundFirst, TypeOK
  <2> QED BY <2>4, <2>5, <2>6 DEF AgeInv
<1>6. CASE HandleRemoved
  <2>1. PICK gone : Delete(gone) BY <1>6 DEF HandleRemoved
  <2>2. UNCHANGED <<clients, inbound, roundDue, todo, sweepIn, poisoned, beaten, clock,
                    up, owed, away>>
    BY <1>6 DEF HandleRemoved, local, linked, task, ghosts
  <2>3. Ages'
    <3> SUFFICES ASSUME clock # "back" PROVE Ages'
      BY <2>2 DEF Ages
    <3>1. ~poisoned BY DEF AgeInv, Ages
    <3> QED BY <2>1, <2>2, <3>1, DeletedEntries DEF AgeInv, Ages
  <2>4. Beats'
    <3> SUFFICES ASSUME clock = "right" PROVE Beats'
      BY <2>2 DEF Beats
    <3>1. ~poisoned BY DEF AgeInv, Ages
    <3> QED BY <2>1, <2>2, <3>1, DeletedEntries DEF AgeInv, Beats
  <2>5. Absence' /\ RoundFirst' BY <2>2 DEF AgeInv, Absence, RoundFirst
  <2> QED BY <2>3, <2>4, <2>5 DEF AgeInv
<1>7. CASE Sweep
  <2>1. /\ UNCHANGED <<clients, inbound, roundDue, todo, beaten, clock, up, owed, away>>
        /\ sweepIn' = SweepEvery
    BY <1>7 DEF Sweep, network, linked, task, ghosts
  <2>2. ASSUME clock # "back"
        PROVE  /\ ~poisoned /\ ~poisoned'
               /\ \A e \in Listed' : e \in Listed \ Offline /\ list'[e] = list[e]
    <3>1. ~poisoned BY <2>2 DEF AgeInv, Ages
    <3>2. FromFuture = {} BY <2>2, Ranges DEF FromFuture, AgeInv, Ages
    <3>3. Delete(FromFuture \cup Offline) /\ UNCHANGED poisoned
      BY <1>7, <3>2 DEF Sweep
    <3> QED BY <3>1, <3>3, DeletedEntries
  <2>3. Ages'
    <3> SUFFICES ASSUME clock # "back", NEW e \in Listed'
                 PROVE  away[e] <= list[e].age /\ away[e] <= Timeout
      BY <2>1, <2>2, Ranges DEF Ages
    <3>1. e \in Listed /\ ~(list[e].age > Timeout) BY <2>2 DEF Offline
    <3>2. away[e] <= list[e].age BY <3>1 DEF AgeInv, Ages
    <3> QED BY <3>1, <3>2, Ranges
  <2>4. Beats' BY <2>1, <2>2 DEF AgeInv, Beats
  <2>5. Absence' BY <2>1 DEF AgeInv, Absence
  <2>6. RoundFirst' BY <1>7, <2>1 DEF Sweep, AgeInv, RoundFirst
  <2> QED BY <2>3, <2>4, <2>5, <2>6 DEF AgeInv
<1> QED BY <1>1, <1>2, <1>3, <1>4, <1>5, <1>6, <1>7
\* A round makes the entries of the linked new, whom nobody has missed.
LEMMA AgeStepRound ==
  ASSUME TypeOK, AgeInv, Round
  PROVE  AgeInv'
<1>1. /\ UNCHANGED <<clients, inbound, sweepIn, poisoned, clock, up, owed, away>>
      /\ roundDue /\ ~poisoned /\ roundDue' = FALSE /\ beaten' = Kept
  BY DEF Round, Kept, network, linked
<1>2. ASSUME NEW e \in Listed'
      PROVE  /\ e \in Listed
             /\ e \in Kept => list'[e].age = 0 /\ away[e] = 0
             /\ e \notin Kept => list'[e] = list[e]
  <2>1. e \in Remotes /\ list'[e] # None BY <1>2 DEF Listed
  <2>2. e \in Listed
    <3>1. CASE e \in Kept \cap Listed BY <3>1
    <3>2. CASE e \notin Kept \cap Listed BY <2>1, <3>2, RoundView DEF Listed
    <3> QED BY <3>1, <3>2
  <2>3. e \in Kept => away[e] = 0 BY <1>1 DEF AgeInv, RoundFirst, Kept
  <2>4. ASSUME e \in Kept PROVE list'[e].age = 0
    <3>1. list'[e] = [list[e] EXCEPT !.age = 0] BY <2>1, <2>2, <2>4, RoundView
    <3>2. list[e] \in Entries BY <2>2, Ranges
    <3> QED BY <3>1, <3>2, AgeType
  <2>5. e \notin Kept => list'[e] = list[e] BY <2>1, RoundView
  <2> QED BY <2>2, <2>3, <2>4, <2>5
<1>3. Ages'
  <2> SUFFICES ASSUME clock # "back", NEW e \in Listed'
               PROVE  /\ away[e] <= list'[e].age
                      /\ away[e] <= Timeout + SweepEvery - sweepIn
    BY <1>1 DEF Ages
  <2> QED BY <1>2, Ranges DEF AgeInv, Ages
<1>4. Beats' BY <1>1, <1>2 DEF Beats
<1>5. Absence' BY <1>1 DEF AgeInv, Absence
<1>6. RoundFirst' BY <1>1 DEF RoundFirst
<1> QED BY <1>3, <1>4, <1>5, <1>6 DEF AgeInv

\* Each step of the connections keeps AgeInv.
LEMMA AgeStepLinks ==
  ASSUME TypeOK, AgeInv, \E d \in Remotes : Dial(d) \/ Accepted(d) \/ Dropped(d)
  PROVE  AgeInv'
<1>1. ASSUME NEW d \in Remotes, Dial(d) PROVE AgeInv'
  <2>1. /\ UNCHANGED <<list, roundDue, sweepIn, poisoned, clock, up, owed, away, beaten>>
        /\ todo # {}
    BY <1>1 DEF Dial, network, ghosts
  <2>2. RoundFirst' BY <2>1 DEF AgeInv, RoundFirst
  <2>3. Absence' BY <2>1 DEF AgeInv, Absence
  <2>4. Ages' /\ Beats' BY <2>1 DEF AgeInv, Ages, Beats, Listed
  <2> QED BY <2>2, <2>3, <2>4 DEF AgeInv
<1>2. ASSUME NEW d \in Remotes, Accepted(d) PROVE AgeInv'
  <2>1. /\ UNCHANGED <<list, roundDue, todo, sweepIn, poisoned, clock, up, owed, away,
                       beaten, clients>>
        /\ up[d] /\ inbound' = inbound \cup {d}
    BY <1>2 DEF Accepted, network, task, ghosts
  <2>2. RoundFirst' BY <2>1 DEF AgeInv, RoundFirst, Absence
  <2>3. Absence' BY <2>1 DEF AgeInv, Absence
  <2>4. Ages' /\ Beats' BY <2>1 DEF AgeInv, Ages, Beats, Listed
  <2> QED BY <2>2, <2>3, <2>4 DEF AgeInv
<1>3. ASSUME NEW d \in Remotes, Dropped(d) PROVE AgeInv'
  <2>1. /\ UNCHANGED <<list, roundDue, todo, sweepIn, poisoned, clock, up, owed>>
        /\ beaten' \subseteq beaten /\ away' = [away EXCEPT ![d] = 0]
        /\ clients' \subseteq clients /\ inbound' \subseteq inbound
    BY <1>3 DEF Dropped, Here, network, task
  <2>2. \A e \in Remotes : away'[e] = away[e] \/ away'[e] = 0
    BY <2>1 DEF TypeOK
  <2>3. Absence' BY <2>1, <2>2 DEF AgeInv, Absence
  <2>4. RoundFirst' BY <2>1, <2>2 DEF AgeInv, RoundFirst, TypeOK
  <2>5. Ages'
    <3> SUFFICES ASSUME clock # "back", NEW e \in Listed
                 PROVE  /\ away'[e] <= list[e].age
                        /\ away'[e] <= Timeout + SweepEvery - sweepIn
      BY <2>1 DEF AgeInv, Ages, Listed
    <3> QED BY <2>2, Ranges DEF AgeInv, Ages
  <2>6. Beats' BY <2>1 DEF AgeInv, Beats, Listed
  <2> QED BY <2>3, <2>4, <2>5, <2>6 DEF AgeInv
<1> QED BY <1>1, <1>2, <1>3

\* What is listed after time has passed, and how old it is.
LEMMA OlderEntries ==
  ASSUME TypeOK, NEW j \in Int, GrowOlder(j), ~poisoned, NEW e \in Listed'
  PROVE  e \in Listed /\ list'[e].age = list[e].age + j
<1>1. e \in Remotes /\ list'[e] # None BY DEF Listed
<1>2. e \in Listed BY <1>1, OlderView
<1>3. list[e] \in Entries /\ list[e].age + j \in Int BY <1>2, Ranges
<1>4. list'[e] = [list[e] EXCEPT !.age = list[e].age + j] BY <1>1, <1>2, OlderView
<1> QED BY <1>2, <1>3, <1>4, AgeType

\* A tick keeps AgeInv.
LEMMA AgeStepTick ==
  ASSUME TypeOK, AgeInv, Tick
  PROVE  AgeInv'
<1>1. /\ UNCHANGED <<clients, inbound, todo, poisoned, clock, up, beaten>>
      /\ owed' = {d \in Remotes : up[d]} /\ roundDue' = TRUE
      /\ sweepIn > 0 /\ sweepIn' = sweepIn - 1
      /\ poisoned \/ (todo = {} /\ ~roundDue)
      /\ GrowOlder(1)
  BY DEF Tick, mdns, linked
<1>2. \A d \in Remotes : IF up[d] \/ Linked(d) THEN away'[d] = 0
                         ELSE away'[d] <= away[d] + 1
  <2>1. away' = [d \in Remotes |-> IF up[d] \/ Linked(d) THEN 0
                                   ELSE IF away[d] < LongAway THEN away[d] + 1
                                   ELSE away[d]]
    BY DEF Tick
  <2> QED BY <2>1, Ranges
<1>3. Absence' BY <1>1, <1>2 DEF Absence
<1>4. RoundFirst' BY <1>1, <1>2 DEF RoundFirst, Linked, TypeOK
<1>5. Ages'
  <2> SUFFICES ASSUME clock # "back", NEW e \in Listed'
               PROVE  /\ away'[e] <= list'[e].age
                      /\ away'[e] <= Timeout + SweepEvery - (sweepIn - 1)
    BY <1>1 DEF AgeInv, Ages
  <2>1. ~poisoned BY DEF AgeInv, Ages
  <2>2. e \in Listed /\ list'[e].age = list[e].age + 1
    BY <1>1, <2>1, OlderEntries
  <2>3. /\ away[e] <= list[e].age /\ away[e] <= Timeout + SweepEvery - sweepIn
        /\ away[e] \in Nat /\ list[e].age \in Int /\ e \in Remotes
    BY <2>2, Ranges DEF AgeInv, Ages
  <2>4. away'[e] <= away[e] + 1 /\ away'[e] \in Nat
    <3>1. away'[e] \in Nat
      BY <2>3, TypesStep, Ranges, SMTT(30) DEF Next, TypeOK, LongAway
    <3> QED BY <1>2, <2>3, <3>1
  <2> QED BY <2>2, <2>3, <2>4, Ranges
<1>6. Beats'
  <2> SUFFICES ASSUME clock = "right", NEW e \in beaten \cap Listed'
               PROVE  list'[e].age <= 1
    BY <1>1 DEF Beats
  <2>1. ~poisoned BY DEF AgeInv, Ages
  <2>2. e \in Listed /\ list'[e].age = list[e].age + 1
    BY <1>1, <2>1, OlderEntries
  <2>3. list[e].age <= 0 BY <1>1, <2>1, <2>2 DEF AgeInv, Beats
  <2> QED BY <2>2, <2>3, Ranges
<1> QED BY <1>3, <1>4, <1>5, <1>6 DEF AgeInv

\* A clock that is set forward makes entries older only.
LEMMA AgeStepClock ==
  ASSUME TypeOK, AgeInv, SetClock
  PROVE  AgeInv'
<1>1. PICK j \in Jumps : /\ GrowOlder(j)
                         /\ clock' = IF j < 0 \/ clock = "back" THEN "back" ELSE "forward"
  BY DEF SetClock
<1>2. UNCHANGED <<clients, inbound, todo, roundDue, sweepIn, poisoned, up, owed, away,
                  beaten>>
  BY DEF SetClock, network, local, linked, task
<1>3. j \in Int BY TimeAssumption
<1>4. Ages'
  <2> SUFFICES ASSUME clock' # "back", NEW e \in Listed'
               PROVE  /\ ~poisoned /\ away[e] <= list'[e].age
                      /\ away[e] <= Timeout + SweepEvery - sweepIn
    <3>1. clock' # "back" => ~poisoned BY <1>1 DEF AgeInv, Ages
    <3> QED BY <1>2, <3>1 DEF Ages
  <2>1. clock # "back" /\ j >= 0 BY <1>1, <1>3
  <2>2. ~poisoned BY <2>1 DEF AgeInv, Ages
  <2>3. e \in Listed /\ list'[e].age = list[e].age + j
    BY <1>1, <1>3, <2>2, OlderEntries
  <2> QED BY <1>3, <2>1, <2>2, <2>3, Ranges DEF AgeInv, Ages
<1>5. Absence' /\ RoundFirst' BY <1>2 DEF AgeInv, Absence, RoundFirst
<1>6. Beats' BY <1>1 DEF Beats
<1> QED BY <1>4, <1>5, <1>6 DEF AgeInv

LEMMA AgeStep == TypeOK /\ AgeInv /\ [Next]_vars => AgeInv'
<1> SUFFICES ASSUME TypeOK, AgeInv, [Next]_vars PROVE AgeInv'
  OBVIOUS
<1>1. CASE UNCHANGED vars
  BY <1>1 DEF vars, network, mdns, local, linked, task, ghosts, AgeInv, Absence,
              RoundFirst, Ages, Beats, Listed
<1>2. CASE Next
  BY <1>2, AgeStepThreads, AgeStepRound, AgeStepLinks, AgeStepTick, AgeStepClock
     DEF Next, Discover
<1> QED BY <1>1, <1>2

LEMMA AgeInit == Init => AgeInv
<1> SUFFICES ASSUME Init PROVE AgeInv
  OBVIOUS
<1>1. Listed = {} BY DEF Init, Listed
<1>2. Absence /\ RoundFirst BY DEF Init, Absence, RoundFirst
<1>3. Ages /\ Beats BY <1>1 DEF Init, Ages, Beats
<1> QED BY <1>2, <1>3 DEF AgeInv

\* The ages of entries and the absences of remotes are related (mdns.rs, listen; app.rs,
\* handle_device_discovery_task).
THEOREM AgesFollow == Spec => [](TypeOK /\ AgeInv)
<1>1. Init => TypeOK /\ AgeInv BY TypesInit, AgeInit
<1>2. TypeOK /\ AgeInv /\ [Next]_vars => (TypeOK /\ AgeInv)' BY TypesStep, AgeStep
<1> QED BY <1>1, <1>2, PTL DEF Spec

\* Unless the clock is set back, a device that is gone and not linked leaves the list
\* after Timeout and one pause of the sweep (is_offline, listen).
THEOREM GoneLeave == Spec => []GoneLeaves
<1>1. TypeOK /\ AgeInv => GoneLeaves
  <2> SUFFICES ASSUME TypeOK, AgeInv, clock # "back", NEW d \in Remotes,
                      away[d] >= LongAway, list[d] # None
               PROVE  FALSE
    BY DEF GoneLeaves
  <2>1. d \in Listed BY DEF Listed
  <2> QED BY <2>1, Ranges DEF AgeInv, Ages, LongAway
<1> QED BY <1>1, AgesFollow, PTL

\* ... and is not shown as online for longer than Timeout (DeviceSnapshot::is_offline).
THEOREM OnlineAreRecent == Spec => []OnlineIsRecent
<1>1. TypeOK /\ AgeInv => OnlineIsRecent
  BY Ranges DEF OnlineIsRecent, Online, Offline, AgeInv, Ages
<1> QED BY <1>1, AgesFollow, PTL

\* While the clock is not set, the sweep takes no device that has stayed linked since
\* its heartbeat (handle_device_discovery_task, listen).
THEOREM LinkedDevicesStay == Spec => LinkedStays
<1>1. TypeOK /\ AgeInv /\ [Next]_vars =>
        (clock = "right" /\ sweepIn = 0 /\ sweepIn' = SweepEvery =>
           \A d \in beaten : list[d] # None => list'[d] # None)
  <2> SUFFICES ASSUME TypeOK, AgeInv, [Next]_vars, clock = "right", sweepIn = 0,
                      sweepIn' = SweepEvery, NEW d \in beaten, list[d] # None
               PROVE  list'[d] # None
    OBVIOUS
  <2>1. Sweep
    <3>1. sweepIn' # sweepIn BY Ranges
    <3>2. ASSUME NEW e \in Remotes
          PROVE  ~(Appear(e) \/ Leave(e) \/ Rename(e) \/ Resolve(e) \/ Hear(e))
      BY <3>1 DEF Appear, Leave, Rename, Resolve, Hear, local
    <3>3. ASSUME NEW e \in Remotes
          PROVE  ~(Dial(e) \/ Accepted(e) \/ Dropped(e))
      BY <3>1 DEF Dial, Accepted, Dropped
    <3>4. \A n \in Names : ~Expire(n) BY <3>1 DEF Expire, local
    <3>5. ~HandleResolved /\ ~HandleRemoved /\ ~SetClock
      BY <3>1 DEF HandleResolved, HandleRemoved, SetClock, local
    <3>6. ~Round BY <3>1 DEF Round
    <3>7. ~Tick BY DEF Tick
    <3>8. ~UNCHANGED vars BY <3>1 DEF vars, local
    <3> QED BY <3>2, <3>3, <3>4, <3>5, <3>6, <3>7, <3>8 DEF Next, Discover
  <2>2. d \in Listed /\ d \in Remotes BY DEF Listed, TypeOK
  <2>3. /\ list[d].age <= 1 /\ 0 <= list[d].age /\ ~poisoned /\ list[d].age \in Int
    BY <2>2, Ranges DEF AgeInv, Ages, Beats
  <2>4. FromFuture = {} BY Ranges DEF FromFuture, AgeInv, Ages
  <2>5. d \notin Offline BY <2>3, Ranges DEF Offline
  <2>6. Delete(FromFuture \cup Offline) BY <2>1, <2>4 DEF Sweep
  <2> QED BY <2>2, <2>3, <2>4, <2>5, <2>6, DeleteView
<1>2. Spec => [](TypeOK /\ AgeInv) BY AgesFollow
<1> QED BY <1>1, <1>2, PTL DEF Spec, LinkedStays
-----------------------------------------------------------------------------
(* Removals                                                                *)

\* The k-th event of the queue: n was resolved to d, or removed as d's.
ResolvedAt(k, d, n) ==
  events[k].what = "resolved" /\ events[k].device = d /\ events[k].name = n
RemovedAt(k, d, n) ==
  events[k].what = "removed" /\ events[k].name = n /\ d \in events[k].by

HasFull(d, n) == list[d] # None /\ list[d].full = n

\* When the events before the j-th have been handled, no entry of d has the full_name n.
Out(d, n, j) ==
  \/ \E i \in 1 .. j - 1 : /\ RemovedAt(i, d, n)
                           /\ \A k \in i + 1 .. j - 1 : ~ResolvedAt(k, d, n)
  \/ ~HasFull(d, n) /\ \A k \in 1 .. j - 1 : ~ResolvedAt(k, d, n)

\* Remotes that run have different names, a remote without n in the cache is out of it
\* at the end of the queue, and a removal of n finds all others out of it.
NamesDiffer ==
  \A d, e \in Remotes : up[d] /\ up[e] /\ name[d] = name[e] => d = e
CacheOut == \A d \in Remotes, n \in Names :
  <<d, n>> \notin cache => Out(d, n, Len(events) + 1)
RemovalOut == \A d \in Remotes, n \in Names, j \in 1 .. Len(events) :
  events[j].what = "removed" /\ events[j].name = n /\ d \notin events[j].by
    => Out(d, n, j)

OutInv ==
  ~shared => NamesDiffer /\ (~poisoned => CacheOut /\ RemovalOut)
\* An event that is appended changes nothing for those before it.
LEMMA OutAppended ==
  ASSUME TypeOK, NEW x \in Events, events' = Append(events, x), UNCHANGED list,
         NEW d \in Remotes, NEW n \in Names, NEW l \in Nat, l = Len(events)
  PROVE  /\ \A j \in 1 .. l + 1 : Out(d, n, j) => Out(d, n, j)'
         /\ Out(d, n, l + 1) /\ ~(x.what = "resolved" /\ x.device = d /\ x.name = n)
              => Out(d, n, l + 2)'
         /\ x.what = "removed" /\ x.name = n /\ d \in x.by => Out(d, n, l + 2)'
<1>1. l \in Nat /\ \A k \in 1 .. l : events'[k] = events[k]
  BY SeqSteps DEF TypeOK
<1>2. events'[l + 1] = x BY SeqSteps DEF TypeOK
<1>3. HasFull(d, n)' <=> HasFull(d, n) BY DEF HasFull
<1>4. \A k \in 1 .. l : /\ ResolvedAt(k, d, n)' <=> ResolvedAt(k, d, n)
                        /\ RemovedAt(k, d, n)' <=> RemovedAt(k, d, n)
  BY <1>1 DEF ResolvedAt, RemovedAt
<1>5. /\ ResolvedAt(l + 1, d, n)' <=> x.what = "resolved" /\ x.device = d /\ x.name = n
      /\ RemovedAt(l + 1, d, n)' <=> x.what = "removed" /\ x.name = n /\ d \in x.by
  BY <1>2 DEF ResolvedAt, RemovedAt
<1>6. ASSUME NEW j \in 1 .. l + 1, Out(d, n, j) PROVE Out(d, n, j)'
  BY <1>1, <1>3, <1>4, <1>6 DEF Out
<1>7. ASSUME Out(d, n, l + 1), ~ResolvedAt(l + 1, d, n)' PROVE Out(d, n, l + 2)'
  <2>1. CASE \E i \in 1 .. l : /\ RemovedAt(i, d, n)
                               /\ \A k \in i + 1 .. l : ~ResolvedAt(k, d, n)
    <3>1. PICK i \in 1 .. l : /\ RemovedAt(i, d, n)
                              /\ \A k \in i + 1 .. l : ~ResolvedAt(k, d, n)
      BY <2>1
    <3>2. RemovedAt(i, d, n)' /\ \A k \in i + 1 .. l + 1 : ~ResolvedAt(k, d, n)'
      BY <1>1, <1>4, <1>7, <3>1
    <3>3. i \in 1 .. (l + 2) - 1 /\ (l + 2) - 1 = l + 1 BY <1>1
    <3> QED BY <3>2, <3>3 DEF Out
  <2>2. CASE ~HasFull(d, n) /\ \A k \in 1 .. l : ~ResolvedAt(k, d, n)
    <3>1. ~HasFull(d, n)' /\ \A k \in 1 .. l + 1 : ~ResolvedAt(k, d, n)'
      BY <1>1, <1>3, <1>4, <1>7, <2>2
    <3>2. (l + 2) - 1 = l + 1 BY <1>1
    <3> QED BY <3>1, <3>2 DEF Out
  <2>3. (l + 1) - 1 = l BY <1>1
  <2> QED BY <1>7, <2>1, <2>2, <2>3 DEF Out
<1>8. ASSUME RemovedAt(l + 1, d, n)' PROVE Out(d, n, l + 2)'
  <2>1. /\ l + 1 \in 1 .. (l + 2) - 1 /\ (l + 1) + 1 .. (l + 2) - 1 = {}
    BY <1>1
  <2> QED BY <1>8, <2>1 DEF Out
<1> QED BY <1>5, <1>6, <1>7, <1>8

\* The first event is handled: what it says of the entry becomes true of it.
LEMMA OutHandled ==
  ASSUME TypeOK, events # <<>>, events' = Tail(events),
         NEW d \in Remotes, NEW n \in Names, NEW l \in Nat, l = Len(events),
         NEW j \in 1 .. l, Out(d, n, j + 1),
         RemovedAt(1, d, n) => ~HasFull(d, n)',
         ~ResolvedAt(1, d, n) => (HasFull(d, n)' => HasFull(d, n))
  PROVE  Out(d, n, j)'
<1>1. l \in Nat /\ \A k \in 1 .. l - 1 : events'[k] = events[k + 1]
  BY SeqSteps DEF TypeOK
<1>2. \A k \in 1 .. l - 1 : /\ ResolvedAt(k, d, n)' <=> ResolvedAt(k + 1, d, n)
                            /\ RemovedAt(k, d, n)' <=> RemovedAt(k + 1, d, n)
  BY <1>1 DEF ResolvedAt, RemovedAt
<1>3. j \in 1 .. l OBVIOUS
<1>4. (j + 1) - 1 = j BY <1>1, <1>3
<1>5. CASE \E i \in 1 .. j : /\ RemovedAt(i, d, n)
                             /\ \A k \in i + 1 .. j : ~ResolvedAt(k, d, n)
  <2>1. PICK i \in 1 .. j : /\ RemovedAt(i, d, n)
                            /\ \A k \in i + 1 .. j : ~ResolvedAt(k, d, n)
    BY <1>5
  <2>2. CASE i = 1
    <3>1. \A k \in 1 .. j - 1 : ~ResolvedAt(k, d, n)'
      <4>1. ASSUME NEW k \in 1 .. j - 1 PROVE ~ResolvedAt(k, d, n)'
        <5>1. k + 1 \in i + 1 .. j /\ k \in 1 .. l - 1 BY <1>1, <1>3, <2>2
        <5> QED BY <1>2, <2>1, <5>1
      <4> QED BY <4>1
    <3> QED BY <2>1, <2>2, <3>1 DEF Out
  <2>3. CASE i # 1
    <3>1. i - 1 \in 1 .. j - 1 /\ i - 1 \in 1 .. l - 1 /\ (i - 1) + 1 = i
      BY <1>1, <1>3, <2>3
    <3>2. RemovedAt(i - 1, d, n)' BY <1>2, <2>1, <3>1
    <3>3. ASSUME NEW k \in (i - 1) + 1 .. j - 1 PROVE ~ResolvedAt(k, d, n)'
      <4>1. k + 1 \in i + 1 .. j /\ k \in 1 .. l - 1 BY <1>1, <1>3, <3>1
      <4> QED BY <1>2, <2>1, <4>1
    <3> QED BY <3>1, <3>2, <3>3 DEF Out
  <2> QED BY <2>2, <2>3
<1>6. CASE ~HasFull(d, n) /\ \A k \in 1 .. j : ~ResolvedAt(k, d, n)
  <2>1. ~HasFull(d, n)'
    <3>1. 1 \in 1 .. j BY <1>1, <1>3
    <3> QED BY <1>6, <3>1
  <2>2. \A k \in 1 .. j - 1 : ~ResolvedAt(k, d, n)'
    <3>1. ASSUME NEW k \in 1 .. j - 1 PROVE ~ResolvedAt(k, d, n)'
      <4>1. k + 1 \in 1 .. j /\ k \in 1 .. l - 1 BY <1>1, <1>3
      <4> QED BY <1>2, <1>6, <4>1
    <3> QED BY <3>1
  <2> QED BY <2>1, <2>2 DEF Out
<1> QED BY <1>4, <1>5, <1>6 DEF Out
\* Remotes that run have different names until shared says otherwise.
LEMMA NamesStep ==
  ASSUME TypeOK, ~shared => NamesDiffer, Next
  PROVE  ~shared' => ~shared /\ NamesDiffer'
<1>1. ASSUME NEW d \in Remotes, Appear(d), ~shared' PROVE ~shared /\ NamesDiffer'
  <2>1. ~shared /\ Others(d, name[d]) = {} BY <1>1 DEF Appear, Shares
  <2>2. up' = [up EXCEPT ![d] = TRUE] /\ name' = name BY <1>1 DEF Appear
  <2>3. ASSUME NEW e \in Remotes, NEW f \in Remotes, up'[e], up'[f], name[e] = name[f]
        PROVE  e = f
    <3>1. \A g \in Remotes \ {d} : up'[g] = up[g] BY <2>2 DEF TypeOK
    <3> QED BY <2>1, <2>3, <3>1 DEF NamesDiffer, Others
  <2> QED BY <2>1, <2>2, <2>3 DEF NamesDiffer
<1>2. ASSUME NEW d \in Remotes, Leave(d), ~shared' PROVE ~shared /\ NamesDiffer'
  BY <1>2 DEF Leave, ghosts, NamesDiffer, TypeOK
<1>3. ASSUME NEW d \in Remotes, Rename(d), ~shared' PROVE ~shared /\ NamesDiffer'
  <2>1. PICK n \in Names : /\ name' = [name EXCEPT ![d] = n]
                           /\ shared' = (shared \/ Shares(d, n))
    BY <1>3 DEF Rename
  <2>2. ~shared /\ Others(d, n) = {} /\ up' = up BY <1>3, <2>1 DEF Shares, Rename
  <2>3. ASSUME NEW e \in Remotes, NEW f \in Remotes, up[e], up[f], name'[e] = name'[f]
        PROVE  e = f
    <3>1. name'[d] = n /\ \A g \in Remotes \ {d} : name'[g] = name[g]
      BY <2>1 DEF TypeOK
    <3> QED BY <2>2, <2>3, <3>1 DEF NamesDiffer, Others
  <2> QED BY <2>2, <2>3 DEF NamesDiffer
<1>4. ASSUME UNCHANGED <<up, name, shared>>, ~shared' PROVE ~shared /\ NamesDiffer'
  BY <1>4 DEF NamesDiffer
<1>5. ASSUME NEW d \in Remotes,
             Resolve(d) \/ Hear(d) \/ Dial(d) \/ Accepted(d) \/ Dropped(d)
      PROVE  UNCHANGED <<up, name, shared>>
  BY <1>5 DEF Resolve, Hear, Dial, Accepted, Dropped, network, ghosts
<1>6. ASSUME \/ \E n \in Names : Expire(n)
             \/ HandleResolved \/ HandleRemoved \/ Sweep \/ Round \/ Tick \/ SetClock
      PROVE  UNCHANGED <<up, name, shared>>
  BY <1>6 DEF Expire, HandleResolved, HandleRemoved, Sweep, Round, Tick, SetClock,
              network, ghosts
<1> QED BY <1>1, <1>2, <1>3, <1>4, <1>5, <1>6 DEF Next, Discover

\* Steps that leave queue and cache alone, and give no entry a full_name.
LEMMA OutFramed ==
  ASSUME UNCHANGED <<events, cache>>, CacheOut, RemovalOut,
         \A d \in Remotes, n \in Names : HasFull(d, n)' => HasFull(d, n)
  PROVE  CacheOut' /\ RemovalOut'
<1>1. \A d, n, k : /\ ResolvedAt(k, d, n)' <=> ResolvedAt(k, d, n)
                   /\ RemovedAt(k, d, n)' <=> RemovedAt(k, d, n)
  BY DEF ResolvedAt, RemovedAt
<1>2. ASSUME NEW d \in Remotes, NEW n \in Names, NEW j, Out(d, n, j)
      PROVE  Out(d, n, j)'
  BY <1>1, <1>2 DEF Out
<1>3. PICK l : l = Len(events) /\ l = Len(events') OBVIOUS
<1>4. ASSUME NEW d \in Remotes, NEW n \in Names, <<d, n>> \notin cache
      PROVE  Out(d, n, l + 1)'
  BY <1>2, <1>3, <1>4 DEF CacheOut
<1>5. CacheOut' BY <1>3, <1>4 DEF CacheOut
<1>6. ASSUME NEW d \in Remotes, NEW n \in Names, NEW j \in 1 .. l,
             events[j].what = "removed", events[j].name = n, d \notin events[j].by
      PROVE  Out(d, n, j)'
  BY <1>2, <1>3, <1>6 DEF RemovalOut
<1>7. RemovalOut' BY <1>3, <1>6 DEF RemovalOut
<1> QED BY <1>5, <1>7

\* Which steps those are.
LEMMA FullNames ==
  ASSUME TypeOK, ~poisoned,
         \/ \E d \in Remotes : Hear(d)
         \/ Sweep \/ Round \/ Tick \/ SetClock
  PROVE  \A e \in Remotes, n \in Names : HasFull(e, n)' => HasFull(e, n)
<1> SUFFICES ASSUME NEW e \in Remotes, NEW n \in Names, list'[e] # None,
                    list'[e].full = n
             PROVE  list[e] # None /\ list[e].full = n
  BY DEF HasFull
<1>1. ASSUME NEW d \in Remotes, Hear(d) PROVE list[e] # None /\ list[e].full = n
  <2>1. name[d] \in Names BY DEF TypeOK
  <2>2. CASE list' = list BY <2>2
  <2>3. CASE Insert(d, name[d], None)
    <3>1. n # None BY RemoteAssumption
    <3>2. Entry(0, name[d], None).full = None BY <2>1, EntryType
    <3> QED BY <2>1, <2>3, <3>1, <3>2, InsertView
  <2> QED BY <1>1, <2>2, <2>3 DEF Hear
<1>2. CASE Sweep
  <2>1. CASE list' = list BY <2>1
  <2>2. CASE Delete(FromFuture \cup Offline) BY <2>2, DeleteView
  <2> QED BY <1>2, <2>1, <2>2 DEF Sweep
<1>3. CASE Round
  <2>1. CASE e \in Kept \cap Listed
    <3>1. list[e] \in Entries BY <2>1, Ranges
    <3>2. list'[e] = [list[e] EXCEPT !.age = 0] BY <1>3, <2>1, RoundView
    <3>3. list'[e].full = list[e].full BY <3>1, <3>2, AgeType
    <3> QED BY <2>1, <3>3 DEF Listed
  <2>2. CASE e \notin Kept \cap Listed BY <1>3, <2>2, RoundView
  <2> QED BY <2>1, <2>2
<1>4. ASSUME NEW j \in Int, GrowOlder(j) PROVE list[e] # None /\ list[e].full = n
  <2>1. e \in Listed /\ list'[e] = [list[e] EXCEPT !.age = list[e].age + j]
    BY <1>4, OlderView
  <2>2. list[e] \in Entries /\ list[e].age + j \in Int BY <2>1, Ranges
  <2> QED BY <2>1, <2>2, AgeType DEF Listed
<1>5. CASE Tick BY <1>4, <1>5 DEF Tick
<1>6. CASE SetClock BY <1>4, <1>6, TimeAssumption DEF SetClock
<1> QED BY <1>1, <1>2, <1>3, <1>5, <1>6

\* An event that is appended: what it removes from the cache it removes from the list.
LEMMA OutAppendStep ==
  ASSUME TypeOK, CacheOut, RemovalOut, NEW x \in Events, events' = Append(events, x),
         UNCHANGED list,
         \A d \in Remotes, n \in Names : <<d, n>> \notin cache' =>
            /\ ~(x.what = "resolved" /\ x.device = d /\ x.name = n)
            /\ \/ <<d, n>> \notin cache
               \/ x.what = "removed" /\ x.name = n /\ d \in x.by,
         \A d \in Remotes, n \in Names :
            x.what = "removed" /\ x.name = n /\ d \notin x.by => <<d, n>> \notin cache
  PROVE  CacheOut' /\ RemovalOut'
<1>1. PICK l \in Nat : l = Len(events) BY SeqSteps DEF TypeOK
<1>2. /\ Len(events') = l + 1 /\ events'[l + 1] = x
      /\ \A k \in 1 .. l : events'[k] = events[k]
  BY <1>1, SeqSteps DEF TypeOK
<1>3. ASSUME NEW d \in Remotes, NEW n \in Names, <<d, n>> \notin cache'
      PROVE  Out(d, n, l + 2)'
  <2>1. CASE <<d, n>> \notin cache
    <3>1. Out(d, n, l + 1) BY <1>1, <2>1 DEF CacheOut
    <3> QED BY <1>1, <1>3, <3>1, OutAppended
  <2>2. CASE x.what = "removed" /\ x.name = n /\ d \in x.by
    BY <1>1, <2>2, OutAppended
  <2> QED BY <1>3, <2>1, <2>2
<1>4. CacheOut'
  <2>1. \A d \in Remotes, n \in Names : <<d, n>> \notin cache' => Out(d, n, (l + 1) + 1)'
    <3>1. (l + 1) + 1 = l + 2 OBVIOUS
    <3> QED BY <1>3, <3>1
  <2> QED BY <1>2, <2>1 DEF CacheOut
<1>5. ASSUME NEW d \in Remotes, NEW n \in Names, NEW j \in 1 .. l + 1,
             events'[j].what = "removed", events'[j].name = n, d \notin events'[j].by
      PROVE  Out(d, n, j)'
  <2>1. Out(d, n, j)
    <3>1. CASE j = l + 1
      <4>1. <<d, n>> \notin cache BY <1>2, <1>5, <3>1
      <4> QED BY <1>1, <3>1, <4>1 DEF CacheOut
    <3>2. CASE j \in 1 .. l BY <1>1, <1>2, <1>5, <3>2 DEF RemovalOut
    <3> QED BY <3>1, <3>2
  <2> QED BY <1>1, <2>1, OutAppended
<1>6. RemovalOut' BY <1>2, <1>5 DEF RemovalOut
<1> QED BY <1>4, <1>6

\* The first event is handled.
LEMMA OutHandleStep ==
  ASSUME TypeOK, CacheOut, RemovalOut, events # <<>>, events' = Tail(events),
         UNCHANGED cache,
         \A d \in Remotes, n \in Names :
            /\ RemovedAt(1, d, n) => ~HasFull(d, n)'
            /\ ~ResolvedAt(1, d, n) => (HasFull(d, n)' => HasFull(d, n))
  PROVE  CacheOut' /\ RemovalOut'
<1>1. PICK l \in Nat : l = Len(events) BY SeqSteps DEF TypeOK
<1>2. /\ l >= 1 /\ Len(events') = l - 1
      /\ \A k \in 1 .. l - 1 : events'[k] = events[k + 1]
  BY <1>1, SeqSteps DEF TypeOK
<1>3. ASSUME NEW d \in Remotes, NEW n \in Names, <<d, n>> \notin cache
      PROVE  Out(d, n, l)'
  <2>1. Out(d, n, l + 1) /\ l \in 1 .. l BY <1>1, <1>2, <1>3 DEF CacheOut
  <2> QED BY <1>1, <2>1, OutHandled
<1>4. CacheOut'
  <2>1. (l - 1) + 1 = l OBVIOUS
  <2> QED BY <1>2, <1>3, <2>1 DEF CacheOut
<1>5. ASSUME NEW d \in Remotes, NEW n \in Names, NEW j \in 1 .. l - 1,
             events'[j].what = "removed", events'[j].name = n, d \notin events'[j].by
      PROVE  Out(d, n, j)'
  <2>1. j + 1 \in 1 .. l /\ j \in 1 .. l /\ events'[j] = events[j + 1] BY <1>2
  <2>2. Out(d, n, j + 1) BY <1>1, <1>5, <2>1 DEF RemovalOut
  <2> QED BY <1>1, <2>1, <2>2, OutHandled
<1>6. RemovalOut' BY <1>2, <1>5 DEF RemovalOut
<1> QED BY <1>4, <1>6
\* A removal of n from cache and queue, as those who hold it are removed with it.
LEMMA OutRemoved ==
  ASSUME TypeOK, CacheOut, RemovalOut, NEW n \in Names, UNCHANGED list,
         events' = Append(events, Removed(n, Holders(n))),
         cache' = {p \in cache : p[2] # n}
  PROVE  CacheOut' /\ RemovalOut'
<1> DEFINE x == Removed(n, Holders(n))
<1>1. x.what = "removed" /\ x.name = n /\ x.by = Holders(n) BY DEF Removed
<1>2. x \in Events
  <2>1. Holders(n) \in SUBSET Remotes BY DEF Holders
  <2> QED BY <2>1, EventTypes
<1>3. events' = Append(events, x) OBVIOUS
<1> HIDE DEF x
<1>4. \A d \in Remotes, m \in Names : <<d, m>> \notin cache' =>
        /\ ~(x.what = "resolved" /\ x.device = d /\ x.name = m)
        /\ \/ <<d, m>> \notin cache
           \/ x.what = "removed" /\ x.name = m /\ d \in x.by
  BY <1>1 DEF Holders
<1>5. \A d \in Remotes, m \in Names :
        x.what = "removed" /\ x.name = m /\ d \notin x.by => <<d, m>> \notin cache
  BY <1>1 DEF Holders
<1> QED BY <1>2, <1>3, <1>4, <1>5, OutAppendStep

\* Each step keeps OutInv.
LEMMA OutStep == TypeOK /\ OutInv /\ [Next]_vars => OutInv'
<1> SUFFICES ASSUME TypeOK, OutInv, [Next]_vars, ~shared' PROVE
               NamesDiffer' /\ (~poisoned' => CacheOut' /\ RemovalOut')
  BY DEF OutInv
<1>a. CASE UNCHANGED vars
  <2>1. UNCHANGED <<up, name, cache, events, list, poisoned, shared>>
    BY <1>a DEF vars, network, mdns, local, ghosts
  <2>2. \A d \in Remotes, n \in Names : HasFull(d, n)' => HasFull(d, n)
    BY <2>1 DEF HasFull
  <2> QED BY <2>1, <2>2, OutFramed DEF OutInv, NamesDiffer
<1>b. CASE Next
  <2>1. ~shared /\ NamesDiffer' BY <1>b, NamesStep DEF OutInv
  <2>2. ~poisoned' => ~poisoned
    <3>1. ASSUME NEW d \in Remotes, Appear(d) \/ Leave(d) \/ Rename(d) \/ Resolve(d)
                                    \/ Hear(d) \/ Dial(d) \/ Accepted(d) \/ Dropped(d)
          PROVE  poisoned' = poisoned
      BY <3>1 DEF Appear, Leave, Rename, Resolve, Hear, Dial, Accepted, Dropped, local
    <3>2. ASSUME \/ \E n \in Names : Expire(n)
                 \/ HandleResolved \/ HandleRemoved \/ Round \/ Tick \/ SetClock
          PROVE  poisoned' = poisoned
      BY <3>2 DEF Expire, HandleResolved, HandleRemoved, Round, Tick, SetClock, local
    <3>3. Sweep /\ ~poisoned' => ~poisoned BY DEF Sweep
    <3> QED BY <1>b, <3>1, <3>2, <3>3 DEF Next, Discover
  <2> SUFFICES ASSUME ~poisoned, CacheOut, RemovalOut PROVE CacheOut' /\ RemovalOut'
    BY <2>1, <2>2 DEF OutInv
  <2>3. ASSUME UNCHANGED <<events, cache, list>> PROVE CacheOut' /\ RemovalOut'
    BY <2>3, OutFramed DEF HasFull
  <2>4. ASSUME NEW d \in Remotes, Appear(d) \/ Leave(d) \/ Dial(d) \/ Accepted(d)
                                  \/ Dropped(d)
        PROVE  CacheOut' /\ RemovalOut'
    <3>1. UNCHANGED <<events, cache, list>>
      BY <2>4 DEF Appear, Leave, Dial, Accepted, Dropped, network, mdns
    <3> QED BY <2>3, <3>1
  <2>5. ASSUME NEW d \in Remotes, Rename(d) PROVE CacheOut' /\ RemovalOut'
    <3>1. CASE UNCHANGED mdns BY <2>3, <2>5, <3>1 DEF Rename, mdns
    <3>2. CASE /\ events' = Append(events,
                              Removed(name[d], Holders(name[d]) \ Others(d, name[d])))
               /\ cache' = {p \in cache : p[2] # name[d]}
      <4>1. Others(d, name[d]) = {}
        BY <2>1, <2>5 DEF OutInv, NamesDiffer, Others, Rename
      <4>2. name[d] \in Names /\ UNCHANGED list BY <2>5 DEF TypeOK, Rename
      <4>3. Holders(name[d]) \ Others(d, name[d]) = Holders(name[d]) BY <4>1
      <4> QED BY <3>2, <4>2, <4>3, OutRemoved
    <3> QED BY <2>5, <3>1, <3>2 DEF Rename
  <2>6. ASSUME NEW d \in Remotes, Resolve(d) PROVE CacheOut' /\ RemovalOut'
    <3> DEFINE x == Resolved(d, name[d])
    <3>1. /\ x.what = "resolved" /\ x.device = d /\ x.name = name[d]
          /\ "resolved" # "removed"
      BY DEF Resolved
    <3>2. name[d] \in Names BY DEF TypeOK
    <3>3. x \in Events BY <3>2, EventTypes
    <3>4. events' = Append(events, x) /\ cache' = cache \cup {<<d, name[d]>>}
          /\ UNCHANGED list
      BY <2>6 DEF Resolve
    <3> HIDE DEF x
    <3>5. \A e \in Remotes, m \in Names : <<e, m>> \notin cache' =>
            /\ ~(x.what = "resolved" /\ x.device = e /\ x.name = m)
            /\ <<e, m>> \notin cache
      BY <3>1, <3>4
    <3>6. x.what # "removed" BY <3>1
    <3> QED BY <3>3, <3>4, <3>5, <3>6, OutAppendStep
  <2>7. ASSUME NEW n \in Names, Expire(n) PROVE CacheOut' /\ RemovalOut'
    BY <2>7, OutRemoved DEF Expire
  <2>8. CASE HandleResolved
    <3> DEFINE d == Head(events).device  n == Head(events).name
    <3>1. d \in Remotes /\ n \in Names /\ Head(events).what = "resolved"
      BY <2>8, HeadTypes DEF HandleResolved, Event
    <3>2. /\ events # <<>> /\ events' = Tail(events) /\ UNCHANGED cache
          /\ Insert(d, n, n)
      BY <2>8 DEF HandleResolved, Event
    <3>3. Head(events) = events[1] BY <3>2, SeqSteps DEF TypeOK
    <3>4. \A e \in Remotes, m \in Names :
            ~RemovedAt(1, e, m) /\ (ResolvedAt(1, e, m) <=> e = d /\ m = n)
      BY <3>1, <3>3 DEF RemovedAt, ResolvedAt
    <3> HIDE DEF d, n
    <3>5. ASSUME NEW e \in Remotes, NEW m \in Names, ~(e = d /\ m = n), HasFull(e, m)'
          PROVE  HasFull(e, m)
      <4>1. CASE e = d
        <5>1. list'[e].full = n BY <3>1, <3>2, <4>1, InsertView, EntryType
        <5> QED BY <3>5, <4>1, <5>1 DEF HasFull
      <4>2. CASE e # d BY <3>1, <3>2, <3>5, <4>2, InsertView DEF HasFull
      <4> QED BY <4>1, <4>2
    <3> QED BY <3>2, <3>4, <3>5, OutHandleStep
  <2>9. CASE HandleRemoved
    <3> DEFINE n == Head(events).name  gone == {e \in Listed : list[e].full = n}
    <3>1. /\ events # <<>> /\ events' = Tail(events) /\ UNCHANGED cache
          /\ Delete(gone)
      BY <2>9 DEF HandleRemoved, Event
    <3>2. Head(events) = events[1] BY <3>1, SeqSteps DEF TypeOK
    <3>3. \A e \in Remotes, m \in Names : RemovedAt(1, e, m) => m = n
      BY <3>2 DEF RemovedAt
    <3>4. \A e \in Remotes, m \in Names :
            HasFull(e, m)' => HasFull(e, m) /\ e \notin gone
      <4> HIDE DEF gone
      <4> QED BY <3>1, DeleteView DEF HasFull
    <3>5. \A e \in Remotes : HasFull(e, n) => e \in gone BY DEF HasFull, Listed
    <3> HIDE DEF gone, n
    <3> QED BY <3>1, <3>3, <3>4, <3>5, OutHandleStep
  <2>10. ASSUME \/ \E d \in Remotes : Hear(d)
                \/ Sweep \/ Round \/ Tick \/ SetClock
         PROVE  CacheOut' /\ RemovalOut'
    <3>1. \A e \in Remotes, n \in Names : HasFull(e, n)' => HasFull(e, n)
      BY <2>10, FullNames
    <3>2. UNCHANGED <<events, cache>>
      BY <2>10 DEF Hear, Sweep, Round, Tick, SetClock, network, mdns
    <3> QED BY <3>1, <3>2, OutFramed
  <2> QED BY <1>b, <2>4, <2>5, <2>6, <2>7, <2>8, <2>9, <2>10 DEF Next, Discover
<1> QED BY <1>a, <1>b

LEMMA OutInit == Init => OutInv
<1> SUFFICES ASSUME Init, ~shared PROVE NamesDiffer /\ CacheOut /\ RemovalOut
  BY DEF OutInv
<1>1. NamesDiffer BY DEF Init, Shares, Others, NamesDiffer
<1>2. Len(events) = 0 /\ \A d \in Remotes, n \in Names : ~HasFull(d, n)
  BY DEF Init, HasFull
<1>3. CacheOut BY <1>2 DEF CacheOut, Out
<1>4. RemovalOut BY <1>2 DEF RemovalOut
<1> QED BY <1>1, <1>3, <1>4

\* The queue, the cache and the list agree on who has which full_name, through lost,
\* late and queued events (mdns.rs, listen).
THEOREM OutFollows == Spec => [](TypeOK /\ OutInv)
<1>1. Init => TypeOK /\ OutInv BY TypesInit, OutInit
<1>2. TypeOK /\ OutInv /\ [Next]_vars => (TypeOK /\ OutInv)' BY TypesStep, OutStep
<1> QED BY <1>1, <1>2, PTL DEF Spec

\* ServiceRemoved changes the entries of those only whose registration has ended, as
\* long as no two remotes that ran had the same name (mdns.rs, listen).
THEOREM RemovalsAreOwn == Spec => RemovedIsOwn
<1>1. TypeOK /\ OutInv /\ [Next]_vars =>
        (Event("removed") /\ events' = Tail(events) /\ ~shared =>
           \A d \in Remotes \ Head(events).by : list'[d] = list[d])
  <2> SUFFICES ASSUME TypeOK, OutInv, [Next]_vars, Event("removed"),
                      events' = Tail(events), ~shared,
                      NEW d \in Remotes \ Head(events).by
               PROVE  list'[d] = list[d]
    OBVIOUS
  <2>1. /\ events # <<>> /\ Head(events).what = "removed" /\ Head(events) = events[1]
        /\ Len(events) >= 1 /\ Len(events) \in Nat /\ Len(events') = Len(events) - 1
        /\ Head(events).name \in Names
    BY SeqSteps, HeadTypes DEF Event, TypeOK
  <2>2. HandleRemoved
    <3>0. \A k \in Nat : k - 1 # k /\ k - 1 # k + 1 OBVIOUS
    <3>1. events' # events BY <2>1, <3>0, OtherLength, Zenon
    <3>2. ASSUME NEW x \in Events PROVE events' # Append(events, x)
      <4>1. Len(Append(events, x)) = Len(events) + 1 BY SeqSteps DEF TypeOK
      <4> QED BY <2>1, <3>0, <4>1, OtherLength, Zenon
    <3>3. ASSUME NEW e \in Remotes, Rename(e) PROVE FALSE
      <4>1. name[e] \in Names /\ Holders(name[e]) \ Others(e, name[e]) \in SUBSET Remotes
        BY DEF TypeOK, Holders
      <4>2. Removed(name[e], Holders(name[e]) \ Others(e, name[e])) \in Events
        BY <4>1, EventTypes
      <4> QED BY <3>1, <3>2, <3>3, <4>2 DEF Rename, mdns
    <3>4. ASSUME NEW e \in Remotes, Resolve(e) PROVE FALSE
      <4>1. Resolved(e, name[e]) \in Events BY EventTypes DEF TypeOK
      <4> QED BY <3>2, <3>4, <4>1 DEF Resolve
    <3>5. ASSUME NEW n \in Names, Expire(n) PROVE FALSE
      <4>1. Holders(n) \in SUBSET Remotes BY DEF Holders
      <4>2. Removed(n, Holders(n)) \in Events BY <4>1, EventTypes
      <4> QED BY <3>2, <3>5, <4>2 DEF Expire
    <3>6. ASSUME NEW e \in Remotes, Appear(e) \/ Leave(e) \/ Hear(e) \/ Dial(e)
                                    \/ Accepted(e) \/ Dropped(e)
          PROVE  FALSE
      BY <3>1, <3>6 DEF Appear, Leave, Hear, Dial, Accepted, Dropped, network, mdns
    <3>7. ~HandleResolved BY <2>1 DEF HandleResolved, Event
    <3>8. ~Sweep /\ ~Round /\ ~Tick /\ ~SetClock /\ ~UNCHANGED vars
      BY <3>1 DEF Sweep, Round, Tick, SetClock, vars, network, mdns
    <3> QED BY <3>3, <3>4, <3>5, <3>6, <3>7, <3>8 DEF Next, Discover
  <2> DEFINE n == Head(events).name  gone == {e \in Listed : list[e].full = n}
  <2>3. Delete(gone) BY <2>2 DEF HandleRemoved
  <2>4. CASE poisoned BY <2>3, <2>4, DeleteView
  <2>5. CASE ~poisoned
    <3>1. n \in Names /\ 1 \in 1 .. Len(events) /\ events[1].name = n
          /\ events[1].what = "removed" /\ d \notin events[1].by
      BY <2>1
    <3>2. Out(d, n, 1) BY <2>5, <3>1 DEF OutInv, RemovalOut
    <3>3. 1 .. 1 - 1 = {} OBVIOUS
    <3>4. ~HasFull(d, n) BY <3>2, <3>3 DEF Out
    <3>5. d \notin gone BY <3>4 DEF HasFull, Listed
    <3> HIDE DEF gone, n
    <3> QED BY <2>3, <2>5, <3>5, DeleteView
  <2> QED BY <2>4, <2>5
<1>2. Spec => [](TypeOK /\ OutInv) BY OutFollows
<1> QED BY <1>1, <1>2, PTL DEF Spec, RemovedIsOwn
=============================================================================
