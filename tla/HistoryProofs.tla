---------------------------- MODULE HistoryProofs ----------------------------
(***************************************************************************)
(* Proofs about the clipboard history: its types, that the table is        *)
(* bounded and without repetitions, that the oldest records leave first,   *)
(* and that table and listings implement the log of HistoryLog.            *)
(***************************************************************************)
EXTENDS HistoryStore, FiniteSetTheorems, TLAPS

(* Types *)

\* A listing shows records of the table.
LEMMA ListingShowsRows == Listing \subseteq rows
BY DEF Listing, Newest

\* Making room only removes records.
LEMMA AfterLimitRemoves == AfterLimit \subseteq rows
BY DEF AfterLimit

\* The record that an insertion adds.
NewRow ==
  [id |-> lastId + 1, content |-> Head(inserts).content, at |-> clock,
   n |-> Head(inserts).n]

\* A sequence over a set is one over a larger set.
LEMMA SeqMonotone ==
  ASSUME NEW S, NEW T, S \subseteq T, NEW s \in Seq(S)
  PROVE  s \in Seq(T)
<1>1. Len(s) \in Nat /\ s \in [1..Len(s) -> T] OBVIOUS
<1> QED BY <1>1

\* What is at the head of a sequence, and what is behind it.
LEMMA HeadAndTail ==
  ASSUME NEW S, NEW s \in Seq(S), s # <<>>
  PROVE  Head(s) \in S /\ Tail(s) \in Seq(S)
OBVIOUS

\* The head of a nonempty channel is a request.
LEMMA HeadOfInserts ==
  ASSUME TypeOK, inserts # <<>>
  PROVE  /\ Head(inserts) \in [content : Contents, n : 1..requests]
         /\ Tail(inserts) \in Seq([content : Contents, n : 1..requests])
<1> DEFINE R == [content : Contents, n : 1..requests]
<1>1. inserts \in Seq(R) BY DEF TypeOK
<1> HIDE DEF R
<1>2. Head(inserts) \in R /\ Tail(inserts) \in Seq(R) BY <1>1, HeadAndTail
<1> QED BY <1>2 DEF R

\* A new record is a record.
LEMMA NewRowType ==
  ASSUME TypeOK, inserts # <<>>, Head(inserts).content \notin Blank
  PROVE  NewRow \in Rows
<1>1. Head(inserts) \in [content : Contents, n : 1..requests]
  BY HeadOfInserts
<1>2. lastId + 1 \in Nat /\ clock \in Nat /\ requests \in Nat BY DEF TypeOK
<1>3. Head(inserts).content \in Contents \ Blank /\ Head(inserts).n \in Nat
  BY <1>1, <1>2
<1> QED BY <1>2, <1>3 DEF NewRow, Rows

\* An insertion leaves what AfterLimit keeps, with or without the new record.
LEMMA InsertView ==
  ASSUME Insert
  PROVE  /\ inserts # <<>> /\ Head(inserts).content \notin Blank
         /\ lastId' = lastId + 1
         /\ \/ rows' = AfterLimit
            \/ /\ rows' = AfterLimit \cup {NewRow}
               /\ \A r \in AfterLimit : r.content # NewRow.content
BY DEF Insert, TakeInsert, NewRow, Duplicate

\* Every step keeps the types.
LEMMA TypeStep == ASSUME TypeOK, [Next]_vars PROVE TypeOK'
<1> USE DEF TypeOK
<1>1. ASSUME NEW x \in Contents, RequestInsert(x) PROVE TypeOK'
  <2>1. inserts' \in Seq([content : Contents, n : 1..requests'])
    <3> DEFINE R == [content : Contents, n : 1..requests']
               e == [content |-> x, n |-> requests + 1]
    <3>1. requests' = requests + 1 BY <1>1 DEF RequestInsert
    <3>2. e \in R BY <3>1
    <3>3. inserts \in Seq(R)
      <4>1. inserts \in Seq([content : Contents, n : 1..requests]) OBVIOUS
      <4>2. 1..requests \subseteq 1..requests' BY <3>1
      <4>3. [content : Contents, n : 1..requests] \subseteq R BY <4>2
      <4> QED BY <4>1, <4>3, SeqMonotone
    <3>4. inserts' = Append(inserts, e) BY <1>1 DEF RequestInsert
    <3> HIDE DEF R, e
    <3>5. inserts' \in Seq(R) BY <3>2, <3>3, <3>4
    <3> QED BY <3>5 DEF R
  <2>2. clears' \in Seq(0..requests') /\ cleared' \in 0..requests'
    <3>1. requests' = requests + 1 /\ clears' = clears /\ cleared' = cleared
      BY <1>1 DEF RequestInsert
    <3>2. 0..requests \subseteq 0..requests' BY <3>1
    <3> QED BY <3>1, <3>2
  <2> QED BY <1>1, <2>1, <2>2 DEF RequestInsert, table, bounds
<1>2. CASE RequestQuery
  BY <1>2 DEF RequestQuery, table, bounds
<1>3. CASE RequestClear
  <2>1. clears' \in Seq(0..requests')
    BY <1>3 DEF RequestClear
  <2> QED BY <1>3, <2>1 DEF RequestClear, table
<1>4. CASE SkipInsert
  <2>1. inserts' \in Seq([content : Contents, n : 1..requests'])
    BY <1>4, HeadOfInserts DEF SkipInsert, TakeInsert
  <2> QED BY <1>4, <2>1 DEF SkipInsert, TakeInsert, table
<1>5. CASE Insert
  <2>1. inserts' \in Seq([content : Contents, n : 1..requests'])
    BY <1>5, HeadOfInserts DEF Insert, TakeInsert
  <2>2. rows' \in SUBSET Rows
    BY <1>5, InsertView, NewRowType, AfterLimitRemoves
  <2>3. lastId' \in Nat BY <1>5 DEF Insert
  <2> QED BY <1>5, <2>1, <2>2, <2>3 DEF Insert, TakeInsert
<1>6. CASE InsertFails
  <2>1. inserts' \in Seq([content : Contents, n : 1..requests'])
    BY <1>6, HeadOfInserts DEF InsertFails, TakeInsert
  <2>2. rows' \in SUBSET Rows
    BY <1>6, AfterLimitRemoves DEF InsertFails
  <2> QED BY <1>6, <2>1, <2>2 DEF InsertFails, TakeInsert
<1>7. CASE HandleQuery
  BY <1>7, ListingShowsRows DEF HandleQuery, table, bounds
<1>8. CASE HandleClear
  <2>1. clears' \in Seq(0..requests') /\ cleared' \in 0..requests'
    BY <1>8 DEF HandleClear
  <2> QED BY <1>8, <2>1 DEF HandleClear, bounds
<1>7a. CASE QueryFails
  BY <1>7a DEF QueryFails, table
<1>8a. CASE ClearFails
  <2>1. clears' \in Seq(0..requests')
    BY <1>8a DEF ClearFails
  <2> QED BY <1>8a, <2>1 DEF ClearFails, table
<1>9. CASE Tick
  BY <1>9 DEF Tick, table, bounds
<1>10. CASE SetBack
  BY <1>10 DEF SetBack, table
<1>11. CASE Restart
  BY <1>11 DEF Restart, table
<1>12. CASE UNCHANGED vars
  BY <1>12 DEF vars, table, bounds
<1> QED
  BY <1>1, <1>2, <1>3, <1>4, <1>5, <1>6, <1>7, <1>7a, <1>8, <1>8a, <1>9, <1>10, <1>11,
     <1>12 DEF Next

\* The types and the ranges of the counters hold in every reachable state.
THEOREM Types == Spec => []TypeOK
<1>1. Init => TypeOK
  BY DEF Init, TypeOK
<1>2. TypeOK /\ [Next]_vars => TypeOK'
  BY TypeStep
<1> QED BY <1>1, <1>2, PTL DEF Spec
-----------------------------------------------------------------------------
(* The table *)

\* No two records of a table share a content or an id.
Distinct(R) == \A q, r \in R : q.content = r.content \/ q.id = r.id => q = r

\* Any records of a table have an oldest one among them.
HasOldest(R) ==
  \A S \in SUBSET R : S # {} => \E m \in S : \A q \in S : q = m \/ Older(m, q)

\* A finite table of distinct, ordered records whose ids have been given out.
Table(R, last) ==
  /\ R \in SUBSET Rows /\ IsFiniteSet(R)
  /\ Distinct(R) /\ HasOldest(R)
  /\ \A r \in R : r.id <= last

\* The inductive invariant of the table.  The clock only bounds the timestamps as
\* long as it has not been set back.
TableInv ==
  /\ Table(rows, lastId)
  /\ Cardinality(rows) <= Capacity
  /\ setBack = 0 => \A r \in rows : r.at <= clock

\* The order of records is strict and, on distinct records, total.
LEMMA OlderOrders ==
  ASSUME NEW q \in Rows, NEW r \in Rows
  PROVE  /\ ~(Older(q, r) /\ Older(r, q)) /\ ~Older(q, q)
         /\ q.id # r.id => Older(q, r) \/ Older(r, q)
         /\ \A p \in Rows : Older(p, q) /\ Older(q, r) => Older(p, r)
BY DEF Older, Rows

\* Part of a table is a table.
LEMMA PartOfTable ==
  ASSUME NEW R, NEW T \in SUBSET R, NEW last \in Nat, Table(R, last)
  PROVE  Table(T, last) /\ Cardinality(T) <= Cardinality(R)
<1>1. IsFiniteSet(T) /\ Cardinality(T) <= Cardinality(R)
  BY FS_Subset DEF Table
<1>2. HasOldest(T)
  BY DEF Table, HasOldest
<1>3. Distinct(T)
  BY DEF Table, Distinct
<1> QED BY <1>1, <1>2, <1>3 DEF Table

\* A record with a new id and a new content makes a larger table.
LEMMA AddToTable ==
  ASSUME NEW R, NEW last \in Nat, Table(R, last), NEW e \in Rows,
         e.id = last + 1, \A r \in R : r.content # e.content
  PROVE  /\ Table(R \cup {e}, last + 1)
         /\ Cardinality(R \cup {e}) = Cardinality(R) + 1
<1>1. R \subseteq Rows /\ IsFiniteSet(R) /\ Cardinality(R) \in Nat
  BY FS_CardinalityType DEF Table
<1>2. \A r \in R : r.id \in Nat /\ r.id <= last /\ r.id # e.id
  BY <1>1 DEF Table, Rows
<1>3. e \notin R
  BY <1>2
<1>4. IsFiniteSet(R \cup {e}) /\ Cardinality(R \cup {e}) = Cardinality(R) + 1
  BY <1>1, <1>3, FS_AddElement
<1>5. Distinct(R \cup {e})
  BY <1>2 DEF Table, Distinct
<1>6. HasOldest(R \cup {e})
  <2> SUFFICES ASSUME NEW S \in SUBSET (R \cup {e}), S # {}
               PROVE  \E m \in S : \A q \in S : q = m \/ Older(m, q)
    BY DEF HasOldest
  <2> DEFINE T == S \ {e}
  <2>1. CASE T = {}
    <3>1. S = {e} BY <2>1
    <3> QED BY <3>1
  <2>2. CASE T # {}
    <3>1. T \in SUBSET R OBVIOUS
    <3>2. PICK m \in T : \A q \in T : q = m \/ Older(m, q)
      BY <2>2, <3>1 DEF Table, HasOldest
    <3>3. m \in Rows /\ m.id # e.id BY <3>1, <1>1, <1>2
    <3>4. CASE e \notin S \/ Older(m, e)
      BY <3>2, <3>4
    <3>5. CASE e \in S /\ Older(e, m)
      <4>1. \A q \in T : Older(e, q)
        BY <3>1, <3>2, <3>3, <3>5, <1>1, OlderOrders
      <4> QED BY <4>1, <3>5
    <3> QED BY <3>3, <3>4, <3>5, OlderOrders
  <2> QED BY <2>1, <2>2
<1>7. \A r \in R \cup {e} : r.id <= last + 1
  BY <1>2
<1> QED BY <1>1, <1>4, <1>5, <1>6, <1>7 DEF Table

\* Making room leaves room: at least the oldest record of a full table goes.
LEMMA RoomIsMade ==
  ASSUME TypeOK, TableInv
  PROVE  /\ Table(AfterLimit, lastId)
         /\ Cardinality(AfterLimit) \in Nat /\ Cardinality(AfterLimit) < Capacity
<1>1. /\ Table(rows, lastId) /\ lastId \in Nat /\ rows \subseteq Rows
      /\ IsFiniteSet(rows) /\ Cardinality(rows) \in Nat
      /\ Cardinality(rows) <= Capacity
  BY FS_CardinalityType DEF TableInv, TypeOK, Table
<1>2. Capacity \in Nat /\ Batch \in Nat /\ 0 < Batch /\ Batch <= Capacity
  BY SizesAssumption
<1>3. Table(AfterLimit, lastId) /\ Cardinality(AfterLimit) \in Nat
  BY <1>1, AfterLimitRemoves, PartOfTable, FS_CardinalityType DEF Table
<1>4. Cardinality(AfterLimit) < Capacity
  <2>1. CASE Cardinality(rows) < Capacity
    <3>1. AfterLimit = rows BY <2>1, <1>1, <1>2 DEF AfterLimit
    <3> QED BY <3>1, <2>1
  <2>2. CASE Cardinality(rows) = Capacity
    <3>1. rows # {} BY <2>2, <1>2, FS_EmptySet
    <3>2. PICK m \in rows : \A q \in rows : q = m \/ Older(m, q)
      BY <3>1, <1>1 DEF Table, HasOldest
    <3>3. {q \in rows : Older(q, m)} = {}
      BY <3>2, <1>1, OlderOrders
    <3>4. m \notin AfterLimit
      <4>1. Cardinality({q \in rows : Older(q, m)}) = 0
        BY <3>3, FS_EmptySet
      <4>2. Cardinality(rows) >= Capacity BY <2>2, <1>2
      <4> QED BY <4>1, <4>2, <1>2 DEF AfterLimit
    <3>5. AfterLimit \in SUBSET (rows \ {m})
      BY <3>4, AfterLimitRemoves
    <3>6. IsFiniteSet(rows \ {m}) /\ Cardinality(rows \ {m}) = Cardinality(rows) - 1
      BY <1>1, FS_RemoveElement
    <3>7. Cardinality(AfterLimit) <= Cardinality(rows) - 1
      BY <3>5, <3>6, FS_Subset
    <3> QED BY <3>7, <2>2, <1>2, <1>3
  <2> QED BY <2>1, <2>2, <1>1, <1>2
<1> QED BY <1>3, <1>4

\* An insertion keeps the invariant of the table.
LEMMA InsertKeepsTable ==
  ASSUME TypeOK, TableInv, Insert
  PROVE  TableInv'
<1>1. lastId \in Nat /\ clock \in Nat /\ clock' = clock /\ setBack' = setBack
  BY DEF TypeOK, Insert, TakeInsert
<1>2. Table(AfterLimit, lastId) /\ Cardinality(AfterLimit) \in Nat
      /\ Cardinality(AfterLimit) < Capacity
  BY RoomIsMade
<1>3. NewRow \in Rows /\ NewRow.id = lastId + 1 /\ NewRow.at = clock
  BY InsertView, NewRowType DEF NewRow
<1>4. lastId' = lastId + 1 BY InsertView
<1>5. CASE rows' = AfterLimit
  <2>1. Table(AfterLimit, lastId + 1)
    BY <1>1, <1>2 DEF Table, Rows
  <2>2. Table(rows', lastId') BY <2>1, <1>4, <1>5
  <2>3. Cardinality(rows') <= Capacity
    BY <1>2, <1>5, SizesAssumption
  <2>4. setBack' = 0 => \A r \in rows' : r.at <= clock'
    BY <1>1, <1>5, AfterLimitRemoves DEF TableInv
  <2> QED BY <2>2, <2>3, <2>4 DEF TableInv, Table, Distinct, HasOldest, Older
<1>6. CASE /\ rows' = AfterLimit \cup {NewRow}
           /\ \A r \in AfterLimit : r.content # NewRow.content
  <2>1. /\ Table(AfterLimit \cup {NewRow}, lastId + 1)
        /\ Cardinality(AfterLimit \cup {NewRow}) = Cardinality(AfterLimit) + 1
    BY <1>1, <1>2, <1>3, <1>6, AddToTable
  <2>2. Table(rows', lastId') BY <2>1, <1>4, <1>6
  <2>3. Cardinality(rows') <= Capacity
    BY <2>1, <1>2, <1>6, SizesAssumption
  <2>4. setBack' = 0 => \A r \in rows' : r.at <= clock'
    BY <1>1, <1>3, <1>6, AfterLimitRemoves DEF TableInv
  <2> QED BY <2>2, <2>3, <2>4 DEF TableInv, Table, Distinct, HasOldest, Older
<1> QED BY <1>5, <1>6, InsertView

\* A step that leaves part of the table keeps its invariant.
LEMMA LessKeepsTable ==
  ASSUME TypeOK, TableInv, rows' \in SUBSET rows, lastId' = lastId,
         setBack' = 0 => setBack = 0 /\ clock \in Nat /\ clock' \in Nat /\ clock <= clock'
  PROVE  TableInv'
<1>1. Table(rows', lastId) /\ Cardinality(rows') <= Cardinality(rows)
  BY PartOfTable DEF TypeOK, TableInv
<1>2. Cardinality(rows') <= Capacity
  <2>1. Cardinality(rows) \in Nat /\ Cardinality(rows') \in Nat
    BY <1>1, FS_CardinalityType DEF TableInv, Table
  <2> QED BY <2>1, <1>1, SizesAssumption DEF TableInv
<1>3. setBack' = 0 => \A r \in rows' : r.at <= clock'
  BY DEF TableInv, TypeOK, Rows
<1> QED BY <1>1, <1>2, <1>3 DEF TableInv, Table, Distinct, HasOldest, Older

\* Every step keeps the invariant of the table.
LEMMA TableStep == ASSUME TypeOK, TableInv, [Next]_vars PROVE TableInv'
<1>0. clock \in Nat /\ setBack \in Nat BY DEF TypeOK
<1>1. CASE Insert
  BY <1>1, InsertKeepsTable
<1>2. CASE InsertFails
  BY <1>0, <1>2, AfterLimitRemoves, LessKeepsTable DEF InsertFails, TakeInsert
<1>3. CASE HandleClear
  BY <1>0, <1>3, LessKeepsTable DEF HandleClear, bounds
<1>4. CASE Tick
  BY <1>0, <1>4, LessKeepsTable DEF Tick, table, bounds
<1>5. CASE SetBack
  BY <1>0, <1>5, LessKeepsTable DEF SetBack, table
<1>6. CASE \/ \E x \in Contents : RequestInsert(x)
           \/ RequestQuery \/ RequestClear \/ SkipInsert
           \/ HandleQuery \/ QueryFails \/ ClearFails \/ Restart \/ UNCHANGED vars
  <2>1. rows' = rows /\ lastId' = lastId /\ clock' = clock /\ setBack' = setBack
    BY <1>6 DEF RequestInsert, RequestQuery, RequestClear, SkipInsert, TakeInsert,
                HandleQuery, QueryFails, ClearFails, Restart, vars, table, bounds
  <2> QED BY <1>0, <2>1, LessKeepsTable
<1> QED BY <1>1, <1>2, <1>3, <1>4, <1>5, <1>6 DEF Next

\* An empty table satisfies the invariant.
LEMMA TableInit == ASSUME Init PROVE TableInv
<1>1. rows = {} /\ lastId = 0 BY DEF Init
<1>2. IsFiniteSet(rows) /\ Cardinality(rows) = 0 BY <1>1, FS_EmptySet
<1> QED BY <1>1, <1>2, SizesAssumption DEF TableInv, Table, Distinct, HasOldest

\* The invariant of the table in every reachable state.
LEMMA TableAlways == Spec => [](TypeOK /\ TableInv)
<1>1. Init => TypeOK /\ TableInv
  BY TableInit DEF Init, TypeOK
<1>2. TypeOK /\ TableInv /\ [Next]_vars => (TypeOK /\ TableInv)'
  BY TypeStep, TableStep
<1> QED BY <1>1, <1>2, PTL DEF Spec

\* The table never exceeds its capacity and never holds a content or an id twice.
THEOREM TableIsBounded == Spec => []TableBounded
<1>1. TypeOK /\ TableInv => TableBounded
  BY DEF TableInv, Table, Distinct, TableBounded
<1> QED BY <1>1, TableAlways, PTL
-----------------------------------------------------------------------------
(* Which records leave *)

\* Making room removes only records older than those it keeps.
LEMMA OldestLeave ==
  ASSUME TypeOK, TableInv, NEW gone \in rows \ AfterLimit, NEW kept \in AfterLimit
  PROVE  Older(gone, kept)
<1> DEFINE Before(r) == {q \in rows : Older(q, r)}
<1>1. /\ rows \subseteq Rows /\ IsFiniteSet(rows) /\ kept \in rows
      /\ Distinct(rows) /\ Batch \in Nat
  BY AfterLimitRemoves, SizesAssumption DEF TableInv, Table
<1>2. Cardinality(rows) >= Capacity
  BY DEF AfterLimit
<1>3. Cardinality(Before(kept)) >= Batch /\ ~(Cardinality(Before(gone)) >= Batch)
  BY <1>2 DEF AfterLimit
<1>4. /\ IsFiniteSet(Before(gone)) /\ Before(gone) \in SUBSET rows
      /\ Cardinality(Before(gone)) \in Nat /\ Cardinality(Before(kept)) \in Nat
  <2>1. Before(gone) \in SUBSET rows /\ Before(kept) \in SUBSET rows OBVIOUS
  <2> HIDE DEF Before
  <2> QED BY <2>1, <1>1, FS_Subset, FS_CardinalityType
<1>5. gone # kept /\ gone \in rows OBVIOUS
<1>6. gone.id # kept.id
  BY <1>1, <1>5 DEF Distinct
<1>7. ~Older(kept, gone)
  <2> SUFFICES ASSUME Older(kept, gone) PROVE FALSE OBVIOUS
  <2>1. \A q \in Before(kept) : q \in Before(gone)
    BY <1>1, <1>5, OlderOrders
  <2>2. Before(kept) \in SUBSET Before(gone) BY <2>1
  <2> HIDE DEF Before
  <2>3. Cardinality(Before(kept)) <= Cardinality(Before(gone))
    BY <2>2, <1>4, FS_Subset
  <2> QED BY <2>3, <1>1, <1>3, <1>4
<1> QED BY <1>1, <1>5, <1>6, <1>7, OlderOrders

\* What a step does to the table, the last listing and the clock's history.
LEMMA TableView ==
  ASSUME [Next]_vars
  PROVE  \/ Insert
         \/ InsertFails /\ rows' \in {rows, AfterLimit} /\ shown' = shown /\ setBack' = setBack
         \/ HandleQuery
         \/ HandleClear
         \/ SetBack
         \/ rows' = rows /\ shown' = shown /\ setBack' = setBack
BY DEF Next, RequestInsert, RequestQuery, RequestClear, SkipInsert, InsertFails,
       TakeInsert, QueryFails, ClearFails, Tick, Restart, vars, table, bounds

\* A step that keeps any record deletes only records older than all it keeps.
THEOREM OldestRecordsLeaveFirst == Spec => OldestLeaveFirst
<1> DEFINE Ordered ==
      \A gone \in rows \ rows', kept \in rows \cap rows' : Older(gone, kept)
<1>1. TypeOK /\ TableInv /\ [Next]_vars => Ordered
  <2> SUFFICES ASSUME TypeOK, TableInv, [Next]_vars,
                      NEW gone \in rows \ rows', NEW kept \in rows \cap rows'
               PROVE  Older(gone, kept)
    OBVIOUS
  <2>1. CASE Insert
    <3>1. NewRow \notin rows
      <4>1. lastId \in Nat BY DEF TypeOK
      <4>2. \A r \in rows : r.id \in Nat /\ r.id <= lastId
        BY DEF TableInv, Table, Rows
      <4> QED BY <4>1, <4>2 DEF NewRow
    <3>2. kept \in AfterLimit /\ gone \in rows \ AfterLimit
      BY <2>1, <3>1, InsertView
    <3> QED BY <3>2, OldestLeave
  <2>2. CASE InsertFails
    <3>1. kept \in AfterLimit /\ gone \in rows \ AfterLimit
      BY <2>2 DEF InsertFails
    <3> QED BY <3>1, OldestLeave
  <2>3. CASE HandleClear
    BY <2>3 DEF HandleClear
  <2>4. CASE rows' = rows
    BY <2>4
  <2> QED BY <2>1, <2>2, <2>3, <2>4, TableView DEF HandleQuery, SetBack, table
<1>2. TypeOK /\ TableInv /\ [Next]_vars => [Ordered]_vars
  BY <1>1
<1>3. [](TypeOK /\ TableInv) /\ [][Next]_vars => [][Ordered]_vars
  BY <1>2, PTL
<1> QED BY <1>3, TableAlways, PTL DEF Spec, OldestLeaveFirst
-----------------------------------------------------------------------------
(* The table implements the log of HistoryLog *)

\* HistoryLog counts as this module does.
LEMMA SameCount == \A S : Log!Cardinality(S) = Cardinality(S)
BY DEF Log!Cardinality, Cardinality

\* The entry of a record, and how entries relate.
EntryOf(r) == [at |-> r.at, id |-> r.id, content |-> r.content]

\* The entries are ordered like their records.
LEMMA EntriesKeepOrder ==
  ASSUME NEW q, NEW r
  PROVE  /\ Log!Before(EntryOf(q), EntryOf(r)) <=> Older(q, r)
         /\ EntryOf(q).id = q.id /\ EntryOf(q).content = q.content
         /\ EntryOf(q).at = q.at
BY DEF EntryOf, Log!Before, Older

\* The entries of a set, one by one.
LEMMA EntriesOfSet ==
  ASSUME NEW R
  PROVE  EntriesOf(R) = {EntryOf(r) : r \in R}
BY DEF EntriesOf, EntryOf

\* As many entries as records, when no two records share an id.
LEMMA EntriesCount ==
  ASSUME NEW R, IsFiniteSet(R), Distinct(R)
  PROVE  Cardinality(EntriesOf(R)) = Cardinality(R)
<1> DEFINE f == [r \in R |-> EntryOf(r)]
<1>1. \A q, r \in R : EntryOf(q) = EntryOf(r) => q = r
  BY EntriesKeepOrder DEF Distinct
<1>2. f \in Bijection(R, EntriesOf(R))
  <2>1. f \in [R -> EntriesOf(R)]
    BY EntriesOfSet
  <2>2. \A q, r \in R : f[q] = f[r] => q = r
    BY <1>1
  <2>3. \A e \in EntriesOf(R) : \E r \in R : f[r] = e
    BY EntriesOfSet
  <2> HIDE DEF f
  <2> QED BY <2>1, <2>2, <2>3 DEF Bijection, Injection, Surjection, IsInjective
<1> HIDE DEF f
<1> QED BY <1>2, FS_Bijection DEF ExistsBijection

\* As many entries come before an entry as records before its record, and after.
LEMMA EntriesRank ==
  ASSUME TableInv, NEW r \in rows
  PROVE  /\ Cardinality({f \in EntriesOf(rows) : Log!Before(f, EntryOf(r))})
               = Cardinality({q \in rows : Older(q, r)})
         /\ Cardinality({f \in EntriesOf(rows) : Log!Before(EntryOf(r), f)})
               = Cardinality({q \in rows : Older(r, q)})
<1> DEFINE S == {q \in rows : Older(q, r)}
           T == {q \in rows : Older(r, q)}
<1>1. /\ {f \in EntriesOf(rows) : Log!Before(f, EntryOf(r))} = EntriesOf(S)
      /\ {f \in EntriesOf(rows) : Log!Before(EntryOf(r), f)} = EntriesOf(T)
  BY EntriesKeepOrder, EntriesOfSet
<1>2. S \in SUBSET rows /\ T \in SUBSET rows OBVIOUS
<1> HIDE DEF S, T
<1>3. IsFiniteSet(S) /\ IsFiniteSet(T) /\ Distinct(S) /\ Distinct(T)
  BY <1>2, FS_Subset DEF TableInv, Table, Distinct
<1>4. Cardinality(EntriesOf(S)) = Cardinality(S) /\ Cardinality(EntriesOf(T)) = Cardinality(T)
  BY <1>3, EntriesCount
<1> QED BY <1>1, <1>4 DEF S, T

\* What is left when room has to be made, as entries.
LEMMA RoomIsAfterLimit ==
  ASSUME TableInv
  PROVE  Log!Room = EntriesOf(AfterLimit)
<1>1. Cardinality(EntriesOf(rows)) = Cardinality(rows)
  BY EntriesCount DEF TableInv, Table
<1>2. \A r \in rows :
        Cardinality({f \in EntriesOf(rows) : Log!Before(f, EntryOf(r))})
          = Cardinality({q \in rows : Older(q, r)})
  BY EntriesRank
<1>3. CASE Cardinality(rows) >= Capacity
  <2> DEFINE kept == {r \in rows : Cardinality({q \in rows : Older(q, r)}) >= Batch}
  <2>1. Log!Room = {e \in EntriesOf(rows) :
                     Cardinality({f \in EntriesOf(rows) : Log!Before(f, e)}) >= Batch}
    BY <1>1, <1>3, SameCount DEF Log!Room
  <2> DEFINE rank(e) == Cardinality({f \in EntriesOf(rows) : Log!Before(f, e)})
             place(r) == Cardinality({q \in rows : Older(q, r)})
  <2>2. Log!Room = EntriesOf(kept)
    <3>1. Log!Room = {e \in EntriesOf(rows) : rank(e) >= Batch} BY <2>1
    <3>2. \A r \in rows : rank(EntryOf(r)) = place(r) BY <1>2
    <3>3. kept = {r \in rows : place(r) >= Batch} OBVIOUS
    <3> HIDE DEF rank, place, kept
    <3> QED BY <3>1, <3>2, <3>3, EntriesOfSet
  <2>3. AfterLimit = kept
    BY <1>3 DEF AfterLimit
  <2> QED BY <2>2, <2>3
<1>4. CASE ~(Cardinality(rows) >= Capacity)
  BY <1>1, <1>4, SameCount DEF AfterLimit, Log!Room
<1> QED BY <1>3, <1>4

\* A listing shows the latest entries: the table holds nothing blank or repeated
\* that would be left out.
LEMMA ListingIsLatest ==
  ASSUME TypeOK, TableInv
  PROVE  EntriesOf(Listing) = Log!Latest(Limit)
<1>1. Listing = Newest(Limit)
  <2>1. \A r \in rows : r \in Rows /\ r.content \notin Blank
    BY DEF TypeOK, Rows
  <2>2. \A q, r \in rows : q.content = r.content => ~Older(r, q)
    <3>1. \A q, r \in rows : q.content = r.content => q = r
      BY DEF TableInv, Table, Distinct
    <3> QED BY <2>1, <3>1, OlderOrders
  <2> QED BY <2>1, <2>2 DEF Listing, Newest
<1>2. \A r \in rows :
        Cardinality({f \in EntriesOf(rows) : Log!Before(EntryOf(r), f)})
          = Cardinality({q \in rows : Older(r, q)})
  BY EntriesRank
<1> DEFINE top == {r \in rows : Cardinality({q \in rows : Older(r, q)}) < Limit}
<1>3. Log!Latest(Limit) = EntriesOf(top)
  <2> DEFINE rank(e) == Cardinality({f \in EntriesOf(rows) : Log!Before(e, f)})
             place(r) == Cardinality({q \in rows : Older(r, q)})
  <2>1. Log!Latest(Limit) = {e \in EntriesOf(rows) : rank(e) < Limit}
    BY SameCount DEF Log!Latest
  <2>2. \A r \in rows : rank(EntryOf(r)) = place(r) BY <1>2
  <2>3. top = {r \in rows : place(r) < Limit} OBVIOUS
  <2> HIDE DEF rank, place, top
  <2> QED BY <2>1, <2>2, <2>3, EntriesOfSet
<1>4. Newest(Limit) = top
  BY DEF Newest
<1> QED BY <1>1, <1>3, <1>4

\* An insertion records an entry, or makes room for one that is then ignored.
LEMMA InsertRefines ==
  ASSUME TypeOK, TableInv, Insert
  PROVE  Log!Next
<1>1. shown' = shown /\ setBack' = setBack
  BY DEF Insert, TakeInsert
<1>2. Log!Room = EntriesOf(AfterLimit) BY RoomIsAfterLimit
<1>3. CASE rows' = AfterLimit
  BY <1>1, <1>2, <1>3 DEF Log!Next, Log!MakeRoom
<1>4. CASE /\ rows' = AfterLimit \cup {NewRow}
           /\ \A r \in AfterLimit : r.content # NewRow.content
  <2> DEFINE e == EntryOf(NewRow)
  <2>1. NewRow \in Rows /\ NewRow.id = lastId + 1 /\ NewRow.at = clock
    BY InsertView, NewRowType DEF NewRow
  <2>2. EntriesOf(rows') = EntriesOf(AfterLimit) \cup {e}
    BY <1>4, EntriesOfSet
  <2>3. e \in Log!Entries
    BY <2>1 DEF Rows, Log!Entries, EntryOf
  <2>4. \A f \in EntriesOf(AfterLimit) : f.id # e.id /\ f.content # e.content
    <3> SUFFICES ASSUME NEW r \in AfterLimit
                 PROVE  /\ EntryOf(r).id # e.id /\ EntryOf(r).content # e.content
      BY EntriesOfSet
    <3>1. r.id \in Nat /\ r.id <= lastId /\ lastId \in Nat
      BY AfterLimitRemoves DEF TableInv, Table, Rows, TypeOK
    <3>2. r.id # NewRow.id /\ r.content # NewRow.content
      BY <1>4, <2>1, <3>1
    <3> QED BY <3>2, EntriesKeepOrder
  <2>5. (setBack = 0) => \A f \in EntriesOf(AfterLimit) : Log!Before(f, e)
    <3> SUFFICES ASSUME setBack = 0, NEW r \in AfterLimit
                 PROVE  Log!Before(EntryOf(r), e)
      BY EntriesOfSet
    <3>1. /\ r.id \in Nat /\ r.id <= lastId /\ lastId \in Nat
          /\ r.at \in Nat /\ r.at <= clock /\ clock \in Nat
      BY AfterLimitRemoves DEF TableInv, Table, Rows, TypeOK
    <3>2. Older(r, NewRow)
      BY <2>1, <3>1 DEF Older
    <3> QED BY <3>2, EntriesKeepOrder
  <2> HIDE DEF e
  <2>6. Log!Record
    BY <1>1, <1>2, <2>2, <2>3, <2>4, <2>5 DEF Log!Record
  <2> QED BY <2>6 DEF Log!Next
<1> QED BY <1>3, <1>4, InsertView

\* Every step of the history maps to a step of the log or leaves the log alone.
LEMMA StepRefines ==
  ASSUME TypeOK, TableInv, [Next]_vars
  PROVE  [Log!Next]_(Log!vars)
<1>1. CASE Insert
  BY <1>1, InsertRefines
<1>2. CASE InsertFails /\ rows' \in {rows, AfterLimit} /\ shown' = shown /\ setBack' = setBack
  <2>1. CASE rows' = AfterLimit
    BY <1>2, <2>1, RoomIsAfterLimit DEF Log!Next, Log!MakeRoom
  <2>2. CASE rows' = rows
    BY <1>2, <2>2 DEF Log!vars
  <2> QED BY <1>2, <2>1, <2>2
<1>3. CASE HandleQuery
  <2>1. shown' = Listing /\ rows' = rows /\ setBack' = setBack
    BY <1>3 DEF HandleQuery, table, bounds
  <2>2. EntriesOf(shown') = Log!Latest(Limit) BY <2>1, ListingIsLatest
  <2> QED BY <2>1, <2>2 DEF Log!Next, Log!List
<1>4. CASE HandleClear
  <2>1. rows' = {} /\ shown' = shown /\ setBack' = setBack
    BY <1>4 DEF HandleClear, bounds
  <2>2. EntriesOf(rows') = {} BY <2>1, EntriesOfSet
  <2> QED BY <2>1, <2>2 DEF Log!Next, Log!Clear
<1>5. CASE SetBack
  <2>1. setBack' = setBack + 1 /\ rows' = rows /\ shown' = shown /\ setBack \in Nat
    BY <1>5 DEF SetBack, table, TypeOK
  <2>2. (setBack' = 0) = FALSE BY <2>1
  <2> QED BY <2>1, <2>2 DEF Log!Next, Log!SetBack
<1>6. CASE rows' = rows /\ shown' = shown /\ setBack' = setBack
  BY <1>6 DEF Log!vars
<1> QED BY <1>1, <1>2, <1>3, <1>4, <1>5, <1>6, TableView

\* The table and the listings implement the log of HistoryLog, for every capacity.
THEOREM HistoryImplementsLog == Spec => ImplementsLog
<1>1. Init => Log!Init
  <2> SUFFICES ASSUME Init PROVE Log!Init OBVIOUS
  <2>1. rows = {} /\ shown = {} /\ (setBack = 0) = TRUE BY DEF Init
  <2>2. EntriesOf(rows) = {} /\ EntriesOf(shown) = {} BY <2>1, EntriesOfSet
  <2> QED BY <2>1, <2>2 DEF Log!Init
<1>2. TypeOK /\ TableInv /\ [Next]_vars => [Log!Next]_(Log!vars)
  BY StepRefines
<1> QED BY <1>1, <1>2, TableAlways, PTL DEF Spec, ImplementsLog, Log!Spec
=============================================================================
