---------------------------- MODULE HistoryStore ----------------------------
(***************************************************************************)
(* The clipboard history: the table clipboard_history (clipboard/          *)
(* storage.rs) and the storage thread (app.rs, handle_storage_requests),   *)
(* which takes insertions, listings and clearings from three unbounded     *)
(* channels in no particular order between them.                           *)
(***************************************************************************)
EXTENDS Naturals, Sequences, FiniteSets

CONSTANTS
  Contents,     \* what is copied
  Blank,        \* those of white space only
  Capacity,     \* 1000 records
  Batch,        \* 100 records
  Limit,        \* 100: what get_history asks for
  MaxRequests,  \* bound: insertions requested
  MaxWaiting,   \* bound: insertions in the channel
  MaxClock,     \* bound: the clock
  MaxSetBack,   \* bound: how often the clock is set back
  MaxCommands,  \* bound: commands of the user waiting, and clearings
  MaxErrors     \* bound: failing statements and restarts

ASSUME BlankAssumption == Blank \subseteq Contents
ASSUME SizesAssumption ==
  /\ Capacity \in Nat /\ Batch \in Nat /\ Limit \in Nat
  /\ 0 < Batch /\ Batch <= Capacity

VARIABLES
  rows,      \* the table; n is the number of the request (history field)
  lastId,    \* the AUTOINCREMENT counter
  clock,     \* the system clock, in seconds
  inserts,   \* the channel storage_tx
  queries,   \* listings asked for and not answered
  clears,    \* clearings asked for and not answered: how many requests preceded
  shown,     \* the last listing
  requests,  \* number of requests so far
  cleared,   \* history variable: the requests made before the last clearing
  setBack, clearings, errors  \* bounds

table  == <<rows, lastId>>
bounds == <<setBack, clearings, errors>>
vars   == <<table, clock, inserts, queries, clears, shown, requests, cleared, bounds>>

Init ==
  /\ rows = {} /\ lastId = 0
  /\ clock = 0
  /\ inserts = <<>> /\ queries = 0 /\ clears = <<>>
  /\ shown = {}
  /\ requests = 0 /\ cleared = 0
  /\ setBack = 0 /\ clearings = 0 /\ errors = 0

-----------------------------------------------------------------------------
(* The table *)

\* ORDER BY timestamp, id
Older(q, r) == q.at < r.at \/ (q.at = r.at /\ q.id < r.id)

\* ORDER BY timestamp DESC, id DESC LIMIT n
Newest(n) == {r \in rows : Cardinality({q \in rows : Older(r, q)}) < n}

\* The most recent record has content x.
IsLast(x) == \E r \in Newest(1) : r.content = x

\* Mutants of AfterLimit: it lets the table grow by one more; it deletes the newest.
AfterLimitLate ==
  IF Cardinality(rows) > Capacity
  THEN {r \in rows : Cardinality({q \in rows : Older(q, r)}) >= Batch}
  ELSE rows
AfterLimitNewest ==
  IF Cardinality(rows) >= Capacity THEN rows \ Newest(Batch) ELSE rows

\* enforce_capacity_limit: ORDER BY timestamp ASC, id ASC LIMIT Batch are deleted.
AfterLimit ==
  IF Cardinality(rows) >= Capacity
  THEN {r \in rows : Cardinality({q \in rows : Older(q, r)}) >= Batch}
  ELSE rows

\* The unique index on content_hash ignores an insertion.
Duplicate(x) == \E r \in AfterLimit : r.content = x

\* query_recent: blank records and those repeating the one listed before are
\* skipped, after the limit has been applied.
Listing ==
  LET top == Newest(Limit)
      Repeats(r) == \E q \in top :
        /\ Older(r, q) /\ q.content = r.content
        /\ \A p \in top : Older(r, p) /\ Older(p, q)
                            => p.content \in Blank \cup {r.content}
  IN {r \in top : r.content \notin Blank /\ ~Repeats(r)}

-----------------------------------------------------------------------------
(* Requests: the tasks that push and receive, and the user's commands *)

RequestInsert(x) ==
  /\ requests < MaxRequests /\ Len(inserts) < MaxWaiting
  /\ requests' = requests + 1
  /\ inserts' = Append(inserts, [content |-> x, n |-> requests + 1])
  /\ UNCHANGED <<table, clock, queries, clears, shown, cleared, bounds>>

\* get_history
RequestQuery ==
  /\ queries < MaxCommands
  /\ queries' = queries + 1
  /\ UNCHANGED <<table, clock, inserts, clears, shown, requests, cleared, bounds>>

\* clear_history
RequestClear ==
  /\ clearings < MaxCommands
  /\ clearings' = clearings + 1
  /\ clears' = Append(clears, requests)
  /\ UNCHANGED <<table, clock, inserts, queries, shown, requests, cleared, setBack,
                 errors>>

-----------------------------------------------------------------------------
(* The storage thread: one branch of select!, whichever of the ready ones *)

TakeInsert ==
  /\ inserts # <<>>
  /\ inserts' = Tail(inserts)
  /\ UNCHANGED <<clock, queries, clears, shown, requests, cleared, setBack, clearings>>

\* insert returns before it looks at the capacity.
SkipInsert ==
  /\ TakeInsert
  /\ LET x == Head(inserts).content IN x \in Blank \/ IsLast(x)
  /\ UNCHANGED <<table, errors>>

\* Mutant of Insert: a content that is in the table is inserted again.
InsertAgain ==
  /\ TakeInsert
  /\ LET x == Head(inserts).content IN
       /\ x \notin Blank /\ ~IsLast(x)
       /\ rows' = AfterLimit \cup
            {[id |-> lastId + 1, content |-> x, at |-> clock, n |-> Head(inserts).n]}
       /\ lastId' = lastId + 1
  /\ UNCHANGED errors

\* Mutant of Insert: a blank content is recorded.
InsertBlank ==
  /\ TakeInsert
  /\ LET x == Head(inserts).content IN
       /\ ~IsLast(x)
       /\ rows' = IF Duplicate(x) THEN AfterLimit ELSE AfterLimit \cup
            {[id |-> lastId + 1, content |-> x, at |-> clock, n |-> Head(inserts).n]}
       /\ lastId' = lastId + 1
  /\ UNCHANGED errors

\* insert: room is made whether or not the record is then ignored, and an ignored
\* record has used up an id (AUTOINCREMENT).
Insert ==
  /\ TakeInsert
  /\ LET x == Head(inserts).content IN
       /\ x \notin Blank /\ ~IsLast(x)
       /\ rows' = IF Duplicate(x) THEN AfterLimit ELSE AfterLimit \cup
            {[id |-> lastId + 1, content |-> x, at |-> clock, n |-> Head(inserts).n]}
       /\ lastId' = lastId + 1
  /\ UNCHANGED errors

\* A statement of insert fails: nothing is undone, the thread logs and goes on.
InsertFails ==
  /\ errors < MaxErrors
  /\ errors' = errors + 1
  /\ TakeInsert
  /\ Head(inserts).content \notin Blank
  /\ rows' \in {rows, AfterLimit}
  /\ UNCHANGED lastId

HandleQuery ==
  /\ queries > 0
  /\ queries' = queries - 1
  /\ shown' = Listing
  /\ UNCHANGED <<table, clock, inserts, clears, requests, cleared, bounds>>

\* query_recent fails: get_history returns the error, the window keeps its list.
QueryFails ==
  /\ errors < MaxErrors
  /\ errors' = errors + 1
  /\ queries > 0
  /\ queries' = queries - 1
  /\ UNCHANGED <<table, clock, inserts, clears, shown, requests, cleared, setBack,
                 clearings>>

\* clear_all keeps the AUTOINCREMENT counter.
HandleClear ==
  /\ clears # <<>>
  /\ clears' = Tail(clears)
  /\ rows' = {}
  /\ cleared' = Head(clears)
  /\ UNCHANGED <<lastId, clock, inserts, queries, shown, requests, bounds>>

\* Its statement fails: clear_history returns the error, and the table stays.
ClearFails ==
  /\ errors < MaxErrors
  /\ errors' = errors + 1
  /\ clears # <<>>
  /\ clears' = Tail(clears)
  /\ UNCHANGED <<table, clock, inserts, queries, shown, requests, cleared, setBack,
                 clearings>>

-----------------------------------------------------------------------------
(* The environment *)

Tick ==
  /\ clock < MaxClock
  /\ clock' = clock + 1
  /\ UNCHANGED <<table, inserts, queries, clears, shown, requests, cleared, bounds>>

\* The clock is set back, by the user or by NTP.
SetBack ==
  /\ setBack < MaxSetBack
  /\ setBack' = setBack + 1
  /\ \E t \in 0..clock : clock' = t
  /\ UNCHANGED <<table, inserts, queries, clears, shown, requests, cleared, clearings,
                 errors>>

\* The program ends and starts again: the table is all that is left.
Restart ==
  /\ errors < MaxErrors
  /\ errors' = errors + 1
  /\ inserts' = <<>> /\ queries' = 0 /\ clears' = <<>>
  /\ UNCHANGED <<table, clock, shown, requests, cleared, setBack, clearings>>

-----------------------------------------------------------------------------
Next ==
  \/ \E x \in Contents : RequestInsert(x)
  \/ RequestQuery
  \/ RequestClear
  \/ SkipInsert \/ Insert \/ InsertFails
  \/ HandleQuery \/ QueryFails
  \/ HandleClear \/ ClearFails
  \/ Tick \/ SetBack \/ Restart

Spec == Init /\ [][Next]_vars

-----------------------------------------------------------------------------
(* Properties *)

Rows == [id : Nat, content : Contents \ Blank, at : Nat, n : Nat]

\* Types, and the range of the counters.
TypeOK ==
  /\ rows \in SUBSET Rows
  /\ lastId \in Nat /\ clock \in Nat
  /\ inserts \in Seq([content : Contents, n : 1..requests])
  /\ queries \in Nat /\ clears \in Seq(0..requests)
  /\ shown \in SUBSET Rows
  /\ requests \in Nat /\ cleared \in 0..requests
  /\ setBack \in Nat /\ clearings \in Nat /\ errors \in Nat

\* The table never exceeds its capacity and never holds a content twice: however
\* duplicates, failures, clearings and a clock that is set back are interleaved,
\* room is made before a record is added and never after.
TableBounded ==
  /\ Cardinality(rows) <= Capacity
  /\ \A q, r \in rows : q.content = r.content \/ q.id = r.id => q = r

\* A step that keeps any record deletes only records older than all it keeps: the
\* capacity limit never costs a recent record while an older one stays.
OldestLeaveFirst ==
  [][\A gone \in rows \ rows', kept \in rows \cap rows' : Older(gone, kept)]_vars

\* The table is the log of HistoryLog, and as long as the clock is not set back the
\* order of the timestamps is the order of recording, through equal timestamps as well.
EntriesOf(rs) == {[at |-> r.at, id |-> r.id, content |-> r.content] : r \in rs}

Log == INSTANCE HistoryLog
  WITH log <- EntriesOf(rows), shown <- EntriesOf(shown), steady <- (setBack = 0)

ImplementsLog == Log!Spec

\* Once the history has been cleared, nothing that was copied before the user asked
\* for it is in the table.
ClearedStaysCleared == \A r \in rows : r.n > cleared

\* Records are deleted to make room for one that is then added.
EvictionAddsRecord ==
  [][(rows \ rows' # {} /\ clears' = clears /\ errors' = errors)
       => rows' \ rows # {}]_vars
=============================================================================
