------------------------------ MODULE HistoryLog ------------------------------
(***************************************************************************)
(* What the clipboard history promises: a bounded log of distinct          *)
(* contents.  When it is full the earliest entries make room, in batches;  *)
(* listings show the latest entries.  A new entry is the latest one as     *)
(* long as the clock, by which entries are ordered, only goes forward.     *)
(***************************************************************************)
EXTENDS Naturals, FiniteSets

CONSTANTS
  Contents,  \* what may be recorded
  Capacity,  \* when so many are in the log, room is made
  Batch,     \* so many leave a full log
  Limit      \* so many are listed

VARIABLES
  log,    \* the entries
  shown,  \* the entries of the last listing
  steady  \* the clock has never been set back

vars == <<log, shown, steady>>

Init == log = {} /\ shown = {} /\ steady = TRUE

Entries == [at : Nat, id : Nat, content : Contents]

Before(e, f) == e.at < f.at \/ (e.at = f.at /\ e.id < f.id)

\* The n latest entries.
Latest(n) == {e \in log : Cardinality({f \in log : Before(e, f)}) < n}

\* What is left when room has to be made.
Room == IF Cardinality(log) >= Capacity
        THEN {e \in log : Cardinality({f \in log : Before(f, e)}) >= Batch}
        ELSE log

\* A new content is added.
Record ==
  /\ \E e \in log' \cap Entries :
       /\ \A f \in Room : f.id # e.id /\ f.content # e.content
       /\ steady => \A f \in Room : Before(f, e)
       /\ log' = Room \cup {e}
  /\ UNCHANGED <<shown, steady>>

\* Room is made for a content that is then not added: it is already in the log, or
\* adding it fails.
MakeRoom ==
  /\ log' = Room
  /\ UNCHANGED <<shown, steady>>

Clear ==
  /\ log' = {}
  /\ UNCHANGED <<shown, steady>>

List ==
  /\ shown' = Latest(Limit)
  /\ UNCHANGED <<log, steady>>

SetBack ==
  /\ steady' = FALSE
  /\ UNCHANGED <<log, shown>>

Next ==
  \/ Record
  \/ MakeRoom
  \/ Clear
  \/ List
  \/ SetBack

Spec == Init /\ [][Next]_vars
=============================================================================
