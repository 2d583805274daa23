------------------------------ MODULE FifoCache ------------------------------
(***************************************************************************)
(* The bounded FIFO memory used three times by the program: the UUID and   *)
(* the hash cache of DeduplicationService (clipboard/dedup.rs) and the     *)
(* UUID cache of ClipboardWriter (clipboard/writer.rs).  It is a VecDeque  *)
(* with a capacity of 1000.  An element that is already present is added   *)
(* again, so repeated marks of one element take several places.            *)
(***************************************************************************)
EXTENDS Naturals, Sequences

\* `cache.contains(..)`
Holds(cache, x) == \E i \in 1..Len(cache) : cache[i] = x

\* Mutant of Add: the eviction is forgotten.
AddWithoutEviction(cache, x, cap) == Append(cache, x)

\* `if cache.len() >= CAP { cache.pop_front(); } cache.push_back(x)`
Add(cache, x, cap) ==
  Append(IF Len(cache) >= cap THEN Tail(cache) ELSE cache, x)

\* The cache holds exactly the last cap elements of log: what the code's caches
\* are meant to remember ("the most recent 1000 records").
IsWindow(cache, log, cap) ==
  /\ Len(cache) <= cap
  /\ Len(cache) <= Len(log)
  /\ Len(cache) < cap => Len(cache) = Len(log)
  /\ \A i \in 1..Len(cache) : cache[i] = log[Len(log) - Len(cache) + i]
=============================================================================
