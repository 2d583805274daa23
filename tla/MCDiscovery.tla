---------------------------- MODULE MCDiscovery ----------------------------
(* Two remotes for Discovery, of different names at first. *)
EXTENDS Discovery

CONSTANTS a, b, m, n

Distinct == [d \in Remotes |-> IF d = a THEN m ELSE n]

\* The clock is set back by two ticks, or forward by three, more than Timeout.
BothWays == {-2, 3}
Forward == {3}
=============================================================================
