--------------------------- MODULE MCClipboardSync ---------------------------
(* Small networks of devices for ClipboardSync. *)
EXTENDS ClipboardSync, TLC

CONSTANTS a, b, c, c1, c2, c3

\* a is a client of b
OneLink == {<<a, b>>}
\* a and b discovered each other at the same time and both connected
BothWays == {<<a, b>>, <<b, a>>}
\* a and c are clients of b
Star == {<<a, b>>, <<c, b>>}
NoLinks == {}

AllPaired == Devices \X Devices
\* a has not paired with b
ADistrustsB == AllPaired \ {<<a, b>>}
\* Contents the monitor reads are interchangeable in the safety runs.
Sym == Permutations(Contents \ Oversize)

\* How many messages each device creates
Once == [d \in Devices |-> 1]
Twice == [d \in Devices |-> 2]
Thrice == [d \in Devices |-> 3]
\* a may push what it has pushed before another content, b its echo
Again == [d \in Devices |-> IF d = a THEN 3 ELSE 1]
=============================================================================
