---------------------------- MODULE MCConnection ----------------------------
(* Small networks of devices for Connection. *)
EXTENDS Connection, TLC

CONSTANTS a, b, c, s1, s2, s3

\* Only a has discovered b.
OneWay == {<<a, b>>}
\* a and b have discovered each other.
BothWays == {<<a, b>>, <<b, a>>}
\* a and b have both discovered c.
TwoClients == {<<a, c>>, <<b, c>>}
=============================================================================
