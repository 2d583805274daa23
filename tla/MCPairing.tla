------------------------------ MODULE MCPairing ------------------------------
(* Small networks of devices for Pairing. *)
EXTENDS Pairing

CONSTANTS a, b, c

\* a connects to b
OneLink == {<<a, b>>}
\* a and c connect to b, one after the other
Star == {<<a, b>>, <<c, b>>}
\* a and b discover each other at the same time and both connect; c connects to b when
\* a does not
Crossed == {<<a, b>>, <<b, a>>, <<c, b>>}
=============================================================================
