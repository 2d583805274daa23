----------------------------- MODULE MCStartup -----------------------------
(* A device of two callers and a handful of names for Startup. *)
EXTENDS Startup

CONSTANTS p, q

Host == <<"x", "-", "x">>

\* Names of one and two words, in ASCII and not; "W x" is encoded in 11 characters, more
\* than MaxLabel.  Three are not valid: too long in bytes, with a mark, without a letter.
Typed == {<<"x", " ", "x">>, <<" ", Wide, " ", "x">>, <<Wide>>,
          <<Wide, Wide>>, <<"x", "@">>, <<" ">>}
=============================================================================
