----------------------------- MODULE DeviceName -----------------------------
(***************************************************************************)
(* Names of devices: what set_device_name accepts, and how a name is       *)
(* written into an mDNS service name and a UDP broadcast and read again    *)
(* (config.rs, validate_device_name; mdns.rs, encode_mdns_name and         *)
(* decode_mdns_name).                                                      *)
(*                                                                         *)
(* A name is a sequence of characters of a small alphabet.  One character, *)
(* Wide, stands for those outside ASCII: it is U+4104, which has the bytes *)
(* E4 84 84, so that what they are escaped with is in the alphabet too.    *)
(***************************************************************************)
EXTENDS Naturals, Sequences

CONSTANT MaxNameBytes   \* the longest name accepted: 30 in the code

ASSUME MaxNameBytesAssumption == MaxNameBytes \in Nat

Wide    == "W"
Letters == {"x", "E", "4", "8", Wide}     \* char::is_alphanumeric
Marks   == {" ", "-", "%", "@"}
Chars   == Letters \cup Marks

Bytes(c)  == IF c = Wide THEN 3 ELSE 1
Ascii(n)  == \A i \in DOMAIN n : n[i] # Wide

\* str::len, in bytes
ByteLen(n) ==
  LET len[i \in 0 .. Len(n)] == IF i = 0 THEN 0 ELSE len[i - 1] + Bytes(n[i])
  IN  len[Len(n)]

\* str::trim
Trim(n) ==
  LET solid == {i \in DOMAIN n : n[i] # " "}
      first == CHOOSE i \in solid : \A j \in solid : i <= j
      last  == CHOOSE i \in solid : \A j \in solid : j <= i
  IN  IF solid = {} THEN <<>> ELSE SubSeq(n, first, last)

ValidName(n) ==
  LET t == Trim(n)
  IN  /\ t # <<>>
      /\ ByteLen(t) <= MaxNameBytes
      /\ \A i \in DOMAIN t : t[i] \in Letters \cup {" ", "-"}

-----------------------------------------------------------------------------
\* The three bytes, %XX each
Escape == <<"%", "E", "4", "%", "8", "4", "%", "8", "4">>

EncodeChar(c) == IF c = Wide THEN Escape ELSE IF c = " " THEN <<"-">> ELSE <<c>>

\* What the first i characters become, for every i
Encoded(n) ==
  LET enc[i \in 0 .. Len(n)] ==
        IF i = 0 THEN <<>> ELSE enc[i - 1] \o EncodeChar(n[i])
  IN  enc

\* ASCII names are broadcast as they are
Encode(n) == IF Ascii(n) THEN n ELSE Encoded(n)[Len(n)]

\* A percent sign that is followed by less comes from no name that is accepted.
EscapeAt(s, i) == i + 8 <= Len(s) /\ SubSeq(s, i, i + 8) = Escape

\* What is read from place i on, for every i
Decoded(s) ==
  LET dec[i \in 1 .. Len(s) + 1] ==
        IF i > Len(s) THEN <<>>
        ELSE IF EscapeAt(s, i) THEN <<Wide>> \o dec[i + 9]
        ELSE <<s[i]>> \o dec[i + 1]
  IN  dec

Decode(s) == Decoded(s)[1]

-----------------------------------------------------------------------------
\* What other devices are to show for a name: the name itself, except that spaces
\* become hyphens when it has a character outside ASCII.
Shown(n) ==
  IF Ascii(n) THEN n ELSE [i \in DOMAIN n |-> IF n[i] = " " THEN "-" ELSE n[i]]
=============================================================================
