-------------------------- MODULE DeviceNameProofs --------------------------
(***************************************************************************)
(* Proofs about the names of devices: for a name of any length, what       *)
(* others decode is what they are to show.  Encode and Decode are          *)
(* recursive functions, to the provers a CHOOSE: that they satisfy their   *)
(* equations is proved first, by induction over the natural numbers.       *)
(***************************************************************************)
EXTENDS DeviceName, Integers, SequenceTheorems, WellFoundedInduction, TLAPS

(* Induction over the natural numbers                                      *)

Below == {ss \in Nat \X Nat : ss[1] < ss[2]}

\* The order of the natural numbers has a least element in every set of them.
LEMMA BelowWellFounded == IsWellFoundedOn(Below, Nat)
BY NatLessThanWellFounded DEF OpToRel, Below

\* Induction, on the set of the numbers for which it holds: what is shown of all is
\* that each is in a set.
LEMMA SetInduction ==
  ASSUME NEW S, 0 \in S, \A n \in Nat : n \in S => n + 1 \in S
  PROVE  Nat \subseteq S
<1> SUFFICES ASSUME Nat \ S # {} PROVE FALSE
  OBVIOUS
<1>1. PICK x \in Nat \ S : \A y \in Nat \ S : ~(<<y, x>> \in Below)
  BY BelowWellFounded, WFMin, Zenon
<1>2. x \in Nat /\ x # 0 OBVIOUS
<1>3. x - 1 \in Nat /\ x - 1 + 1 = x BY <1>2
<1>4. x - 1 \notin S BY <1>3
<1>5. <<x - 1, x>> \in Below BY <1>3 DEF Below
<1> QED BY <1>1, <1>3, <1>4, <1>5

-----------------------------------------------------------------------------
(* Names                                                                   *)

\* Names without the sign that starts an escape.
Plain == Seq(Chars \ {"%"})

\* A name without percent signs is a name.
LEMMA PlainIsName == Plain \subseteq Seq(Chars)
BY SeqMonotonic DEF Plain

\* The escapes of a character are nine characters of the alphabet.
LEMMA EscapeType == Escape \in Seq(Chars) /\ Len(Escape) = 9 /\ Escape[1] = "%"
<1>1. "%" \in Chars /\ "E" \in Chars /\ "4" \in Chars /\ "8" \in Chars
  BY DEF Chars, Letters, Marks
<1> QED BY <1>1 DEF Escape

\* What a character becomes is a name.
LEMMA EncodeCharType ==
  ASSUME NEW c \in Chars
  PROVE  EncodeChar(c) \in Seq(Chars)
<1>1. "-" \in Chars BY DEF Chars, Marks
<1>2. <<"-">> \in Seq(Chars) /\ <<c>> \in Seq(Chars) BY <1>1
<1> QED BY <1>2, EscapeType DEF EncodeChar

\* The recursive function that encode_mdns_name is has its equation: there is a function
\* of the first m characters for every m.
LEMMA EncodedEquation ==
  ASSUME NEW n \in Seq(Chars)
  PROVE  Encoded(n) = [i \in 0 .. Len(n) |->
                         IF i = 0 THEN <<>> ELSE Encoded(n)[i - 1] \o EncodeChar(n[i])]
<1> DEFINE IsEnc(f, m) ==
      f = [i \in 0 .. m |-> IF i = 0 THEN <<>> ELSE f[i - 1] \o EncodeChar(n[i])]
    S == {m \in Nat : \E f : IsEnc(f, m)}
<1>1. 0 \in S
  <2> DEFINE f == [i \in 0 .. 0 |-> <<>>]
  <2>1. IsEnc(f, 0) OBVIOUS
  <2> QED BY <2>1
<1>2. ASSUME NEW m \in Nat, m \in S PROVE m + 1 \in S
  <2>1. PICK f : IsEnc(f, m) BY <1>2
  <2> DEFINE g == [i \in 0 .. m + 1 |-> IF i = m + 1 THEN f[m] \o EncodeChar(n[i]) ELSE f[i]]
  <2>2. ASSUME NEW i \in 0 .. m + 1
        PROVE  g[i] = IF i = 0 THEN <<>> ELSE g[i - 1] \o EncodeChar(n[i])
    <3>1. CASE i = m + 1 BY <3>1
    <3>2. CASE i \in 0 .. m
      <4>1. f[i] = IF i = 0 THEN <<>> ELSE f[i - 1] \o EncodeChar(n[i]) BY <2>1, <3>2
      <4> QED BY <3>2, <4>1
    <3> QED BY <3>1, <3>2
  <2>3. IsEnc(g, m + 1) BY <2>2
  <2>4. \E h : IsEnc(h, m + 1)
    <3> HIDE DEF g, IsEnc
    <3> QED BY <2>3
  <2> QED BY <2>4
<1>3. Nat \subseteq S
  <2> HIDE DEF S
  <2> QED BY <1>1, <1>2, SetInduction
<1>4. \E f : IsEnc(f, Len(n)) BY <1>3, LenProperties
<1>5. Encoded(n) = CHOOSE f : IsEnc(f, Len(n)) BY DEF Encoded
<1> QED BY <1>4, <1>5

\* The same for decode_mdns_name: there is a function of the last m places for every m.
LEMMA DecodedEquation ==
  ASSUME NEW s \in Seq(Chars)
  PROVE  Decoded(s) = [i \in 1 .. Len(s) + 1 |->
                         IF i > Len(s) THEN <<>>
                         ELSE IF EscapeAt(s, i) THEN <<Wide>> \o Decoded(s)[i + 9]
                         ELSE <<s[i]>> \o Decoded(s)[i + 1]]
<1> DEFINE L == Len(s)
    Rest(f, i) == IF i > L THEN <<>>
                  ELSE IF EscapeAt(s, i) THEN <<Wide>> \o f[i + 9] ELSE <<s[i]>> \o f[i + 1]
    IsDec(f, a) == f = [i \in a .. L + 1 |-> Rest(f, i)]
    S == {m \in Nat : \A a \in 1 .. L + 1 : a + m = L + 1 => \E f : IsDec(f, a)}
<1> L \in Nat BY LenProperties
<1>1. 0 \in S
  <2> DEFINE f == [i \in L + 1 .. L + 1 |-> <<>>]
  <2>1. IsDec(f, L + 1) OBVIOUS
  <2>2. \E h : IsDec(h, L + 1)
    <3> HIDE DEF f, IsDec
    <3> QED BY <2>1
  <2> HIDE DEF IsDec
  <2> QED BY <2>2
<1>2. ASSUME NEW m \in Nat, m \in S PROVE m + 1 \in S
  <2> SUFFICES ASSUME NEW a \in 1 .. L + 1, a + (m + 1) = L + 1 PROVE \E h : IsDec(h, a)
    <3> HIDE DEF IsDec
    <3> QED OBVIOUS
  <2>a. a \in 1 .. L /\ a + 1 \in 1 .. L + 1 /\ a + 1 + m = L + 1 OBVIOUS
  <2>1. PICK f : IsDec(f, a + 1)
    <3> HIDE DEF IsDec
    <3> QED BY <1>2, <2>a
  <2> DEFINE g == [i \in a .. L + 1 |-> IF i = a THEN Rest(f, i) ELSE f[i]]
  <2>2. ASSUME NEW i \in a .. L + 1 PROVE g[i] = Rest(g, i)
    <3>1. \A j \in a + 1 .. L + 1 : g[j] = f[j] BY <2>a
    <3>2. Rest(g, i) = Rest(f, i)
      <4>1. CASE i > L BY <4>1
      <4>2. CASE i <= L /\ EscapeAt(s, i)
        <5>1. i + 9 \in a + 1 .. L + 1 BY <4>2, <2>a DEF EscapeAt
        <5>2. g[i + 9] = f[i + 9] BY <3>1, <5>1
        <5> HIDE DEF g
        <5> QED BY <4>2, <5>2
      <4>3. CASE i <= L /\ ~EscapeAt(s, i)
        <5>1. i + 1 \in a + 1 .. L + 1 BY <4>3, <2>a
        <5>2. g[i + 1] = f[i + 1] BY <3>1, <5>1
        <5> HIDE DEF g
        <5> QED BY <4>3, <5>2
      <4> QED BY <4>1, <4>2, <4>3, <2>a
    <3>3. CASE i = a BY <3>2, <3>3, <2>a
    <3>4. CASE i # a
      <4>1. i \in a + 1 .. L + 1 BY <3>4, <2>a
      <4>2. f[i] = Rest(f, i)
        <5> HIDE DEF Rest
        <5> QED BY <2>1, <4>1
      <4> QED BY <3>1, <3>2, <4>1, <4>2
    <3> QED BY <3>3, <3>4
  <2>3. IsDec(g, a)
    <3> HIDE DEF Rest
    <3> QED BY <2>2
  <2>4. \E h : IsDec(h, a)
    <3> HIDE DEF g, IsDec
    <3> QED BY <2>3
  <2> QED BY <2>4
<1>3. Nat \subseteq S
  <2> HIDE DEF S
  <2> QED BY <1>1, <1>2, SetInduction
<1>4. \E f : IsDec(f, 1)
  <2> HIDE DEF IsDec
  <2>1. L \in S /\ 1 \in 1 .. L + 1 /\ 1 + L = L + 1 BY <1>3
  <2> QED BY <2>1
<1>5. Decoded(s) = CHOOSE f : IsDec(f, 1) BY DEF Decoded
<1>6. IsDec(Decoded(s), 1)
  <2> HIDE DEF IsDec
  <2> QED BY <1>4, <1>5
<1> QED BY <1>6

\* The equation, place by place.
LEMMA DecodedAt ==
  ASSUME NEW s \in Seq(Chars), NEW i \in 1 .. Len(s) + 1
  PROVE  /\ i = Len(s) + 1 => Decoded(s)[i] = <<>>
         /\ EscapeAt(s, i) => Decoded(s)[i] = <<Wide>> \o Decoded(s)[i + 9]
         /\ i <= Len(s) /\ ~EscapeAt(s, i) => Decoded(s)[i] = <<s[i]>> \o Decoded(s)[i + 1]
<1> DEFINE D == Decoded(s)
<1>1. Len(s) \in Nat BY LenProperties
<1>2. D = [j \in 1 .. Len(s) + 1 |->
             IF j > Len(s) THEN <<>>
             ELSE IF EscapeAt(s, j) THEN <<Wide>> \o D[j + 9] ELSE <<s[j]>> \o D[j + 1]]
  BY DecodedEquation
<1> HIDE DEF D
<1>3. D[i] = IF i > Len(s) THEN <<>>
             ELSE IF EscapeAt(s, i) THEN <<Wide>> \o D[i + 9] ELSE <<s[i]>> \o D[i + 1]
  BY <1>2
<1>4. EscapeAt(s, i) => i <= Len(s) BY <1>1 DEF EscapeAt
<1> QED BY <1>1, <1>3, <1>4 DEF D

\* A piece that lies between the places a and b stands for c: it is an escape, or one
\* character and no percent sign.
IsPiece(s, a, b, c) ==
  \/ EscapeAt(s, a + 1) /\ b = a + 9 /\ c = Wide
  \/ b = a + 1 /\ b <= Len(s) /\ s[b] # "%" /\ c = s[b]

\* Where a piece begins, decode_mdns_name reads what it stands for and goes on behind it.
LEMMA PieceRead ==
  ASSUME NEW s \in Seq(Chars), NEW a \in Nat, NEW b \in Nat, NEW c, IsPiece(s, a, b, c)
  PROVE  Decoded(s)[a + 1] = <<c>> \o Decoded(s)[b + 1]
<1> Len(s) \in Nat BY LenProperties
<1>1. CASE EscapeAt(s, a + 1) /\ b = a + 9 /\ c = Wide
  <2>1. a + 1 \in 1 .. Len(s) + 1 BY <1>1 DEF EscapeAt
  <2>2. Decoded(s)[a + 1] = <<Wide>> \o Decoded(s)[(a + 1) + 9] BY <1>1, <2>1, DecodedAt
  <2>3. (a + 1) + 9 = b + 1 BY <1>1
  <2> QED BY <1>1, <2>2, <2>3
<1>2. CASE b = a + 1 /\ b <= Len(s) /\ s[b] # "%" /\ c = s[b]
  <2>1. b \in 1 .. Len(s) + 1 BY <1>2
  <2>2. ~EscapeAt(s, b)
    <3> SUFFICES ASSUME b + 8 <= Len(s), SubSeq(s, b, b + 8) = Escape PROVE FALSE
      BY DEF EscapeAt
    <3>1. \A k \in b .. b + 8 : s[k] \in Chars BY <2>1, ElementOfSeq
    <3>2. SubSeq(s, b, b + 8)[1] = s[b] BY <3>1, SubSeqProperties
    <3>3. Escape[1] = "%" BY EscapeType
    <3> QED BY <1>2, <3>2, <3>3
  <2> QED BY <1>2, <2>1, <2>2, DecodedAt
<1> QED BY <1>1, <1>2 DEF IsPiece

\* s is made of the pieces that end at the places p, and out is what they stand for.
Pieces(s, out, p) ==
  /\ p \in [0 .. Len(out) -> Nat] /\ p[0] = 0 /\ p[Len(out)] = Len(s)
  /\ \A k \in 1 .. Len(out) : IsPiece(s, p[k - 1], p[k], out[k])

\* What decode_mdns_name makes of such a sequence.
LEMMA DecodePieces ==
  ASSUME NEW s \in Seq(Chars), NEW out \in Seq(Chars), NEW p, Pieces(s, out, p)
  PROVE  Decode(s) = out
<1> DEFINE N == Len(out)
    Rest(k) == Decoded(s)[p[k] + 1] = SubSeq(out, k + 1, N)
    S == {m \in Nat : m <= N => Rest(N - m)}
<1>1. N \in Nat /\ Len(s) \in Nat BY LenProperties
<1>2. p[0] = 0 /\ p[N] = Len(s) /\ \A k \in 0 .. N : p[k] \in Nat BY DEF Pieces
<1>3. Rest(N)
  <2>1. SubSeq(out, N + 1, N) = <<>> BY <1>1, SubSeqEmpty
  <2>2. Decoded(s)[Len(s) + 1] = <<>>
    <3>1. Len(s) + 1 \in 1 .. Len(s) + 1 BY <1>1
    <3> QED BY <3>1, DecodedAt
  <2> QED BY <1>2, <2>1, <2>2
<1>4. ASSUME NEW h \in 0 .. N, NEW k \in 1 .. N, k = h + 1, Rest(k) PROVE Rest(h)
  <2>1. k - 1 = h /\ k \in 0 .. N BY <1>1, <1>4
  <2>2. SubSeq(out, k, N) = <<out[k]>> \o SubSeq(out, k + 1, N)
    BY <1>1, <1>4, SubSeqRecursiveFirst
  <2>3. IsPiece(s, p[h], p[k], out[k]) BY <2>1 DEF Pieces
  <2>4. p[h] \in Nat /\ p[k] \in Nat BY <1>2, <2>1
  <2>5. Decoded(s)[p[h] + 1] = <<out[k]>> \o Decoded(s)[p[k] + 1]
    <3>1. \A a, b \in Nat : \A c :
            IsPiece(s, a, b, c) => Decoded(s)[a + 1] = <<c>> \o Decoded(s)[b + 1]
      BY PieceRead
    <3> QED BY <2>3, <2>4, <3>1
  <2> QED BY <1>4, <2>2, <2>5
<1> HIDE DEF Rest
<1>5. 0 \in S
  <2>1. N - 0 = N BY <1>1
  <2> QED BY <1>3, <2>1
<1>6. ASSUME NEW m \in Nat, m \in S PROVE m + 1 \in S
  <2> SUFFICES ASSUME m + 1 <= N PROVE Rest(N - (m + 1))
    OBVIOUS
  <2>1. Rest(N - m) BY <1>1, <1>6
  <2>2. N - (m + 1) \in 0 .. N /\ N - m \in 1 .. N /\ N - m = (N - (m + 1)) + 1 BY <1>1
  <2> HIDE DEF S
  <2> QED BY <1>4, <2>1, <2>2
<1>7. Rest(0)
  <2> HIDE DEF S
  <2>1. N \in S BY <1>1, <1>5, <1>6, SetInduction
  <2>2. N <= N /\ N - N = 0 BY <1>1
  <2> QED BY <2>1, <2>2 DEF S
<1>8. SubSeq(out, 0 + 1, N) = out BY SubSeqFull
<1> QED BY <1>2, <1>7, <1>8 DEF Rest, Decode

\* t is in s, after the first a places.
IsAt(s, a, t) == a + Len(t) <= Len(s) /\ \A j \in 1 .. Len(t) : s[a + j] = t[j]

\* What is appended comes after the rest, which stays where it is.
LEMMA PlacesOfConcat ==
  ASSUME NEW s \in Seq(Chars), NEW t \in Seq(Chars)
  PROVE  /\ s \o t \in Seq(Chars) /\ Len(s \o t) = Len(s) + Len(t)
         /\ IsAt(s \o t, Len(s), t)
         /\ \A a \in Nat : \A r \in Seq(Chars) : IsAt(s, a, r) => IsAt(s \o t, a, r)
<1> DEFINE c == s \o t
<1>1. Len(s) \in Nat /\ Len(t) \in Nat BY LenProperties
<1>2. /\ c \in Seq(Chars) /\ Len(c) = Len(s) + Len(t)
      /\ \A i \in 1 .. Len(s) + Len(t) : c[i] =
           IF i <= Len(s) THEN s[i] ELSE t[i - Len(s)]
  BY ConcatProperties
<1> HIDE DEF c
<1>3. IsAt(c, Len(s), t)
  <2>1. ASSUME NEW j \in 1 .. Len(t) PROVE c[Len(s) + j] = t[j]
    <3>1. /\ Len(s) + j \in 1 .. Len(s) + Len(t)
          /\ ~(Len(s) + j <= Len(s)) /\ (Len(s) + j) - Len(s) = j
      BY <1>1
    <3> QED BY <1>2, <3>1
  <2> QED BY <1>1, <1>2, <2>1 DEF IsAt
<1>4. ASSUME NEW a \in Nat, NEW r \in Seq(Chars), IsAt(s, a, r) PROVE IsAt(c, a, r)
  <2>1. Len(r) \in Nat /\ a + Len(r) <= Len(s) BY <1>4, LenProperties DEF IsAt
  <2>2. ASSUME NEW j \in 1 .. Len(r) PROVE c[a + j] = r[j]
    <3>1. a + j \in 1 .. Len(s) + Len(t) /\ a + j <= Len(s) BY <1>1, <2>1
    <3>2. s[a + j] = r[j] BY <1>4 DEF IsAt
    <3> QED BY <1>2, <3>1, <3>2
  <2> QED BY <1>1, <1>2, <2>1, <2>2 DEF IsAt
<1> QED BY <1>2, <1>3, <1>4 DEF c

\* What every character becomes is found after what the characters before it became.
LEMMA EncodedPlaces ==
  ASSUME NEW n \in Seq(Chars), NEW m \in 0 .. Len(n)
  PROVE  /\ Encoded(n)[m] \in Seq(Chars)
         /\ \A k \in 1 .. m :
              /\ Len(Encoded(n)[k]) = Len(Encoded(n)[k - 1]) + Len(EncodeChar(n[k]))
              /\ Encoded(n)[k - 1] \in Seq(Chars)
              /\ IsAt(Encoded(n)[m], Len(Encoded(n)[k - 1]), EncodeChar(n[k]))
<1> DEFINE e == Encoded(n)
    u(k) == EncodeChar(n[k])
    Placed(i, k) == /\ Len(e[k]) = Len(e[k - 1]) + Len(u(k))
                    /\ e[k - 1] \in Seq(Chars)
                    /\ IsAt(e[i], Len(e[k - 1]), u(k))
    P(i) == e[i] \in Seq(Chars) /\ \A k \in 1 .. i : Placed(i, k)
    S == {i \in Nat : i <= Len(n) => P(i)}
<1>1. Len(n) \in Nat BY LenProperties
<1>2. \A k \in 1 .. Len(n) : u(k) \in Seq(Chars) BY ElementOfSeq, EncodeCharType
<1>3. e[0] = <<>> /\ \A k \in 1 .. Len(n) : e[k] = e[k - 1] \o u(k)
  <2>1. e = [i \in 0 .. Len(n) |-> IF i = 0 THEN <<>> ELSE e[i - 1] \o EncodeChar(n[i])]
    BY EncodedEquation
  <2> HIDE DEF e
  <2> QED BY <1>1, <2>1
<1> HIDE DEF e, u
<1>4. P(0) BY <1>3
<1>5. ASSUME NEW h \in 0 .. Len(n), NEW i \in 1 .. Len(n), i = h + 1, P(h) PROVE P(i)
  <2>1. e[h] \in Seq(Chars) /\ u(i) \in Seq(Chars) /\ e[i] = e[h] \o u(i)
    <3>1. i - 1 = h BY <1>5
    <3> QED BY <1>2, <1>3, <1>5, <3>1
  <2>2. /\ e[i] \in Seq(Chars) /\ Len(e[i]) = Len(e[h]) + Len(u(i))
        /\ IsAt(e[i], Len(e[h]), u(i))
        /\ \A a \in Nat : \A r \in Seq(Chars) : IsAt(e[h], a, r) => IsAt(e[i], a, r)
    BY <2>1, PlacesOfConcat
  <2>3. ASSUME NEW k \in 1 .. h PROVE Placed(i, k)
    <3>1. Placed(h, k) BY <1>5
    <3>2. Len(e[k - 1]) \in Nat /\ u(k) \in Seq(Chars) BY <1>1, <1>2, <3>1, LenProperties
    <3> QED BY <2>2, <3>1, <3>2
  <2>4. Placed(i, i)
    <3>1. i - 1 = h BY <1>5
    <3> QED BY <2>1, <2>2, <3>1
  <2> HIDE DEF Placed
  <2>5. ASSUME NEW k \in 1 .. i PROVE Placed(i, k)
    <3>1. k \in 1 .. h \/ k = i BY <1>5
    <3> QED BY <2>3, <2>4, <3>1
  <2> QED BY <2>2, <2>5
<1>6. P(m)
  <2> HIDE DEF P
  <2>1. 0 \in S BY <1>4
  <2>2. ASSUME NEW i \in Nat, i \in S PROVE i + 1 \in S
    <3> SUFFICES ASSUME i + 1 <= Len(n) PROVE P(i + 1)
      OBVIOUS
    <3>1. i \in 0 .. Len(n) /\ i + 1 \in 1 .. Len(n) BY <1>1
    <3>2. P(i) BY <1>1, <2>2
    <3> QED BY <1>5, <3>1, <3>2
  <2>3. m \in S
    <3> HIDE DEF S
    <3> QED BY <1>1, <2>1, <2>2, SetInduction
  <2> QED BY <1>1, <2>3
<1> QED BY <1>6 DEF e, u

\* What encode_mdns_name makes of a name is a name.
LEMMA EncodeType == ASSUME NEW n \in Seq(Chars) PROVE Encode(n) \in Seq(Chars)
<1>1. Len(n) \in 0 .. Len(n) BY LenProperties
<1>2. Encoded(n)[Len(n)] \in Seq(Chars) BY <1>1, EncodedPlaces
<1> QED BY <1>2 DEF Encode

\* What is to be shown is as long as the name.
LEMMA ShownType ==
  ASSUME NEW n \in Seq(Chars)
  PROVE  Shown(n) \in Seq(Chars) /\ Len(Shown(n)) = Len(n)
<1>1. /\ n \in [1 .. Len(n) -> Chars] /\ Len(n) \in Nat /\ DOMAIN n = 1 .. Len(n)
  BY LenProperties
<1>2. "-" \in Chars BY DEF Chars, Marks
<1> DEFINE f == [i \in 1 .. Len(n) |-> IF n[i] = " " THEN "-" ELSE n[i]]
<1>3. f \in [1 .. Len(n) -> Chars] BY <1>1, <1>2
<1> HIDE DEF f
<1>4. f \in Seq(Chars) /\ Len(f) = Len(n) BY <1>1, <1>3
<1> QED BY <1>1, <1>4 DEF Shown, f

\* An ASCII name is its own encoding, piece by piece.
LEMMA AsciiPieces ==
  ASSUME NEW n \in Plain
  PROVE  Pieces(n, n, [k \in 0 .. Len(n) |-> k])
<1>1. Len(n) \in Nat BY LenProperties DEF Plain
<1> DEFINE p == [k \in 0 .. Len(n) |-> k]
<1>2. ASSUME NEW k \in 1 .. Len(n) PROVE IsPiece(n, p[k - 1], p[k], n[k])
  <2>1. p[k - 1] = k - 1 /\ p[k] = k BY <1>1
  <2>2. n[k] # "%" BY ElementOfSeq DEF Plain
  <2> QED BY <1>1, <2>1, <2>2 DEF IsPiece
<1>3. p \in [0 .. Len(n) -> Nat] /\ p[0] = 0 /\ p[Len(n)] = Len(n) BY <1>1
<1> QED BY <1>2, <1>3 DEF Pieces

\* Where an escape was appended, decode_mdns_name finds one.
LEMMA EscapePiece ==
  ASSUME NEW s \in Seq(Chars), NEW a \in Nat, IsAt(s, a, Escape)
  PROVE  EscapeAt(s, a + 1) /\ Len(Escape) = 9
<1>1. Len(Escape) = 9 /\ Escape \in Seq(Chars) BY EscapeType
<1>2. a + 9 <= Len(s) /\ \A j \in 1 .. 9 : s[a + j] = Escape[j] BY <1>1 DEF IsAt
<1>3. Len(s) \in Nat BY LenProperties
<1> DEFINE x == a + 1
           y == a + 9
<1>4. x \in Int /\ y \in Int /\ x <= y /\ y - x + 1 = 9 /\ x \in 1 .. Len(s) /\ y <= Len(s)
  BY <1>2, <1>3
<1>5. \A j \in 1 .. 9 : x + j - 1 = a + j OBVIOUS
<1> HIDE DEF x, y
<1>6. \A i \in x .. y : s[i] \in Chars
  <2>1. ASSUME NEW i \in x .. y PROVE i \in 1 .. Len(s) BY <1>3, <1>4
  <2> QED BY <2>1, ElementOfSeq
<1>7. /\ SubSeq(s, x, y) \in Seq(Chars) /\ Len(SubSeq(s, x, y)) = 9
      /\ \A j \in 1 .. 9 : SubSeq(s, x, y)[j] = s[x + j - 1]
  <2>1. /\ SubSeq(s, x, y) \in Seq(Chars)
        /\ Len(SubSeq(s, x, y)) = IF x <= y THEN y - x + 1 ELSE 0
        /\ \A j \in 1 .. y - x + 1 : SubSeq(s, x, y)[j] = s[x + j - 1]
    BY <1>4, <1>6, SubSeqProperties
  <2> QED BY <1>4, <2>1
<1>8. SubSeq(s, x, y) = Escape
  <2> DEFINE z == SubSeq(s, x, y)
  <2>1. Len(z) = Len(Escape) /\ \A j \in 1 .. Len(z) : z[j] = Escape[j]
    BY <1>1, <1>2, <1>5, <1>7
  <2>2. z \in Seq(Chars) BY <1>7
  <2> HIDE DEF z
  <2>3. z = Escape BY <1>1, <2>1, <2>2, SeqEqual
  <2> QED BY <2>3 DEF z
<1>9. x + 8 = y BY DEF x, y
<1> QED BY <1>1, <1>4, <1>8, <1>9 DEF EscapeAt, x

\* Where one character was appended, it is.
LEMMA CharPiece ==
  ASSUME NEW s \in Seq(Chars), NEW a \in Nat, NEW c, IsAt(s, a, <<c>>)
  PROVE  a + 1 <= Len(s) /\ s[a + 1] = c /\ Len(<<c>>) = 1
<1>1. Len(<<c>>) = 1 /\ 1 \in 1 .. 1 /\ <<c>>[1] = c OBVIOUS
<1> QED BY <1>1 DEF IsAt

\* A name that is not ASCII is encoded in pieces that stand for what is to be shown.
LEMMA EncodedPieces ==
  ASSUME NEW n \in Plain, ~Ascii(n)
  PROVE  Pieces(Encode(n), Shown(n), [k \in 0 .. Len(n) |-> Len(Encoded(n)[k])])
<1> DEFINE e == Encoded(n)
           s == Encode(n)
           p == [k \in 0 .. Len(n) |-> Len(e[k])]
<1>1. n \in Seq(Chars) /\ Len(n) \in Nat
  <2>1. n \in Seq(Chars) BY PlainIsName
  <2> QED BY <2>1, LenProperties
<1>2. s = e[Len(n)] /\ s \in Seq(Chars) /\ Len(s) \in Nat
  BY <1>1, EncodeType, LenProperties DEF Encode
<1>3. e[0] = <<>>
  <2>1. e = [i \in 0 .. Len(n) |-> IF i = 0 THEN <<>> ELSE e[i - 1] \o EncodeChar(n[i])]
    BY <1>1, EncodedEquation
  <2> HIDE DEF e
  <2> QED BY <1>1, <2>1
<1>4. \A k \in 0 .. Len(n) : e[k] \in Seq(Chars) BY <1>1, EncodedPlaces
<1>5. ASSUME NEW k \in 1 .. Len(n)
      PROVE  /\ Len(e[k]) = Len(e[k - 1]) + Len(EncodeChar(n[k]))
             /\ IsAt(s, Len(e[k - 1]), EncodeChar(n[k]))
  <2>1. Len(n) \in 0 .. Len(n) BY <1>1
  <2> QED BY <1>1, <1>2, <2>1, EncodedPlaces
<1> HIDE DEF e, s
<1>6. ASSUME NEW k \in 1 .. Len(n) PROVE IsPiece(s, p[k - 1], p[k], Shown(n)[k])
  <2>1. k - 1 \in 0 .. Len(n) /\ k \in 0 .. Len(n) BY <1>1
  <2>2. p[k - 1] = Len(e[k - 1]) /\ p[k] = Len(e[k]) BY <2>1
  <2>3. Len(e[k - 1]) \in Nat /\ Len(e[k]) \in Nat BY <1>4, <2>1, LenProperties
  <2>4. n[k] \in Chars /\ n[k] # "%" BY ElementOfSeq DEF Plain
  <2>5. Shown(n)[k] = IF n[k] = " " THEN "-" ELSE n[k]
    <3>1. DOMAIN n = 1 .. Len(n) BY <1>1, LenProperties
    <3> QED BY <3>1 DEF Shown
  <2> DEFINE a == Len(e[k - 1])
             b == Len(e[k])
             c == n[k]
             w == Shown(n)[k]
  <2>6. /\ a \in Nat /\ b \in Nat /\ b = a + Len(EncodeChar(c))
        /\ IsAt(s, a, EncodeChar(c)) /\ w = IF c = " " THEN "-" ELSE c
        /\ c \in Chars /\ c # "%"
    BY <1>5, <2>3, <2>4, <2>5
  <2> HIDE DEF a, b, c, w
  <2>7. CASE c = Wide
    <3>1. EncodeChar(c) = Escape /\ w = Wide BY <2>6, <2>7 DEF EncodeChar, Wide
    <3>2. EscapeAt(s, a + 1) /\ Len(Escape) = 9 BY <1>2, <2>6, <3>1, EscapePiece
    <3>3. b = a + 9 BY <2>6, <3>1, <3>2
    <3> QED BY <2>2, <3>1, <3>2, <3>3 DEF IsPiece, a, b, w
  <2>8. CASE c # Wide
    <3>1. EncodeChar(c) = <<w>> BY <2>6, <2>8 DEF EncodeChar
    <3>2. a + 1 <= Len(s) /\ s[a + 1] = w /\ Len(<<w>>) = 1
      <4>1. IsAt(s, a, <<w>>) /\ s \in Seq(Chars) /\ a \in Nat BY <1>2, <2>6, <3>1
      <4> QED BY <4>1, CharPiece
    <3>4. b = a + 1 BY <2>6, <3>1, <3>2
    <3>3. w # "%" BY <2>6
    <3> QED BY <2>2, <3>2, <3>3, <3>4 DEF IsPiece, a, b, w
  <2> QED BY <2>7, <2>8
<1>7. p \in [0 .. Len(n) -> Nat] /\ p[0] = 0 /\ p[Len(n)] = Len(s)
  <2>1. \A k \in 0 .. Len(n) : Len(e[k]) \in Nat BY <1>4, LenProperties
  <2>2. Len(e[0]) = 0 BY <1>3
  <2> QED BY <1>1, <1>2, <2>1, <2>2
<1> QED BY <1>1, <1>6, <1>7, ShownType DEF Pieces, e, s

\* What others read is what they are to show (encode_mdns_name, decode_mdns_name): for every
\* name without a percent sign, however long.
THEOREM RoundTrip == \A n \in Plain : Decode(Encode(n)) = Shown(n)
<1> SUFFICES ASSUME NEW n \in Plain PROVE Decode(Encode(n)) = Shown(n)
  OBVIOUS
<1>1. n \in Seq(Chars) BY PlainIsName
<1>2. CASE Ascii(n)
  <2>1. Encode(n) = n /\ Shown(n) = n BY <1>2 DEF Encode, Shown
  <2> QED BY <1>1, <2>1, AsciiPieces, DecodePieces
<1>3. CASE ~Ascii(n)
  <2>1. Encode(n) \in Seq(Chars) /\ Shown(n) \in Seq(Chars) BY <1>1, EncodeType, ShownType
  <2> QED BY <1>3, <2>1, EncodedPieces, DecodePieces
<1> QED BY <1>2, <1>3

-----------------------------------------------------------------------------
(* Trimming                                                                *)

\* Whichever places are solid, there is a first and a last one.
LEMMA FirstAndLast ==
  ASSUME NEW N \in Nat, NEW T \in SUBSET (1 .. N), T # {}
  PROVE  /\ \E i \in T : \A j \in T : i <= j
         /\ \E i \in T : \A j \in T : j <= i
<1>1. \E i \in T : \A j \in T : i <= j
  <2>1. T \subseteq Nat OBVIOUS
  <2>2. PICK i \in T : \A j \in T : ~(<<j, i>> \in Below)
    BY <2>1, BelowWellFounded, WFMin, Zenon
  <2>3. \A j \in T : ~(j < i) BY <2>1, <2>2 DEF Below
  <2> QED BY <2>1, <2>3
<1>2. \E i \in T : \A j \in T : j <= i
  <2> DEFINE R == {N - i : i \in T}
  <2>1. R \subseteq Nat /\ R # {} OBVIOUS
  <2>2. PICK r \in R : \A q \in R : ~(<<q, r>> \in Below)
    <3> HIDE DEF R
    <3> QED BY <2>1, BelowWellFounded, WFMin, Zenon
  <2>3. PICK i \in T : r = N - i OBVIOUS
  <2>4. ASSUME NEW j \in T PROVE j <= i
    <3>1. N - j \in R /\ N - j \in Nat /\ r \in Nat BY <2>1
    <3>2. ~(N - j < r) BY <2>2, <3>1 DEF Below
    <3> QED BY <2>3, <3>2
  <2> QED BY <2>4
<1> QED BY <1>1, <1>2

\* What is left of a name is a name.
LEMMA TrimType == ASSUME NEW n \in Seq(Chars) PROVE Trim(n) \in Seq(Chars)
<1> DEFINE solid == {i \in DOMAIN n : n[i] # " "}
           first == CHOOSE i \in solid : \A j \in solid : i <= j
           last  == CHOOSE i \in solid : \A j \in solid : j <= i
<1>1. Len(n) \in Nat /\ DOMAIN n = 1 .. Len(n) BY LenProperties
<1>2. Trim(n) = IF solid = {} THEN <<>> ELSE SubSeq(n, first, last) BY DEF Trim
<1>3. solid \in SUBSET (1 .. Len(n)) BY <1>1
<1>4. CASE solid # {}
  <2> HIDE DEF solid
  <2>1. first \in solid /\ last \in solid BY <1>1, <1>3, <1>4, FirstAndLast
  <2>2. first \in 1 .. Len(n) /\ last \in 1 .. Len(n) BY <1>3, <2>1
  <2> HIDE DEF first, last
  <2>3. \A i \in first .. last : n[i] \in Chars BY <1>1, <2>2, ElementOfSeq
  <2>4. SubSeq(n, first, last) \in Seq(Chars) BY <2>2, <2>3, SubSeqProperties
  <2> QED BY <1>2, <1>4, <2>4 DEF first, last
<1>5. CASE solid = {}
  <2>1. Trim(n) = <<>> BY <1>2, <1>5
  <2> QED BY <2>1, EmptySeq
<1> QED BY <1>4, <1>5

\* A name that is accepted is not empty and has no percent sign.
LEMMA ValidIsPlain ==
  ASSUME NEW n \in Seq(Chars), ValidName(n)
  PROVE  Trim(n) \in Plain /\ Trim(n) # <<>>
<1> DEFINE t == Trim(n)
<1>1. t \in Seq(Chars) BY TrimType
<1>2. t # <<>> /\ \A i \in DOMAIN t : t[i] \in Letters \cup {" ", "-"} BY DEF ValidName
<1> HIDE DEF t
<1>3. t \in [1 .. Len(t) -> Chars] /\ Len(t) \in Nat /\ DOMAIN t = 1 .. Len(t)
  BY <1>1, LenProperties
<1>4. \A i \in 1 .. Len(t) : t[i] \in Chars \ {"%"}
  BY <1>2, <1>3 DEF Letters, Wide, Chars, Marks
<1>5. t \in [1 .. Len(t) -> Chars \ {"%"}] BY <1>3, <1>4
<1>6. t \in Seq(Chars \ {"%"}) BY <1>3, <1>5
<1> QED BY <1>2, <1>6 DEF Plain, t
=============================================================================
