-------------------------- MODULE FrameStream_proofs --------------------------
(***************************************************************************)
(* Proofs that ParseFrames takes from a stream what EncodeFrame put there, *)
(* and that readLoop may hand it the stream in any pieces.                 *)
(*                                                                         *)
(* ParseFrames goes on from an offset at a later one, so it is determined  *)
(* from the end of the buffer backwards: EveryNat and FromTheEnd are the   *)
(* induction, over sets of offsets, that every lemma about it uses.  What  *)
(* it returns from an offset on depends on the bytes behind that offset    *)
(* only (ParseRest), and what more bytes add begins where the parse of the *)
(* fewer left off (Resumed).  CutsDoNotMatter puts the two together, and   *)
(* the theorems about the stream are inductions over its reads.            *)
(***************************************************************************)
EXTENDS FrameStream, SequenceTheorems, WellFoundedInduction, TLAPS

\* What holds of n if it holds of all before it holds of every number.
LEMMA EveryNat ==
  ASSUME NEW G, \A n \in Nat : (\A m \in Nat : m < n => m \in G) => n \in G
  PROVE  \A n \in Nat : n \in G
<1> SUFFICES ASSUME NEW n \in Nat, n \notin G PROVE FALSE
  OBVIOUS
<1> DEFINE T == {m \in Nat : m \notin G}
<1>1. T \subseteq Nat /\ T # {}
  OBVIOUS
<1>2. \E x \in T : \A y \in T : ~(<<y, x>> \in OpToRel(<, Nat))
  <2> HIDE DEF T
  <2> QED
    BY <1>1, WFMin, NatLessThanWellFounded
<1>3. PICK x \in T : \A y \in T : ~(<<y, x>> \in OpToRel(<, Nat))
  BY <1>2
<1>4. ASSUME NEW m \in Nat, m < x PROVE m \in G
  BY <1>3, <1>4 DEF OpToRel
<1> QED
  BY <1>3, <1>4

\* What ParseFrames does at one offset, if f is what it does at the next ones.
At(bs, f, off) ==
    IF off + 6 > Len(bs)
    THEN Parsed(<< >>, SubSeq(bs, off + 1, Len(bs)), FALSE)
    ELSE IF ~Begins(bs, off) THEN f[off + 1]
    ELSE IF FrameEnd(bs, off) > Len(bs)
    THEN Parsed(<< >>, SubSeq(bs, off + 1, Len(bs)), FALSE)
    ELSE IF BodyLen(bs, off) < 3 THEN Parsed(<< >>, << >>, TRUE)
    ELSE LET more == f[FrameEnd(bs, off)] IN
         IF more.err THEN more
         ELSE [more EXCEPT !.frames = <<FrameAt(bs, off)>> \o @]

-----------------------------------------------------------------------------
(* What depends on the bytes at hand only.                                 *)

\* A byte is a number below 256.
LEMMA Bytes256 ==
  ASSUME NEW x \in Byte
  PROVE  x \in Nat /\ x < 256
BY SMT DEF Byte

\* So is each element of a sequence of bytes.
LEMMA Element ==
  ASSUME NEW s \in Seq(Byte), NEW i \in Int, 1 <= i, i <= Len(s)
  PROVE  s[i] \in Nat /\ s[i] < 256
<1>1. i \in 1 .. Len(s)
  OBVIOUS
<1>2. s[i] \in Byte
  BY <1>1, ElementOfSeq
<1> QED
  BY <1>2, Bytes256

\* A header is two bytes or one behind the preamble.
LEMMA Header ==
  ASSUME NEW bs \in Seq(Byte), NEW off \in Nat, off + 6 <= Len(bs)
  PROVE  \E h \in 1 .. 2, m \in Nat :
            /\ HeaderLen(bs, off) = h /\ BodyLen(bs, off) = m
            /\ FrameEnd(bs, off) = off + 4 + h + m
<1>1. /\ bs[off + 5] \in Nat /\ bs[off + 5] < 256
      /\ bs[off + 6] \in Nat /\ bs[off + 6] < 256
  BY Element
<1>2. HeaderLen(bs, off) \in 1 .. 2
  BY DEF HeaderLen
<1>3. BodyLen(bs, off) \in Nat
  BY <1>1 DEF BodyLen
<1> QED
  BY <1>2, <1>3 DEF FrameEnd

\* The n elements behind the first i.
LEMMA Slice ==
  ASSUME NEW s \in Seq(Byte), NEW i \in Nat, NEW n \in Nat, i + n <= Len(s)
  PROVE  /\ SubSeq(s, i + 1, i + n) \in Seq(Byte)
         /\ Len(SubSeq(s, i + 1, i + n)) = n
         /\ \A x \in 1 .. n : SubSeq(s, i + 1, i + n)[x] = s[i + x]
<1> DEFINE t == SubSeq(s, i + 1, i + n)
<1>1. \A k \in i + 1 .. i + n : s[k] \in Byte
  BY ElementOfSeq
<1>2. /\ t \in Seq(Byte)
      /\ Len(t) = IF i + 1 <= i + n THEN (i + n) - (i + 1) + 1 ELSE 0
      /\ \A x \in 1 .. (i + n) - (i + 1) + 1 : t[x] = s[(i + 1) + x - 1]
  BY <1>1, SubSeqProperties
<1> HIDE DEF t
<1>3. Len(t) = n
  BY <1>2
<1>4. ASSUME NEW x \in 1 .. n PROVE t[x] = s[i + x]
  <2>1. x \in 1 .. (i + n) - (i + 1) + 1 /\ (i + 1) + x - 1 = i + x
    OBVIOUS
  <2>2. t[x] = s[(i + 1) + x - 1]
    BY <1>2, <2>1
  <2> QED
    BY <2>1, <2>2
<1> QED
  BY <1>2, <1>3, <1>4 DEF t

\* Behind i in a and behind j in b there are the same n bytes.
Nth(s, i, x) == s[i + x]
Alike(a, i, b, j, n) == \A x \in 1 .. n : Nth(a, i, x) = Nth(b, j, x)

\* One of the bytes that are the same.
LEMMA AlikeAt ==
  ASSUME NEW a, NEW b, NEW i \in Nat, NEW j \in Nat, NEW n \in Nat,
         Alike(a, i, b, j, n), NEW x \in Nat, 1 <= x, x <= n
  PROVE  Nth(a, i, x) = Nth(b, j, x)
BY DEF Alike

\* Some of the bytes that are the same.
LEMMA AlikePart ==
  ASSUME NEW a, NEW b, NEW i \in Nat, NEW j \in Nat, NEW n \in Nat,
         Alike(a, i, b, j, n), NEW k \in Nat, NEW m \in Nat, k + m <= n
  PROVE  Alike(a, i + k, b, j + k, m)
<1> SUFFICES ASSUME NEW x \in 1 .. m PROVE Nth(a, i + k, x) = Nth(b, j + k, x)
  BY DEF Alike
<1>1. PICK y \in Nat : y = k + x /\ 1 <= y /\ y <= n
  OBVIOUS
<1>2. Nth(a, i, y) = Nth(b, j, y)
  BY <1>1, AlikeAt
<1>3. i + y = (i + k) + x /\ j + y = (j + k) + x
  BY <1>1
<1> QED
  BY <1>2, <1>3 DEF Nth

\* The n bytes behind i.
Piece(a, i, n) == SubSeq(a, i + 1, i + n)

\* The same bytes are the same sequence.
LEMMA SameSubSeq ==
  ASSUME NEW a \in Seq(Byte), NEW b \in Seq(Byte),
         NEW i \in Nat, NEW j \in Nat, NEW n \in Nat,
         i + n <= Len(a), j + n <= Len(b),
         Alike(a, i, b, j, n)
  PROVE  Piece(a, i, n) = Piece(b, j, n)
<1> DEFINE s == SubSeq(a, i + 1, i + n)
           t == SubSeq(b, j + 1, j + n)
<1>1. /\ s \in Seq(Byte) /\ Len(s) = n
      /\ \A x \in 1 .. n : s[x] = a[i + x]
  BY Slice
<1>2. /\ t \in Seq(Byte) /\ Len(t) = n
      /\ \A x \in 1 .. n : t[x] = b[j + x]
  BY Slice
<1> HIDE DEF s, t
<1>3. s = t
  BY <1>1, <1>2, SeqEqual DEF Alike, Nth
<1> QED
  BY <1>3 DEF s, t, Piece

\* Two buffers with the same bytes at two places have the same frame there.
LEMMA SameHeader ==
  ASSUME NEW a \in Seq(Byte), NEW b \in Seq(Byte),
         NEW i \in Nat, NEW j \in Nat,
         i + 6 <= Len(a), j + 6 <= Len(b), Alike(a, i, b, j, 6)
  PROVE  /\ Begins(a, i) <=> Begins(b, j)
         /\ HeaderLen(a, i) = HeaderLen(b, j) /\ BodyLen(a, i) = BodyLen(b, j)
<1>1. a[i + 5] = b[j + 5] /\ a[i + 6] = b[j + 6]
  BY AlikeAt DEF Nth
<1>2. HeaderLen(a, i) = HeaderLen(b, j) /\ BodyLen(a, i) = BodyLen(b, j)
  BY <1>1 DEF HeaderLen, BodyLen
<1>3. Alike(a, i, b, j, 4)
  BY AlikeAt DEF Alike
<1>4. i + 4 <= Len(a) /\ j + 4 <= Len(b)
  <2>1. Len(a) \in Nat /\ Len(b) \in Nat
    BY LenProperties
  <2> QED
    BY <2>1
<1>5. Piece(a, i, 4) = Piece(b, j, 4)
  BY <1>3, <1>4, SameSubSeq
<1> QED
  BY <1>2, <1>5 DEF Begins, Piece

\* The n bytes behind i in a are a frame, and those behind j in b the same.
SameWhole(a, i, b, j, n) ==
    /\ FrameEnd(a, i) = i + n /\ BodyLen(a, i) >= 3
    /\ i + 6 <= Len(a) /\ i + n <= Len(a) /\ j + n <= Len(b)
    /\ Alike(a, i, b, j, n)

\* ... and then it is read as the same frame.
LEMMA SameFrame ==
  ASSUME NEW a \in Seq(Byte), NEW b \in Seq(Byte),
         NEW i \in Nat, NEW j \in Nat, NEW n \in Nat, SameWhole(a, i, b, j, n)
  PROVE  FrameAt(a, i) = FrameAt(b, j)
<1> USE DEF SameWhole
<1>0. Len(a) \in Nat /\ Len(b) \in Nat
  BY LenProperties
<1>1. PICK e \in 1 .. 2, m \in Nat :
         /\ HeaderLen(a, i) = e /\ BodyLen(a, i) = m /\ m >= 3
         /\ n = 4 + e + m
  <2>1. PICK e \in 1 .. 2, m \in Nat :
           /\ HeaderLen(a, i) = e /\ BodyLen(a, i) = m
           /\ FrameEnd(a, i) = i + 4 + e + m
    BY Header
  <2> QED
    BY <2>1
<1>2. PICK h \in 5 .. 6 : h = 4 + e /\ n >= h + 3
  BY <1>1
<1>3. HeaderLen(b, j) = e /\ FrameEnd(b, j) = j + n
  <2>1. Alike(a, i, b, j, 6)
    BY <1>2 DEF Alike
  <2>2. j + 6 <= Len(b)
    BY <1>0, <1>2
  <2>3. HeaderLen(b, j) = e /\ BodyLen(b, j) = m
    BY <1>1, <2>1, <2>2, SameHeader
  <2>4. FrameEnd(b, j) = j + 4 + e + m
    BY <2>3 DEF FrameEnd
  <2> QED
    BY <1>1, <2>3, <2>4
<1>4. i + 4 + HeaderLen(a, i) = i + h /\ j + 4 + HeaderLen(b, j) = j + h
  BY <1>1, <1>2, <1>3
<1>5. a[i + h + 2] = b[j + h + 2] /\ a[i + h + 3] = b[j + h + 3]
  <2>1. PICK x \in Nat, y \in Nat : x = h + 2 /\ y = h + 3 /\ 1 <= x /\ y <= n
    BY <1>2
  <2>2. Nth(a, i, x) = Nth(b, j, x) /\ Nth(a, i, y) = Nth(b, j, y)
    BY <2>1, AlikeAt
  <2>3. /\ i + x = i + h + 2 /\ j + x = j + h + 2
        /\ i + y = i + h + 3 /\ j + y = j + h + 3
    BY <2>1
  <2> QED
    BY <2>2, <2>3 DEF Nth
<1>6. SubSeq(a, i + h + 4, i + n) = SubSeq(b, j + h + 4, j + n)
  <2>1. PICK k \in Nat, r \in Nat : k = h + 3 /\ r = n - k
    BY <1>2
  <2>2. /\ i + k + r = i + n /\ j + k + r = j + n
        /\ i + k + 1 = i + h + 4 /\ j + k + 1 = j + h + 4
        /\ i + k + r <= Len(a) /\ j + k + r <= Len(b) /\ k + r <= n
        /\ i + k \in Nat /\ j + k \in Nat
    BY <1>0, <2>1
  <2>3. Alike(a, i + k, b, j + k, r)
    BY <2>2, AlikePart
  <2>4. SubSeq(a, i + k + 1, i + k + r) = SubSeq(b, j + k + 1, j + k + r)
    <3>1. PICK x \in Nat, y \in Nat : x = i + k /\ y = j + k
      BY <2>2
    <3>2. x + r <= Len(a) /\ y + r <= Len(b) /\ Alike(a, x, b, y, r)
      BY <2>2, <2>3, <3>1
    <3>3. Piece(a, x, r) = Piece(b, y, r)
      BY <3>2, SameSubSeq
    <3> QED
      BY <3>1, <3>3 DEF Piece
  <2>5. /\ i + k + r = i + n /\ j + k + r = j + n
        /\ i + k + 1 = i + h + 4 /\ j + k + 1 = j + h + 4
    BY <2>2
  <2> QED
    BY <2>4, <2>5, Zenon
<1>7. PICK p \in Nat, q \in Nat : p = i + h /\ q = j + h
  BY <1>2
<1>8. /\ i + 4 + HeaderLen(a, i) = p /\ j + 4 + HeaderLen(b, j) = q
      /\ a[p + 2] = b[q + 2] /\ a[p + 3] = b[q + 3]
  BY <1>4, <1>5, <1>7
<1>9. /\ SubSeq(a, p + 4, i + n) = SubSeq(b, q + 4, j + n)
      /\ FrameEnd(a, i) = i + n /\ FrameEnd(b, j) = j + n
  BY <1>3, <1>6, <1>7
<1> QED
  BY <1>8, <1>9, Zenon DEF FrameAt

-----------------------------------------------------------------------------
(* ParseFrames is well defined: from an offset it goes on at a later one.  *)

Solves(bs, f) == f = [off \in 0 .. Len(bs) |-> At(bs, f, off)]
Parse(bs) == CHOOSE f : Solves(bs, f)

\* At an offset only the later ones matter.
LEMMA SameAt ==
  ASSUME NEW bs \in Seq(Byte), NEW off \in 0 .. Len(bs), NEW f, NEW g,
         \A x \in 0 .. Len(bs) : x > off => f[x] = g[x]
  PROVE  At(bs, f, off) = At(bs, g, off)
<1>0. Len(bs) \in Nat
  BY LenProperties
<1>1. CASE off + 6 <= Len(bs)
  <2>1. f[off + 1] = g[off + 1]
    BY <1>0, <1>1
  <2>2. ASSUME ~(FrameEnd(bs, off) > Len(bs))
        PROVE  f[FrameEnd(bs, off)] = g[FrameEnd(bs, off)]
    <3>1. PICK n \in Nat : n = FrameEnd(bs, off) /\ n > off
      <4>0. off \in Nat
        BY <1>0
      <4>1. PICK h \in 1 .. 2, m \in Nat : FrameEnd(bs, off) = off + 4 + h + m
        BY <1>1, <4>0, Header
      <4> QED
        BY <4>1
    <3>2. f[n] = g[n]
      BY <1>0, <2>2, <3>1
    <3> QED
      BY <3>1, <3>2
  <2> QED
    BY <2>1, <2>2, Zenon DEF At
<1>2. CASE off + 6 > Len(bs)
  BY <1>2 DEF At
<1> QED
  BY <1>0, <1>1, <1>2

\* So the function of ParseFrames can be built from the end.
LEMMA SolutionExists ==
  ASSUME NEW bs \in Seq(Byte)
  PROVE  \E f : Solves(bs, f)
<1>0. PICK n \in Nat : n = Len(bs)
  BY LenProperties
<1> DEFINE G == {k \in Nat : k <= n =>
                    \E f : f = [off \in n - k .. n |-> At(bs, f, off)]}
<1>1. ASSUME NEW k \in Nat, \A m \in Nat : m < k => m \in G PROVE k \in G
  <2>1. CASE k = 0
    <3> DEFINE f == [off \in n .. n |-> At(bs, << >>, off)]
    <3>1. ASSUME NEW off \in n .. n
          PROVE  At(bs, f, off) = At(bs, << >>, off)
      <4> HIDE DEF f
      <4>1. off + 6 > Len(bs)
        BY <1>0
      <4> QED
        BY <4>1, Zenon DEF At
    <3>2. f = [off \in n - k .. n |-> At(bs, f, off)]
      BY <2>1, <3>1
    <3> QED
      BY <3>2
  <2>2. CASE k > 0 /\ k <= n
    <3>1. PICK l \in Nat : l = n - k /\ l < n
      BY <2>2
    <3>2. k - 1 \in G /\ n - (k - 1) = l + 1
      BY <1>1, <2>2, <3>1
    <3>3. PICK g : g = [off \in l + 1 .. n |-> At(bs, g, off)]
      BY <2>2, <3>2
    <3>4. \A off \in l + 1 .. n : g[off] = At(bs, g, off)
      BY <3>3, Zenon
    <3> DEFINE f == [off \in l .. n |->
                        IF off = l THEN At(bs, g, off) ELSE g[off]]
    <3>5. ASSUME NEW x \in l + 1 .. n PROVE f[x] = g[x]
      BY <3>1
    <3>6. ASSUME NEW off \in l .. n PROVE f[off] = At(bs, f, off)
      <4>1. At(bs, f, off) = At(bs, g, off)
        <5> HIDE DEF f
        <5>1. \A x \in 0 .. Len(bs) : x > off => f[x] = g[x]
          BY <1>0, <3>1, <3>5
        <5> QED
          BY <1>0, <3>1, <5>1, SameAt
      <4>2. off # l => g[off] = At(bs, g, off)
        BY <3>1, <3>4
      <4>3. f[off] = IF off = l THEN At(bs, g, off) ELSE g[off]
        OBVIOUS
      <4> QED
        BY <4>1, <4>2, <4>3
    <3>7. f = [off \in l .. n |-> At(bs, f, off)]
      <4>1. f = [off \in l .. n |-> f[off]]
        OBVIOUS
      <4> HIDE DEF f
      <4> QED
        BY <3>6, <4>1
    <3> QED
      BY <3>1, <3>7
  <2> QED
    BY <2>1, <2>2
<1>2. n \in G
  <2> HIDE DEF G
  <2> QED
    BY <1>1, EveryNat
<1>3. n - n = 0
  OBVIOUS
<1> QED
  BY <1>0, <1>2, <1>3 DEF Solves

\* Parse is that function, and satisfies its equation.
LEMMA ParseSolves ==
  ASSUME NEW bs \in Seq(Byte)
  PROVE  /\ ParseFrames(bs) = Parse(bs)[0]
         /\ \A off \in 0 .. Len(bs) :
               Parse(bs)[off] = At(bs, Parse(bs), off)
<1>1. Solves(bs, Parse(bs))
  BY SolutionExists DEF Parse
<1>2. ParseFrames(bs) = Parse(bs)[0]
  BY DEF ParseFrames, Parse, Solves, At
<1>3. \A off \in 0 .. Len(bs) : Parse(bs)[off] = At(bs, Parse(bs), off)
  <2> DEFINE p == Parse(bs)
  <2>1. p = [off \in 0 .. Len(bs) |-> At(bs, p, off)]
    BY <1>1 DEF Solves
  <2> HIDE DEF p
  <2>2. \A off \in 0 .. Len(bs) : p[off] = At(bs, p, off)
    BY <2>1
  <2> QED
    BY <2>2 DEF p
<1> QED
  BY <1>2, <1>3

-----------------------------------------------------------------------------
(* What it does at an offset.                                              *)

Rest(bs, off) == SubSeq(bs, off + 1, Len(bs))
Failed == Parsed(<< >>, << >>, TRUE)
Joined(frames, p) == IF p.err THEN p ELSE [p EXCEPT !.frames = frames \o @]

\* Where less than the shortest frame is left, it is kept.
LEMMA AtEnd ==
  ASSUME NEW bs \in Seq(Byte), NEW off \in Nat, off <= Len(bs),
         off + 6 > Len(bs)
  PROVE  Parse(bs)[off] = Parsed(<< >>, Rest(bs, off), FALSE)
<1>1. off \in 0 .. Len(bs)
  BY LenProperties
<1>2. Parse(bs)[off] = At(bs, Parse(bs), off)
  BY <1>1, ParseSolves
<1> QED
  BY <1>2, Zenon DEF At, Rest

\* Elsewhere there is a byte to skip, a frame, or part of one.
LEMMA AtByte ==
  ASSUME NEW bs \in Seq(Byte), NEW off \in Nat, off + 6 <= Len(bs)
  PROVE  Parse(bs)[off] =
            IF ~Begins(bs, off) THEN Parse(bs)[off + 1]
            ELSE IF FrameEnd(bs, off) > Len(bs)
            THEN Parsed(<< >>, Rest(bs, off), FALSE)
            ELSE IF BodyLen(bs, off) < 3 THEN Failed
            ELSE Joined(<<FrameAt(bs, off)>>, Parse(bs)[FrameEnd(bs, off)])
<1>1. off \in 0 .. Len(bs) /\ ~(off + 6 > Len(bs))
  <2>1. Len(bs) \in Nat
    BY LenProperties
  <2> QED
    BY <2>1
<1>2. Parse(bs)[off] = At(bs, Parse(bs), off)
  BY <1>1, ParseSolves
<1> QED
  BY <1>1, <1>2, Zenon DEF At, Rest, Failed, Joined

\* Induction from the end of a buffer to its front.
LEMMA FromTheEnd ==
  ASSUME NEW n \in Nat, NEW G,
         \A i \in Nat : (i <= n /\ \A j \in Nat : (i < j /\ j <= n) => j \in G)
                           => i \in G
  PROVE  \A i \in Nat : i <= n => i \in G
<1> DEFINE H == {k \in Nat : k <= n => n - k \in G}
<1>1. ASSUME NEW k \in Nat, \A m \in Nat : m < k => m \in H PROVE k \in H
  <2> SUFFICES ASSUME k <= n PROVE n - k \in G
    OBVIOUS
  <2>1. PICK i \in Nat : i = n - k /\ i <= n
    OBVIOUS
  <2>2. ASSUME NEW j \in Nat, i < j, j <= n PROVE j \in G
    <3>1. n - j \in Nat /\ n - j < k /\ n - j <= n /\ n - (n - j) = j
      BY <2>1, <2>2
    <3> QED
      BY <1>1, <3>1
  <2>3. i \in G
    BY <2>1, <2>2
  <2> QED
    BY <2>1, <2>3
<1>2. \A k \in Nat : k \in H
  <2> HIDE DEF H
  <2> QED
    BY <1>1, EveryNat
<1> SUFFICES ASSUME NEW i \in Nat, i <= n PROVE i \in G
  OBVIOUS
<1>3. n - i \in Nat /\ n - i <= n /\ n - (n - i) = i
  OBVIOUS
<1> QED
  BY <1>2, <1>3

\* A record of a parse, and what an error leaves of it.
Result(p) ==
    /\ p = Parsed(p.frames, p.rest, p.err)
    /\ p.frames \in Seq(FrameSet) /\ p.rest \in Seq(Byte) /\ p.err \in BOOLEAN
    /\ p.err => p = Failed

\* A command is two bytes.
LEMMA TwoBytes ==
  ASSUME NEW x \in Nat, x < 256, NEW y \in Nat, y < 256
  PROVE  x * 256 + y \in Commands
BY DEF Commands

\* What FrameAt reads out of a whole frame is one.
LEMMA FrameType ==
  ASSUME NEW bs \in Seq(Byte), NEW off \in Nat, off + 6 <= Len(bs),
         FrameEnd(bs, off) <= Len(bs), BodyLen(bs, off) >= 3
  PROVE  FrameAt(bs, off) \in FrameSet
<1>0. Len(bs) \in Nat
  BY LenProperties
<1>1. PICK h \in 1 .. 2, m \in Nat :
         /\ HeaderLen(bs, off) = h /\ BodyLen(bs, off) = m /\ m >= 3
         /\ FrameEnd(bs, off) = off + 4 + h + m
  <2>1. PICK h \in 1 .. 2, m \in Nat :
           /\ HeaderLen(bs, off) = h /\ BodyLen(bs, off) = m
           /\ FrameEnd(bs, off) = off + 4 + h + m
    BY Header
  <2> QED
    BY <2>1
<1>2. PICK b \in Nat : b = off + 4 + h
  OBVIOUS
<1>3. /\ bs[b + 2] \in Nat /\ bs[b + 2] < 256
      /\ bs[b + 3] \in Nat /\ bs[b + 3] < 256
  <2>1. b + 2 \in Int /\ 1 <= b + 2 /\ b + 2 <= Len(bs)
    BY <1>0, <1>1, <1>2
  <2>2. b + 3 \in Int /\ 1 <= b + 3 /\ b + 3 <= Len(bs)
    BY <1>0, <1>1, <1>2
  <2> QED
    BY <2>1, <2>2, Element
<1>4. SubSeq(bs, b + 4, FrameEnd(bs, off)) \in Seq(Byte)
  <2>1. PICK i \in Nat, n \in Nat : i = b + 3 /\ n = m - 3
    BY <1>1
  <2>2. /\ i + n <= Len(bs) /\ i + 1 = b + 4
        /\ i + n = FrameEnd(bs, off)
    BY <1>0, <1>1, <1>2, <2>1
  <2>3. SubSeq(bs, i + 1, i + n) \in Seq(Byte)
    BY <2>2, Slice
  <2> QED
    BY <2>2, <2>3
<1>5. bs[b + 2] * 256 + bs[b + 3] \in Commands
  <2>1. PICK x \in Nat, y \in Nat : /\ x = bs[b + 2] /\ y = bs[b + 3]
                                   /\ x < 256 /\ y < 256
    BY <1>3, Zenon
  <2>2. x * 256 + y \in Commands
    BY <2>1, TwoBytes, SMTT(20)
  <2> QED
    BY <2>1, <2>2, Zenon
<1>6. off + 4 + HeaderLen(bs, off) = b
  BY <1>1, <1>2
<1> QED
  BY <1>4, <1>5, <1>6 DEF FrameAt, FrameSet

\* A parse without an error.
LEMMA ParsedResult ==
  ASSUME NEW frames \in Seq(FrameSet), NEW rest \in Seq(Byte)
  PROVE  LET p == Parsed(frames, rest, FALSE) IN
         Result(p) /\ p.frames = frames /\ p.rest = rest /\ ~p.err
<1> DEFINE p == Parsed(frames, rest, FALSE)
<1>1. p.frames = frames /\ p.rest = rest /\ p.err = FALSE
  BY DEF Parsed
<1> HIDE DEF p
<1>2. p = Parsed(p.frames, p.rest, p.err)
  BY <1>1 DEF p
<1> QED
  BY <1>1, <1>2 DEF p, Result

\* Frames before a parse change its frames only.
LEMMA JoinedResult ==
  ASSUME NEW frames \in Seq(FrameSet), NEW p, Result(p)
  PROVE  /\ Result(Joined(frames, p)) /\ Joined(frames, p).err = p.err
         /\ ~p.err => /\ Joined(frames, p).frames = frames \o p.frames
                      /\ Joined(frames, p).rest = p.rest
<1>1. CASE p.err
  BY <1>1 DEF Joined
<1>2. CASE ~p.err
  <2>1. Joined(frames, p) = Parsed(frames \o p.frames, p.rest, FALSE)
    BY <1>2 DEF Joined, Result, Parsed
  <2>2. frames \o p.frames \in Seq(FrameSet)
    BY ConcatProperties DEF Result
  <2>3. p.rest \in Seq(Byte) /\ p.err = FALSE
    BY <1>2 DEF Result
  <2> DEFINE q == Parsed(frames \o p.frames, p.rest, FALSE)
  <2>4. /\ Result(q) /\ q.frames = frames \o p.frames
        /\ q.rest = p.rest /\ q.err = FALSE
    <3>1. Result(q) /\ q.frames = frames \o p.frames /\ q.rest = p.rest
      BY <2>2, <2>3, ParsedResult
    <3> QED
      BY <3>1 DEF Parsed
  <2>5. Joined(frames, p) = q
    BY <2>1
  <2> HIDE DEF q
  <2> QED
    BY <2>3, <2>4, <2>5
<1> QED
  BY <1>1, <1>2

\* What is left of a buffer.
LEMMA RestType ==
  ASSUME NEW bs \in Seq(Byte), NEW off \in Nat, off <= Len(bs)
  PROVE  /\ Rest(bs, off) \in Seq(Byte)
         /\ Len(Rest(bs, off)) = Len(bs) - off
         /\ Alike(Rest(bs, off), 0, bs, off, Len(bs) - off)
<1>1. PICK n \in Nat :
         n = Len(bs) - off /\ off + n = Len(bs) /\ off + n <= Len(bs)
  BY LenProperties
<1>2. /\ SubSeq(bs, off + 1, off + n) \in Seq(Byte)
      /\ Len(SubSeq(bs, off + 1, off + n)) = n
      /\ \A x \in 1 .. n : SubSeq(bs, off + 1, off + n)[x] = bs[off + x]
  BY <1>1, Slice
<1> QED
  BY <1>1, <1>2 DEF Rest, Alike, Nth

\* What ParseFrames returns, from each offset on.
LEMMA ParseResult ==
  ASSUME NEW bs \in Seq(Byte)
  PROVE  \A off \in Nat : off <= Len(bs) => Result(Parse(bs)[off])
<1>0. PICK n \in Nat : n = Len(bs)
  BY LenProperties
<1>1. ASSUME NEW rest \in Seq(Byte) PROVE Result(Parsed(<< >>, rest, FALSE))
  BY EmptySeq, ParsedResult
<1>2. Result(Failed)
  BY EmptySeq DEF Result, Failed, Parsed
<1> DEFINE G == {off \in Nat : off <= n => Result(Parse(bs)[off])}
<1>3. ASSUME NEW i \in Nat, i <= n,
             \A j \in Nat : (i < j /\ j <= n) => j \in G
      PROVE  i \in G
  <2>1. Result(Parsed(<< >>, Rest(bs, i), FALSE))
    BY <1>0, <1>1, <1>3, RestType
  <2>2. CASE i + 6 > n
    BY <1>0, <1>3, <2>1, <2>2, AtEnd
  <2>3. CASE i + 6 <= n
    <3>1. PICK h \in 1 .. 2, m \in Nat :
             /\ BodyLen(bs, i) = m
             /\ FrameEnd(bs, i) = i + 4 + h + m
      BY <1>0, <2>3, Header
    <3>2. Result(Parse(bs)[i + 1])
      BY <1>3, <2>3
    <3>3. PICK e \in Nat : e = FrameEnd(bs, i) /\ e > i
      BY <3>1
    <3>4. e <= n => Result(Parse(bs)[e])
      BY <1>3, <3>3
    <3>5. e <= n /\ m >= 3 =>
             Result(Joined(<<FrameAt(bs, i)>>, Parse(bs)[e]))
      <4> SUFFICES ASSUME e <= n, m >= 3
                   PROVE  Result(Joined(<<FrameAt(bs, i)>>, Parse(bs)[e]))
        OBVIOUS
      <4>1. FrameAt(bs, i) \in FrameSet
        BY <1>0, <2>3, <3>1, <3>3, FrameType
      <4>2. <<FrameAt(bs, i)>> \in Seq(FrameSet)
        BY <4>1
      <4> QED
        BY <3>4, <4>2, JoinedResult
    <3>6. Parse(bs)[i] =
             IF ~Begins(bs, i) THEN Parse(bs)[i + 1]
             ELSE IF e > n THEN Parsed(<< >>, Rest(bs, i), FALSE)
             ELSE IF m < 3 THEN Failed
             ELSE Joined(<<FrameAt(bs, i)>>, Parse(bs)[e])
      BY <1>0, <2>3, <3>1, <3>3, AtByte
    <3>7. Result(Parse(bs)[i])
      <4>1. ~(e > n) => e <= n
        OBVIOUS
      <4>2. ~(m < 3) => m >= 3
        OBVIOUS
      <4> QED
        BY <1>2, <2>1, <3>2, <3>5, <3>6, <4>1, <4>2, Zenon
    <3> QED
      BY <3>7
  <2> QED
    BY <2>2, <2>3
<1>4. \A off \in Nat : off <= n => off \in G
  <2> HIDE DEF G
  <2> QED
    BY <1>3, FromTheEnd
<1> QED
  BY <1>0, <1>4

-----------------------------------------------------------------------------
(* Cuts.                                                                   *)

\* A parse from k on is a parse of what is left from k on.
LEMMA ParseRest ==
  ASSUME NEW bs \in Seq(Byte), NEW k \in Nat, k <= Len(bs)
  PROVE  ParseFrames(Rest(bs, k)) = Parse(bs)[k]
<1> DEFINE c == Rest(bs, k)
<1>0. PICK n \in Nat : n = Len(bs) - k /\ k + n = Len(bs) /\ Len(bs) \in Nat
  BY LenProperties
<1>1. c \in Seq(Byte) /\ Len(c) = n /\ Alike(c, 0, bs, k, n)
  BY <1>0, RestType
<1> HIDE DEF c
<1>2. ASSUME NEW i \in Nat, i <= n PROVE Rest(c, i) = Rest(bs, k + i)
  <2>1. PICK m \in Nat : m = n - i /\ i + m = n /\ k + i + m = Len(bs)
    <3>1. n - i \in Nat
      BY <1>2
    <3>2. PICK m \in Nat : m = n - i
      BY <3>1
    <3>3. i + m = n
      BY <3>2
    <3>4. k + i + m = k + n
      BY <3>3
    <3> QED
      BY <1>0, <3>2, <3>3, <3>4
  <2>2. Alike(c, i, bs, k + i, m)
    <3>1. 0 \in Nat /\ 0 + i = i /\ i + m <= n
      BY <2>1
    <3>2. Alike(c, 0 + i, bs, k + i, m)
      BY <1>1, <3>1, AlikePart, Zenon
    <3> QED
      BY <3>1, <3>2
  <2>3. /\ i + m <= Len(c) /\ k + i + m <= Len(bs) /\ k + i \in Nat
    BY <1>1, <2>1
  <2>4. SubSeq(c, i + 1, i + m) = SubSeq(bs, k + i + 1, k + i + m)
    <3>1. PICK j \in Nat : j = k + i
      BY <2>3
    <3>2. /\ c \in Seq(Byte) /\ i + m <= Len(c) /\ j + m <= Len(bs)
          /\ Alike(c, i, bs, j, m)
      BY <1>1, <2>2, <2>3, <3>1
    <3> HIDE DEF c
    <3>3. Piece(c, i, m) = Piece(bs, j, m)
      BY <3>2, SameSubSeq
    <3> QED
      BY <3>1, <3>3 DEF Piece
  <2> QED
    BY <1>1, <2>1, <2>4, SMTT(30) DEF Rest
<1> DEFINE G == {i \in Nat : i <= n => Parse(c)[i] = Parse(bs)[k + i]}
<1>3. ASSUME NEW i \in Nat, i <= n,
             \A j \in Nat : (i < j /\ j <= n) => j \in G
      PROVE  i \in G
  <2>0. PICK l \in Nat : l = k + i
    OBVIOUS
  <2>1. Rest(c, i) = Rest(bs, l)
    BY <1>2, <1>3, <2>0
  <2>2. CASE i + 6 > n
    <3>1. Parse(c)[i] = Parsed(<< >>, Rest(c, i), FALSE)
      BY <1>1, <1>3, <2>2, AtEnd
    <3>2. l <= Len(bs) /\ l + 6 > Len(bs)
      BY <1>0, <1>3, <2>0, <2>2
    <3>3. Parse(bs)[l] = Parsed(<< >>, Rest(bs, l), FALSE)
      BY <3>2, AtEnd
    <3> QED
      BY <2>0, <2>1, <3>1, <3>3
  <2>3. CASE i + 6 <= n
    <3>1. i + 6 <= Len(c) /\ l + 6 <= Len(bs)
      BY <1>0, <1>1, <2>0, <2>3
    <3>2. Alike(c, i, bs, l, n - i) /\ n - i \in Nat
      <4>1. PICK m \in Nat : m = n - i /\ i + m <= n
        BY <2>3
      <4>2. Alike(c, 0 + i, bs, k + i, m)
        BY <1>1, <4>1, AlikePart
      <4> QED
        BY <2>0, <4>1, <4>2
    <3>3. Alike(c, i, bs, l, 6)
      BY <2>3, <3>2, AlikeAt DEF Alike
    <3>4. /\ Begins(c, i) <=> Begins(bs, l)
          /\ HeaderLen(c, i) = HeaderLen(bs, l)
          /\ BodyLen(c, i) = BodyLen(bs, l)
      BY <1>1, <3>1, <3>3, SameHeader
    <3>5. PICK h \in 1 .. 2, m \in Nat :
             /\ HeaderLen(c, i) = h /\ BodyLen(c, i) = m
             /\ FrameEnd(c, i) = i + 4 + h + m
      BY <1>1, <3>1, Header
    <3>6. PICK e \in Nat : /\ e = 4 + h + m /\ e > 0
                           /\ FrameEnd(c, i) = i + e
                           /\ FrameEnd(bs, l) = l + e
      <4>1. FrameEnd(bs, l) = l + 4 + h + m
        BY <3>4, <3>5 DEF FrameEnd
      <4> QED
        BY <3>5, <4>1
    <3>7. Parse(c)[i + 1] = Parse(bs)[l + 1]
      <4>1. i + 1 \in Nat /\ i < i + 1 /\ i + 1 <= n /\ k + (i + 1) = l + 1
        BY <2>0, <2>3
      <4> QED
        BY <1>3, <4>1
    <3>8. ASSUME i + e <= n PROVE Parse(c)[i + e] = Parse(bs)[l + e]
      <4>1. i + e \in Nat /\ i < i + e /\ k + (i + e) = l + e
        BY <2>0, <3>6
      <4> QED
        BY <1>3, <3>8, <4>1
    <3>9. ASSUME i + e <= n, m >= 3 PROVE FrameAt(c, i) = FrameAt(bs, l)
      <4>1. i + e <= Len(c) /\ l + e <= Len(bs)
        BY <1>0, <1>1, <2>0, <3>9
      <4>2. Alike(c, i, bs, l, e)
        BY <3>2, <3>9, AlikeAt DEF Alike
      <4>3. BodyLen(c, i) >= 3
        BY <3>5, <3>9
      <4>4. SameWhole(c, i, bs, l, e)
        BY <3>1, <3>6, <4>1, <4>2, <4>3 DEF SameWhole
      <4> QED
        BY <1>1, <4>4, SameFrame
    <3>10. Parse(c)[i] =
              IF ~Begins(c, i) THEN Parse(c)[i + 1]
              ELSE IF i + e > n THEN Parsed(<< >>, Rest(c, i), FALSE)
              ELSE IF m < 3 THEN Failed
              ELSE Joined(<<FrameAt(c, i)>>, Parse(c)[i + e])
      <4>1. i + e > Len(c) <=> i + e > n
        BY <1>1
      <4> QED
        BY <1>1, <3>1, <3>5, <3>6, <4>1, AtByte, ZenonT(60)
    <3>11. Parse(bs)[l] =
              IF ~Begins(bs, l) THEN Parse(bs)[l + 1]
              ELSE IF i + e > n THEN Parsed(<< >>, Rest(bs, l), FALSE)
              ELSE IF m < 3 THEN Failed
              ELSE Joined(<<FrameAt(bs, l)>>, Parse(bs)[l + e])
      <4>1. l + e > Len(bs) <=> i + e > n
        BY <1>0, <2>0
      <4>2. BodyLen(bs, l) = m
        BY <3>4, <3>5
      <4> QED
        BY <3>1, <3>6, <4>1, <4>2, AtByte
    <3>12. (~(i + e > n) => i + e <= n) /\ (~(m < 3) => m >= 3)
      OBVIOUS
    <3>13. Parse(c)[i] = Parse(bs)[l]
      BY <2>1, <3>4, <3>7, <3>8, <3>9, <3>10, <3>11, <3>12, Zenon
    <3> QED
      BY <2>0, <3>13
  <2> QED
    BY <2>2, <2>3
<1>4. \A i \in Nat : i <= n => i \in G
  <2> HIDE DEF G
  <2> QED
    BY <1>3, FromTheEnd
<1>5. Parse(c)[0] = Parse(bs)[k + 0]
  BY <1>4
<1>6. ParseFrames(c) = Parse(c)[0]
  BY <1>1, ParseSolves
<1> QED
  BY <1>5, <1>6 DEF c

-----------------------------------------------------------------------------
(* Two pieces.                                                             *)

\* No frames before a parse change nothing.
LEMMA JoinedNone ==
  ASSUME NEW p, Result(p)
  PROVE  Joined(<< >>, p) = p
<1>1. CASE p.err
  BY <1>1 DEF Joined
<1>2. CASE ~p.err
  <2>1. << >> \o p.frames = p.frames
    BY ConcatEmptySeq DEF Result
  <2>2. p = Parsed(p.frames, p.rest, p.err)
    BY DEF Result
  <2> QED
    BY <1>2, <2>1, <2>2 DEF Joined, Parsed
<1> QED
  BY <1>1, <1>2

\* Frames before frames before a parse.
LEMMA JoinedTwice ==
  ASSUME NEW f \in Seq(FrameSet), NEW g \in Seq(FrameSet), NEW p, Result(p)
  PROVE  Joined(f, Joined(g, p)) = Joined(f \o g, p)
<1>1. CASE p.err
  BY <1>1 DEF Joined
<1>2. CASE ~p.err
  <2>1. (f \o g) \o p.frames = f \o (g \o p.frames)
    <3>1. p.frames \in Seq(FrameSet)
      BY DEF Result
    <3>2. \A q \in Seq(FrameSet) : (f \o g) \o q = f \o (g \o q)
      BY ConcatAssociative
    <3> QED
      BY <3>1, <3>2
  <2>2. p = Parsed(p.frames, p.rest, FALSE)
    BY <1>2 DEF Result
  <2> QED
    BY <1>2, <2>1, <2>2 DEF Joined, Parsed
<1> QED
  BY <1>1, <1>2

\* What is appended changes no earlier byte.
LEMMA AlikeConcat ==
  ASSUME NEW a \in Seq(Byte), NEW b \in Seq(Byte),
         NEW i \in Nat, NEW n \in Nat,
         i + n <= Len(a)
  PROVE  Alike(a, i, a \o b, i, n)
<1>1. PICK l \in Nat, m \in Nat : l = Len(a) /\ m = Len(b)
  BY LenProperties
<1>2. \A x \in 1 .. l + m : (a \o b)[x] = IF x <= l THEN a[x] ELSE b[x - l]
  BY <1>1, ConcatProperties
<1> SUFFICES ASSUME NEW x \in 1 .. n PROVE Nth(a, i, x) = Nth(a \o b, i, x)
  BY DEF Alike
<1>3. PICK y \in 1 .. l + m : y = i + x /\ y <= l
  BY <1>1
<1>4. (a \o b)[y] = a[y]
  BY <1>2, <1>3
<1> QED
  BY <1>3, <1>4 DEF Nth

\* The rest of two pieces, from an offset in the first.
LEMMA RestConcat ==
  ASSUME NEW a \in Seq(Byte), NEW b \in Seq(Byte), NEW k \in Nat, k <= Len(a)
  PROVE  /\ Len(a) <= Len(a \o b)
         /\ Rest(a \o b, k) = Rest(a, k) \o b
<1>1. PICK l \in Nat, m \in Nat, n \in Nat :
         l = Len(a) /\ m = Len(b) /\ n = l - k
  BY LenProperties
<1>2. /\ a \o b \in Seq(Byte) /\ Len(a \o b) = l + m
      /\ \A x \in 1 .. l + m : (a \o b)[x] = IF x <= l THEN a[x] ELSE b[x - l]
  BY <1>1, ConcatProperties
<1> DEFINE s == Rest(a \o b, k)
           t == Rest(a, k)
<1>3. s \in Seq(Byte) /\ Len(s) = n + m /\ Alike(s, 0, a \o b, k, n + m)
  <2>1. k <= Len(a \o b) /\ Len(a \o b) - k = n + m
    BY <1>1, <1>2
  <2> QED
    BY <1>2, <2>1, RestType
<1>4. t \in Seq(Byte) /\ Len(t) = n /\ Alike(t, 0, a, k, n)
  BY <1>1, RestType
<1> HIDE DEF s, t
<1>5. /\ t \o b \in Seq(Byte) /\ Len(t \o b) = n + m
      /\ \A x \in 1 .. n + m : (t \o b)[x] = IF x <= n THEN t[x] ELSE b[x - n]
  <2>1. /\ t \o b \in Seq(Byte) /\ Len(t \o b) = Len(t) + Len(b)
        /\ \A x \in 1 .. Len(t) + Len(b) :
              (t \o b)[x] = IF x <= Len(t) THEN t[x] ELSE b[x - Len(t)]
    BY <1>4, ConcatProperties, Zenon
  <2> QED
    BY <1>1, <1>4, <2>1
<1>6. ASSUME NEW x \in 1 .. n + m PROVE s[x] = (t \o b)[x]
  <2>1. s[x] = (a \o b)[k + x]
    <3>1. Nth(s, 0, x) = Nth(a \o b, k, x)
      BY <1>3 DEF Alike
    <3>2. 0 + x = x
      OBVIOUS
    <3> QED
      BY <3>1, <3>2 DEF Nth
  <2>2. PICK y \in 1 .. l + m : y = k + x
    BY <1>1
  <2>3. s[x] = IF y <= l THEN a[y] ELSE b[y - l]
    BY <1>2, <2>1, <2>2
  <2>4. CASE x <= n
    <3>1. y <= l
      BY <1>1, <2>2, <2>4
    <3>2. t[x] = a[y]
      <4>1. Nth(t, 0, x) = Nth(a, k, x)
        BY <1>4, <2>4 DEF Alike
      <4>2. 0 + x = x
        OBVIOUS
      <4> QED
        BY <2>2, <4>1, <4>2 DEF Nth
    <3> QED
      BY <1>5, <2>3, <2>4, <3>1, <3>2
  <2>5. CASE x > n
    <3>1. ~(y <= l) /\ y - l = x - n
      BY <1>1, <2>2, <2>5
    <3>2. (t \o b)[x] = b[x - n]
      <4>1. (t \o b)[x] = IF x <= n THEN t[x] ELSE b[x - n]
        BY <1>5, Zenon
      <4>2. ~(x <= n)
        BY <1>1, <2>5
      <4> QED
        BY <4>1, <4>2
    <3> QED
      BY <2>3, <3>1, <3>2
  <2>6. x <= n \/ x > n
    OBVIOUS
  <2> QED
    BY <2>4, <2>5, <2>6
<1>7. s = t \o b
  BY <1>3, <1>5, <1>6, SeqEqual
<1> QED
  BY <1>1, <1>2, <1>7 DEF s, t

\* Where a parse of a ends, a parse of more goes on.
Resumes(a, all, off) ==
    LET r == Parse(a)[off] IN
    IF r.err THEN Parse(all)[off].err
    ELSE \E k \in Nat : /\ k <= Len(a) /\ r.rest = Rest(a, k)
                        /\ Parse(all)[off] = Joined(r.frames, Parse(all)[k])

\* Each parse of a is resumed by the parse of a and b.
LEMMA Resumed ==
  ASSUME NEW a \in Seq(Byte), NEW b \in Seq(Byte)
  PROVE  Resumes(a, a \o b, 0)
<1> DEFINE all == a \o b
<1>0. PICK n \in Nat : n = Len(a) /\ n <= Len(all) /\ Len(all) \in Nat
  <2>1. all \in Seq(Byte) /\ 0 <= Len(a) /\ Len(a) \in Nat
    BY ConcatProperties, LenProperties
  <2>2. Len(a) <= Len(all) /\ Len(all) \in Nat
    BY <2>1, RestConcat, LenProperties
  <2> QED
    BY <2>1, <2>2
<1>1. all \in Seq(Byte)
  BY ConcatProperties
<1>2. ASSUME NEW i \in Nat, NEW m \in Nat, i + m <= n
      PROVE  Alike(a, i, all, i, m)
  BY <1>0, <1>2, AlikeConcat
<1> HIDE DEF all
<1> DEFINE G == {i \in Nat : i <= n => Resumes(a, all, i)}
<1>3. ASSUME NEW i \in Nat, i <= n,
             \A j \in Nat : (i < j /\ j <= n) => j \in G
      PROVE  i \in G
  <2> SUFFICES Resumes(a, all, i)
    OBVIOUS
  <2>1. ASSUME Parse(a)[i] = Parsed(<< >>, Rest(a, i), FALSE)
        PROVE  Resumes(a, all, i)
    <3>1. Rest(a, i) \in Seq(Byte)
      BY <1>0, <1>3, RestType
    <3>2. /\ Parse(a)[i].frames = << >> /\ Parse(a)[i].rest = Rest(a, i)
          /\ ~Parse(a)[i].err
      BY <2>1 DEF Parsed
    <3>3. Result(Parse(all)[i])
      <4>1. i <= Len(all)
        BY <1>0, <1>3
      <4> QED
        BY <1>1, <4>1, ParseResult
    <3>4. Joined(<< >>, Parse(all)[i]) = Parse(all)[i]
      BY <3>3, JoinedNone
    <3>5. i <= Len(a)
      BY <1>0, <1>3
    <3> QED
      BY <3>2, <3>4, <3>5 DEF Resumes
  <2>2. CASE i + 6 > n
    <3>1. i <= Len(a) /\ i + 6 > Len(a)
      BY <1>0, <1>3, <2>2
    <3>2. Parse(a)[i] = Parsed(<< >>, Rest(a, i), FALSE)
      BY <3>1, AtEnd
    <3> QED
      BY <2>1, <3>2
  <2>3. CASE i + 6 <= n
    <3>1. i + 6 <= Len(a) /\ i + 6 <= Len(all)
      BY <1>0, <2>3
    <3>2. Alike(a, i, all, i, 6)
      BY <1>2, <2>3
    <3>3. /\ Begins(a, i) <=> Begins(all, i)
          /\ HeaderLen(a, i) = HeaderLen(all, i)
          /\ BodyLen(a, i) = BodyLen(all, i)
      BY <1>1, <3>1, <3>2, SameHeader
    <3>4. FrameEnd(a, i) = FrameEnd(all, i)
      BY <3>3, Zenon DEF FrameEnd
    <3>5. PICK e \in Nat : /\ FrameEnd(a, i) = i + e /\ e > 0
                           /\ FrameEnd(all, i) = i + e
      <4>1. PICK h \in 1 .. 2, m \in Nat :
               /\ HeaderLen(a, i) = h /\ BodyLen(a, i) = m
               /\ FrameEnd(a, i) = i + 4 + h + m
        BY <3>1, Header
      <4>2. PICK e \in Nat : e = 4 + h + m
        OBVIOUS
      <4>3. i + 4 + h + m = i + e /\ e > 0
        BY <4>2
      <4> QED
        BY <3>4, <4>1, <4>3
    <3>6. Parse(a)[i] =
             IF ~Begins(a, i) THEN Parse(a)[i + 1]
             ELSE IF i + e > Len(a) THEN Parsed(<< >>, Rest(a, i), FALSE)
             ELSE IF BodyLen(a, i) < 3 THEN Failed
             ELSE Joined(<<FrameAt(a, i)>>, Parse(a)[i + e])
      BY <3>1, <3>5, AtByte
    <3>7. Parse(all)[i] =
             IF ~Begins(all, i) THEN Parse(all)[i + 1]
             ELSE IF i + e > Len(all) THEN Parsed(<< >>, Rest(all, i), FALSE)
             ELSE IF BodyLen(all, i) < 3 THEN Failed
             ELSE Joined(<<FrameAt(all, i)>>, Parse(all)[i + e])
      BY <1>1, <3>1, <3>5, AtByte
    <3>8. CASE ~Begins(a, i)
      <4>1. Parse(a)[i] = Parse(a)[i + 1] /\ Parse(all)[i] = Parse(all)[i + 1]
        BY <3>3, <3>6, <3>7, <3>8, Zenon
      <4>2. Resumes(a, all, i + 1)
        BY <1>3, <2>3
      <4> QED
        BY <4>1, <4>2 DEF Resumes
    <3>9. CASE Begins(a, i) /\ i + e > n
      <4>1. Parse(a)[i] = Parsed(<< >>, Rest(a, i), FALSE)
        BY <1>0, <3>6, <3>9
      <4> QED
        BY <2>1, <4>1
    <3>10. CASE Begins(a, i) /\ i + e <= n /\ BodyLen(a, i) < 3
      <4>1. ~(i + e > Len(a)) /\ ~(i + e > Len(all))
        BY <1>0, <3>10
      <4>2. Parse(a)[i] = Failed /\ Parse(all)[i] = Failed
        BY <3>3, <3>6, <3>7, <3>10, <4>1, Zenon
      <4> QED
        BY <4>2 DEF Resumes, Failed, Parsed
    <3>11. CASE Begins(a, i) /\ i + e <= n /\ ~(BodyLen(a, i) < 3)
      <4> DEFINE fr == <<FrameAt(a, i)>>
                 q == Parse(a)[i + e]
      <4>1. /\ ~(i + e > Len(a)) /\ ~(i + e > Len(all))
            /\ i + e <= Len(a) /\ i + e <= Len(all) /\ i + e \in Nat
        BY <1>0, <3>11
      <4>2. BodyLen(a, i) >= 3
        <5>1. BodyLen(a, i) \in Nat
          BY <3>1, Header
        <5> QED
          BY <3>11, <5>1
      <4>3. FrameAt(a, i) = FrameAt(all, i) /\ FrameAt(a, i) \in FrameSet
        <5>1. Alike(a, i, all, i, e)
          BY <1>2, <3>11
        <5>2. SameWhole(a, i, all, i, e)
          BY <3>1, <3>5, <4>1, <4>2, <5>1 DEF SameWhole
        <5>3. FrameAt(a, i) = FrameAt(all, i)
          BY <1>1, <5>2, SameFrame
        <5>4. FrameAt(a, i) \in FrameSet
          BY <3>1, <3>5, <4>1, <4>2, FrameType
        <5> QED
          BY <5>3, <5>4
      <4>4. fr \in Seq(FrameSet)
        BY <4>3
      <4>5. Parse(a)[i] = Joined(fr, q)
        BY <3>6, <3>11, <4>1, Zenon
      <4>6. Parse(all)[i] = Joined(fr, Parse(all)[i + e])
        BY <3>3, <3>7, <3>11, <4>1, <4>3, Zenon
      <4>7. Result(q) /\ Result(Parse(all)[i + e])
        BY <1>1, <4>1, ParseResult
      <4>8. Resumes(a, all, i + e)
        BY <1>3, <3>5, <3>11
      <4> HIDE DEF fr, q
      <4>9. CASE q.err
        <5>1. Parse(a)[i].err
          BY <4>5, <4>9 DEF Joined
        <5>2. Parse(all)[i + e].err
          BY <4>8, <4>9 DEF Resumes, q
        <5>3. Parse(all)[i].err
          BY <4>6, <5>2 DEF Joined
        <5> QED
          BY <5>1, <5>3 DEF Resumes
      <4>10. CASE ~q.err
        <5>1. PICK k \in Nat :
                 /\ k <= Len(a) /\ q.rest = Rest(a, k)
                 /\ Parse(all)[i + e] = Joined(q.frames, Parse(all)[k])
          BY <4>8, <4>10 DEF Resumes, q
        <5>2. /\ ~Parse(a)[i].err /\ Parse(a)[i].rest = q.rest
              /\ Parse(a)[i].frames = fr \o q.frames
          BY <4>4, <4>5, <4>7, <4>10, JoinedResult
        <5>3. Result(Parse(all)[k])
          <6>1. k <= Len(all)
            BY <1>0, <5>1
          <6> QED
            BY <1>1, <6>1, ParseResult
        <5>4. q.frames \in Seq(FrameSet)
          BY <4>7 DEF Result
        <5>5. Parse(all)[i] = Joined(fr \o q.frames, Parse(all)[k])
          BY <4>4, <4>6, <5>1, <5>3, <5>4, JoinedTwice
        <5> QED
          BY <5>1, <5>2, <5>5 DEF Resumes
      <4> QED
        BY <4>9, <4>10
    <3>12. i + e > n \/ i + e <= n
      OBVIOUS
    <3> QED
      BY <3>8, <3>9, <3>10, <3>11, <3>12, Zenon
  <2>4. i + 6 > n \/ i + 6 <= n
    OBVIOUS
  <2> QED
    BY <2>2, <2>3, <2>4, Zenon
<1>4. \A i \in Nat : i <= n => i \in G
  <2> HIDE DEF G
  <2> QED
    BY <1>3, FromTheEnd
<1>5. Resumes(a, all, 0)
  BY <1>4
<1> QED
  BY <1>5 DEF all

\* What was left over is parsed again with what came next, and nothing is
\* lost, added or changed by the cut: of any two pieces, one call for both
\* returns what one for each would (frame.go:59-98).
THEOREM CutsDoNotMatter ==
  ASSUME NEW a \in Seq(Byte), NEW b \in Seq(Byte)
  PROVE  LET p == ParseFrames(a) IN
         IF p.err THEN ParseFrames(a \o b).err
         ELSE ParseFrames(a \o b) = Joined(p.frames, ParseFrames(p.rest \o b))
<1> DEFINE p == ParseFrames(a)
           all == a \o b
<1>1. all \in Seq(Byte)
  BY ConcatProperties
<1>2. p = Parse(a)[0] /\ ParseFrames(all) = Parse(all)[0]
  BY <1>1, ParseSolves
<1>3. Resumes(a, all, 0)
  BY Resumed
<1> HIDE DEF p, all
<1>4. CASE p.err
  BY <1>2, <1>3, <1>4 DEF Resumes, p, all
<1>5. CASE ~p.err
  <2>1. PICK k \in Nat : /\ k <= Len(a) /\ p.rest = Rest(a, k)
                         /\ ParseFrames(all) = Joined(p.frames, Parse(all)[k])
    BY <1>2, <1>3, <1>5 DEF Resumes
  <2>2. Len(a) <= Len(all) /\ Rest(all, k) = p.rest \o b
    BY <2>1, RestConcat DEF all
  <2>3. k <= Len(all)
    <3>1. Len(a) \in Nat /\ Len(all) \in Nat
      BY <1>1, LenProperties
    <3> QED
      BY <2>1, <2>2, <3>1
  <2>4. ParseFrames(p.rest \o b) = Parse(all)[k]
    BY <1>1, <2>2, <2>3, ParseRest
  <2>5. ParseFrames(all) = Joined(p.frames, ParseFrames(p.rest \o b))
    BY <2>1, <2>4
  <2> QED
    BY <1>5, <2>5 DEF p, all
<1> QED
  BY <1>4, <1>5

-----------------------------------------------------------------------------
(* What EncodeFrame writes.                                                *)

\* What the two length bytes can carry.
MaxBody == 32767
Payloads == {s \in Seq(Byte) : Len(s) + 3 <= MaxBody}

\* The bytes of two pieces, by their position.
LEMMA Concat ==
  ASSUME NEW a \in Seq(Byte), NEW b \in Seq(Byte)
  PROVE  /\ a \o b \in Seq(Byte) /\ Len(a \o b) = Len(a) + Len(b)
         /\ \A x \in 1 .. Len(a) : (a \o b)[x] = a[x]
         /\ \A x \in 1 .. Len(b) : (a \o b)[Len(a) + x] = b[x]
<1> DEFINE s == a \o b
<1>0. PICK m \in Nat, n \in Nat : m = Len(a) /\ n = Len(b)
  BY LenProperties
<1>1. /\ s \in Seq(Byte) /\ Len(s) = m + n
      /\ \A x \in 1 .. m + n : s[x] = IF x <= m THEN a[x] ELSE b[x - m]
  BY <1>0, ConcatProperties
<1> HIDE DEF s
<1>2. \A x \in 1 .. m : s[x] = a[x]
  BY <1>1
<1>3. ASSUME NEW x \in 1 .. n PROVE s[m + x] = b[x]
  <2>1. m + x \in 1 .. m + n /\ ~(m + x <= m) /\ (m + x) - m = x
    OBVIOUS
  <2> QED
    BY <1>1, <2>1
<1> QED
  BY <1>0, <1>1, <1>2, <1>3 DEF s

\* The bytes before the payload.
HeadOf(cmd, n) == Preamble \o LengthBytes(n) \o <<0>> \o BE16(cmd)

\* Where the length and the command are in them.
LEMMA HeadBytes ==
  ASSUME NEW cmd \in Commands, NEW n \in Nat, 3 <= n, n <= MaxBody
  PROVE  \E h \in 1 .. 2 :
            /\ HeadOf(cmd, n) \in Seq(Byte) /\ Len(HeadOf(cmd, n)) = 7 + h
            /\ \A x \in 1 .. 4 : HeadOf(cmd, n)[x] = Preamble[x]
            /\ h = 1 => HeadOf(cmd, n)[5] = n /\ n < 128
            /\ h = 2 => /\ HeadOf(cmd, n)[5] = 128 + n \div 256
                        /\ HeadOf(cmd, n)[6] = n % 256 /\ n >= 128
            /\ HeadOf(cmd, n)[6 + h] = cmd \div 256
            /\ HeadOf(cmd, n)[7 + h] = cmd % 256
<1>1. /\ n \div 256 \in Nat /\ n \div 256 < 128
      /\ n % 256 \in Nat /\ n % 256 < 256
  BY DEF MaxBody
<1>2. /\ cmd \div 256 \in Nat /\ cmd \div 256 < 256
      /\ cmd % 256 \in Nat /\ cmd % 256 < 256
  <2>1. cmd \in Nat /\ cmd < 65536
    BY DEF Commands
  <2> QED
    BY <2>1
<1>3. (n \div 256) % 128 = n \div 256 /\ (cmd \div 256) % 256 = cmd \div 256
  <2>1. ASSUME NEW x \in Nat, NEW y \in Nat, x < y, y = 128 \/ y = 256
        PROVE  x % y = x
    BY <2>1
  <2> QED
    BY <1>1, <1>2, <2>1
<1>4. PICK h \in 1 .. 2 : /\ h = 1 <=> n < 128
                          /\ LengthBytes(n) \in Seq(Byte)
                          /\ Len(LengthBytes(n)) = h
                          /\ h = 1 => LengthBytes(n)[1] = n
                          /\ h = 2 => /\ LengthBytes(n)[1] = 128 + n \div 256
                                      /\ LengthBytes(n)[2] = n % 256
  <2>1. CASE n < 128
    BY <2>1 DEF LengthBytes, Byte
  <2>2. CASE n >= 128
    <3>1. LengthBytes(n) = <<128 + n \div 256, n % 256>>
      BY <1>3, <2>2 DEF LengthBytes
    <3>2. 128 + n \div 256 \in Byte /\ n % 256 \in Byte
      BY <1>1 DEF Byte
    <3> QED
      BY <2>2, <3>1, <3>2
  <2> QED
    BY <2>1, <2>2
<1>5. /\ BE16(cmd) \in Seq(Byte) /\ Len(BE16(cmd)) = 2
      /\ BE16(cmd)[1] = cmd \div 256 /\ BE16(cmd)[2] = cmd % 256
  BY <1>2, <1>3 DEF BE16, Byte
<1>6. /\ Preamble \in Seq(Byte) /\ Len(Preamble) = 4
      /\ <<0>> \in Seq(Byte) /\ Len(<<0>>) = 1
  BY DEF Preamble, Byte
<1> DEFINE p == Preamble
           l == LengthBytes(n)
           z == <<0>>
           c == BE16(cmd)
           s1 == p \o l
           s2 == s1 \o z
           s3 == s2 \o c
<1>7. HeadOf(cmd, n) = s3
  BY DEF HeadOf
<1>8. /\ h \in Nat /\ 4 \in Nat /\ 1 \in Nat /\ 2 \in Nat
      /\ p \in Seq(Byte) /\ Len(p) = 4 /\ l \in Seq(Byte) /\ Len(l) = h
       /\ z \in Seq(Byte) /\ Len(z) = 1 /\ c \in Seq(Byte) /\ Len(c) = 2
  BY <1>4, <1>5, <1>6
<1> HIDE DEF p, l, z, c
<1>9. /\ s1 \in Seq(Byte) /\ Len(s1) = 4 + h
      /\ \A x \in 1 .. 4 : s1[x] = p[x]
      /\ \A x \in 1 .. h : s1[4 + x] = l[x]
  <2>1. p \in Seq(Byte) /\ l \in Seq(Byte)
    BY <1>8
  <2>2. /\ s1 \in Seq(Byte) /\ Len(s1) = Len(p) + Len(l)
        /\ \A x \in 1 .. Len(p) : s1[x] = p[x]
        /\ \A x \in 1 .. Len(l) : s1[Len(p) + x] = l[x]
    BY <2>1, Concat
  <2> HIDE DEF s1
  <2> QED
    BY <1>8, <2>2
<1> HIDE DEF s1
<1>10. /\ s2 \in Seq(Byte) /\ Len(s2) = 5 + h
       /\ \A x \in 1 .. 4 + h : s2[x] = s1[x]
  <2>1. s1 \in Seq(Byte) /\ z \in Seq(Byte)
    BY <1>8, <1>9
  <2>2. /\ s2 \in Seq(Byte) /\ Len(s2) = Len(s1) + Len(z)
        /\ \A x \in 1 .. Len(s1) : s2[x] = s1[x]
    BY <2>1, Concat
  <2> HIDE DEF s2
  <2> QED
    BY <1>8, <1>9, <2>2
<1> HIDE DEF s2
<1>11. /\ s3 \in Seq(Byte) /\ Len(s3) = (5 + h) + 2
       /\ \A x \in 1 .. 5 + h : s3[x] = s2[x]
       /\ \A x \in 1 .. 2 : s3[(5 + h) + x] = c[x]
  <2>1. s2 \in Seq(Byte) /\ c \in Seq(Byte)
    BY <1>8, <1>10
  <2>2. /\ s3 \in Seq(Byte) /\ Len(s3) = Len(s2) + Len(c)
        /\ \A x \in 1 .. Len(s2) : s3[x] = s2[x]
        /\ \A x \in 1 .. Len(c) : s3[Len(s2) + x] = c[x]
    BY <2>1, Concat
  <2> HIDE DEF s3
  <2> QED
    BY <1>8, <1>10, <2>2
<1> HIDE DEF s3
<1>12. s3[5] = l[1] /\ (h = 2 => s3[6] = l[2])
  <2>1. \A x \in 1 .. 4 + h : s3[x] = s1[x]
    BY <1>10, <1>11
  <2>2. s1[5] = l[1]
    <3>1. 1 \in 1 .. h /\ 4 + 1 = 5
      OBVIOUS
    <3> QED
      BY <1>9, <3>1
  <2>3. h = 2 => s1[6] = l[2]
    <3>1. (h = 2 => 2 \in 1 .. h) /\ 4 + 2 = 6
      OBVIOUS
    <3> QED
      BY <1>9, <3>1
  <2> QED
    BY <2>1, <2>2, <2>3
<1>13. s3[6 + h] = c[1] /\ s3[7 + h] = c[2]
  <2>1. /\ (5 + h) + 1 = 6 + h /\ (5 + h) + 2 = 7 + h
        /\ 1 \in 1 .. 2 /\ 2 \in 1 .. 2
    OBVIOUS
  <2> QED
    BY <1>11, <2>1
<1>14. ASSUME NEW x \in 1 .. 4 PROVE s3[x] = p[x]
  <2>1. x \in 1 .. 4 + h /\ x \in 1 .. 5 + h
    OBVIOUS
  <2>2. s3[x] = s2[x] /\ s2[x] = s1[x] /\ s1[x] = p[x]
    BY <1>9, <1>10, <1>11, <2>1, Zenon
  <2> QED
    BY <2>2
<1>15. (5 + h) + 2 = 7 + h /\ (h # 1 <=> n >= 128)
  BY <1>4
<1> QED
  BY <1>4, <1>5, <1>7, <1>11, <1>12, <1>13, <1>14, <1>15 DEF p, l, c

\* High and low byte make up the number.
LEMMA DivMod ==
  ASSUME NEW n \in Nat, NEW q \in Nat, NEW r \in Nat,
         q = n \div 256, r = n % 256
  PROVE  q * 256 + r = n
OBVIOUS

\* All ParseFrames looks at in the bytes of an encoded frame.
LEMMA Encoded ==
  ASSUME NEW cmd \in Commands, NEW payload \in Payloads
  PROVE  LET e == EncodeFrame(cmd, payload) IN
         /\ e \in Seq(Byte) /\ Len(e) >= 8
         /\ Begins(e, 0) /\ BodyLen(e, 0) >= 3
         /\ FrameEnd(e, 0) = Len(e)
         /\ FrameAt(e, 0) = [cmd |-> cmd, payload |-> payload]
<1> DEFINE e == EncodeFrame(cmd, payload)
<1>1. PICK k \in Nat, n \in Nat : /\ k = Len(payload) /\ n = 3 + Len(payload)
                                 /\ n = 3 + k /\ 3 <= n /\ n <= MaxBody
                                 /\ payload \in Seq(Byte)
  <2>1. payload \in Seq(Byte) /\ Len(payload) + 3 <= MaxBody
    BY DEF Payloads
  <2>2. PICK k \in Nat : k = Len(payload)
    BY <2>1, LenProperties
  <2>3. 3 + k \in Nat /\ 3 <= 3 + k /\ 3 + k <= MaxBody
    BY <2>1, <2>2 DEF MaxBody
  <2> QED
    BY <2>1, <2>2, <2>3
<1> DEFINE d == HeadOf(cmd, n)
<1>2. PICK h \in 1 .. 2 :
         /\ d \in Seq(Byte) /\ Len(d) = 7 + h
         /\ \A x \in 1 .. 4 : d[x] = Preamble[x]
         /\ h = 1 => d[5] = n /\ n < 128
         /\ h = 2 => d[5] = 128 + n \div 256 /\ d[6] = n % 256 /\ n >= 128
         /\ d[6 + h] = cmd \div 256
         /\ d[7 + h] = cmd % 256
  <2>1. n \in Nat /\ 3 <= n /\ n <= MaxBody
    BY <1>1
  <2> HIDE DEF d
  <2> QED
    BY <2>1, HeadBytes DEF d
<1>3. e = d \o payload
  BY <1>1 DEF EncodeFrame, HeadOf
<1> HIDE DEF e, d
<1>4. /\ e \in Seq(Byte) /\ Len(e) = 7 + h + k
      /\ \A x \in 1 .. 7 + h : e[x] = d[x]
      /\ \A x \in 1 .. k : e[(7 + h) + x] = payload[x]
  <2>1. /\ e \in Seq(Byte) /\ Len(e) = Len(d) + Len(payload)
        /\ \A x \in 1 .. Len(d) : e[x] = d[x]
        /\ \A x \in 1 .. Len(payload) : e[Len(d) + x] = payload[x]
    <3>1. d \in Seq(Byte) /\ payload \in Seq(Byte)
      BY <1>1, <1>2
    <3> QED
      BY <1>3, <3>1, Concat
  <2> QED
    BY <1>1, <1>2, <2>1
<1>5. PICK l \in Nat : l = Len(e) /\ l = 7 + h + k /\ l >= 8
  BY <1>4
<1>6. Begins(e, 0)
  <2>1. 0 + 4 <= Len(e) /\ 0 + 1 = 1 /\ 0 + 4 = 4
    BY <1>5
  <2>2. /\ SubSeq(e, 0 + 1, 0 + 4) \in Seq(Byte)
        /\ Len(SubSeq(e, 0 + 1, 0 + 4)) = 4
        /\ \A x \in 1 .. 4 : SubSeq(e, 0 + 1, 0 + 4)[x] = e[0 + x]
    BY <1>4, <2>1, Slice
  <2>3. \A x \in 1 .. 4 : e[0 + x] = Preamble[x]
    BY <1>2, <1>4
  <2>4. Preamble \in Seq(Byte) /\ Len(Preamble) = 4
    BY DEF Preamble, Byte
  <2> DEFINE s == SubSeq(e, 0 + 1, 0 + 4)
  <2> HIDE DEF s
  <2>5. s = Preamble
    BY <2>2, <2>3, <2>4, SeqEqual DEF s
  <2> QED
    BY <2>5 DEF Begins, s
<1>7. /\ e[5] = d[5] /\ e[6 + h] = d[6 + h] /\ e[7 + h] = d[7 + h]
      /\ h = 2 => e[6] = d[6]
  BY <1>4
<1>8. HeaderLen(e, 0) = h /\ BodyLen(e, 0) = n
  <2>1. 0 + 5 = 5 /\ 0 + 6 = 6
    OBVIOUS
  <2>2. CASE h = 1
    <3>1. e[5] = n /\ ~(n >= 128)
      BY <1>2, <1>7, <2>2
    <3> QED
      BY <2>1, <2>2, <3>1 DEF HeaderLen, BodyLen
  <2>3. CASE h = 2
    <3>1. e[5] = 128 + n \div 256 /\ e[6] = n % 256
      BY <1>2, <1>7, <2>3
    <3>2. PICK q \in Nat, r \in Nat : q = n \div 256 /\ r = n % 256
      OBVIOUS
    <3>3. 128 + q >= 128 /\ (128 + q) - 128 = q /\ q * 256 + r = n
      BY <3>2, DivMod
    <3> QED
      BY <2>1, <2>3, <3>1, <3>2, <3>3 DEF HeaderLen, BodyLen
  <2> QED
    BY <2>2, <2>3
<1>9. FrameEnd(e, 0) = l
  BY <1>1, <1>5, <1>8 DEF FrameEnd
<1>10. FrameAt(e, 0) = [cmd |-> cmd, payload |-> payload]
  <2>1. PICK b \in Nat : /\ b = 0 + 4 + HeaderLen(e, 0) /\ b = 4 + h
                         /\ b + 2 = 6 + h /\ b + 3 = 7 + h
                         /\ b + 4 = (7 + h) + 1 /\ l = (7 + h) + k
    BY <1>5, <1>8
  <2>2. e[b + 2] * 256 + e[b + 3] = cmd
    <3>1. e[b + 2] = cmd \div 256 /\ e[b + 3] = cmd % 256
      BY <1>2, <1>7, <2>1
    <3>2. cmd \in Nat
      BY DEF Commands
    <3>3. PICK q \in Nat, r \in Nat : q = cmd \div 256 /\ r = cmd % 256
      BY <3>2
    <3>4. q * 256 + r = cmd
      BY <3>2, <3>3, DivMod
    <3> QED
      BY <3>1, <3>3, <3>4
  <2>3. SubSeq(e, b + 4, FrameEnd(e, 0)) = payload
    <3> DEFINE s == SubSeq(e, (7 + h) + 1, (7 + h) + k)
    <3>1. 7 + h \in Nat /\ (7 + h) + k <= Len(e)
      BY <1>5
    <3>2. /\ s \in Seq(Byte) /\ Len(s) = k
          /\ \A x \in 1 .. k : s[x] = e[(7 + h) + x]
      BY <1>4, <3>1, Slice
    <3> HIDE DEF s
    <3>3. s = payload
      BY <1>1, <1>4, <3>2, SeqEqual
    <3> QED
      BY <1>9, <2>1, <3>3 DEF s
  <2> QED
    BY <2>1, <2>2, <2>3 DEF FrameAt
<1>11. BodyLen(e, 0) >= 3
  BY <1>1, <1>8
<1> QED
  BY <1>4, <1>5, <1>6, <1>9, <1>10, <1>11 DEF e

\* ParseFrames undoes EncodeFrame, whatever the command and the payload, as
\* long as the two length bytes can carry the length (frame.go:36-98).
THEOREM FrameRoundTrip ==
  ASSUME NEW cmd \in Commands, NEW payload \in Payloads
  PROVE  ParseFrames(EncodeFrame(cmd, payload)) =
            Parsed(<<[cmd |-> cmd, payload |-> payload]>>, << >>, FALSE)
<1> DEFINE e == EncodeFrame(cmd, payload)
           fr == [cmd |-> cmd, payload |-> payload]
<1>1. /\ e \in Seq(Byte) /\ Len(e) >= 8 /\ Begins(e, 0) /\ BodyLen(e, 0) >= 3
      /\ FrameEnd(e, 0) = Len(e) /\ FrameAt(e, 0) = fr
  BY Encoded
<1> HIDE DEF e
<1>2. PICK l \in Nat : l = Len(e) /\ 0 + 6 <= l
  BY <1>1, LenProperties
<1>3. ~(FrameEnd(e, 0) > Len(e)) /\ ~(BodyLen(e, 0) < 3)
  <2>1. BodyLen(e, 0) \in Nat
    BY <1>1, <1>2, Header
  <2> QED
    BY <1>1, <1>2, <2>1
<1>4. Parse(e)[0] = Joined(<<FrameAt(e, 0)>>, Parse(e)[FrameEnd(e, 0)])
  <2>1. 0 + 6 <= Len(e) /\ 0 \in Nat
    BY <1>2
  <2> QED
    BY <1>1, <1>3, <2>1, AtByte
<1>5. Parse(e)[l] = Parsed(<< >>, Rest(e, l), FALSE)
  <2>1. l <= Len(e) /\ l + 6 > Len(e)
    BY <1>2
  <2> QED
    BY <1>1, <2>1, AtEnd
<1>6. Rest(e, l) = << >>
  <2>1. l + 1 \in Int /\ l \in Int /\ l < l + 1
    OBVIOUS
  <2> QED
    BY <1>2, <2>1, SubSeqEmpty DEF Rest
<1>7. Joined(<<fr>>, Parsed(<< >>, << >>, FALSE)) =
         Parsed(<<fr>>, << >>, FALSE)
  <2>1. <<fr>> \in Seq({fr})
    OBVIOUS
  <2>2. <<fr>> \o << >> = <<fr>>
    BY <2>1, ConcatEmptySeq
  <2> HIDE DEF fr
  <2> QED
    BY <2>2 DEF Joined, Parsed
<1>8. ParseFrames(e) = Parse(e)[0]
  BY <1>1, ParseSolves
<1> QED
  BY <1>1, <1>2, <1>4, <1>5, <1>6, <1>7, <1>8 DEF e

\* Less than a whole frame is kept until the rest of it comes.
LEMMA PartOfFrame ==
  ASSUME NEW cmd \in Commands, NEW payload \in Payloads,
         NEW part \in Seq(Byte), NEW m \in Nat, Len(part) = m,
         m < Len(EncodeFrame(cmd, payload)),
         Alike(EncodeFrame(cmd, payload), 0, part, 0, m)
  PROVE  ParseFrames(part) = Parsed(<< >>, part, FALSE)
<1> DEFINE e == EncodeFrame(cmd, payload)
<1>1. e \in Seq(Byte) /\ Len(e) >= 8 /\ Begins(e, 0) /\ FrameEnd(e, 0) = Len(e)
  BY Encoded
<1>2. m < Len(e) /\ Alike(e, 0, part, 0, m)
  OBVIOUS
<1> HIDE DEF e
<1>3. PICK l \in Nat : l = Len(e) /\ m < l /\ 0 + 6 <= l
  BY <1>1, <1>2, LenProperties
<1>4. Rest(part, 0) = part
  <2>1. 0 + 1 = 1
    OBVIOUS
  <2>2. SubSeq(part, 1, Len(part)) = part
    BY SubSeqFull
  <2> QED
    BY <2>1, <2>2 DEF Rest
<1>5. Parse(part)[0] = Parsed(<< >>, part, FALSE)
  <2>1. CASE 0 + 6 > m
    <3>1. 0 \in Nat /\ 0 <= Len(part) /\ 0 + 6 > Len(part)
      BY <2>1
    <3> QED
      BY <1>4, <3>1, AtEnd
  <2>2. CASE 0 + 6 <= m
    <3>1. Alike(e, 0, part, 0, 6)
      BY <1>2, <2>2 DEF Alike
    <3>2. 0 + 6 <= Len(e) /\ 0 + 6 <= Len(part) /\ 0 \in Nat
      BY <1>3, <2>2
    <3>3. /\ Begins(part, 0)
          /\ HeaderLen(part, 0) = HeaderLen(e, 0)
          /\ BodyLen(part, 0) = BodyLen(e, 0)
      BY <1>1, <3>1, <3>2, SameHeader
    <3>4. FrameEnd(part, 0) = l
      BY <1>1, <1>3, <3>3, Zenon DEF FrameEnd
    <3>5. FrameEnd(part, 0) > Len(part)
      BY <1>3, <3>4
    <3> QED
      BY <1>4, <3>2, <3>3, <3>5, AtByte
  <2>3. 0 + 6 > m \/ 0 + 6 <= m
    OBVIOUS
  <2> QED
    BY <2>1, <2>2, <2>3
<1> QED
  BY <1>5, ParseSolves

-----------------------------------------------------------------------------
(* The bytes and the frames of several messages.                           *)

Step(s, f, i) == IF i = 1 THEN s[i] ELSE f[i - 1] \o s[i]
Flattens(s, n, f) == f = [i \in 1 .. n |-> Step(s, f, i)]

\* Such a function exists.
LEMMA FlattensExists ==
  ASSUME NEW s
  PROVE  \A n \in Nat : \E f : Flattens(s, n, f)
<1> DEFINE G == {n \in Nat : \E f : Flattens(s, n, f)}
<1>1. ASSUME NEW n \in Nat, \A m \in Nat : m < n => m \in G PROVE n \in G
  <2>1. CASE n = 0
    <3> DEFINE f == [i \in 1 .. 0 |-> 0]
    <3>1. Flattens(s, 0, f)
      BY DEF Flattens
    <3> QED
      BY <2>1, <3>1
  <2>2. CASE n > 0
    <3>1. PICK m \in Nat : n = m + 1 /\ m \in G
      <4>1. n - 1 \in Nat /\ n - 1 < n /\ n = (n - 1) + 1
        BY <2>2
      <4> QED
        BY <1>1, <4>1
    <3>2. PICK g : g = [i \in 1 .. m |-> Step(s, g, i)]
      BY <3>1 DEF Flattens
    <3> DEFINE f == [i \in 1 .. n |-> IF i = n THEN Step(s, g, i) ELSE g[i]]
    <3>3. ASSUME NEW i \in 1 .. n PROVE f[i] = Step(s, f, i)
      <4>1. i # 1 => f[i - 1] = g[i - 1]
        OBVIOUS
      <4>2. f[i] = IF i = n THEN Step(s, g, i) ELSE g[i]
        OBVIOUS
      <4>3. i # n => g[i] = Step(s, g, i)
        <5>1. \A x \in 1 .. m : g[x] = Step(s, g, x)
          BY <3>2, Zenon
        <5> QED
          BY <3>1, <5>1
      <4>4. Step(s, f, i) = Step(s, g, i)
        <5> HIDE DEF f
        <5> QED
          BY <4>1, Zenon DEF Step
      <4> QED
        BY <4>2, <4>3, <4>4
    <3>4. f = [i \in 1 .. n |-> f[i]]
      OBVIOUS
    <3> HIDE DEF f
    <3>5. f = [i \in 1 .. n |-> Step(s, f, i)]
      BY <3>3, <3>4
    <3> QED
      BY <3>5 DEF Flattens
  <2> QED
    BY <2>1, <2>2
<1>2. \A n \in Nat : n \in G
  <2> HIDE DEF G
  <2> QED
    BY <1>1, EveryNat
<1> QED
  BY <1>2

\* t begins as s does, and is one longer.
Longer(s, m, f, t, g) ==
    /\ Flattens(s, m, f) /\ Flattens(t, m + 1, g)
    /\ \A i \in 1 .. m : s[i] = t[i]

\* What comes later does not change it.
LEMMA FlattensSame ==
  ASSUME NEW s, NEW t, NEW m \in Nat, NEW f, NEW g, Longer(s, m, f, t, g)
  PROVE  \A i \in 1 .. m : f[i] = g[i]
<1> USE DEF Longer
<1> DEFINE G == {i \in Nat : i \in 1 .. m => f[i] = g[i]}
<1>1. ASSUME NEW i \in Nat, \A j \in Nat : j < i => j \in G PROVE i \in G
  <2> SUFFICES ASSUME i \in 1 .. m PROVE f[i] = g[i]
    OBVIOUS
  <2>1. f[i] = Step(s, f, i)
    BY Zenon DEF Flattens
  <2>2. g[i] = Step(t, g, i)
    <3>1. i \in 1 .. m + 1
      OBVIOUS
    <3> QED
      BY <3>1, Zenon DEF Flattens
  <2>3. i # 1 => f[i - 1] = g[i - 1]
    <3>1. i # 1 => i - 1 \in Nat /\ i - 1 < i /\ i - 1 \in 1 .. m
      OBVIOUS
    <3> QED
      BY <1>1, <3>1
  <2> QED
    BY <2>1, <2>2, <2>3, Zenon DEF Step
<1>2. \A i \in Nat : i \in G
  <2> HIDE DEF G
  <2> QED
    BY <1>1, EveryNat
<1> QED
  BY <1>2

\* FlattenSeq takes the last value of one.
LEMMA FlattenSolves ==
  ASSUME NEW s, NEW n \in Nat, n # 0, Len(s) = n
  PROVE  \E f : Flattens(s, n, f) /\ FlattenSeq(s) = f[n]
<1> DEFINE f == CHOOSE f : Flattens(s, n, f)
<1>1. Flattens(s, n, f)
  BY FlattensExists
<1>2. FlattenSeq(s) = f[n]
  BY Zenon DEF FlattenSeq, Flattens, Step
<1> QED
  BY <1>1, <1>2


\* One more sequence is appended.
LEMMA FlattenMore ==
  ASSUME NEW S, NEW s \in Seq(Seq(S)), NEW t \in Seq(Seq(S)), NEW n \in Nat,
         Len(t) = n, Len(s) = n + 1, \A i \in 1 .. n : t[i] = s[i]
  PROVE  FlattenSeq(s) = FlattenSeq(t) \o s[n + 1]
<1>1. s[n + 1] \in Seq(S)
  <2>1. n + 1 \in 1 .. Len(s)
    OBVIOUS
  <2> QED
    BY <2>1, ElementOfSeq
<1>2. PICK f : Flattens(s, n + 1, f) /\ FlattenSeq(s) = f[n + 1]
  <2>1. n + 1 \in Nat /\ n + 1 # 0
    OBVIOUS
  <2> QED
    BY <2>1, FlattenSolves
<1>3. f[n + 1] = Step(s, f, n + 1)
  <2>1. n + 1 \in 1 .. n + 1
    OBVIOUS
  <2> QED
    BY <1>2, <2>1, Zenon DEF Flattens
<1>4. CASE n = 0
  <2>1. FlattenSeq(t) = << >>
    <3>1. t = << >>
      BY <1>4, EmptySeq
    <3> QED
      BY <1>4, <3>1 DEF FlattenSeq
  <2>2. f[n + 1] = s[n + 1]
    BY <1>3, <1>4 DEF Step
  <2>3. << >> \o s[n + 1] = s[n + 1]
    BY <1>1, ConcatEmptySeq
  <2> QED
    BY <1>2, <2>1, <2>2, <2>3
<1>5. CASE n # 0
  <2>1. PICK g : Flattens(t, n, g) /\ FlattenSeq(t) = g[n]
    BY <1>5, FlattenSolves
  <2>2. g[n] = f[n]
    <3>1. n \in 1 .. n
      BY <1>5
    <3>2. Flattens(t, n, g) /\ Flattens(s, n + 1, f)
      BY <1>2, <2>1
    <3>3. Longer(t, n, g, s, f)
      BY <3>2 DEF Longer
    <3>4. \A i \in 1 .. n : g[i] = f[i]
      BY <3>3, FlattensSame
    <3> QED
      BY <3>1, <3>4
  <2>3. f[n + 1] = f[n] \o s[n + 1]
    <3>1. n + 1 # 1 /\ (n + 1) - 1 = n
      BY <1>5
    <3> QED
      BY <1>3, <3>1 DEF Step
  <2> QED
    BY <1>2, <2>1, <2>2, <2>3
<1> QED
  BY <1>4, <1>5

\* Sequences of elements make one sequence of them.
LEMMA FlattenType ==
  ASSUME NEW S, NEW s \in Seq(Seq(S))
  PROVE  FlattenSeq(s) \in Seq(S)
<1>0. PICK n \in Nat : n = Len(s)
  BY LenProperties
<1>1. CASE n = 0
  <2>1. s = << >> /\ << >> \in Seq(S)
    BY <1>0, <1>1, EmptySeq
  <2> QED
    BY <1>0, <1>1, <2>1 DEF FlattenSeq
<1>2. CASE n # 0
  <2>1. PICK f : Flattens(s, n, f) /\ FlattenSeq(s) = f[n]
    BY <1>0, <1>2, FlattenSolves
  <2>2. \A i \in 1 .. n : s[i] \in Seq(S)
    BY <1>0, ElementOfSeq
  <2> DEFINE G == {i \in Nat : i \in 1 .. n => f[i] \in Seq(S)}
  <2>3. ASSUME NEW i \in Nat, \A j \in Nat : j < i => j \in G PROVE i \in G
    <3> SUFFICES ASSUME i \in 1 .. n PROVE f[i] \in Seq(S)
      OBVIOUS
    <3>1. f[i] = Step(s, f, i)
      BY <2>1, Zenon DEF Flattens
    <3>2. CASE i = 1
      BY <2>2, <3>1, <3>2 DEF Step
    <3>3. CASE i # 1
      <4>1. i - 1 \in Nat /\ i - 1 < i /\ i - 1 \in 1 .. n
        BY <3>3
      <4>2. f[i - 1] \in Seq(S) /\ s[i] \in Seq(S)
        BY <2>2, <2>3, <4>1
      <4>3. f[i - 1] \o s[i] \in Seq(S)
        BY <4>2, ConcatProperties
      <4> QED
        BY <3>1, <3>3, <4>3 DEF Step
    <3> QED
      BY <3>2, <3>3
  <2>4. \A i \in Nat : i \in G
    <3> HIDE DEF G
    <3> QED
      BY <2>3, EveryNat
  <2>5. n \in 1 .. n
    BY <1>2
  <2> QED
    BY <2>1, <2>4, <2>5
<1> QED
  BY <1>1, <1>2

Prefix(msgs, n) == SubSeq(msgs, 1, n)

\* The first n messages.
LEMMA PrefixType ==
  ASSUME NEW msgs \in Seq(Message), NEW n \in Nat, n <= Len(msgs)
  PROVE  /\ Prefix(msgs, n) \in Seq(Message) /\ Len(Prefix(msgs, n)) = n
         /\ \A i \in 1 .. n : /\ Prefix(msgs, n)[i] = msgs[i]
                             /\ msgs[i] \in Message
<1>1. \A k \in 1 .. n : msgs[k] \in Message
  BY ElementOfSeq
<1>2. /\ Prefix(msgs, n) \in Seq(Message)
      /\ Len(Prefix(msgs, n)) = IF 1 <= n THEN n - 1 + 1 ELSE 0
      /\ \A i \in 1 .. n - 1 + 1 : Prefix(msgs, n)[i] = msgs[1 + i - 1]
  BY <1>1, SubSeqProperties DEF Prefix
<1>3. ASSUME NEW i \in 1 .. n PROVE Prefix(msgs, n)[i] = msgs[i]
  <2>1. i \in 1 .. n - 1 + 1 /\ 1 + i - 1 = i
    OBVIOUS
  <2> QED
    BY <1>2, <2>1
<1> QED
  BY <1>1, <1>2, <1>3

\* Their bytes and frames.
LEMMA OfPrefix ==
  ASSUME NEW msgs \in Seq(Message), NEW n \in Nat, n <= Len(msgs)
  PROVE  /\ Bytes(Prefix(msgs, n)) \in Seq(Byte)
         /\ Frames(Prefix(msgs, n)) \in Seq(FrameSet)
         /\ n = 0 => /\ Bytes(Prefix(msgs, n)) = << >>
                     /\ Frames(Prefix(msgs, n)) = << >>
<1> DEFINE p == Prefix(msgs, n)
           b == [i \in 1 .. Len(p) |-> p[i].bytes]
           f == [i \in 1 .. Len(p) |-> p[i].frames]
<1>1. Len(p) = n /\ \A i \in 1 .. n : p[i] \in Message
  BY PrefixType
<1> HIDE DEF p
<1>2. /\ b \in Seq(Seq(Byte)) /\ f \in Seq(Seq(FrameSet))
      /\ Len(b) = n /\ Len(f) = n
  BY <1>1 DEF Message
<1>3. Bytes(p) = FlattenSeq(b) /\ Frames(p) = FlattenSeq(f)
  BY DEF Bytes, Frames
<1> HIDE DEF b, f
<1>4. FlattenSeq(b) \in Seq(Byte) /\ FlattenSeq(f) \in Seq(FrameSet)
  BY <1>2, FlattenType
<1>5. n = 0 => FlattenSeq(b) = << >> /\ FlattenSeq(f) = << >>
  <2>1. n = 0 => b = << >> /\ f = << >>
    BY <1>2, EmptySeq
  <2> QED
    BY <1>2, <2>1 DEF FlattenSeq
<1> QED
  BY <1>3, <1>4, <1>5 DEF p

\* One more message adds its bytes and frames.
LEMMA NextPrefix ==
  ASSUME NEW msgs \in Seq(Message), NEW n \in Nat, n + 1 <= Len(msgs)
  PROVE  /\ Bytes(Prefix(msgs, n + 1)) =
               Bytes(Prefix(msgs, n)) \o msgs[n + 1].bytes
         /\ Frames(Prefix(msgs, n + 1)) =
               Frames(Prefix(msgs, n)) \o msgs[n + 1].frames
<1> DEFINE p == Prefix(msgs, n)
           q == Prefix(msgs, n + 1)
           b == [i \in 1 .. Len(p) |-> p[i].bytes]
           f == [i \in 1 .. Len(p) |-> p[i].frames]
           c == [i \in 1 .. Len(q) |-> q[i].bytes]
           g == [i \in 1 .. Len(q) |-> q[i].frames]
<1>1. Len(p) = n /\ \A i \in 1 .. n : p[i] = msgs[i] /\ msgs[i] \in Message
  <2>1. n <= Len(msgs)
    BY LenProperties
  <2> QED
    BY <2>1, PrefixType
<1>2. /\ Len(q) = n + 1
      /\ \A i \in 1 .. n + 1 : q[i] = msgs[i] /\ msgs[i] \in Message
  <2>1. n + 1 \in Nat
    OBVIOUS
  <2> QED
    BY <2>1, PrefixType
<1> HIDE DEF p, q
<1>9. /\ \A i \in 1 .. n : p[i] \in Message
      /\ \A i \in 1 .. n + 1 : q[i] \in Message
  BY <1>1, <1>2
<1>3. /\ b \in Seq(Seq(Byte)) /\ f \in Seq(Seq(FrameSet))
      /\ Len(b) = n /\ Len(f) = n
  <2>1. Len(p) = n
    BY <1>1
  <2>2. \A i \in 1 .. n : /\ p[i].bytes \in Seq(Byte)
                          /\ p[i].frames \in Seq(FrameSet)
    BY <1>9 DEF Message
  <2> QED
    BY <2>1, <2>2
<1>4. /\ c \in Seq(Seq(Byte)) /\ g \in Seq(Seq(FrameSet))
      /\ Len(c) = n + 1 /\ Len(g) = n + 1
  <2>1. Len(q) = n + 1
    BY <1>2
  <2>2. \A i \in 1 .. n + 1 : /\ q[i].bytes \in Seq(Byte)
                              /\ q[i].frames \in Seq(FrameSet)
    BY <1>9 DEF Message
  <2> QED
    BY <2>1, <2>2
<1>5. /\ \A i \in 1 .. n : b[i] = c[i] /\ f[i] = g[i]
      /\ c[n + 1] = msgs[n + 1].bytes /\ g[n + 1] = msgs[n + 1].frames
  <2>1. /\ \A i \in 1 .. n : /\ b[i] = p[i].bytes /\ f[i] = p[i].frames
                            /\ p[i] = msgs[i]
        /\ \A i \in 1 .. n + 1 : /\ c[i] = q[i].bytes /\ g[i] = q[i].frames
                                /\ q[i] = msgs[i]
    BY <1>1, <1>2
  <2> HIDE DEF b, f, c, g
  <2>2. (\A i \in 1 .. n : i \in 1 .. n + 1) /\ n + 1 \in 1 .. n + 1
    OBVIOUS
  <2>3. q[n + 1] = msgs[n + 1]
    BY <2>1, <2>2
  <2>4. ASSUME NEW i \in 1 .. n PROVE b[i] = c[i] /\ f[i] = g[i]
    BY <2>1, <2>2
  <2> QED
    BY <2>1, <2>2, <2>3, <2>4
<1>6. /\ Bytes(p) = FlattenSeq(b) /\ Frames(p) = FlattenSeq(f)
      /\ Bytes(q) = FlattenSeq(c) /\ Frames(q) = FlattenSeq(g)
  BY DEF Bytes, Frames
<1> HIDE DEF b, f, c, g
<1>7. FlattenSeq(c) = FlattenSeq(b) \o c[n + 1]
  BY <1>3, <1>4, <1>5, FlattenMore
<1>8. FlattenSeq(g) = FlattenSeq(f) \o g[n + 1]
  BY <1>3, <1>4, <1>5, FlattenMore
<1> QED
  BY <1>5, <1>6, <1>7, <1>8 DEF p, q

-----------------------------------------------------------------------------
(* The stream.                                                             *)

\* All messages are the first Len(msgs) of them.
LEMMA BytesType ==
  ASSUME NEW msgs \in Seq(Message)
  PROVE  /\ Prefix(msgs, Len(msgs)) = msgs
         /\ Bytes(msgs) \in Seq(Byte) /\ Frames(msgs) \in Seq(FrameSet)
<1>1. Prefix(msgs, Len(msgs)) = msgs
  BY SubSeqFull DEF Prefix
<1>2. PICK n \in Nat : n = Len(msgs) /\ n <= Len(msgs)
  BY LenProperties
<1>3. /\ Bytes(Prefix(msgs, n)) \in Seq(Byte)
      /\ Frames(Prefix(msgs, n)) \in Seq(FrameSet)
  BY <1>2, OfPrefix
<1> QED
  BY <1>1, <1>2, <1>3

\* However the stream was cut and whatever went wrong before, what was
\* dispatched since the last parse error and what is kept are what one call
\* of ParseFrames makes of the bytes that were read since.
OnePass ==
    LET p == ParseFrames(SubSeq(Bytes(sent), since + 1, taken)) IN
    ~p.err /\ got = kept \o p.frames /\ buf = p.rest

PieceInv ==
    /\ sent \in Seq(Message) /\ taken \in Nat /\ taken <= Len(Bytes(sent))
    /\ since \in Nat /\ since <= taken
    /\ buf \in Seq(Byte) /\ got \in Seq(FrameSet) /\ kept \in Seq(FrameSet)
    /\ OnePass

\* The bytes from s up to t, and the k next.
LEMMA ArrivedType ==
  ASSUME NEW b \in Seq(Byte), NEW s \in Nat, NEW t \in Nat, NEW k \in Nat,
         s <= t, t + k <= Len(b)
  PROVE  /\ SubSeq(b, s + 1, t) \in Seq(Byte)
         /\ SubSeq(b, t + 1, t + k) \in Seq(Byte)
         /\ SubSeq(b, s + 1, t + k) =
               SubSeq(b, s + 1, t) \o SubSeq(b, t + 1, t + k)
<1>1. PICK l \in Nat : l = Len(b) /\ t + k <= l
  BY LenProperties
<1>2. SubSeq(b, t + 1, t + k) \in Seq(Byte)
  BY Slice
<1>3. SubSeq(b, s + 1, t) \in Seq(Byte)
  <2>1. PICK n \in Nat : t = s + n
    <3>1. t - s \in Nat /\ t = s + (t - s)
      OBVIOUS
    <3> QED
      BY <3>1
  <2>2. s + n <= Len(b)
    BY <1>1, <2>1
  <2>3. SubSeq(b, s + 1, s + n) \in Seq(Byte)
    BY <2>2, Slice
  <2> QED
    BY <2>1, <2>3
<1>4. SubSeq(b, s + 1, t) \o SubSeq(b, t + 1, t + k) = SubSeq(b, s + 1, t + k)
  <2>1. /\ s + 1 \in 1 .. Len(b) + 1 /\ t \in (s + 1) - 1 .. Len(b)
        /\ t + k \in t .. Len(b)
    BY <1>1
  <2> QED
    BY <2>1, ConcatAdjacentSubSeq
<1> QED
  BY <1>2, <1>3, <1>4

\* The bytes up to t, and the k next.
LEMMA ArrivedFirst ==
  ASSUME NEW b \in Seq(Byte), NEW t \in Nat, NEW k \in Nat, t + k <= Len(b)
  PROVE  /\ SubSeq(b, 1, t) \in Seq(Byte)
         /\ SubSeq(b, t + 1, t + k) \in Seq(Byte)
         /\ SubSeq(b, 1, t + k) = SubSeq(b, 1, t) \o SubSeq(b, t + 1, t + k)
<1>1. 0 \in Nat /\ 0 + 1 = 1 /\ 0 <= t
  OBVIOUS
<1>2. /\ SubSeq(b, 0 + 1, t) \in Seq(Byte)
      /\ SubSeq(b, t + 1, t + k) \in Seq(Byte)
      /\ SubSeq(b, 0 + 1, t + k) =
            SubSeq(b, 0 + 1, t) \o SubSeq(b, t + 1, t + k)
  BY <1>1, ArrivedType
<1> QED
  BY <1>1, <1>2

\* What ParseFrames returns.
LEMMA ParsedType ==
  ASSUME NEW b \in Seq(Byte)
  PROVE  Result(ParseFrames(b))
<1>1. 0 \in Nat /\ 0 <= Len(b)
  BY LenProperties
<1> QED
  BY <1>1, ParseSolves, ParseResult

\* It makes nothing of nothing.
LEMMA ParseNothing ==
  ParseFrames(<< >>) = Parsed(<< >>, << >>, FALSE)
<1>1. << >> \in Seq(Byte) /\ Len(<< >>) = 0
  BY EmptySeq
<1>2. Parse(<< >>)[0] = Parsed(<< >>, Rest(<< >>, 0), FALSE)
  <2>1. 0 \in Nat /\ 0 <= Len(<< >>) /\ 0 + 6 > Len(<< >>)
    BY <1>1
  <2> QED
    BY <1>1, <2>1, AtEnd
<1>3. Rest(<< >>, 0) = << >>
  <2>1. 0 + 1 \in Int /\ 0 \in Int /\ 0 < 0 + 1
    OBVIOUS
  <2> QED
    BY <1>1, <2>1, SubSeqEmpty DEF Rest
<1> QED
  BY <1>1, <1>2, <1>3, ParseSolves

\* What a read does: parsing the leftover and the new bytes goes on from what
\* one parse of everything before gave.
LEMMA OneMorePiece ==
  ASSUME NEW a \in Seq(Byte), NEW b \in Seq(Byte), ~ParseFrames(a).err
  PROVE  LET p == ParseFrames(a)
             q == ParseFrames(p.rest \o b)
             r == ParseFrames(a \o b) IN
         /\ r.err = q.err
         /\ ~q.err => r.frames = p.frames \o q.frames /\ r.rest = q.rest
<1> DEFINE p == ParseFrames(a)
           q == ParseFrames(p.rest \o b)
           r == ParseFrames(a \o b)
<1>1. r = Joined(p.frames, q)
  BY CutsDoNotMatter
<1>2. p.frames \in Seq(FrameSet) /\ p.rest \in Seq(Byte)
  BY ParsedType DEF Result
<1>3. Result(q)
  <2>1. p.rest \o b \in Seq(Byte)
    BY <1>2, ConcatProperties
  <2> QED
    BY <2>1, ParsedType
<1> HIDE DEF p, q, r
<1>4. /\ r.err = q.err
      /\ ~q.err => r.frames = p.frames \o q.frames /\ r.rest = q.rest
  BY <1>1, <1>2, <1>3, JoinedResult
<1> QED
  BY <1>4 DEF p, q, r

\* A parse that fails dispatches nothing and leaves nothing, and what begins
\* behind it begins anew.
LEMMA Anew ==
  ASSUME NEW b \in Seq(Byte), NEW t \in Nat
  PROVE  LET p == ParseFrames(SubSeq(b, t + 1, t)) IN
         ~p.err /\ p.frames = << >> /\ p.rest = << >>
<1>1. SubSeq(b, t + 1, t) = << >>
  <2>1. t + 1 \in Int /\ t \in Int /\ t < t + 1
    OBVIOUS
  <2> QED
    BY <2>1, SubSeqEmpty
<1>2. ParseFrames(SubSeq(b, t + 1, t)) = Parsed(<< >>, << >>, FALSE)
  BY <1>1, ParseNothing
<1>3. /\ Parsed(<< >>, << >>, FALSE).err = FALSE
      /\ Parsed(<< >>, << >>, FALSE).frames = << >>
      /\ Parsed(<< >>, << >>, FALSE).rest = << >>
  BY DEF Parsed
<1> QED
  BY <1>2, <1>3

\* The invariant of the next theorem, which is inductive with the types.
LEMMA PieceInvariant == Spec => []PieceInv
<1>1. Init => PieceInv
  <2> SUFFICES ASSUME Init PROVE PieceInv
    OBVIOUS
  <2>1. sent \in Seq(Message)
    BY MessagesAssumption DEF Init
  <2>2. Bytes(sent) \in Seq(Byte)
    BY <2>1, BytesType
  <2>3. taken = 0 /\ buf = << >> /\ got = << >> /\ since = 0 /\ kept = << >>
    BY DEF Init
  <2>4. taken \in Nat /\ taken <= Len(Bytes(sent)) /\ since <= taken
    BY <2>2, <2>3, LenProperties
  <2>5. /\ buf \in Seq(Byte) /\ got \in Seq(FrameSet)
        /\ kept \in Seq(FrameSet) /\ << >> \o << >> = << >>
    BY <2>3, EmptySeq, ConcatEmptySeq
  <2>6. OnePass
    BY <2>2, <2>3, <2>4, <2>5, Anew DEF OnePass
  <2> QED
    BY <2>1, <2>3, <2>4, <2>5, <2>6 DEF PieceInv
<1>2. PieceInv /\ [Next]_vars => PieceInv'
  <2> SUFFICES ASSUME PieceInv, [Next]_vars PROVE PieceInv'
    OBVIOUS
  <2>1. ASSUME NEW k \in Pieces, Read(k) PROVE PieceInv'
    <3> DEFINE bs == Bytes(sent)
               a == SubSeq(bs, since + 1, taken)
               piece == SubSeq(bs, taken + 1, taken + k)
               all == buf \o piece
               p == ParseFrames(all)
               o == ParseFrames(a)
               q == ParseFrames(a \o piece)
    <3>1. k \in Nat
      BY PiecesAssumption
    <3>2. /\ taken + k <= Len(bs) /\ taken' = taken + k /\ sent' = sent
          /\ buf' = p.rest /\ got' = got \o p.frames
          /\ since' = IF p.err THEN taken + k ELSE since
          /\ kept' = IF p.err THEN got ELSE kept
      BY <2>1, Zenon DEF Read, Leftover
    <3>3. /\ sent \in Seq(Message) /\ taken \in Nat /\ buf \in Seq(Byte)
          /\ got \in Seq(FrameSet) /\ kept \in Seq(FrameSet)
          /\ since \in Nat /\ since <= taken
          /\ ~o.err /\ got = kept \o o.frames /\ buf = o.rest
      <4>1. ~o.err /\ got = kept \o o.frames /\ buf = o.rest
        BY Zenon DEF PieceInv, OnePass
      <4> HIDE DEF o
      <4> QED
        BY <4>1 DEF PieceInv
    <3>4. bs \in Seq(Byte)
      BY <3>3, BytesType
    <3>5. /\ a \in Seq(Byte) /\ piece \in Seq(Byte)
          /\ SubSeq(bs, since + 1, taken + k) = a \o piece
      <4>1. /\ bs \in Seq(Byte) /\ since \in Nat /\ taken \in Nat /\ k \in Nat
            /\ since <= taken /\ taken + k <= Len(bs)
        BY <3>1, <3>2, <3>3, <3>4
      <4> HIDE DEF bs
      <4> QED
        BY <4>1, ArrivedType
    <3>6. all \in Seq(Byte)
      BY <3>3, <3>5, ConcatProperties
    <3>7. Result(p) /\ Result(o)
      BY <3>5, <3>6, ParsedType
    <3>8. /\ p.frames \in Seq(FrameSet) /\ p.rest \in Seq(Byte)
          /\ o.frames \in Seq(FrameSet)
      BY <3>7 DEF Result
    <3>9. got \o p.frames \in Seq(FrameSet)
      BY <3>3, <3>8, ConcatProperties
    <3>10. /\ q.err = p.err
           /\ ~p.err => q.frames = o.frames \o p.frames /\ q.rest = p.rest
      <4> HIDE DEF a, piece
      <4> QED
        BY <3>3, <3>5, OneMorePiece
    <3>11. CASE p.err
      <4>1. p.frames = << >> /\ p.rest = << >>
        BY <3>7, <3>11 DEF Result, Failed, Parsed
      <4>2. /\ since' = taken + k /\ kept' = got /\ buf' = << >>
            /\ got' = got
        BY <3>2, <3>3, <3>11, <4>1, ConcatEmptySeq
      <4>3. /\ taken + k \in Nat /\ since' + 1 = (taken + k) + 1
            /\ got \o << >> = got
        BY <3>1, <3>3, <4>2, ConcatEmptySeq
      <4>4. OnePass'
        <5> DEFINE n == ParseFrames(SubSeq(bs, (taken + k) + 1, taken + k))
        <5>1. ~n.err /\ n.frames = << >> /\ n.rest = << >>
          BY <3>4, <4>3, Anew
        <5>2. OnePass' <=> ~n.err /\ got' = kept' \o n.frames /\ buf' = n.rest
          BY <3>2, <4>2 DEF OnePass
        <5> HIDE DEF n
        <5> QED
          BY <4>2, <4>3, <5>1, <5>2
      <4>5. since' \in Nat /\ since' <= taken'
        BY <3>2, <4>2, <4>3
      <4>6. taken' \in Nat /\ taken' <= Len(Bytes(sent'))
        BY <3>2, <4>3
      <4>7. /\ buf' \in Seq(Byte) /\ got' \in Seq(FrameSet)
            /\ kept' \in Seq(FrameSet) /\ sent' \in Seq(Message)
        BY <3>2, <3>3, <4>2, EmptySeq
      <4> QED
        BY <4>4, <4>5, <4>6, <4>7 DEF PieceInv
    <3>12. CASE ~p.err
      <4>1. since' = since /\ kept' = kept
        BY <3>2, <3>12
      <4>2. OnePass' <=> ~q.err /\ got' = kept \o q.frames /\ buf' = q.rest
        BY <3>2, <3>5, <4>1 DEF OnePass
      <4>3. got' = kept \o (o.frames \o p.frames)
        <5> HIDE DEF o, p
        <5>1. (kept \o o.frames) \o p.frames = kept \o (o.frames \o p.frames)
          <6>1. \A x, y, z \in Seq(FrameSet) : (x \o y) \o z = x \o (y \o z)
            BY ConcatAssociative
          <6> QED
            BY <3>3, <3>8, <6>1
        <5> QED
          BY <3>2, <3>3, <5>1
      <4>4. OnePass'
        <5> HIDE DEF o, p, q
        <5> QED
          BY <3>2, <3>10, <3>12, <4>2, <4>3
      <4>5. /\ taken' \in Nat /\ taken' <= Len(Bytes(sent'))
            /\ since' \in Nat /\ since' <= taken'
        BY <3>1, <3>2, <3>3, <4>1
      <4>6. /\ buf' \in Seq(Byte) /\ got' \in Seq(FrameSet)
            /\ kept' \in Seq(FrameSet) /\ sent' \in Seq(Message)
        BY <3>2, <3>3, <3>8, <3>9, <4>1
      <4> QED
        BY <4>4, <4>5, <4>6 DEF PieceInv
    <3> QED
      BY <3>11, <3>12
  <2>2. CASE UNCHANGED vars
    BY <2>2 DEF vars, PieceInv, OnePass
  <2> QED
    BY <2>1, <2>2 DEF Next
<1> QED
  BY <1>1, <1>2, PTL DEF Spec

\* However conn.Read cut the stream, and whatever it carried, what readLoop
\* has dispatched since the last parse error and what it keeps are what one
\* call of ParseFrames makes of the bytes it has received since: an error
\* costs what was read until then, and reaches no further (client.go:244-262).
THEOREM CutsAreInvisible == Spec => []OnePass
<1>1. PieceInv => OnePass
  BY DEF PieceInv
<1> QED
  BY <1>1, PieceInvariant, PTL

-----------------------------------------------------------------------------
(* A stream of whole frames.                                               *)

FramedMessages ==
    {Framed(cmd, payload) : cmd \in Commands, payload \in Payloads}

\* Each of them is a message that parses to its frames.
LEMMA FramedType ==
  ASSUME NEW m \in FramedMessages
  PROVE  /\ m \in Message /\ Len(m.bytes) >= 8
         /\ ParseFrames(m.bytes) = Parsed(m.frames, << >>, FALSE)
<1>1. PICK cmd \in Commands, payload \in Payloads : m = Framed(cmd, payload)
  BY DEF FramedMessages
<1>2. /\ m = [bytes |-> m.bytes, frames |-> m.frames]
      /\ m.bytes = EncodeFrame(cmd, payload)
      /\ m.frames = <<[cmd |-> cmd, payload |-> payload]>>
  BY <1>1 DEF Framed
<1>3. m.bytes \in Seq(Byte) /\ Len(m.bytes) >= 8
  BY <1>2, Encoded
<1>4. m.frames \in Seq(FrameSet)
  <2>1. [cmd |-> cmd, payload |-> payload] \in FrameSet
    BY DEF FrameSet, Payloads
  <2> QED
    BY <1>2, <2>1
<1>5. ParseFrames(m.bytes) = Parsed(m.frames, << >>, FALSE)
  BY <1>2, FrameRoundTrip
<1> QED
  BY <1>2, <1>3, <1>4, <1>5 DEF Message

\* Part of one parses to nothing, and is kept.
LEMMA FramedPart ==
  ASSUME NEW m \in FramedMessages, NEW part \in Seq(Byte), NEW n \in Nat,
         Len(part) = n, n < Len(m.bytes), Alike(m.bytes, 0, part, 0, n)
  PROVE  ParseFrames(part) = Parsed(<< >>, part, FALSE)
<1>1. PICK cmd \in Commands, payload \in Payloads : m = Framed(cmd, payload)
  BY DEF FramedMessages
<1>2. m.bytes = EncodeFrame(cmd, payload)
  BY <1>1 DEF Framed
<1>3. /\ n < Len(EncodeFrame(cmd, payload))
      /\ Alike(EncodeFrame(cmd, payload), 0, part, 0, n)
  BY <1>2
<1> QED
  BY <1>3, PartOfFrame

\* Frames and then what is not yet a frame.
Gives(b, frames, rest) == ParseFrames(b) = Parsed(frames, rest, FALSE)

\* Frames, and then what more bytes give, in one parse.
LEMMA Behind ==
  ASSUME NEW a \in Seq(Byte), NEW b \in Seq(Byte), NEW f, NEW g, NEW rest,
         Gives(a, f, << >>), Gives(b, g, rest)
  PROVE  Gives(a \o b, f \o g, rest)
<1> USE DEF Gives
<1>1. /\ ParseFrames(a).err = FALSE /\ ParseFrames(a).frames = f
      /\ ParseFrames(a).rest = << >>
  BY DEF Parsed
<1>2. << >> \o b = b
  BY ConcatEmptySeq
<1>3. ParseFrames(a \o b) = Joined(f, Parsed(g, rest, FALSE))
  <2>1. IF ParseFrames(a).err THEN ParseFrames(a \o b).err
        ELSE ParseFrames(a \o b) =
                Joined(ParseFrames(a).frames,
                       ParseFrames(ParseFrames(a).rest \o b))
    BY CutsDoNotMatter
  <2> QED
    BY <1>1, <1>2, <2>1
<1>4. Joined(f, Parsed(g, rest, FALSE)) = Parsed(f \o g, rest, FALSE)
  BY DEF Joined, Parsed
<1> QED
  BY <1>3, <1>4

\* Any number of whole frames parse to these frames.
LEMMA FramedStream ==
  ASSUME NEW msgs \in Seq(FramedMessages)
  PROVE  /\ msgs \in Seq(Message)
         /\ \A n \in Nat : n <= Len(msgs) =>
               ParseFrames(Bytes(Prefix(msgs, n))) =
                  Parsed(Frames(Prefix(msgs, n)), << >>, FALSE)
<1>1. msgs \in Seq(Message)
  <2>1. FramedMessages \subseteq Message
    BY FramedType
  <2> QED
    BY <2>1, SeqMonotonic
<1>0. PICK l \in Nat : l = Len(msgs)
  BY LenProperties
<1> DEFINE G == {n \in Nat : n <= l =>
                   ParseFrames(Bytes(Prefix(msgs, n))) =
                      Parsed(Frames(Prefix(msgs, n)), << >>, FALSE)}
<1>2. ASSUME NEW n \in Nat, \A m \in Nat : m < n => m \in G PROVE n \in G
  <2> SUFFICES ASSUME n <= l
               PROVE  ParseFrames(Bytes(Prefix(msgs, n))) =
                         Parsed(Frames(Prefix(msgs, n)), << >>, FALSE)
    OBVIOUS
  <2>1. CASE n = 0
    <3>1. Bytes(Prefix(msgs, n)) = << >> /\ Frames(Prefix(msgs, n)) = << >>
      BY <1>0, <1>1, <2>1, OfPrefix
    <3> QED
      BY <3>1, ParseNothing
  <2>2. CASE n # 0
    <3>1. PICK k \in Nat : n = k + 1 /\ k < n /\ k <= l /\ k + 1 <= l
      <4>1. n - 1 \in Nat /\ n = (n - 1) + 1 /\ n - 1 < n
        BY <2>2
      <4> QED
        BY <4>1
    <3>2. ParseFrames(Bytes(Prefix(msgs, k))) =
             Parsed(Frames(Prefix(msgs, k)), << >>, FALSE)
      BY <1>2, <3>1
    <3>3. /\ Bytes(Prefix(msgs, n)) = Bytes(Prefix(msgs, k)) \o msgs[n].bytes
          /\ Frames(Prefix(msgs, n)) =
                Frames(Prefix(msgs, k)) \o msgs[n].frames
      BY <1>0, <1>1, <3>1, NextPrefix
    <3>4. msgs[n] \in FramedMessages
      <4>1. n \in 1 .. Len(msgs)
        BY <1>0, <3>1
      <4> QED
        BY <4>1, ElementOfSeq
    <3>5. /\ msgs[n].bytes \in Seq(Byte) /\ msgs[n].frames \in Seq(FrameSet)
          /\ ParseFrames(msgs[n].bytes) = Parsed(msgs[n].frames, << >>, FALSE)
      BY <3>4, FramedType DEF Message
    <3>6. /\ Bytes(Prefix(msgs, k)) \in Seq(Byte)
          /\ Frames(Prefix(msgs, k)) \in Seq(FrameSet)
      BY <1>0, <1>1, <3>1, OfPrefix
    <3>7. ParseFrames(Bytes(Prefix(msgs, k)) \o msgs[n].bytes) =
             Parsed(Frames(Prefix(msgs, k)) \o msgs[n].frames, << >>, FALSE)
      <4>1. /\ Gives(Bytes(Prefix(msgs, k)), Frames(Prefix(msgs, k)), << >>)
            /\ Gives(msgs[n].bytes, msgs[n].frames, << >>)
        BY <3>2, <3>5 DEF Gives
      <4>2. Gives(Bytes(Prefix(msgs, k)) \o msgs[n].bytes,
                  Frames(Prefix(msgs, k)) \o msgs[n].frames, << >>)
        BY <3>5, <3>6, <4>1, Behind
      <4> QED
        BY <4>2 DEF Gives
    <3> QED
      BY <3>3, <3>7
  <2> QED
    BY <2>1, <2>2
<1>3. \A n \in Nat : n \in G
  <2> HIDE DEF G
  <2> QED
    BY <1>2, EveryNat
<1> QED
  BY <1>0, <1>1, <1>3

\* More messages only add bytes and frames.
LEMMA Grows ==
  ASSUME NEW msgs \in Seq(Message), NEW n \in Nat
  PROVE  \A m \in Nat : (n <= m /\ m <= Len(msgs)) =>
            \E s \in Seq(Byte), f \in Seq(FrameSet) :
               /\ Bytes(Prefix(msgs, m)) = Bytes(Prefix(msgs, n)) \o s
               /\ Frames(Prefix(msgs, m)) = Frames(Prefix(msgs, n)) \o f
<1> DEFINE B(m) == Bytes(Prefix(msgs, m))
           F(m) == Frames(Prefix(msgs, m))
           G == {m \in Nat : (n <= m /\ m <= Len(msgs)) =>
                    \E s \in Seq(Byte), f \in Seq(FrameSet) :
                       B(m) = B(n) \o s /\ F(m) = F(n) \o f}
<1>0. PICK l \in Nat : l = Len(msgs)
  BY LenProperties
<1>1. ASSUME NEW m \in Nat, m <= l
      PROVE  B(m) \in Seq(Byte) /\ F(m) \in Seq(FrameSet)
  BY <1>0, <1>1, OfPrefix
<1>2. ASSUME NEW m \in Nat, m + 1 <= l
      PROVE  /\ B(m + 1) = B(m) \o msgs[m + 1].bytes
             /\ F(m + 1) = F(m) \o msgs[m + 1].frames
             /\ msgs[m + 1].bytes \in Seq(Byte)
             /\ msgs[m + 1].frames \in Seq(FrameSet)
  <2>1. msgs[m + 1] \in Message
    <3>1. m + 1 \in 1 .. Len(msgs)
      BY <1>0, <1>2
    <3> QED
      BY <3>1, ElementOfSeq
  <2> QED
    BY <1>0, <1>2, <2>1, NextPrefix DEF Message
<1> HIDE DEF B, F
<1>3. ASSUME NEW m \in Nat, \A k \in Nat : k < m => k \in G PROVE m \in G
  <2> SUFFICES ASSUME n <= m, m <= l
               PROVE  \E s \in Seq(Byte), f \in Seq(FrameSet) :
                         B(m) = B(n) \o s /\ F(m) = F(n) \o f
    BY <1>0
  <2>1. CASE n = m
    <3>1. B(n) \o << >> = B(n) /\ F(n) \o << >> = F(n)
      BY <1>1, <2>1, ConcatEmptySeq
    <3>2. << >> \in Seq(Byte) /\ << >> \in Seq(FrameSet)
      BY EmptySeq
    <3> QED
      BY <2>1, <3>1, <3>2
  <2>2. CASE n # m
    <3>1. PICK k \in Nat : m = k + 1 /\ k < m /\ n <= k /\ k <= l /\ n <= l
      <4>1. m - 1 \in Nat /\ m = (m - 1) + 1 /\ m - 1 < m /\ n <= m - 1
        BY <2>2
      <4> QED
        BY <4>1
    <3>2. PICK s \in Seq(Byte), f \in Seq(FrameSet) :
             B(k) = B(n) \o s /\ F(k) = F(n) \o f
      BY <1>0, <1>3, <3>1
    <3>3. PICK t \in Seq(Byte), g \in Seq(FrameSet) :
             B(m) = B(k) \o t /\ F(m) = F(k) \o g
      BY <1>2, <3>1
    <3>4. PICK b \in Seq(Byte), e \in Seq(FrameSet) : b = B(n) /\ e = F(n)
      BY <1>1, <3>1
    <3>5. (b \o s) \o t = b \o (s \o t) /\ (e \o f) \o g = e \o (f \o g)
      <4>1. (b \o s) \o t = b \o (s \o t)
        BY ConcatAssociative, SMTT(30)
      <4>2. (e \o f) \o g = e \o (f \o g)
        BY ConcatAssociative, SMTT(30)
      <4> QED
        BY <4>1, <4>2
    <3>6. s \o t \in Seq(Byte) /\ f \o g \in Seq(FrameSet)
      BY ConcatProperties
    <3> QED
      BY <3>2, <3>3, <3>4, <3>5, <3>6
  <2> QED
    BY <2>1, <2>2
<1>4. \A m \in Nat : m \in G
  <2> HIDE DEF G
  <2> QED
    BY <1>3, EveryNat
<1> QED
  BY <1>4 DEF B, F

\* The bytes of the first messages stay when more come.
LEMMA BytesAlike ==
  ASSUME NEW msgs \in Seq(Message), NEW n \in Nat, NEW m \in Nat, n <= m,
         m <= Len(msgs)
  PROVE  LET a == Bytes(Prefix(msgs, n))
             b == Bytes(Prefix(msgs, m)) IN
         Len(a) <= Len(b) /\ Alike(a, 0, b, 0, Len(a))
<1> DEFINE a == Bytes(Prefix(msgs, n))
           b == Bytes(Prefix(msgs, m))
<1>1. PICK s \in Seq(Byte) : b = a \o s
  BY Grows
<1>2. a \in Seq(Byte)
  <2>1. n <= Len(msgs)
    BY LenProperties
  <2> QED
    BY <2>1, OfPrefix
<1> HIDE DEF a, b
<1>3. PICK x \in Nat : x = Len(a) /\ 0 + x <= Len(a) /\ 0 \in Nat
  BY <1>2, LenProperties
<1>4. Alike(a, 0, a \o s, 0, x)
  BY <1>2, <1>3, AlikeConcat
<1>5. Len(a) <= Len(a \o s)
  <2>1. Len(a \o s) = Len(a) + Len(s) /\ Len(s) \in Nat
    BY <1>2, Concat, LenProperties
  <2> QED
    BY <1>3, <2>1
<1> QED
  BY <1>1, <1>3, <1>4, <1>5 DEF a, b

\* Max picks the largest element of a bounded set.
LEMMA Largest ==
  ASSUME NEW n \in Nat, NEW T, T \subseteq Nat, \A i \in T : i <= n, T # {}
  PROVE  Max(T) \in T /\ \A y \in T : Max(T) >= y
<1>1. \E x \in T : \A y \in T : x >= y
  <2> SUFFICES ASSUME ~\E x \in T : \A y \in T : x >= y PROVE FALSE
    OBVIOUS
  <2> DEFINE G == {i \in Nat : i \notin T}
  <2>1. ASSUME NEW i \in Nat, i <= n,
               \A j \in Nat : (i < j /\ j <= n) => j \in G
        PROVE  i \in G
    <3> SUFFICES ASSUME i \in T PROVE FALSE
      OBVIOUS
    <3>1. PICK y \in T : ~(i >= y)
      OBVIOUS
    <3>2. y \in Nat /\ i < y /\ y <= n
      BY <3>1
    <3> QED
      BY <2>1, <3>2
  <2>2. \A i \in Nat : i <= n => i \in G
    <3> HIDE DEF G
    <3> QED
      BY <2>1, FromTheEnd
  <2> QED
    BY <2>2
<1> QED
  BY <1>1 DEF Max

\* Within the first t bytes are w whole messages, and then part of the next.
LEMMA Within ==
  ASSUME NEW msgs \in Seq(FramedMessages), NEW t \in Nat, NEW w \in Nat,
         t <= Len(Bytes(msgs)), w <= Len(msgs),
         Len(Bytes(Prefix(msgs, w))) <= t,
         w + 1 <= Len(msgs) => t < Len(Bytes(Prefix(msgs, w + 1)))
  PROVE  \E part \in Seq(Byte) :
            /\ Gives(SubSeq(Bytes(msgs), 1, t), Frames(Prefix(msgs, w)), part)
            /\ \/ part = << >>
               \/ /\ w + 1 <= Len(msgs)
                  /\ Len(part) < Len(msgs[w + 1].bytes)
<1> DEFINE bs == Bytes(msgs)
           b == Bytes(Prefix(msgs, w))
           f == Frames(Prefix(msgs, w))
<1>0. PICK l \in Nat : l = Len(msgs) /\ w <= l
  BY LenProperties
<1>1. /\ msgs \in Seq(Message) /\ ParseFrames(b) = Parsed(f, << >>, FALSE)
  BY FramedStream
<1>2. /\ b \in Seq(Byte) /\ f \in Seq(FrameSet) /\ bs \in Seq(Byte)
      /\ Bytes(Prefix(msgs, l)) = bs
  <2>1. b \in Seq(Byte) /\ f \in Seq(FrameSet)
    BY <1>1, OfPrefix
  <2>2. bs \in Seq(Byte) /\ Prefix(msgs, Len(msgs)) = msgs
    BY <1>1, BytesType
  <2> QED
    BY <1>0, <2>1, <2>2
<1>3. PICK x \in Nat, k \in Nat, y \in Nat :
         x = Len(b) /\ x <= t /\ t = x + k /\ y = Len(bs) /\ t <= y /\ x <= y
  <2>1. PICK x \in Nat, y \in Nat : /\ x = Len(b) /\ x <= t
                                   /\ y = Len(bs) /\ t <= y
    BY <1>2, LenProperties
  <2>2. t - x \in Nat /\ t = x + (t - x) /\ x <= y
    BY <2>1
  <2> QED
    BY <2>1, <2>2
<1> DEFINE part == SubSeq(bs, x + 1, x + k)
<1>4. /\ part \in Seq(Byte)
      /\ SubSeq(bs, 1, t) = SubSeq(bs, 1, x) \o part
  BY <1>2, <1>3, ArrivedFirst, ZenonT(30)
<1>5. SubSeq(bs, 1, x) = b
  <2>1. Alike(b, 0, bs, 0, x)
    <3>1. Alike(b, 0, Bytes(Prefix(msgs, l)), 0, Len(b))
      BY <1>0, <1>1, BytesAlike
    <3> QED
      BY <1>2, <1>3, <3>1
  <2>2. 0 \in Nat /\ 0 + x <= Len(b) /\ 0 + x <= Len(bs)
    BY <1>3
  <2>3. Piece(b, 0, x) = Piece(bs, 0, x)
    BY <1>2, <2>1, <2>2, SameSubSeq
  <2>4. 0 + 1 = 1 /\ 0 + x = x
    OBVIOUS
  <2>5. SubSeq(b, 1, x) = b
    BY <1>2, <1>3, SubSeqFull
  <2> QED
    BY <2>3, <2>4, <2>5 DEF Piece
<1>6. ASSUME Gives(part, << >>, part)
      PROVE  Gives(SubSeq(bs, 1, t), f, part)
  <2>1. Gives(b, f, << >>)
    BY <1>1 DEF Gives
  <2>2. f \o << >> = f
    BY <1>2, ConcatEmptySeq
  <2> HIDE DEF part, bs, b, f
  <2>3. Gives(b \o part, f \o << >>, part)
    BY <1>2, <1>4, <1>6, <2>1, Behind
  <2> QED
    BY <1>4, <1>5, <2>2, <2>3
<1>7. CASE w = l
  <2>1. k = 0
    BY <1>2, <1>3, <1>7
  <2>2. part = << >>
    <3>1. x + 1 \in Int /\ x + k \in Int /\ x + k < x + 1
      BY <2>1
    <3> QED
      BY <3>1, SubSeqEmpty
  <2>3. Gives(part, << >>, part)
    BY <2>2, ParseNothing DEF Gives
  <2> QED
    BY <1>4, <1>6, <2>2, <2>3
<1>8. CASE w # l
  <2> DEFINE m == msgs[w + 1]
             c == Bytes(Prefix(msgs, w + 1))
  <2>1. w + 1 \in Nat /\ w + 1 <= Len(msgs) /\ w + 1 <= l
    BY <1>0, <1>8
  <2>2. m \in FramedMessages
    <3>1. w + 1 \in 1 .. Len(msgs)
      BY <2>1
    <3> QED
      BY <3>1, ElementOfSeq
  <2>3. m.bytes \in Seq(Byte)
    BY <2>2, FramedType DEF Message
  <2>4. c = b \o m.bytes
    BY <1>1, <2>1, NextPrefix
  <2>5. Alike(c, 0, bs, 0, Len(c))
    BY <1>0, <1>1, <1>2, <2>1, BytesAlike
  <2>6. t < Len(c)
    BY <2>1
  <2> HIDE DEF m, c
  <2>7. PICK z \in Nat : z = Len(m.bytes) /\ Len(c) = x + z /\ k < z
    <3>1. PICK z \in Nat : z = Len(m.bytes)
      BY <2>3, LenProperties
    <3>2. Len(c) = Len(b) + Len(m.bytes)
      BY <1>2, <2>3, <2>4, Concat
    <3>3. Len(c) = x + z
      BY <1>3, <3>1, <3>2
    <3> QED
      BY <1>3, <2>6, <3>1, <3>3
  <2>8. Len(part) = k /\ \A i \in 1 .. k : part[i] = bs[x + i]
    <3>1. x + k <= Len(bs)
      BY <1>3
    <3> QED
      BY <1>2, <3>1, Slice
  <2>9. Alike(m.bytes, 0, part, 0, k)
    <3> HIDE DEF part, bs, b
    <3> SUFFICES ASSUME NEW i \in 1 .. k
                 PROVE  Nth(m.bytes, 0, i) = Nth(part, 0, i)
      BY DEF Alike
    <3>1. PICK j \in 1 .. x + z : j = x + i
      BY <2>7
    <3>2. Nth(c, 0, j) = Nth(bs, 0, j)
      BY <2>5, <2>7, <3>1 DEF Alike
    <3>3. c[x + i] = m.bytes[i]
      <4>1. \A n \in 1 .. Len(m.bytes) :
               (b \o m.bytes)[Len(b) + n] = m.bytes[n]
        BY <1>2, <2>3, Concat
      <4>2. i \in 1 .. Len(m.bytes)
        BY <2>7
      <4> QED
        BY <1>3, <2>4, <4>1, <4>2
    <3>4. 0 + j = x + i /\ 0 + i = i
      BY <3>1
    <3> QED
      BY <2>8, <3>2, <3>3, <3>4 DEF Nth
  <2>10. Gives(part, << >>, part)
    <3> HIDE DEF part
    <3>1. k < Len(m.bytes)
      BY <2>7
    <3> QED
      BY <1>4, <2>2, <2>8, <2>9, <3>1, FramedPart DEF Gives
  <2>11. Len(part) < Len(m.bytes)
    BY <2>7, <2>8
  <2> QED
    BY <1>4, <1>6, <2>1, <2>10, <2>11 DEF m
<1> QED
  BY <1>7, <1>8

\* The state in terms of the stream: the messages that have wholly arrived
\* were dispatched, and part of the next one is kept.
LEMMA SoFar ==
  ASSUME NEW t \in Nat, sent \in Seq(FramedMessages), t <= Len(Bytes(sent))
  PROVE  /\ Whole(t) \in Nat /\ Whole(t) <= Len(sent)
         /\ \E part \in Seq(Byte) :
               /\ Gives(SubSeq(Bytes(sent), 1, t),
                        Frames(Prefix(sent, Whole(t))), part)
               /\ \/ part = << >>
                  \/ /\ Whole(t) + 1 <= Len(sent)
                     /\ Len(part) < Len(sent[Whole(t) + 1].bytes)
<1>0. PICK l \in Nat : l = Len(sent)
  BY LenProperties
<1> DEFINE T == {n \in 0 .. Len(sent) : BytesUpTo(n) <= t}
           w == Whole(t)
<1>1. \A n \in Nat : BytesUpTo(n) = Len(Bytes(Prefix(sent, n)))
  BY DEF BytesUpTo, Prefix
<1>2. 0 \in T
  <2>1. sent \in Seq(Message)
    BY FramedStream
  <2>2. Bytes(Prefix(sent, 0)) = << >>
    <3>1. 0 \in Nat /\ 0 <= Len(sent)
      BY <1>0
    <3> QED
      BY <2>1, <3>1, OfPrefix
  <2>3. BytesUpTo(0) = 0
    <3>1. Len(<< >>) = 0
      BY EmptySeq
    <3> QED
      BY <1>1, <2>2, <3>1
  <2> QED
    BY <1>0, <2>3
<1>3. w = Max(T)
  BY DEF Whole
<1>4. T \subseteq Nat /\ \A i \in T : i <= l
  BY <1>0
<1>5. w \in T /\ \A y \in T : w >= y
  <2> HIDE DEF T, w
  <2> QED
    BY <1>2, <1>3, <1>4, Largest
<1>6. w \in Nat /\ w <= Len(sent) /\ Len(Bytes(Prefix(sent, w))) <= t
  <2>1. w \in 0 .. Len(sent) /\ BytesUpTo(w) <= t
    BY <1>5
  <2> HIDE DEF w
  <2>2. w \in Nat /\ w <= Len(sent)
    BY <1>0, <2>1
  <2> QED
    BY <1>1, <2>1, <2>2
<1>9. sent \in Seq(Message)
  BY FramedStream
<1> HIDE DEF w
<1>7. ASSUME w + 1 <= Len(sent) PROVE t < Len(Bytes(Prefix(sent, w + 1)))
  <2>1. w + 1 \notin T /\ w + 1 \in 0 .. Len(sent)
    BY <1>0, <1>5, <1>6, <1>7
  <2>2. ~(Len(Bytes(Prefix(sent, w + 1))) <= t)
    <3>1. ~(BytesUpTo(w + 1) <= t) /\ w + 1 \in Nat
      BY <1>6, <2>1
    <3> QED
      BY <1>1, <3>1
  <2>3. Len(Bytes(Prefix(sent, w + 1))) \in Nat
    <3>1. w + 1 \in Nat
      BY <1>6
    <3>2. Bytes(Prefix(sent, w + 1)) \in Seq(Byte)
      BY <1>7, <1>9, <3>1, OfPrefix
    <3> QED
      BY <3>2, LenProperties
  <2> QED
    BY <2>2, <2>3
<1>8. \E part \in Seq(Byte) :
         /\ Gives(SubSeq(Bytes(sent), 1, t), Frames(Prefix(sent, w)), part)
         /\ \/ part = << >>
            \/ /\ w + 1 <= Len(sent)
               /\ Len(part) < Len(sent[w + 1].bytes)
  BY <1>6, <1>7, Within
<1> QED
  BY <1>6, <1>8 DEF w

\* Nothing has begun in no bytes.
LEMMA NoneBegun ==
  ASSUME sent \in Seq(Message)
  PROVE  Begun(0) = 0
<1>0. PICK l \in Nat : l = Len(sent)
  BY LenProperties
<1> DEFINE T == {n \in 0 .. Len(sent) : BytesUpTo(n) >= 0}
<1>1. BytesUpTo(0) = 0
  <2>1. 0 \in Nat /\ 0 <= Len(sent)
    BY <1>0
  <2>2. Bytes(Prefix(sent, 0)) = << >>
    BY <2>1, OfPrefix
  <2>3. Len(<< >>) = 0
    BY EmptySeq
  <2> QED
    BY <2>2, <2>3 DEF BytesUpTo, Prefix
<1>2. 0 \in T /\ \A n \in T : n \in Nat
  BY <1>0, <1>1
<1>3. Begun(0) = Min(T)
  BY DEF Begun
<1> HIDE DEF T
<1>4. Min(T) \in T /\ \A n \in T : Min(T) <= n
  <2>1. \A n \in T : 0 <= n
    BY <1>2
  <2> QED
    BY <1>2, <2>1 DEF Min
<1> QED
  BY <1>2, <1>3, <1>4

FramedInv ==
    /\ PieceInv
    /\ sent \in Streams /\ sent \in Seq(FramedMessages)
    /\ since = 0 /\ kept = << >>

\* Without an error, everything so far was one parse.
LEMMA FramedPass ==
  ASSUME FramedInv
  PROVE  LET p == ParseFrames(SubSeq(Bytes(sent), 1, taken)) IN
         ~p.err /\ got = p.frames /\ buf = p.rest
<1> DEFINE p == ParseFrames(SubSeq(Bytes(sent), 1, taken))
<1>1. since + 1 = 1 /\ kept = << >>
  BY DEF FramedInv
<1>2. ~p.err /\ got = << >> \o p.frames /\ buf = p.rest
  BY <1>1 DEF FramedInv, PieceInv, OnePass
<1>3. SubSeq(Bytes(sent), 1, taken) \in Seq(Byte)
  <2>1. /\ Bytes(sent) \in Seq(Byte) /\ taken \in Nat
        /\ taken <= Len(Bytes(sent))
    BY BytesType DEF FramedInv, PieceInv
  <2>2. 0 \in Nat /\ 0 + taken <= Len(Bytes(sent)) /\ 0 + 1 = 1
        /\ 0 + taken = taken
    BY <2>1
  <2>3. SubSeq(Bytes(sent), 0 + 1, 0 + taken) \in Seq(Byte)
    BY <2>1, <2>2, Slice
  <2> QED
    BY <2>2, <2>3
<1>4. p.frames \in Seq(FrameSet)
  BY <1>3, ParsedType DEF Result
<1> HIDE DEF p
<1>5. << >> \o p.frames = p.frames
  BY <1>4, ConcatEmptySeq
<1> QED
  BY <1>2, <1>5 DEF p

\* In a stream of whole frames no parse fails: the invariant of the next
\* theorems.
LEMMA FramedInvariant ==
  ASSUME Streams \subseteq Seq(FramedMessages)
  PROVE  Spec => []FramedInv
<1>1. Init => /\ since = 0 /\ kept = << >>
              /\ sent \in Streams /\ sent \in Seq(FramedMessages)
  BY DEF Init
<1>2. ASSUME FramedInv, PieceInv', [Next]_vars PROVE FramedInv'
  <2>1. ASSUME NEW k \in Pieces, Read(k) PROVE FramedInv'
    <3> DEFINE bs == Bytes(sent)
               piece == SubSeq(bs, taken + 1, taken + k)
               p == ParseFrames(buf \o piece)
               a == SubSeq(bs, 1, taken)
    <3>1. k \in Nat /\ taken \in Nat /\ bs \in Seq(Byte)
      BY <1>2, PiecesAssumption, BytesType DEF FramedInv, PieceInv
    <3>2. /\ taken + k <= Len(bs) /\ sent' = sent
          /\ since' = IF p.err THEN taken + k ELSE since
          /\ kept' = IF p.err THEN got ELSE kept
      BY <2>1, Zenon DEF Read
    <3>3. /\ a \in Seq(Byte) /\ piece \in Seq(Byte)
          /\ SubSeq(bs, 1, taken + k) = a \o piece
      BY <3>1, <3>2, ArrivedFirst
    <3>4. ~ParseFrames(a \o piece).err
      <4>1. taken + k \in Nat /\ sent \in Seq(FramedMessages)
        BY <1>2, <3>1 DEF FramedInv
      <4>2. PICK f, rest : Gives(SubSeq(bs, 1, taken + k), f, rest)
        BY <3>2, <4>1, SoFar
      <4>3. Parsed(f, rest, FALSE).err = FALSE
        BY DEF Parsed
      <4> QED
        BY <3>3, <4>2, <4>3, Zenon DEF Gives
    <3>5. ~p.err
      <4>1. ~ParseFrames(a).err /\ buf = ParseFrames(a).rest
        BY <1>2, FramedPass
      <4>2. ParseFrames(a \o piece).err =
               ParseFrames(ParseFrames(a).rest \o piece).err
        <5> HIDE DEF a, piece
        <5> QED
          BY <3>3, <4>1, OneMorePiece
      <4> QED
        BY <3>4, <4>1, <4>2
    <3> QED
      BY <1>2, <3>2, <3>5 DEF FramedInv
  <2>2. CASE UNCHANGED vars
    BY <1>2, <2>2 DEF vars, FramedInv
  <2> QED
    BY <1>2, <2>1, <2>2 DEF Next
<1>3. Spec => []PieceInv
  BY PieceInvariant
<1> QED
  BY <1>1, <1>2, <1>3, PTL DEF Spec, FramedInv

\* Of a stream of whole frames, each that has wholly arrived was dispatched,
\* once and in order, for any stream and any pieces (client.go:244-262).
THEOREM FramesInOrder ==
  ASSUME Streams \subseteq Seq(FramedMessages)
  PROVE  Spec => []DispatchedInOrder
<1>1. FramedInv => DispatchedInOrder
  <2> SUFFICES ASSUME FramedInv PROVE DispatchedInOrder
    OBVIOUS
  <2>1. /\ sent \in Seq(FramedMessages) /\ taken \in Nat
        /\ taken <= Len(Bytes(sent)) /\ since = 0 /\ kept = << >>
    BY DEF FramedInv, PieceInv
  <2>2. /\ Whole(taken) \in Nat /\ Whole(taken) <= Len(sent)
        /\ \E part : Gives(SubSeq(Bytes(sent), 1, taken),
                           Frames(Prefix(sent, Whole(taken))), part)
    BY <2>1, SoFar
  <2>3. got = Frames(Prefix(sent, Whole(taken)))
    BY <2>2, FramedPass DEF Gives, Parsed
  <2>4. Frames(Prefix(sent, Whole(taken))) \in Seq(FrameSet)
    BY <2>1, <2>2, FramedStream, OfPrefix
  <2>5. kept \o got = got
    BY <2>1, <2>3, <2>4, ConcatEmptySeq
  <2>6. SubSeq(sent, Begun(since) + 1, Whole(taken)) = Prefix(sent, Whole(taken))
    <3>1. Begun(since) + 1 = 1
      <4>1. Begun(0) = 0
        BY <2>1, FramedStream, NoneBegun
      <4> QED
        BY <2>1, <4>1
    <3> QED
      BY <3>1 DEF Prefix
  <2> QED
    BY <2>3, <2>5, <2>6 DEF DispatchedInOrder
<1> QED
  BY <1>1, FramedInvariant, PTL

\* Some number bounds the lengths of all messages.
LEMMA Bounded ==
  ASSUME NEW msgs \in Seq(Message)
  PROVE  \E b \in Nat : \A i \in 1 .. Len(msgs) : Len(msgs[i].bytes) <= b
<1>0. PICK l \in Nat : l = Len(msgs)
  BY LenProperties
<1> DEFINE G == {n \in Nat : n <= l =>
                   \E b \in Nat : \A i \in 1 .. n : Len(msgs[i].bytes) <= b}
<1>1. ASSUME NEW n \in Nat, \A m \in Nat : m < n => m \in G PROVE n \in G
  <2> SUFFICES ASSUME n <= l
               PROVE  \E b \in Nat : \A i \in 1 .. n : Len(msgs[i].bytes) <= b
    OBVIOUS
  <2>1. CASE n = 0
    BY <2>1
  <2>2. CASE n # 0
    <3>1. n - 1 \in Nat /\ n - 1 < n /\ n - 1 <= l /\ n \in 1 .. l
      BY <2>2
    <3>2. PICK b \in Nat : \A i \in 1 .. n - 1 : Len(msgs[i].bytes) <= b
      BY <1>1, <3>1
    <3>3. PICK c \in Nat : c = Len(msgs[n].bytes)
      <4>1. msgs[n] \in Message
        BY <1>0, <3>1, ElementOfSeq
      <4> QED
        BY <4>1, LenProperties DEF Message
    <3>4. PICK d \in Nat : b <= d /\ c <= d
      <4>1. b + c \in Nat /\ b <= b + c /\ c <= b + c
        OBVIOUS
      <4> QED
        BY <4>1
    <3>5. ASSUME NEW i \in 1 .. n PROVE Len(msgs[i].bytes) <= d
      <4>1. CASE i = n
        BY <3>3, <3>4, <4>1
      <4>2. CASE i # n
        <5>1. i \in 1 .. n - 1 /\ i \in 1 .. Len(msgs)
          BY <1>0, <4>2
        <5>2. msgs[i] \in Message
          BY <5>1, ElementOfSeq
        <5>3. Len(msgs[i].bytes) \in Nat
          BY <5>2, LenProperties DEF Message
        <5>4. Len(msgs[i].bytes) <= b
          BY <3>2, <5>1
        <5> QED
          BY <3>4, <5>3, <5>4
      <4> QED
        BY <4>1, <4>2
    <3> QED
      BY <3>5
  <2> QED
    BY <2>1, <2>2
<1>2. l \in G
  <2> HIDE DEF G
  <2> QED
    BY <1>1, EveryNat
<1> QED
  BY <1>0, <1>2

\* And less than one frame is kept, so the buffer of readLoop does not grow.
THEOREM LessThanAMessageIsKept ==
  ASSUME Streams \subseteq Seq(FramedMessages)
  PROVE  Spec => []TypeOK
<1>1. FramedInv => TypeOK
  <2> SUFFICES ASSUME FramedInv PROVE TypeOK
    OBVIOUS
  <2>1. /\ sent \in Seq(FramedMessages) /\ sent \in Streams
        /\ taken \in Nat /\ taken <= Len(Bytes(sent))
        /\ buf \in Seq(Byte) /\ got \in Seq(FrameSet)
        /\ since = 0 /\ kept = << >>
    BY DEF FramedInv, PieceInv
  <2>2. sent \in Seq(Message)
    BY <2>1, FramedStream
  <2> DEFINE T == {8} \cup {Len(sent[i].bytes) : i \in 1 .. Len(sent)}
             w == Whole(taken)
  <2>3. /\ 8 \in T /\ Max(T) \in T /\ T \subseteq Nat
        /\ \A y \in T : Max(T) >= y
    <3>1. ASSUME NEW i \in 1 .. Len(sent) PROVE Len(sent[i].bytes) \in Nat
      <4>1. sent[i] \in Message
        BY <2>2, ElementOfSeq
      <4> QED
        BY <4>1, LenProperties DEF Message
    <3>2. T \subseteq Nat /\ 8 \in T
      BY <3>1
    <3>3. PICK b \in Nat : \A i \in 1 .. Len(sent) : Len(sent[i].bytes) <= b
      BY <2>2, Bounded
    <3>4. PICK c \in Nat : 8 <= c /\ b <= c
      <4>1. b + 8 \in Nat /\ 8 <= b + 8 /\ b <= b + 8
        OBVIOUS
      <4> QED
        BY <4>1
    <3>5. \A y \in T : y <= c
      BY <3>1, <3>3, <3>4
    <3> HIDE DEF T
    <3> QED
      BY <3>2, <3>4, <3>5, Largest
  <2>4. /\ w \in Nat
        /\ \E part \in Seq(Byte) :
              /\ Gives(SubSeq(Bytes(sent), 1, taken),
                       Frames(Prefix(sent, w)), part)
              /\ \/ part = << >>
                 \/ /\ w + 1 <= Len(sent)
                    /\ Len(part) < Len(sent[w + 1].bytes)
    BY <2>1, SoFar
  <2> HIDE DEF w
  <2>5. \/ buf = << >>
        \/ w + 1 <= Len(sent) /\ Len(buf) < Len(sent[w + 1].bytes)
    <3>1. PICK part \in Seq(Byte) :
              /\ Gives(SubSeq(Bytes(sent), 1, taken),
                       Frames(Prefix(sent, w)), part)
              /\ \/ part = << >>
                 \/ /\ w + 1 <= Len(sent)
                    /\ Len(part) < Len(sent[w + 1].bytes)
      BY <2>4
    <3>2. buf = part
      BY <3>1, FramedPass DEF Gives, Parsed
    <3> QED
      BY <3>1, <3>2
  <2>6. Len(buf) < Max(T)
    <3>1. CASE buf = << >>
      <4>1. Len(buf) = 0
        BY <3>1, EmptySeq
      <4> HIDE DEF T
      <4>2. Max(T) \in Nat /\ Max(T) >= 8
        BY <2>3
      <4> QED
        BY <4>1, <4>2
    <3>2. CASE w + 1 <= Len(sent) /\ Len(buf) < Len(sent[w + 1].bytes)
      <4>1. w + 1 \in 1 .. Len(sent)
        BY <2>4, <3>2, LenProperties
      <4>2. PICK y \in T : y = Len(sent[w + 1].bytes)
        BY <4>1
      <4> HIDE DEF T
      <4>3. y \in Nat /\ Max(T) \in Nat /\ Max(T) >= y
        BY <2>3
      <4>4. Len(buf) \in Nat
        BY <2>1, LenProperties
      <4> QED
        BY <3>2, <4>2, <4>3, <4>4
    <3> QED
      BY <2>5, <3>1, <3>2
  <2>7. \A i \in 1 .. Len(buf) : buf[i] \in Byte
    BY <2>1, ElementOfSeq
  <2>8. taken \in 0 .. Len(Bytes(sent)) /\ since \in 0 .. taken
    <3>1. Len(Bytes(sent)) \in Nat
      BY <2>2, BytesType, LenProperties
    <3> QED
      BY <2>1, <3>1
  <2>9. IsPrefix(kept, got)
    <3>1. Len(kept) = 0 /\ Len(got) \in Nat
      BY <2>1, EmptySeq, LenProperties
    <3>2. SubSeq(kept, 1, 0) = << >> /\ SubSeq(got, 1, 0) = << >>
      BY SubSeqEmpty
    <3> QED
      BY <3>1, <3>2 DEF IsPrefix
  <2> QED
    BY <2>1, <2>6, <2>7, <2>8, <2>9 DEF TypeOK
<1> QED
  BY <1>1, FramedInvariant, PTL
===============================================================================
