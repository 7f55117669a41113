----------------------------- MODULE ApiSet_proofs ----------------------------
(***************************************************************************)
(* Theorems about Control and ApiSet: what a write sets and a status       *)
(* reports, to the number, for every state of the tub and every accepted   *)
(* update; and with it the properties of ApiSet, for any number of         *)
(* requests, edges and commands.                                           *)
(***************************************************************************)
EXTENDS ApiSet, TLAPS

-----------------------------------------------------------------------------
(* Bits and bytes.                                                         *)

\* A bit is read where it was set.
LEMMA BitsBack ==
  ASSUME NEW S, NEW b \in 0 .. 13
  PROVE  /\ Bits(S) \in Nat /\ Bits(S) < 65536
         /\ (Bits(S) \div Weight[b + 1]) % 2 = IF b \in S THEN 1 ELSE 0
         /\ BitSet(Bits(S), b) <=> b \in S
<1>0. \A k : \E x \in 0 .. 1 : x = IF k \in S THEN 1 ELSE 0
  OBVIOUS
<1>d0. PICK x0 \in 0 .. 1 : x0 = IF 0 \in S THEN 1 ELSE 0
  BY <1>0
<1>d1. PICK x1 \in 0 .. 1 : x1 = IF 1 \in S THEN 1 ELSE 0
  BY <1>0
<1>d2. PICK x2 \in 0 .. 1 : x2 = IF 2 \in S THEN 1 ELSE 0
  BY <1>0
<1>d3. PICK x3 \in 0 .. 1 : x3 = IF 3 \in S THEN 1 ELSE 0
  BY <1>0
<1>d4. PICK x4 \in 0 .. 1 : x4 = IF 4 \in S THEN 1 ELSE 0
  BY <1>0
<1>d5. PICK x5 \in 0 .. 1 : x5 = IF 5 \in S THEN 1 ELSE 0
  BY <1>0
<1>d6. PICK x6 \in 0 .. 1 : x6 = IF 6 \in S THEN 1 ELSE 0
  BY <1>0
<1>d7. PICK x7 \in 0 .. 1 : x7 = IF 7 \in S THEN 1 ELSE 0
  BY <1>0
<1>d8. PICK x8 \in 0 .. 1 : x8 = IF 8 \in S THEN 1 ELSE 0
  BY <1>0
<1>d9. PICK x9 \in 0 .. 1 : x9 = IF 9 \in S THEN 1 ELSE 0
  BY <1>0
<1>d10. PICK x10 \in 0 .. 1 : x10 = IF 10 \in S THEN 1 ELSE 0
  BY <1>0
<1>d11. PICK x11 \in 0 .. 1 : x11 = IF 11 \in S THEN 1 ELSE 0
  BY <1>0
<1>d12. PICK x12 \in 0 .. 1 : x12 = IF 12 \in S THEN 1 ELSE 0
  BY <1>0
<1>d13. PICK x13 \in 0 .. 1 : x13 = IF 13 \in S THEN 1 ELSE 0
  BY <1>0
<1>1. Bits(S) = x0 + 2 * x1 + 4 * x2 + 8 * x3 + 16 * x4 + 32 * x5 + 64 * x6
                  + 128 * x7 + 256 * x8 + 512 * x9 + 1024 * x10 + 2048 * x11
                  + 4096 * x12 + 8192 * x13
  BY <1>d0, <1>d1, <1>d2, <1>d3, <1>d4, <1>d5, <1>d6, <1>d7, <1>d8, <1>d9,
     <1>d10, <1>d11, <1>d12, <1>d13 DEF Bits, Weight
<1>2. PICK n \in Nat : n = Bits(S) /\ n < 65536
  BY <1>1
<1>3. n = x0 + 2 * x1 + 4 * x2 + 8 * x3 + 16 * x4 + 32 * x5 + 64 * x6
            + 128 * x7 + 256 * x8 + 512 * x9 + 1024 * x10 + 2048 * x11
            + 4096 * x12 + 8192 * x13
  BY <1>1, <1>2
<1>b0. (n \div 1) % 2 = x0
  BY <1>3
<1>b1. (n \div 2) % 2 = x1
  <2>1. n \div 2 =
              x1 + 2 * x2 + 4 * x3 + 8 * x4 + 16 * x5 + 32 * x6 + 64 * x7
              + 128 * x8 + 256 * x9 + 512 * x10 + 1024 * x11 + 2048 * x12
              + 4096 * x13
    BY <1>3
  <2> QED
    BY <2>1
<1>b2. (n \div 4) % 2 = x2
  <2>1. n \div 4 =
              x2 + 2 * x3 + 4 * x4 + 8 * x5 + 16 * x6 + 32 * x7 + 64 * x8
              + 128 * x9 + 256 * x10 + 512 * x11 + 1024 * x12 + 2048 * x13
    BY <1>3
  <2> QED
    BY <2>1
<1>b3. (n \div 8) % 2 = x3
  <2>1. n \div 8 =
              x3 + 2 * x4 + 4 * x5 + 8 * x6 + 16 * x7 + 32 * x8 + 64 * x9
              + 128 * x10 + 256 * x11 + 512 * x12 + 1024 * x13
    BY <1>3
  <2> QED
    BY <2>1
<1>b4. (n \div 16) % 2 = x4
  <2>1. n \div 16 =
              x4 + 2 * x5 + 4 * x6 + 8 * x7 + 16 * x8 + 32 * x9 + 64 * x10
              + 128 * x11 + 256 * x12 + 512 * x13
    BY <1>3
  <2> QED
    BY <2>1
<1>b5. (n \div 32) % 2 = x5
  <2>1. n \div 32 =
              x5 + 2 * x6 + 4 * x7 + 8 * x8 + 16 * x9 + 32 * x10 + 64 * x11
              + 128 * x12 + 256 * x13
    BY <1>3
  <2> QED
    BY <2>1
<1>b6. (n \div 64) % 2 = x6
  <2>1. n \div 64 =
              x6 + 2 * x7 + 4 * x8 + 8 * x9 + 16 * x10 + 32 * x11 + 64 * x12
              + 128 * x13
    BY <1>3
  <2> QED
    BY <2>1
<1>b7. (n \div 128) % 2 = x7
  <2>1. n \div 128 =
              x7 + 2 * x8 + 4 * x9 + 8 * x10 + 16 * x11 + 32 * x12 + 64 * x13
    BY <1>3
  <2> QED
    BY <2>1
<1>b8. (n \div 256) % 2 = x8
  <2>1. n \div 256 =
              x8 + 2 * x9 + 4 * x10 + 8 * x11 + 16 * x12 + 32 * x13
    BY <1>3
  <2> QED
    BY <2>1
<1>b9. (n \div 512) % 2 = x9
  <2>1. n \div 512 =
              x9 + 2 * x10 + 4 * x11 + 8 * x12 + 16 * x13
    BY <1>3
  <2> QED
    BY <2>1
<1>b10. (n \div 1024) % 2 = x10
  <2>1. n \div 1024 =
              x10 + 2 * x11 + 4 * x12 + 8 * x13
    BY <1>3
  <2> QED
    BY <2>1
<1>b11. (n \div 2048) % 2 = x11
  <2>1. n \div 2048 =
              x11 + 2 * x12 + 4 * x13
    BY <1>3
  <2> QED
    BY <2>1
<1>b12. (n \div 4096) % 2 = x12
  <2>1. n \div 4096 =
              x12 + 2 * x13
    BY <1>3
  <2> QED
    BY <2>1
<1>b13. (n \div 8192) % 2 = x13
  BY <1>3
<1>4. (n \div Weight[b + 1]) % 2 = IF b \in S THEN 1 ELSE 0
  BY <1>d0, <1>b0, <1>d1, <1>b1, <1>d2, <1>b2, <1>d3, <1>b3, <1>d4, <1>b4,
     <1>d5, <1>b5, <1>d6, <1>b6, <1>d7, <1>b7, <1>d8, <1>b8, <1>d9, <1>b9,
     <1>d10, <1>b10, <1>d11, <1>b11, <1>d12, <1>b12, <1>d13, <1>b13 DEF
     Weight
<1> QED
  BY <1>2, <1>4 DEF BitSet

LEMMA BitsNat ==
  ASSUME NEW S PROVE Bits(S) \in Nat /\ Bits(S) < 65536
<1>1. 0 \in 0 .. 13
  OBVIOUS
<1> QED
  BY <1>1, BitsBack

LEMMA WordBack ==
  ASSUME NEW n \in Nat, n < 65536
  PROVE  High(n) * 256 + Low(n) = n
BY DEF High, Low

\* An attribute is known by its id.
LEMMA Ids ==
  ASSUME NEW a \in Attrs
  PROVE  /\ IdOf(a) \in 0 .. 13 /\ Writable[IdOf(a) + 1] = a
         /\ IdOf(a) = 7 => a = "temp_set"
<1>1. PICK i \in 1 .. 14 : a = Writable[i]
  BY DEF Attrs
<1>2. i - 1 \in 0 .. 13 /\ Writable[(i - 1) + 1] = a
  BY <1>1
<1>3. IdOf(a) \in 0 .. 13 /\ Writable[IdOf(a) + 1] = a
  BY <1>2 DEF IdOf
<1> QED
  BY <1>3 DEF Writable

LEMMA Widths ==
  ASSUME NEW a \in Attrs, NEW n \in ValuesOf(a)
  PROVE  /\ n \in Nat /\ n < 65536
         /\ IdOf(a) <= 6 => n \in 0 .. 1
         /\ IdOf(a) = 7 => n < 256
<1>1. n \in 0 .. Largest(Kind(a))
  BY DEF ValuesOf
<1>2. /\ Kind(a) \in {"bool", "uint8", "uint16"}
      /\ IdOf(a) <= 6 => Kind(a) = "bool"
  BY DEF Kind, Switches
<1>3. IdOf(a) = 7 => Kind(a) \in {"bool", "uint8"}
  BY Ids DEF Kind
<1>4. /\ Largest("bool") = 1 /\ Largest("uint8") = 255
      /\ Largest("uint16") = 65535
  BY DEF Largest
<1> QED
  BY <1>1, <1>2, <1>3, <1>4

LEMMA StatusWidths ==
  ASSUME NEW s, IsStatus(s), NEW a \in Attrs
  PROVE  s[a] \in ValuesOf(a)
BY DEF IsStatus

\* For every state of the tub, ParseStatus reads out of a status payload what
\* the tub wrote into it: no attribute is lost, shifted or cut (status.go:42).
THEOREM StatusRoundTrip ==
  ASSUME NEW s, IsStatus(s), NEW magic
  PROVE  ParseStatus(DevStatus(magic, s)) = s
<1> DEFINE p == DevStatus(magic, s)
           v(k) == s[Writable[k + 1]]
<1>1. /\ p[2] = Bits({b \in 0 .. 6 : v(b) = 1}) /\ p[3] = s["temp_set"]
      /\ p[4] = High(v(8)) /\ p[5] = Low(v(8))
      /\ p[6] = High(v(9)) /\ p[7] = Low(v(9))
      /\ p[8] = High(v(10)) /\ p[9] = Low(v(10))
      /\ p[10] = High(v(11)) /\ p[11] = Low(v(11))
      /\ p[12] = High(v(12)) /\ p[13] = Low(v(12))
      /\ p[14] = High(v(13)) /\ p[15] = Low(v(13))
  BY DEF DevStatus
<1> HIDE DEF p
<1>2. ASSUME NEW a \in Attrs PROVE ParseStatus(p)[a] = s[a]
  <2>1. PICK i \in 0 .. 13 : i = IdOf(a) /\ v(i) = s[a]
    BY Ids
  <2>2. s[a] \in ValuesOf(a)
    BY StatusWidths
  <2>3. PICK n \in Nat : n = s[a] /\ n < 65536 /\ (i <= 6 => n \in 0 .. 1)
    BY <2>1, <2>2, Widths
  <2> HIDE DEF v
  <2>4. CASE i \in 0 .. 6
    <3>1. ParseStatus(p)[a] = Bit(p[2], i)
      BY <2>1, <2>4 DEF ParseStatus
    <3>2. BitSet(p[2], i) <=> v(i) = 1
      BY <1>1, <2>4, BitsBack
    <3> QED
      BY <2>1, <2>3, <2>4, <3>1, <3>2 DEF Bit
  <2>5. CASE i = 7
    <3>1. ParseStatus(p)[a] = p[3]
      <4>1. ~(IdOf(a) <= 6) /\ IdOf(a) = 7
        BY <2>1, <2>5
      <4> QED
        BY <4>1 DEF ParseStatus
    <3> QED
      BY <1>1, <2>1, <2>5, <3>1, Ids
  <2>6. CASE i \in 8 .. 13
    <3>1. ParseStatus(p)[a] = p[4 + 2 * (i - 8)] * 256 + p[4 + 2 * (i - 8) + 1]
      <4>1. ~(i <= 6) /\ i # 7
        BY <2>6
      <4> QED
        BY <2>1, <4>1 DEF ParseStatus, Word
    <3>2. /\ p[4 + 2 * (i - 8)] = High(v(i))
          /\ p[4 + 2 * (i - 8) + 1] = Low(v(i))
      <4>1. i = 8 \/ i = 9 \/ i = 10 \/ i = 11 \/ i = 12 \/ i = 13
        BY <2>6
      <4> QED
        BY <1>1, <4>1
    <3>3. High(n) * 256 + Low(n) = n
      BY <2>3, WordBack
    <3> QED
      BY <2>1, <2>3, <3>1, <3>2, <3>3
  <2> QED
    BY <2>4, <2>5, <2>6
<1>3. ParseStatus(p) = [a \in Attrs |-> ParseStatus(p)[a]]
  BY DEF ParseStatus
<1>4. s = [a \in Attrs |-> s[a]]
  BY DEF IsStatus
<1> QED
  BY <1>2, <1>3, <1>4 DEF p

\* Updates whose values their attributes take.
Asked(u) == \A a \in DOMAIN u : a \in Attrs /\ u[a].n \in ValuesOf(a)

\* For every accepted update, every reading it is written over and either kind
\* of firmware, the tub takes out of the payload the very values asked for;
\* where nothing was asked it keeps its own, or takes those of the reading
\* (encode.go:106, 119-120).
THEOREM WriteRoundTrip ==
  ASSUME NEW u, Asked(u), NEW current, IsStatus(current), NEW old,
         NEW takes \in BOOLEAN, NEW a \in Attrs
  PROVE  Applied(EncodeControl(u, current), old, takes)[a] =
            IF a \in DOMAIN u THEN u[a].n
            ELSE IF takes THEN current[a] ELSE old[a]
<1> DEFINE p == EncodeControl(u, current)
           v(k) == Value(u, current, Writable[k + 1])
<1>1. /\ p[2] = High(Flags(u)) /\ p[3] = Low(Flags(u))
      /\ p[4] = Bits({b \in 0 .. 6 : v(b) # 0}) /\ p[5] = v(7) % 256
      /\ p[6] = High(v(8)) /\ p[7] = Low(v(8))
      /\ p[8] = High(v(9)) /\ p[9] = Low(v(9))
      /\ p[10] = High(v(10)) /\ p[11] = Low(v(10))
      /\ p[12] = High(v(11)) /\ p[13] = Low(v(11))
      /\ p[14] = High(v(12)) /\ p[15] = Low(v(12))
      /\ p[16] = High(v(13)) /\ p[17] = Low(v(13))
  BY DEF EncodeControl, AttrFlags
<1> HIDE DEF p
<1>2. PICK i \in 0 .. 13 : i = IdOf(a) /\ Writable[i + 1] = a
  BY Ids
<1>3. BitSet(Word(p, 2), i) <=> a \in DOMAIN u
  <2>1. Word(p, 2) = Flags(u)
    <3> DEFINE S == {IdOf(x) : x \in DOMAIN u}
    <3>0. Flags(u) = Bits(S)
      BY DEF Flags
    <3> HIDE DEF S
    <3>1. PICK f \in Nat : f = Flags(u) /\ f < 65536
      BY <3>0, BitsNat, SMT
    <3>2. High(f) * 256 + Low(f) = f
      BY <3>1, WordBack
    <3> QED
      BY <1>1, <3>1, <3>2 DEF Word
  <2>2. BitSet(Flags(u), i) <=> i \in {IdOf(x) : x \in DOMAIN u}
    BY BitsBack DEF Flags
  <2>3. ASSUME NEW x \in DOMAIN u, IdOf(x) = i PROVE x = a
    BY <1>2, <2>3, Ids DEF Asked
  <2> QED
    BY <1>2, <2>1, <2>2, <2>3
<1>4. Values(p)[a] = v(i)
  <2>1. v(i) \in ValuesOf(a)
    BY <1>2, StatusWidths DEF Value, Asked
  <2>2. PICK n \in Nat : /\ n = v(i) /\ n < 65536
                         /\ i <= 6 => n \in 0 .. 1
                         /\ i = 7 => n < 256
    BY <1>2, <2>1, Widths
  <2> HIDE DEF v
  <2>3. CASE i \in 0 .. 6
    <3>1. Values(p)[a] = (p[4] \div Weight[i + 1]) % 2
      BY <1>2, <2>3 DEF Values
    <3>2. (p[4] \div Weight[i + 1]) % 2 = IF v(i) # 0 THEN 1 ELSE 0
      BY <1>1, <2>3, BitsBack
    <3> QED
      BY <2>2, <2>3, <3>1, <3>2
  <2>4. CASE i = 7
    <3>1. ~(IdOf(a) <= 6) /\ IdOf(a) = 7
      BY <1>2, <2>4
    <3>2. Values(p)[a] = p[5]
      BY <3>1 DEF Values
    <3>3. n % 256 = n
      BY <2>2, <2>4
    <3> QED
      BY <1>1, <2>2, <2>4, <3>2, <3>3
  <2>5. CASE i \in 8 .. 13
    <3>1. Values(p)[a] = p[6 + 2 * (i - 8)] * 256 + p[6 + 2 * (i - 8) + 1]
      BY <1>2, <2>5 DEF Values, Word
    <3>2. /\ p[6 + 2 * (i - 8)] = High(v(i))
          /\ p[6 + 2 * (i - 8) + 1] = Low(v(i))
      <4>1. i = 8 \/ i = 9 \/ i = 10 \/ i = 11 \/ i = 12 \/ i = 13
        BY <2>5
      <4> QED
        BY <1>1, <4>1
    <3>3. High(n) * 256 + Low(n) = n
      BY <2>2, WordBack
    <3> QED
      BY <2>2, <3>1, <3>2, <3>3
  <2> QED
    BY <2>3, <2>4, <2>5
<1>5. v(i) = IF a \in DOMAIN u THEN u[a].n ELSE current[a]
  BY <1>2 DEF Value
<1>6. Applied(p, old, takes)[a] =
         IF takes \/ BitSet(Word(p, 2), i) THEN Values(p)[a] ELSE old[a]
  BY <1>2 DEF Applied
<1> QED
  BY <1>3, <1>4, <1>5, <1>6 DEF p

-----------------------------------------------------------------------------
(* Updates.                                                                *)

LEMMA SmallValues ==
  ASSUME NEW a \in Attrs, NEW n \in 0 .. 1
  PROVE  n \in ValuesOf(a)
<1>1. Kind(a) \in {"bool", "uint8", "uint16"}
  BY DEF Kind
<1>2. /\ Largest("bool") = 1 /\ Largest("uint8") = 255
      /\ Largest("uint16") = 65535
  BY DEF Largest
<1> QED
  BY <1>1, <1>2 DEF ValuesOf

LEMMA ValidIsAsked ==
  ASSUME NEW u \in Bodies \cup HandUses, ValidateUpdates(u)
  PROVE  Asked(u)
<1> SUFFICES ASSUME NEW a \in DOMAIN u
             PROVE  a \in Attrs /\ u[a].n \in ValuesOf(a)
  BY DEF Asked
<1>1. a \in Attrs /\ Accepts(a, u[a])
  BY DEF ValidateUpdates
<1>2. u[a].type = "bool" => u[a].n \in 0 .. 1
  BY ApiSetAssumption DEF ApiSetAssumption
<1> QED
  BY <1>1, <1>2, SmallValues DEF Accepts

LEMMA NamesAreAttrs ==
  {"heat_power", "filter_power", "heat_appm_min", "heat_timer_min",
   "filter_appm_min", "filter_timer_min"} \subseteq Attrs
<1>1. \A i \in 1 .. 14 : Writable[i] \in Attrs
  BY DEF Attrs
<1>2. /\ Writable[2] = "heat_power" /\ Writable[3] = "filter_power"
      /\ Writable[9] = "heat_appm_min" /\ Writable[10] = "heat_timer_min"
      /\ Writable[11] = "filter_appm_min" /\ Writable[12] = "filter_timer_min"
  BY DEF Writable
<1>3. /\ 2 \in 1 .. 14 /\ 3 \in 1 .. 14 /\ 9 \in 1 .. 14 /\ 10 \in 1 .. 14
      /\ 11 \in 1 .. 14 /\ 12 \in 1 .. 14
  OBVIOUS
<1> QED
  BY <1>1, <1>2, <1>3

LEMMA EdgesAreAsked ==
  /\ Asked(ApplyOn)
  /\ \A filter \in 0 .. 1 : Asked(ApplyOff(filter))
<1>1. Asked(ApplyOn)
  <2> SUFFICES ASSUME NEW a \in DOMAIN ApplyOn
               PROVE  a \in Attrs /\ ApplyOn[a].n \in ValuesOf(a)
    BY DEF Asked
  <2>1. a \in Attrs
    BY NamesAreAttrs DEF ApplyOn
  <2>2. ApplyOn[a].n \in 0 .. 1
    BY DEF ApplyOn, Num
  <2> QED
    BY <2>1, <2>2, SmallValues
<1>2. ASSUME NEW filter \in 0 .. 1 PROVE Asked(ApplyOff(filter))
  <2> SUFFICES ASSUME NEW a \in DOMAIN ApplyOff(filter)
               PROVE  a \in Attrs /\ ApplyOff(filter)[a].n \in ValuesOf(a)
    BY DEF Asked
  <2>1. a \in Attrs
    BY NamesAreAttrs DEF ApplyOff
  <2>2. ApplyOff(filter)[a].n \in 0 .. 1
    BY DEF ApplyOff, Num
  <2> QED
    BY <2>1, <2>2, SmallValues
<1> QED
  BY <1>1, <1>2

LEMMA CommandIsAsked ==
  ASSUME NEW args, Readable(args)
  PROVE  Asked(ParseSetArgs(args))
<1> DEFINE u == ParseSetArgs(args)
<1> SUFFICES ASSUME NEW a \in DOMAIN u
             PROVE  a \in Attrs /\ u[a].n \in ValuesOf(a)
  BY DEF Asked
<1>1. a \in DOMAIN args
  BY DEF ParseSetArgs
<1>2. /\ a \in Attrs
      /\ a \in Switches \/ args[a].n \in ValuesOf(a)
  BY <1>1 DEF Readable
<1>3. u[a].n = IF a \in Switches THEN ParseBool(args[a]) ELSE args[a].n
  BY <1>1 DEF ParseSetArgs, Num
<1>4. ParseBool(args[a]) \in 0 .. 1
  BY DEF ParseBool
<1> QED
  BY <1>2, <1>3, <1>4, SmallValues

LEMMA WithStatus ==
  ASSUME NEW u, Asked(u), IsStatus(dev)
  PROVE  IsStatus(With(u))
<1>1. ASSUME NEW a \in Attrs PROVE With(u)[a] \in ValuesOf(a)
  BY StatusWidths DEF With, Asked
<1>2. ASSUME NEW a \in Attrs PROVE With(u)[a] \in Nat
  BY <1>1, Widths
<1>3. With(u) = [a \in Attrs |-> With(u)[a]]
  BY DEF With
<1> QED
  BY <1>1, <1>2, <1>3 DEF IsStatus

LEMMA WriteStatus ==
  ASSUME NEW u, Asked(u), NEW current, IsStatus(current), IsStatus(dev),
         NEW takes \in BOOLEAN
  PROVE  IsStatus(Applied(EncodeControl(u, current), dev, takes))
<1> DEFINE new == Applied(EncodeControl(u, current), dev, takes)
<1>1. ASSUME NEW a \in Attrs PROVE new[a] \in ValuesOf(a)
  BY WriteRoundTrip, StatusWidths DEF Asked
<1>2. ASSUME NEW a \in Attrs PROVE new[a] \in Nat
  BY <1>1, Widths
<1>3. new = [a \in Attrs |-> new[a]]
  BY DEF Applied
<1> QED
  BY <1>1, <1>2, <1>3 DEF IsStatus

-----------------------------------------------------------------------------
(* Types.                                                                  *)

\* What a writer asks for can be asked, what it writes over is a reading, and
\* it has a result when it has ended.
WriterInv ==
    /\ body = [r \in Writers |-> body[r]]
    /\ before = [r \in Writers |-> before[r]]
    /\ after = [r \in Writers |-> after[r]]
    /\ \A r \in Writers :
        /\ Asked(body[r])
        /\ pc[r] \in {"write", "settle"} => IsStatus(before[r])
        /\ result[r] # "none" => pc[r] = "end"

TypeInv == TypeOK /\ WriterInv

LEMMA Reading ==
  ASSUME TypeInv, NEW r, NEW s \in Readings(r)
  PROVE  /\ IsStatus(s)
         /\ Now = dev
         /\ Took(r, s) => late' \in {late, NoStatus, dev}
<1>1. Now = dev /\ IsStatus(dev)
  BY StatusRoundTrip DEF Now, TypeInv, TypeOK
<1>2. IsStatus(s)
  BY <1>1 DEF Readings, TypeInv, TypeOK
<1>3. Took(r, s) => late' \in {late, NoStatus, dev}
  BY <1>1 DEF Took, Drained
<1> QED
  BY <1>1, <1>2, <1>3

LEMMA InitTypeInv == Init => TypeInv
<1> SUFFICES ASSUME Init PROVE TypeInv
  OBVIOUS
<1>1. IsStatus(dev) /\ MaxHand \in Nat
  BY ApiSetAssumption DEF Init, ApiSetAssumption
<1>2. Asked(<< >>)
  BY DEF Asked
<1>3. {} \in SUBSET Attrs
  OBVIOUS
<1>4. TypeOK
  <2>1. /\ logged \in [Writers -> SUBSET Attrs]
        /\ changed \in [Writers -> SUBSET Attrs]
        /\ touched \in [Writers -> SUBSET Attrs]
    BY <1>3 DEF Init
  <2>2. honoured \in [Writers -> BOOLEAN] /\ exact \in [Writers -> BOOLEAN]
    BY DEF Init
  <2> QED
    BY <1>1, <2>1, <2>2 DEF Init, TypeOK
<1>5. WriterInv
  BY <1>2 DEF Init, WriterInv
<1> QED
  BY <1>4, <1>5 DEF TypeInv

\* A step of one writer moves nobody else.
LEMMA StartsType ==
  ASSUME TypeInv, NEW r \in Writers, NEW u, Asked(u), Starts(r, u),
         pc[r] = "new"
  PROVE  TypeInv'
<1>1. TypeOK'
  BY DEF Starts, Goto, TypeInv, TypeOK, ghostVars
<1>2. WriterInv'
  BY DEF Starts, Goto, TypeInv, TypeOK, WriterInv
<1> QED
  BY <1>1, <1>2 DEF TypeInv

LEMMA RejectsType ==
  ASSUME TypeInv, NEW r \in Writers, NEW code \in {"refused", "bad"},
         Rejects(r, code)
  PROVE  TypeInv'
<1>1. TypeOK'
  BY DEF Rejects, Answer, Goto, TypeInv, TypeOK, ghostVars
<1>2. WriterInv'
  BY DEF Rejects, Answer, Goto, TypeInv, TypeOK, WriterInv
<1> QED
  BY <1>1, <1>2 DEF TypeInv

LEMMA StepTypeInv == TypeInv /\ [Next]_vars => TypeInv'
<1> SUFFICES ASSUME TypeInv, [Next]_vars PROVE TypeInv'
  OBVIOUS
<1>0. TypeOK /\ WriterInv /\ Now = dev /\ IsStatus(dev)
  BY StatusRoundTrip DEF Now, TypeInv, TypeOK
<1>1. ASSUME NEW r \in Writers, Check(r) \/ Apply(r) \/ Command(r)
      PROVE  TypeInv'
  <2>1. pc[r] = "new"
    BY <1>1 DEF Check, Apply, Command, Free
  <2>2. CASE \E code \in {"refused", "bad"} : Rejects(r, code)
    BY <2>2, RejectsType
  <2>3. CASE \E u \in Bodies : ValidateUpdates(u) /\ Starts(r, u)
    BY <2>1, <2>3, ValidIsAsked, StartsType
  <2>4. CASE \E u \in {ApplyOn, ApplyOff(0), ApplyOff(1)} : Starts(r, u)
    BY <2>1, <2>4, EdgesAreAsked, StartsType
  <2>5. CASE \E args \in Arguments :
                 Readable(args) /\ Starts(r, ParseSetArgs(args))
    BY <2>1, <2>5, CommandIsAsked, StartsType
  <2> QED
    BY <1>1, <2>2, <2>3, <2>4, <2>5 DEF Check, Apply, Command
<1>2. ASSUME NEW r \in Writers, ReadBefore(r) PROVE TypeInv'
  <2>1. PICK s \in Readings(r) :
           before' = [before EXCEPT ![r] = s] /\ Took(r, s)
    BY <1>2 DEF ReadBefore
  <2>2. IsStatus(s)
    BY <2>1, Reading
  <2>3. late' = NoStatus \/ IsStatus(late')
    BY <1>0, <2>1, Reading DEF TypeInv, TypeOK
  <2>4. TypeOK'
    BY <1>0, <1>2, <2>1, <2>2, <2>3
       DEF ReadBefore, Goto, WriterInv, TypeOK, ghostVars
  <2>5. WriterInv'
    BY <1>0, <1>2, <2>1, <2>2 DEF ReadBefore, Goto, TypeOK, WriterInv
  <2> QED
    BY <2>4, <2>5 DEF TypeInv
<1>3. ASSUME NEW r \in Writers, ReadAfter(r) PROVE TypeInv'
  <2>1. PICK s \in Readings(r) :
           /\ after' = [after EXCEPT ![r] = s]
           /\ logged' = [logged EXCEPT
                            ![r] = StateDiff(before[r], s, body[r])]
           /\ Took(r, s)
    BY <1>3 DEF ReadAfter
  <2>2. IsStatus(s) /\ StateDiff(before[r], s, body[r]) \in SUBSET Attrs
    BY <2>1, Reading DEF StateDiff, Differ
  <2>3. late' = NoStatus \/ IsStatus(late')
    BY <1>0, <2>1, Reading DEF TypeInv, TypeOK
  <2>4. TypeOK'
    <3>1. /\ pc' \in [Writers -> {"new", "read", "write", "settle", "end"}]
          /\ result' \in [Writers -> {"none", "refused", "bad", "down",
                                      "unmet", "ok"}]
          /\ logged' \in [Writers -> SUBSET Attrs]
      BY <1>0, <1>3, <2>1, <2>2 DEF ReadAfter, Answer, Goto, TypeOK
    <3>2. \A w \in Writers : after'[w] = NoStatus \/ IsStatus(after'[w])
      BY <1>0, <2>1, <2>2 DEF WriterInv, TypeOK
    <3> QED
      BY <1>0, <1>3, <2>3, <3>1, <3>2 DEF ReadAfter, TypeOK, ghostVars
  <2>5. WriterInv'
    BY <1>0, <1>3, <2>1 DEF ReadAfter, Answer, Goto, TypeOK, WriterInv
  <2> QED
    BY <2>4, <2>5 DEF TypeInv
<1>4. ASSUME NEW r \in Writers, Verify(r) PROVE TypeInv'
  <2>1. PICK code \in {"ok", "unmet"} : Answer(r, code)
    BY <1>4 DEF Verify
  <2>2. TypeOK'
    <3>1. /\ pc' \in [Writers -> {"new", "read", "write", "settle", "end"}]
          /\ result' \in [Writers -> {"none", "refused", "bad", "down",
                                      "unmet", "ok"}]
      BY <1>0, <2>1 DEF Answer, Goto, TypeOK
    <3>2. \A w \in Writers : after'[w] = NoStatus \/ IsStatus(after'[w])
      BY <1>0, <1>4 DEF Verify, WriterInv, TypeOK
    <3> QED
      BY <1>0, <1>4, <3>1, <3>2 DEF Verify, TypeOK, ghostVars
  <2>3. WriterInv'
    BY <1>0, <1>4, <2>1 DEF Verify, Answer, Goto, TypeOK, WriterInv
  <2> QED
    BY <2>2, <2>3 DEF TypeInv
<1>5. ASSUME NEW r \in Writers, ReadFails(r) PROVE TypeInv'
  <2>1. late' = NoStatus \/ IsStatus(late')
    BY <1>0, <1>5 DEF ReadFails, TypeOK
  <2>2. TypeOK'
    BY <1>0, <1>5, <2>1 DEF ReadFails, Answer, Goto, TypeOK, ghostVars
  <2>3. WriterInv'
    BY <1>0, <1>5 DEF ReadFails, Answer, Goto, TypeOK, WriterInv
  <2> QED
    BY <2>2, <2>3 DEF TypeInv
<1>6. ASSUME NEW r \in Writers, Write(r) PROVE TypeInv'
  <2>1. PICK takes \in BOOLEAN :
           /\ dev' = IF takes
                     THEN Applied(EncodeControl(body[r], before[r]), dev,
                                  takesAll)
                     ELSE dev
           /\ honoured' = [honoured EXCEPT ![r] = takes]
    BY <1>6 DEF Write
  <2>2. Asked(body[r]) /\ IsStatus(before[r]) /\ takesAll \in BOOLEAN
    BY <1>0, <1>6 DEF Write, WriterInv, TypeOK
  <2>3. IsStatus(dev')
    BY <1>0, <2>1, <2>2, WriteStatus
  <2>4. late' \in {late, NoStatus}
    BY <1>6 DEF Write, Drained
  <2>5. /\ changed' \in [Writers -> SUBSET Attrs]
        /\ touched' \in [Writers -> SUBSET Attrs]
    <3>1. Differ(dev, dev') \in SUBSET Attrs
      BY DEF Differ
    <3> QED
      BY <1>0, <1>6, <3>1 DEF Write, Touches, TypeOK
  <2>6. honoured' \in [Writers -> BOOLEAN]
    BY <1>0, <2>1 DEF TypeOK
  <2>7. exact' \in [Writers -> BOOLEAN]
    <3>1. PICK b \in BOOLEAN : b = (before[r] = dev)
      OBVIOUS
    <3>2. exact' = [exact EXCEPT ![r] = b]
      BY <1>6, <3>1 DEF Write
    <3> QED
      BY <1>0, <3>2 DEF TypeOK
  <2>8. /\ pc' \in [Writers -> {"new", "read", "write", "settle", "end"}]
        /\ result' \in [Writers -> {"none", "refused", "bad", "down",
                                    "unmet", "ok"}]
    BY <1>0, <1>6 DEF Write, Answer, Goto, TypeOK
  <2>9. TypeOK'
    BY <1>0, <1>6, <2>3, <2>4, <2>5, <2>6, <2>7, <2>8 DEF Write, TypeOK
  <2>10. WriterInv'
    BY <1>0, <1>6 DEF Write, Answer, Goto, TypeOK, WriterInv
  <2> QED
    BY <2>9, <2>10 DEF TypeInv
<1>7. CASE UsePanel
  <2>1. IsStatus(dev')
    BY <1>0, <1>7, ApiSetAssumption, ValidIsAsked, WithStatus
       DEF UsePanel, ApiSetAssumption
  <2>2. touched' \in [Writers -> SUBSET Attrs]
    <3>1. Differ(dev, dev') \in SUBSET Attrs
      BY DEF Differ
    <3> QED
      BY <1>0, <1>7, <3>1 DEF UsePanel, Touches, TypeOK
  <2>3. hand' \in 0 .. MaxHand
    BY <1>0, <1>7, ApiSetAssumption DEF UsePanel, TypeOK, ApiSetAssumption
  <2>4. TypeOK'
    BY <1>0, <1>7, <2>1, <2>2, <2>3 DEF UsePanel, TypeOK, requestVars
  <2>5. WriterInv'
    BY <1>0, <1>7 DEF UsePanel, WriterInv, requestVars
  <2> QED
    BY <2>4, <2>5 DEF TypeInv
<1>8. CASE UNCHANGED vars
  <2>1. TypeOK'
    BY <1>0, <1>8 DEF vars, requestVars, ghostVars, TypeOK
  <2>2. WriterInv'
    BY <1>0, <1>8 DEF vars, requestVars, ghostVars, WriterInv
  <2> QED
    BY <2>1, <2>2 DEF TypeInv
<1> QED
  BY <1>1, <1>2, <1>3, <1>4, <1>5, <1>6, <1>7, <1>8
     DEF Next, HandleSet, RunSet, Writes, Writers

LEMMA TypeInvariance == Spec => []TypeInv
BY InitTypeInv, StepTypeInv, PTL DEF Spec

\* Requests, edges and commands, their updates and readings keep their types:
\* whatever is asked, read and written, the tub's attributes stay within the
\* widths of the table Writable (encode.go:17-33).
THEOREM SetTypes == Spec => []TypeOK
<1>1. TypeInv => TypeOK
  BY DEF TypeInv
<1>2. QED
  BY <1>1, TypeInvariance, PTL

-----------------------------------------------------------------------------
(* Writes.                                                                 *)

\* A write sets what its writer asked for, to the very numbers it gave, and
\* nothing else but what it had read, at a tub that takes that too: for every
\* state of the tub and every update that passes the check (encode.go:108-120,
\* server.go:326).
THEOREM WriteIsExact == Spec => WriteDoesAsAsked
<1>1. ASSUME TypeInv, [Next]_vars, NEW r \in Writers,
             pc[r] = "write", pc'[r] # "write", honoured'[r]
      PROVE  \A a \in Attrs :
                IF a \in DOMAIN body[r] THEN dev'[a] = body[r][a].n
                ELSE \/ dev'[a] = dev[a]
                     \/ takesAll /\ dev'[a] = before[r][a]
  <2>1. Write(r)
    <3>1. ASSUME NEW w \in Writers, w # r,
                 \/ Check(w) \/ Apply(w) \/ Command(w) \/ Writes(w)
                 \/ ReadAfter(w) \/ Verify(w)
          PROVE  pc'[r] = pc[r]
      <4>1. ASSUME NEW where, Goto(w, where) PROVE pc'[r] = pc[r]
        BY <3>1, <4>1 DEF Goto, TypeInv, TypeOK
      <4>2. CASE Check(w) \/ Apply(w) \/ Command(w)
        BY <4>1, <4>2 DEF Check, Apply, Command, Starts, Rejects, Answer
      <4>3. CASE Writes(w)
        BY <4>1, <4>3 DEF Writes, ReadBefore, Write, ReadFails, Answer
      <4>4. CASE ReadAfter(w) \/ Verify(w)
        BY <4>1, <4>4 DEF ReadAfter, Verify, Answer
      <4> QED
        BY <3>1, <4>2, <4>3, <4>4
    <3>2. ASSUME UsePanel \/ UNCHANGED vars PROVE pc'[r] = pc[r]
      BY <3>2 DEF UsePanel, vars, requestVars
    <3>3. ASSUME \/ Check(r) \/ Apply(r) \/ Command(r) \/ ReadBefore(r)
                 \/ ReadFails(r) \/ ReadAfter(r) \/ Verify(r)
          PROVE  pc[r] # "write"
      BY <3>3 DEF Check, Apply, Command, Free, ReadBefore, ReadFails,
                  ReadAfter, Verify
    <3> QED
      BY <1>1, <3>1, <3>2, <3>3 DEF Next, HandleSet, RunSet, Writes, Writers
  <2>2. dev' = Applied(EncodeControl(body[r], before[r]), dev, takesAll)
    BY <1>1, <2>1 DEF Write, TypeInv, TypeOK
  <2>3. /\ Asked(body[r]) /\ IsStatus(before[r])
        /\ takesAll \in BOOLEAN
    BY <1>1 DEF TypeInv, TypeOK, WriterInv
  <2> QED
    BY <1>1, <2>2, <2>3, WriteRoundTrip
<1>2. TypeInv /\ [Next]_vars => [\A r \in Writers :
          (pc[r] = "write" /\ pc'[r] # "write" /\ honoured'[r]) =>
              \A a \in Attrs :
                  IF a \in DOMAIN body[r] THEN dev'[a] = body[r][a].n
                  ELSE \/ dev'[a] = dev[a]
                       \/ takesAll /\ dev'[a] = before[r][a]]_vars
  BY <1>1 DEF vars, requestVars, ghostVars
<1> QED
  BY <1>2, TypeInvariance, PTL DEF Spec, WriteDoesAsAsked

-----------------------------------------------------------------------------
(* Answers, the log and verdicts.                                          *)

\* While a writer waits to read again, an attribute nobody else has changed
\* is what its write made it, in the tub and in an answer still to come.
Settled(r) ==
    pc[r] = "settle" =>
        \A a \in Attrs \ touched[r] :
            /\ honoured[r] /\ a \in DOMAIN body[r] => dev[a] = body[r][a].n
            /\ exact[r] => (a \in changed[r] <=> before[r][a] # dev[a])
            /\ exact[r] /\ ~honoured[r] => dev[a] = before[r][a]
            /\ r \in Posts /\ late # NoStatus => late[a] = dev[a]

\* What AnswerShowsWrite, LogIsTrue and VerdictIsTrue say of one writer.
Answered(r) ==
    r \in Posts /\ result[r] = "ok" =>
        /\ honoured[r] => \A a \in DOMAIN body[r] \ touched[r] :
                              after[r][a] = body[r][a].n
        /\ exact[r] /\ touched[r] = {} =>
              logged[r] = changed[r] \cap DOMAIN body[r]
Judged(r) ==
    /\ r \in Commands /\ result[r] \in {"ok", "unmet"}
    /\ DOMAIN body[r] \cap touched[r] = {}
    => /\ honoured[r] => result[r] = "ok"
       /\ ~honoured[r] /\ exact[r] =>
             (result[r] = "ok" <=>
                 \A a \in DOMAIN body[r] : before[r][a] = body[r][a].n)

TruthInv == \A r \in Writers : Settled(r) /\ Answered(r) /\ Judged(r)

\* A step of somebody else, who reports what he changes as touched.
LEMMA OthersTrue ==
  ASSUME NEW r \in Writers, Settled(r), Answered(r), Judged(r),
         body'[r] = body[r], pc'[r] = pc[r], before'[r] = before[r],
         after'[r] = after[r], result'[r] = result[r],
         logged'[r] = logged[r], changed'[r] = changed[r],
         honoured'[r] <=> honoured[r], exact'[r] <=> exact[r],
         result[r] # "none" => pc[r] = "end",
         touched'[r] = IF pc[r] = "settle"
                       THEN touched[r] \cup Differ(dev, dev') ELSE touched[r],
         late' \in {late, NoStatus, dev'}
  PROVE  Settled(r)' /\ Answered(r)' /\ Judged(r)'
<1>1. Settled(r)'
  <2> SUFFICES ASSUME pc[r] = "settle", NEW a \in Attrs \ touched'[r]
               PROVE  /\ honoured[r] /\ a \in DOMAIN body[r] =>
                            dev'[a] = body[r][a].n
                      /\ exact[r] =>
                            (a \in changed[r] <=> before[r][a] # dev'[a])
                      /\ exact[r] /\ ~honoured[r] => dev'[a] = before[r][a]
                      /\ r \in Posts /\ late' # NoStatus => late'[a] = dev'[a]
    BY DEF Settled
  <2>1. a \in Attrs \ touched[r] /\ dev'[a] = dev[a]
    BY DEF Differ
  <2> QED
    BY <2>1 DEF Settled
<1>2. result[r] # "none" => touched'[r] = touched[r]
  OBVIOUS
<1>3. Answered(r)'
  BY <1>2 DEF Answered
<1>4. Judged(r)'
  BY <1>2 DEF Judged
<1> QED
  BY <1>1, <1>3, <1>4

\* What a command finds is printed as what it asked for if it is the same.
LEMMA SamePrinted ==
  ASSUME NEW a \in Attrs, NEW n \in ValuesOf(a), NEW m \in ValuesOf(a)
  PROVE  Got(a, n) = Normalize(a, m) <=> n = m
<1>1. CASE IsBool(a)
  <2>1. n \in 0 .. 1 /\ m \in 0 .. 1
    BY <1>1, Widths DEF IsBool, Switches
  <2>2. (n = 1 <=> m # 0) <=> n = m
    BY <2>1
  <2>3. <<"bool", n = 1>> = <<"bool", m # 0>> <=> (n = 1 <=> m # 0)
    OBVIOUS
  <2> QED
    BY <1>1, <2>2, <2>3 DEF Got, Normalize
<1>2. CASE ~IsBool(a)
  BY <1>2 DEF Got, Normalize, Number
<1> QED
  BY <1>1, <1>2

\* What a step of w does to the others.
LEMMA StepOthers ==
  ASSUME TypeInv, TruthInv, NEW w \in Writers, NEW r \in Writers \ {w},
         \/ Check(w) \/ Apply(w) \/ Command(w) \/ Writes(w)
         \/ ReadAfter(w) \/ Verify(w)
  PROVE  Settled(r)' /\ Answered(r)' /\ Judged(r)'
<1>0. /\ Settled(r) /\ Answered(r) /\ Judged(r)
      /\ result[r] # "none" => pc[r] = "end"
      /\ Now = dev
  BY StatusRoundTrip DEF Now, TruthInv, TypeInv, TypeOK, WriterInv
<1>1. /\ pc'[r] = pc[r] /\ result'[r] = result[r]
      /\ body'[r] = body[r]
  <2>1. /\ \E where : Goto(w, where)
        /\ (\E code : Answer(w, code)) \/ UNCHANGED result
        /\ (\E u : body' = [body EXCEPT ![w] = u]) \/ UNCHANGED body
    <3>1. CASE Check(w) \/ Apply(w) \/ Command(w)
      BY <3>1 DEF Check, Apply, Command, Starts, Rejects, Answer
    <3>2. CASE Writes(w)
      BY <3>2 DEF Writes, ReadBefore, Write, ReadFails, Answer
    <3>3. CASE ReadAfter(w) \/ Verify(w)
      BY <3>3 DEF ReadAfter, Verify, Answer
    <3> QED
      BY <3>1, <3>2, <3>3
  <2>2. pc'[r] = pc[r]
    BY <2>1 DEF Goto, TypeInv, TypeOK
  <2>3. result'[r] = result[r]
    BY <2>1 DEF Answer, TypeInv, TypeOK
  <2>4. body'[r] = body[r]
    BY <2>1 DEF TypeInv, WriterInv
  <2> QED
    BY <2>2, <2>3, <2>4
<1>2. CASE Check(w) \/ Apply(w) \/ Command(w)
  <2>1. UNCHANGED <<dev, late, before, after, logged, ghostVars>>
    BY <1>2 DEF Check, Apply, Command, Starts, Rejects
  <2>2. Differ(dev, dev') = {}
    BY <2>1 DEF Differ
  <2> QED
    BY <1>0, <1>1, <2>1, <2>2, OthersTrue DEF ghostVars
<1>3. CASE ReadBefore(w)
  <2>1. /\ UNCHANGED <<dev, after, logged, ghostVars>>
        /\ late' \in {late, NoStatus, dev'}
        /\ \E s : before' = [before EXCEPT ![w] = s]
    BY <1>0, <1>3, Reading DEF ReadBefore
  <2>2. Differ(dev, dev') = {} /\ before'[r] = before[r]
    BY <2>1 DEF Differ, TypeInv, WriterInv
  <2> QED
    BY <1>0, <1>1, <2>1, <2>2, OthersTrue DEF ghostVars
<1>4. CASE ReadAfter(w)
  <2>1. /\ UNCHANGED <<dev, before, ghostVars>>
        /\ late' \in {late, NoStatus, dev'}
        /\ \E s : after' = [after EXCEPT ![w] = s]
        /\ \E s : logged' = [logged EXCEPT ![w] = s]
    BY <1>0, <1>4, Reading DEF ReadAfter
  <2>2. /\ Differ(dev, dev') = {} /\ after'[r] = after[r]
        /\ logged'[r] = logged[r]
    BY <2>1 DEF Differ, TypeInv, TypeOK, WriterInv
  <2> QED
    BY <1>0, <1>1, <2>1, <2>2, OthersTrue DEF ghostVars
<1>5. CASE Verify(w)
  <2>1. /\ UNCHANGED <<dev, late, before, logged, ghostVars>>
        /\ \E s : after' = [after EXCEPT ![w] = s]
    BY <1>5 DEF Verify
  <2>2. Differ(dev, dev') = {} /\ after'[r] = after[r]
    BY <2>1 DEF Differ, TypeInv, WriterInv
  <2> QED
    BY <1>0, <1>1, <2>1, <2>2, OthersTrue DEF ghostVars
<1>6. CASE ReadFails(w)
  <2>1. /\ UNCHANGED <<dev, before, after, logged, ghostVars>>
        /\ late' \in {late, dev'}
    BY <1>0, <1>6 DEF ReadFails
  <2>2. Differ(dev, dev') = {}
    BY <2>1 DEF Differ
  <2> QED
    BY <1>0, <1>1, <2>1, <2>2, OthersTrue DEF ghostVars
<1>7. CASE Write(w)
  <2>1. /\ UNCHANGED <<before, after, logged>>
        /\ late' \in {late, NoStatus}
        /\ \E b : honoured' = [honoured EXCEPT ![w] = b]
        /\ \E b : exact' = [exact EXCEPT ![w] = b]
        /\ \E s : changed' = [changed EXCEPT ![w] = s]
        /\ Touches(Writers \ {w})
    BY <1>7 DEF Write, Drained
  <2>2. /\ honoured'[r] = honoured[r] /\ exact'[r] = exact[r]
        /\ changed'[r] = changed[r]
    BY <2>1 DEF TypeInv, TypeOK
  <2>3. touched'[r] = IF pc[r] = "settle"
                      THEN touched[r] \cup Differ(dev, dev') ELSE touched[r]
    BY <2>1 DEF Touches
  <2> QED
    BY <1>0, <1>1, <2>1, <2>2, <2>3, OthersTrue
<1> QED
  BY <1>2, <1>3, <1>4, <1>5, <1>6, <1>7 DEF Writes

\* What a step of r does to itself: it matters when it writes, and when it
\* has read again.
LEMMA StepOwn ==
  ASSUME TypeInv, TruthInv, NEW r \in Writers, [Next]_vars,
         \/ Check(r) \/ Apply(r) \/ Command(r) \/ Writes(r)
         \/ ReadAfter(r) \/ Verify(r)
  PROVE  Settled(r)' /\ Answered(r)' /\ Judged(r)'
<1>0. /\ Settled(r) /\ Now = dev /\ TypeOK /\ WriterInv
      /\ result[r] # "none" => pc[r] = "end"
  BY StatusRoundTrip DEF Now, TruthInv, TypeInv, TypeOK, WriterInv
<1>1. ASSUME pc'[r] # "settle", result'[r] \notin {"ok", "unmet"}
      PROVE  Settled(r)' /\ Answered(r)' /\ Judged(r)'
  BY <1>1 DEF Settled, Answered, Judged
<1>2. CASE Check(r) \/ Apply(r) \/ Command(r)
  <2>1. \/ \E u : Starts(r, u)
        \/ \E code \in {"refused", "bad"} : Rejects(r, code)
    BY <1>2 DEF Check, Apply, Command
  <2>2. pc[r] = "new"
    BY <1>2 DEF Check, Apply, Command, Free
  <2>3. pc'[r] # "settle" /\ result'[r] \notin {"ok", "unmet"}
    BY <1>0, <2>1, <2>2 DEF Starts, Rejects, Answer, Goto, TypeOK
  <2> QED
    BY <1>1, <2>3
<1>3. CASE ReadBefore(r) \/ ReadFails(r)
  <2>1. pc'[r] # "settle" /\ result'[r] \notin {"ok", "unmet"}
    BY <1>0, <1>3 DEF ReadBefore, ReadFails, Answer, Goto, TypeOK
  <2> QED
    BY <1>1, <2>1
<1>4. CASE ReadAfter(r)
  <2>1. PICK s \in Readings(r) :
           /\ after' = [after EXCEPT ![r] = s]
           /\ logged' = [logged EXCEPT
                            ![r] = StateDiff(before[r], s, body[r])]
    BY <1>4 DEF ReadAfter
  <2>2. /\ pc[r] = "settle" /\ r \in Posts /\ r \notin Commands
        /\ pc'[r] = "end" /\ UNCHANGED <<body, ghostVars>>
        /\ after'[r] = s
        /\ logged'[r] = StateDiff(before[r], s, body[r])
        /\ DOMAIN body[r] \subseteq Attrs
    BY <1>0, <1>4, <2>1, ApiSetAssumption
       DEF ReadAfter, Answer, Goto, TypeOK, WriterInv, Asked, ApiSetAssumption
  <2>3. ASSUME NEW a \in Attrs \ touched[r] PROVE s[a] = dev[a]
    BY <1>0, <2>1, <2>2 DEF Readings, Settled
  <2>4. ASSUME NEW a \in DOMAIN body[r] \ touched[r], honoured[r]
        PROVE  s[a] = body[r][a].n
    BY <1>0, <2>2, <2>3, <2>4 DEF Settled
  <2>5. ASSUME exact[r], touched[r] = {}
        PROVE  StateDiff(before[r], s, body[r])
                  = changed[r] \cap DOMAIN body[r]
    <3>1. ASSUME NEW a \in DOMAIN body[r]
          PROVE  a \in changed[r] <=> before[r][a] # s[a]
      BY <1>0, <2>2, <2>3, <2>5 DEF Settled
    <3> QED
      BY <2>2, <3>1 DEF StateDiff, Differ
  <2>6. Answered(r)'
    BY <2>2, <2>4, <2>5 DEF Answered, ghostVars
  <2> QED
    BY <2>2, <2>6 DEF Settled, Judged
<1>5. CASE Verify(r)
  <2>1. /\ pc[r] = "settle" /\ r \in Commands /\ r \notin Posts
        /\ pc'[r] = "end" /\ UNCHANGED <<body, before, ghostVars>>
        /\ result'[r] = IF \A a \in DOMAIN body[r] :
                             Got(a, Now[a]) = Normalize(a, body[r][a].n)
                        THEN "ok" ELSE "unmet"
        /\ Asked(body[r])
    BY <1>0, <1>5, ApiSetAssumption
       DEF Verify, Answer, Goto, TypeOK, WriterInv, ApiSetAssumption
  <2>2. ASSUME NEW a \in DOMAIN body[r]
        PROVE  Got(a, Now[a]) = Normalize(a, body[r][a].n)
                  <=> dev[a] = body[r][a].n
    BY <1>0, <2>1, SamePrinted, StatusWidths DEF Asked, TypeOK
  <2>3. result'[r] = "ok" <=> \A a \in DOMAIN body[r] : dev[a] = body[r][a].n
    BY <2>1, <2>2
  <2>4. ASSUME DOMAIN body[r] \cap touched[r] = {}
        PROVE  \A a \in DOMAIN body[r] : a \in Attrs \ touched[r]
    BY <2>1, <2>4 DEF Asked
  <2>5. Judged(r)'
    BY <1>0, <2>1, <2>3, <2>4 DEF Judged, Settled, ghostVars
  <2> QED
    BY <2>1, <2>5 DEF Settled, Answered
<1>6. CASE Write(r)
  <2>1. PICK takes \in BOOLEAN :
           /\ dev' = IF takes
                     THEN Applied(EncodeControl(body[r], before[r]), dev,
                                  takesAll)
                     ELSE dev
           /\ honoured' = [honoured EXCEPT ![r] = takes]
    BY <1>6 DEF Write
  <2>2. /\ Asked(body[r]) /\ IsStatus(before[r])
        /\ takesAll \in BOOLEAN /\ pc[r] = "write"
        /\ UNCHANGED <<body, before>>
    BY <1>0, <1>6 DEF Write, WriterInv, TypeOK
  <2>3. honoured'[r] <=> takes
    BY <1>0, <2>1 DEF TypeOK
  <2>4. exact'[r] <=> before[r] = dev
    BY <1>0, <1>6 DEF Write, TypeOK
  <2>5. changed'[r] = Differ(dev, dev')
    BY <1>0, <1>6 DEF Write, TypeOK
  <2>6. CASE pc'[r] = "settle"
    <3>1. result'[r] \notin {"ok", "unmet"}
      BY <1>0, <1>6, <2>2, <2>6 DEF Write, Answer, Goto, TypeOK
    <3>2. r \in Posts => late' = NoStatus
      BY <1>0, <1>6, <2>6, ApiSetAssumption
         DEF Write, Answer, Goto, Drained, TypeOK, ApiSetAssumption
    <3>3. ASSUME NEW a \in DOMAIN body[r], takes
          PROVE  dev'[a] = body[r][a].n
      <4>1. a \in Attrs
        BY <2>2 DEF Asked
      <4> QED
        BY <2>1, <2>2, <3>3, <4>1, WriteRoundTrip
    <3>4. Settled(r)'
      BY <2>1, <2>2, <2>3, <2>4, <2>5, <3>2, <3>3 DEF Settled, Differ
    <3> QED
      BY <3>1, <3>4 DEF Answered, Judged
  <2>7. CASE pc'[r] # "settle"
    <3>1. result'[r] = "down" \/ r \in Edges
      BY <1>0, <1>6, <2>7 DEF Write, Answer, Goto, TypeOK
    <3>2. r \in Edges => r \notin Posts \cup Commands
      BY ApiSetAssumption DEF ApiSetAssumption
    <3> QED
      BY <2>7, <3>1, <3>2 DEF Settled, Answered, Judged
  <2> QED
    BY <2>6, <2>7
<1> QED
  BY <1>2, <1>3, <1>4, <1>5, <1>6 DEF Writes

LEMMA InitTruthInv == Init => TruthInv
BY DEF Init, TruthInv, Settled, Answered, Judged

LEMMA StepTruthInv == TypeInv /\ TruthInv /\ [Next]_vars => TruthInv'
<1> SUFFICES ASSUME TypeInv, TruthInv, [Next]_vars,
                    NEW r \in Writers
             PROVE  Settled(r)' /\ Answered(r)' /\ Judged(r)'
  BY DEF TruthInv
<1>0. /\ Settled(r) /\ Answered(r) /\ Judged(r)
      /\ result[r] # "none" => pc[r] = "end"
  BY DEF TruthInv, TypeInv, WriterInv
<1>1. ASSUME NEW w \in Writers,
             \/ Check(w) \/ Apply(w) \/ Command(w) \/ Writes(w)
             \/ ReadAfter(w) \/ Verify(w)
      PROVE  Settled(r)' /\ Answered(r)' /\ Judged(r)'
  <2>1. CASE r = w
    BY <1>1, <2>1, StepOwn
  <2>2. CASE r # w
    BY <1>1, <2>2, StepOthers
  <2> QED
    BY <2>1, <2>2
<1>2. CASE UsePanel
  <2>1. UNCHANGED <<late, requestVars, honoured, exact, changed>>
    BY <1>2 DEF UsePanel
  <2>2. touched'[r] = IF pc[r] = "settle"
                      THEN touched[r] \cup Differ(dev, dev') ELSE touched[r]
    BY <1>2 DEF UsePanel, Touches
  <2> QED
    BY <1>0, <2>1, <2>2, OthersTrue DEF requestVars
<1>3. CASE UNCHANGED vars
  <2>1. UNCHANGED <<dev, late, requestVars, ghostVars>>
    BY <1>3 DEF vars
  <2>2. Differ(dev, dev') = {}
    BY <2>1 DEF Differ
  <2> QED
    BY <1>0, <2>1, <2>2, OthersTrue DEF requestVars, ghostVars
<1> QED
  BY <1>1, <1>2, <1>3 DEF Next, HandleSet, RunSet, Writers

LEMMA TruthInvariance == Spec => []TruthInv
<1> USE InitTruthInv, StepTruthInv, TypeInvariance
<1> QED
  BY PTL DEF Spec

\* A request that succeeds answers with the values it asked for, whatever
\* the tub's state, the requests and the number of other writers: an answer
\* that came late for a Read before its write has been drained
\* (handleSet, server.go:340-343; Read, client.go).
THEOREM AnswersShowTheWrite == Spec => []AnswerShowsWrite
<1>1. TruthInv => AnswerShowsWrite
  BY DEF TruthInv, Answered, AnswerShowsWrite, Writers
<1> QED
  BY <1>1, TruthInvariance, PTL

\* What a request logs as changed is what its write changed of what it asked
\* for (stateDiff, server.go), for every set of attributes it may ask for.
THEOREM AuditIsTrue == Spec => []LogIsTrue
<1>1. TruthInv => LogIsTrue
  BY DEF TruthInv, Answered, LogIsTrue, Writers
<1> QED
  BY <1>1, TruthInvariance, PTL

\* The command's exit status tells whether the tub is as asked, for every
\* attribute and value (runSet and normalize, set.go:59-75, 118-119).
THEOREM VerdictsAreTrue == Spec => []VerdictIsTrue
<1>1. TruthInv => VerdictIsTrue
  BY DEF TruthInv, Judged, VerdictIsTrue, Writers
<1> QED
  BY <1>1, TruthInvariance, PTL

=============================================================================
