------------------------------- MODULE Control -------------------------------
(***************************************************************************)
(* internal/tub/encode.go and status.go: the attributes of the tub, which  *)
(* updates are accepted, the payload that writes them (EncodeControl), and *)
(* the one that reports them (ParseStatus).                                *)
(*                                                                         *)
(* An attribute is a number, 0 or 1 for a switch; a JSON value is a number *)
(* with its type.  DevStatus and Applied are the tub's side of both.       *)
(***************************************************************************)
EXTENDS Integers, Sequences, FiniteSets

\* The table Writable: ids 0 .. 13 in order, a bit for each of the first 7.
Writable == <<"power", "heat_power", "filter_power", "wave_power", "locked",
              "earth", "temp_set_unit", "temp_set", "heat_appm_min",
              "heat_timer_min", "filter_appm_min", "filter_timer_min",
              "wave_appm_min", "wave_timer_min">>
Attrs == {Writable[i] : i \in 1 .. 14}
IdOf(a) == CHOOSE i \in 0 .. 13 : Writable[i + 1] = a
Switches == {a \in Attrs : IdOf(a) <= 6}
Kind(a) == IF a \in Switches THEN "bool"
           ELSE IF a = "temp_set" THEN "uint8" ELSE "uint16"
Largest(kind) == CASE kind = "bool"   -> 1
                   [] kind = "uint8"  -> 255
                   [] kind = "uint16" -> 65535

ValuesOf(a) == 0 .. Largest(Kind(a))
IsStatus(s) == s \in [Attrs -> Nat] /\ \A a \in Attrs : s[a] \in ValuesOf(a)

-----------------------------------------------------------------------------
(* ValidateUpdates.  A fraction and a text are values no attribute takes.  *)

Num(n) == [type |-> "number", n |-> n]
Bool(n) == [type |-> "bool", n |-> n]
Fraction(n) == [type |-> "fraction", n |-> n]  \* its whole part
Text == [type |-> "text", n |-> 0]
Yes == [type |-> "text", n |-> 1]  \* true, on or yes

Accepts(a, v) ==
    \/ v.type = "number" /\ v.n \in ValuesOf(a)
    \/ v.type = "bool" /\ Kind(a) = "bool"

ValidateUpdates(u) == \A a \in DOMAIN u : a \in Attrs /\ Accepts(a, u[a])

-----------------------------------------------------------------------------
(* Bytes.                                                                  *)

High(n) == (n \div 256) % 256
Low(n) == n % 256
Word(p, i) == p[i] * 256 + p[i + 1]
Weight == <<1, 2, 4, 8, 16, 32, 64, 128, 256, 512, 1024, 2048, 4096, 8192>>
BitSet(byte, b) == (byte \div Weight[b + 1]) % 2 = 1
MaskedBit(byte, b) == IF BitSet(byte, b) THEN Weight[b + 1] ELSE 0  \* variant
Bit(byte, b) == IF BitSet(byte, b) THEN 1 ELSE 0
Bits(S) ==
    LET w(b) == IF b \in S THEN Weight[b + 1] ELSE 0 IN
    w(0) + w(1) + w(2) + w(3) + w(4) + w(5) + w(6)
      + w(7) + w(8) + w(9) + w(10) + w(11) + w(12) + w(13)

\* EncodeControl: the flags of the updated attributes, big-endian, and a
\* value for every attribute, the current one where there is no update.
\* Values wrap to the width of their attribute.
Flags(u) == Bits({IdOf(a) : a \in DOMAIN u})
LittleEndian(u) == <<Flags(u) % 256, Flags(u) \div 256>>  \* variant
AttrFlags(u) == <<High(Flags(u)), Low(Flags(u))>>
Value(u, current, a) == IF a \in DOMAIN u THEN u[a].n ELSE current[a]

EncodeControl(u, current) ==
    LET val(i) == Value(u, current, Writable[i + 1])
        hi(i) == High(val(i))
        lo(i) == Low(val(i))
    IN <<1, AttrFlags(u)[1], AttrFlags(u)[2],
         Bits({b \in 0 .. 6 : val(b) # 0}), val(7) % 256,
         hi(8), lo(8), hi(9), lo(9), hi(10), lo(10),
         hi(11), lo(11), hi(12), lo(12), hi(13), lo(13)>>

\* The tub: it takes the flagged attributes, or all of them whatever the
\* flags say, as encode.go:119-120 expects of some firmware.
Values(p) ==
    [a \in Attrs |->
        LET i == IdOf(a) IN
        IF i <= 6 THEN (p[4] \div Weight[i + 1]) % 2
        ELSE IF i = 7 THEN p[5]
        ELSE Word(p, 6 + 2 * (i - 8))]
Applied(p, dev, takesAll) ==
    [a \in Attrs |-> IF takesAll \/ BitSet(Word(p, 2), IdOf(a))
                     THEN Values(p)[a] ELSE dev[a]]

-----------------------------------------------------------------------------
(* A status payload, 3 for an answer and 4 for a report, and ParseStatus,  *)
(* without the attributes that cannot be written.                          *)

DevStatus(magic, dev) ==
    LET hi(i) == High(dev[Writable[i + 1]])
        lo(i) == Low(dev[Writable[i + 1]])
    IN <<magic, Bits({b \in 0 .. 6 : dev[Writable[b + 1]] = 1}),
         dev["temp_set"],
         hi(8), lo(8), hi(9), lo(9), hi(10), lo(10),
         hi(11), lo(11), hi(12), lo(12), hi(13), lo(13), 30, 0, 0>>

ParseStatus(p) ==
    [a \in Attrs |->
        LET i == IdOf(a) IN
        IF i <= 6 THEN Bit(p[2], i)
        ELSE IF i = 7 THEN p[3]
        ELSE Word(p, 4 + 2 * (i - 8))]
=============================================================================
