-------------------------------- MODULE Frame --------------------------------
(***************************************************************************)
(* internal/tub/frame.go: a frame is a preamble, the length of the body in *)
(* one byte or two, and the body: a flag, a command and a payload.         *)
(* ParseFrames takes the complete frames from the front of what was read.  *)
(***************************************************************************)
EXTENDS Integers, Sequences

Byte == 0 .. 255

\* A command is a uint16, and a frame a command with a payload.
Commands == {n \in Nat : n < 65536}
FrameSet == [cmd : Commands, payload : Seq(Byte)]

Preamble == <<0, 0, 0, 3>>
BE16(n) == <<(n \div 256) % 256, n % 256>>

\* byte() keeps the low eight bits, and 0x80 is set by an or.
LengthBytes(n) ==
    IF n < 128 THEN <<n>> ELSE <<128 + ((n \div 256) % 128), n % 256>>

EncodeFrame(cmd, payload) ==
    Preamble \o LengthBytes(3 + Len(payload)) \o <<0>> \o BE16(cmd) \o payload

-----------------------------------------------------------------------------
(* A frame that may begin behind the first off bytes of buf.               *)

Begins(buf, off) == SubSeq(buf, off + 1, off + 4) = Preamble
HeaderLen(buf, off) == IF buf[off + 5] >= 128 THEN 2 ELSE 1
BodyLen(buf, off) ==
    IF buf[off + 5] >= 128 THEN (buf[off + 5] - 128) * 256 + buf[off + 6]
    ELSE buf[off + 5]
FrameEnd(buf, off) == off + 4 + HeaderLen(buf, off) + BodyLen(buf, off)
FrameAt(buf, off) ==
    LET body == off + 4 + HeaderLen(buf, off) IN
    [cmd |-> buf[body + 2] * 256 + buf[body + 3],
     payload |-> SubSeq(buf, body + 4, FrameEnd(buf, off))]

Parsed(frames, rest, err) == [frames |-> frames, rest |-> rest, err |-> err]

\* What ParseFrames returns from offset off on.  A body too short for a
\* command is an error, for which the frames before it are dropped too.
ParseFrames(buf) ==
    LET from[off \in 0 .. Len(buf)] ==
          IF off + 6 > Len(buf)
          THEN Parsed(<< >>, SubSeq(buf, off + 1, Len(buf)), FALSE)
          ELSE IF ~Begins(buf, off) THEN from[off + 1]
          ELSE IF FrameEnd(buf, off) > Len(buf)
          THEN Parsed(<< >>, SubSeq(buf, off + 1, Len(buf)), FALSE)
          ELSE IF BodyLen(buf, off) < 3 THEN Parsed(<< >>, << >>, TRUE)
          ELSE LET more == from[FrameEnd(buf, off)] IN
               IF more.err THEN more
               ELSE [more EXCEPT !.frames = <<FrameAt(buf, off)>> \o @]
    IN from[0]
=============================================================================
