---------------------------- MODULE MCFrameStream ----------------------------
(* FrameStream for TLC: up to three short messages, or two long ones whose  *)
(* body lengths are on either side of the second length byte.              *)
EXTENDS FrameStream

Payload(n) == [i \in 1 .. n |-> (7 * i) % 256]

\* A heartbeat answer, a report, a body one byte too short, and noise.
Pong == Framed(22, << >>)
Report == Framed(145, <<3, 0, 9>>)
Runt == Raw(Preamble \o <<2, 0, 0>>)
Empty == Raw(Preamble \o <<0>>)
Noise == Raw(<<9, 0>>)

Short == {Pong, Report, Runt, Empty, Noise}
Long == {Framed(145, Payload(n)) : n \in {124, 125, 253, 254}}

ShortStreams == UNION {[1 .. n -> Short] : n \in 1 .. 3}
LongStreams == {<<l, s>> : l \in Long, s \in Short} \cup Long \X Long
AllStreams == ShortStreams \cup LongStreams
=============================================================================
