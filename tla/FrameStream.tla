----------------------------- MODULE FrameStream -----------------------------
(***************************************************************************)
(* The receiving side of readLoop in internal/tub/client.go: TCP hands     *)
(* over the tub's byte stream in pieces of any size, and the loop keeps    *)
(* what ParseFrames leaves over for the next piece.                        *)
(*                                                                         *)
(* TubSession and TubExchange let a reader take any number of whole frames *)
(* from an ordered link; this module is why they may.                      *)
(***************************************************************************)
EXTENDS Frame, SequencesExt, FiniteSetsExt

CONSTANTS
    Streams,  \* what the tub may send: sequences of messages
    Pieces    \* the sizes conn.Read may return

\* A message is its bytes, and the frame they stand for, if they are one.
Framed(cmd, payload) ==
    [bytes |-> EncodeFrame(cmd, payload),
     frames |-> <<[cmd |-> cmd, payload |-> payload]>>]
Raw(bytes) == [bytes |-> bytes, frames |-> << >>]
Message == [bytes : Seq(Byte), frames : Seq(FrameSet)]

ASSUME MessagesAssumption == Streams \subseteq Seq(Message)
ASSUME PiecesAssumption == Pieces \subseteq Nat

VARIABLES
    sent,   \* the messages of this stream
    taken,  \* how many of its bytes were read
    buf,    \* buf of readLoop
    got,    \* the frames that were dispatched
    since,  \* how many had been read at the last parse error
    kept    \* the frames that had been dispatched by then

vars == <<sent, taken, buf, got, since, kept>>

Bytes(msgs) == FlattenSeq([i \in 1 .. Len(msgs) |-> msgs[i].bytes])
Frames(msgs) == FlattenSeq([i \in 1 .. Len(msgs) |-> msgs[i].frames])
BytesUpTo(n) == Len(Bytes(SubSeq(sent, 1, n)))
\* How many messages have begun, and how many have ended, within t bytes.
Begun(t) == Min({n \in 0 .. Len(sent) : BytesUpTo(n) >= t})
Whole(t) == Max({n \in 0 .. Len(sent) : BytesUpTo(n) <= t})

Init ==
    /\ sent \in Streams /\ taken = 0
    /\ buf = << >> /\ got = << >>
    /\ since = 0 /\ kept = << >>

\* Variants: nothing, or everything, is kept of what was parsed; and after
\* an error the bytes that caused it stay.
DropRest(all, p) == << >>
KeepAll(all, p) == all
KeepOnError(all, p) == IF p.err THEN all ELSE p.rest
Leftover(all, p) == p.rest

Read(k) ==
    /\ taken + k <= Len(Bytes(sent))
    /\ taken' = taken + k
    /\ LET all == buf \o SubSeq(Bytes(sent), taken + 1, taken + k)
           p == ParseFrames(all)
       IN /\ buf' = Leftover(all, p)
          /\ got' = got \o p.frames
          /\ since' = IF p.err THEN taken + k ELSE since
          /\ kept' = IF p.err THEN got ELSE kept
    /\ UNCHANGED sent

Next == \E k \in Pieces : Read(k)
Spec == Init /\ [][Next]_vars

-----------------------------------------------------------------------------
(* Properties.                                                             *)

\* What is kept between reads are bytes, fewer than a whole message: however
\* long the stream and whatever was lost in it, the buffer does not grow.
TypeOK ==
    /\ sent \in Streams /\ taken \in 0 .. Len(Bytes(sent))
    /\ \A i \in 1 .. Len(buf) : buf[i] \in Byte
    /\ Len(buf) < Max({8} \cup {Len(sent[i].bytes) : i \in 1 .. Len(sent)})
    /\ since \in 0 .. taken
    /\ IsPrefix(kept, got)

\* In whatever pieces the stream arrives, every frame that has wholly
\* arrived was dispatched at once, once and in order; after a parse error
\* this holds again for all that began to arrive later.
DispatchedInOrder ==
    got = kept \o Frames(SubSeq(sent, Begun(since) + 1, Whole(taken)))

\* Not even after an error, when the tail of a frame arrives without its
\* head, is a frame dispatched that was not sent, or one twice.
NothingInvented ==
    LET all == Frames(sent) IN
    \E at \in [1 .. Len(got) -> 1 .. Len(all)] :
        /\ \A i \in 1 .. Len(got) : got[i] = all[at[i]]
        /\ \A i, j \in 1 .. Len(got) : i < j => at[i] < at[j]
=============================================================================
