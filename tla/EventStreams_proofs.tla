------------------------- MODULE EventStreams_proofs -------------------------
(***************************************************************************)
(* Proofs about EventStreams, for any finite number of streams, any number *)
(* of sessions and any buffer.                                             *)
(*                                                                         *)
(* The registry of subscribers has three writers: a stream's own cancel, a *)
(* disconnect of any session, and Subscribe; what keeps them apart is      *)
(* subMu, so the invariants say what a broadcast that holds it may rely    *)
(* on.                                                                     *)
(***************************************************************************)
EXTENDS EventStreams, FiniteSetTheorems, SequenceTheorems, TLAPS

\* What a broadcast knows while it holds subMu: it is the only one, what it
\* has to serve is registered, and there is a status to serve.
Casting == {"offer", "evict", "push"}
CastInv ==
    /\ \A n \in Sessions : reader[n] \in Casting <=> subMu = n
    /\ \A n \in Sessions : reader[n] \in Casting \cup {"took"}
                              => news[n] \in Statuses
    /\ \A n \in Sessions : reader[n] \in {"evict", "push"} => slow \in subs
    /\ \A n \in Sessions : reader[n] = "offer" => slow = Nobody
    /\ subMu = Nil => todo = {} /\ slow = Nobody
    /\ todo \subseteq subs
    /\ \A n \in Sessions : n > dialled => reader[n] = "none"

\* A channel is registered from Subscribe on until it is closed, by whomever.
Subscribed == {"snapshot", "snapWait", "loop", "blocked", "refresh",
               "refWait", "cancel"}
SubsInv ==
    /\ \A r \in Streams : r \in subs <=> open[r] = "open"
    /\ \A r \in Streams : open[r] = "open" => pc[r] \in Subscribed
    /\ \A r \in Streams : pc[r] \in Subscribed => open[r] # "no"
    /\ ~panicked

\* The requests inside handleEvents, and those past its test of the cap.
InHandler == {r \in Streams : pc[r] \notin {"new", "end"}}
PastCap == {r \in Streams : pc[r] \notin {"new", "refused", "end"}}

\* A stream that holds connectMu is in Connect.
DialInv == \A r \in Streams : dialler = r => pc[r] = "dial"

\* What the clients are shown.  A channel is empty and nothing was sent
\* before the stream has subscribed; a Read holds opMu; and the channel found
\* full has room when the reader comes back to it.
Took == \E n \in Sessions : reader[n] = "took"
InRead == {"snapWait", "refWait"}
Live == Subscribed \ {"cancel"}
RoomInv ==
    /\ \A r \in Streams :
          /\ pc[r] \notin Subscribed => chan[r] = << >>
          /\ pc[r] \notin Subscribed \ {"snapshot", "snapWait"} => sent[r] = Nil
          /\ pc[r] \in InRead => opMu = r
    /\ \A n \in Sessions : reader[n] = "push" => Len(chan[slow]) < Buffer

\* Whoever is not about to be sent a status shows the one broadcast last, or
\* the one of the broadcast under way; and the answer of a snapshot has been
\* broadcast to its stream, or is going to be.
Latest == IF subMu = Nil THEN lastNews ELSE news[subMu]
Coming(r) == Took \/ r \in todo \cup {slow}
News(r) ==
    /\ pc[r] \in Live /\ r \notin gone
          => Coming(r) \/ Newest(r) \in {Nil, Latest}
    /\ pc[r] = "snapWait" /\ mail # Nil => Coming(r) \/ chan[r] # << >>
NewsInv == \A r \in Streams : open[r] = "open" => News(r)

\* A hung write, and the steps of others than readers and handlers.
Pings(r) == PingBlocks(r) \/ WriteFails(r)
Outside ==
    \/ OtherLocks \/ OtherEnds
    \/ \E r \in Streams : ClientLeaves(r) \/ ClientReads(r)

StreamInv == TypeOK /\ CastInv /\ SubsInv /\ DialInv /\ SlotsAreExact

-----------------------------------------------------------------------------
(* Types and slots.                                                        *)

\* What the clients and the other callers can do.
LEMMA OutsideEffect ==
  ASSUME TypeOK, Outside
  PROVE  /\ UNCHANGED <<connVars, dead, castVars, chanVars, sseCount, others,
                        sent>>
         /\ mail' \in {mail, Nil} /\ gone \subseteq gone'
         /\ opMu' = opMu \/ opMu \in {Nobody, Other}
         /\ \A r \in Streams : \/ pc'[r] = pc[r]
                               \/ pc[r] = "blocked" /\ pc'[r] = "loop"
<1> USE DEF pageVars
<1>1. CASE OtherLocks \/ OtherEnds
  BY <1>1 DEF OtherLocks, OtherEnds
<1>2. CASE \E x \in Streams : ClientLeaves(x) \/ ClientReads(x)
  BY <1>2 DEF ClientLeaves, ClientReads, Goto, TypeOK, readVars
<1> QED
  BY <1>1, <1>2 DEF Outside

LEMMA PcSets ==
  ASSUME TypeOK
  PROVE  /\ IsFiniteSet(InHandler) /\ Cardinality(InHandler) \in Nat
         /\ IsFiniteSet(PastCap) /\ Cardinality(PastCap) \in Nat
         /\ Cardinality(PastCap) <= Cardinality(InHandler)
<1>1. InHandler \subseteq Streams /\ PastCap \subseteq InHandler
  BY DEF InHandler, PastCap
<1>2. IsFiniteSet(InHandler) /\ IsFiniteSet(PastCap)
  BY <1>1, StreamsAssumption, FS_Subset DEF StreamsAssumption
<1> QED
  BY <1>1, <1>2, FS_Subset, FS_CardinalityType

\* What a step does to the counter and to the places that it counts.
Counted == {"connect", "dial", "release", "subscribe"} \cup Subscribed
LEMMA PcEffect ==
  ASSUME TypeOK, DialInv, [Next]_vars
  PROVE  /\ others' = others
         /\ \/ /\ sseCount' = sseCount
               /\ \A r \in Streams : \/ pc'[r] = pc[r]
                                     \/ pc[r] \in Counted /\ pc'[r] \in Counted
            \/ \E r \in Streams :
                  /\ pc[r] = "new" /\ sseCount' = sseCount + 1
                  /\ pc' = [pc EXCEPT ![r] = IF sseCount' > MaxStreams
                                             THEN "refused" ELSE "connect"]
            \/ \E r \in Streams :
                  /\ pc[r] \in {"refused", "release"}
                  /\ sseCount' = sseCount - 1
                  /\ pc' = [pc EXCEPT ![r] = "end"]
<1> DEFINE Moves == /\ UNCHANGED <<sseCount, others>>
                    /\ \A r \in Streams :
                          \/ pc'[r] = pc[r]
                          \/ pc[r] \in Counted /\ pc'[r] \in Counted
<1>1. ASSUME NEW r \in Streams, NEW w \in Counted, Goto(r, w),
             pc[r] \in Counted, UNCHANGED <<sseCount, others>>
      PROVE  Moves
  BY <1>1 DEF Goto, TypeOK
<1> USE DEF pageVars
<1>2. CASE Dial
  BY <1>1, <1>2 DEF Dial, Counted
<1>3. CASE Login
  BY <1>3 DEF Login, LoginOk, LoginFails, ConnectReturns, DialInv, Counted
<1>4. ASSUME NEW n \in Sessions, Reader(n) PROVE Moves
  BY <1>4 DEF Reader, Dispatch, Broadcast, Cast, Offer, Evict, Push,
              BroadcastEnds, Disconnect, DropSubscribers
<1>5. ASSUME NEW r \in Streams, Serve(r), ~Enter(r), ~Release(r) PROVE Moves
  <2>1. CASE AlreadyConnected(r) \/ DialFails(r) \/ Subscribe(r)
    BY <1>1, <2>1 DEF AlreadyConnected, DialFails, Subscribe, Counted,
                      Subscribed
  <2>2. CASE Read(r)
    BY <1>1, <2>2 DEF Read, ReadLock, Waiting, ReadRefused, SnapshotSent,
                      SendState, ReadEnds, Counted, Subscribed
  <2>3. CASE Refresh(r) \/ Receive(r) \/ Pings(r) \/ Leave(r) \/ Cancel(r)
    BY <1>1, <2>3 DEF Refresh, Pings, PingBlocks, WriteFails, Receive,
                      SendState, Leave, Cancel, Counted, Subscribed
  <2> QED
    BY <1>5, <2>1, <2>2, <2>3 DEF Serve, Pings
<1>6. CASE Outside
  BY <1>6, OutsideEffect DEF Counted, Subscribed
<1>7. CASE UNCHANGED vars
  BY <1>7 DEF vars
<1>8. ASSUME NEW r \in Streams, Enter(r)
      PROVE  /\ others' = others
             /\ pc[r] = "new" /\ sseCount' = sseCount + 1
             /\ pc' = [pc EXCEPT ![r] = IF sseCount' > MaxStreams
                                        THEN "refused" ELSE "connect"]
  BY <1>8 DEF Enter, Goto
<1>9. ASSUME NEW r \in Streams, Release(r)
      PROVE  /\ others' = others
             /\ pc[r] \in {"refused", "release"} /\ sseCount' = sseCount - 1
             /\ pc' = [pc EXCEPT ![r] = "end"]
  BY <1>9 DEF Release, GiveBack, Goto
<1> QED
  BY <1>2, <1>3, <1>4, <1>5, <1>6, <1>7, <1>8, <1>9 DEF Next, Outside

LEMMA StepDialInv == TypeOK /\ DialInv /\ [Next]_vars => DialInv'
<1> SUFFICES ASSUME TypeOK, DialInv, [Next]_vars,
                    NEW r \in Streams, dialler' = r
             PROVE  pc'[r] = "dial"
  BY DEF DialInv
<1>1. CASE Dial
  BY <1>1, StreamsAssumption DEF Dial, Goto, TypeOK, StreamsAssumption
<1>2. CASE Login
  BY <1>2, StreamsAssumption
     DEF Login, LoginOk, LoginFails, ConnectReturns, StreamsAssumption
<1>3. CASE ~Dial /\ ~Login
  <2>1. dialler' = dialler
    BY <1>3 DEF Next, Reader, Dispatch, Broadcast, Cast, Offer, Evict, Push,
                BroadcastEnds, Disconnect, DropSubscribers, Serve, Enter,
                AlreadyConnected, DialFails, Subscribe, Read, ReadLock,
                ReadRefused, SnapshotSent, ReadEnds, Refresh, Pings,
                PingBlocks, WriteFails, Receive, Leave, Cancel, Release,
                Outside, ClientLeaves, ClientReads, OtherLocks, OtherEnds,
                vars, connVars
  <2>2. pc[r] = "dial"
    BY <2>1 DEF DialInv
  <2>3. ASSUME NEW x \in Streams, NEW w, Goto(x, w), pc[x] # "dial"
        PROVE  pc'[r] = "dial"
    BY <2>2, <2>3 DEF Goto, TypeOK
  <2>4. CASE \E n \in Sessions : Reader(n)
    BY <2>2, <2>4 DEF Reader, Dispatch, Broadcast, Cast, Offer, Evict, Push,
              BroadcastEnds, Disconnect, DropSubscribers
  <2>5. ASSUME NEW x \in Streams, Serve(x) PROVE pc'[r] = "dial"
    BY <2>3, <2>5 DEF Serve, Enter, AlreadyConnected, DialFails, Subscribe,
                      Read, ReadLock, ReadRefused, SnapshotSent, SendState,
                      ReadEnds, Refresh, Pings, PingBlocks, WriteFails,
                      Receive, Leave, Cancel, Release
  <2>6. CASE UNCHANGED vars \/ Outside
    BY <2>2, <2>6, OutsideEffect DEF vars
  <2> QED
    BY <1>3, <2>4, <2>5, <2>6 DEF Next, Outside
<1> QED
  BY <1>1, <1>2, <1>3

\* Each slot is taken and given back once.
LEMMA StepSlots ==
  TypeOK /\ DialInv /\ SlotsAreExact /\ [Next]_vars
    => SlotsAreExact' /\ sseCount' \in Nat
<1> SUFFICES ASSUME TypeOK, DialInv, SlotsAreExact, [Next]_vars
             PROVE  SlotsAreExact' /\ sseCount' \in Nat
  OBVIOUS
<1> DEFINE nIn == Cardinality(InHandler)
           nPast == Cardinality(PastCap)
<1>1. /\ sseCount \in Nat /\ others \in Nat /\ MaxStreams \in Nat
      /\ sseCount = others + nIn /\ others + nPast <= MaxStreams
  BY StreamsAssumption DEF StreamsAssumption, TypeOK, SlotsAreExact,
                           InHandler, PastCap
<1>2. /\ IsFiniteSet(InHandler) /\ nIn \in Nat
      /\ IsFiniteSet(PastCap) /\ nPast \in Nat /\ nPast <= nIn
  BY PcSets
<1>3. ASSUME NEW k \in Nat, NEW j \in Nat,
             Cardinality(InHandler') = k, Cardinality(PastCap') = j,
             sseCount' = others + k, others + j <= MaxStreams,
             others' = others
      PROVE  SlotsAreExact' /\ sseCount' \in Nat
  BY <1>1, <1>3 DEF SlotsAreExact, InHandler, PastCap
<1>4. CASE /\ UNCHANGED <<sseCount, others>>
           /\ \A r \in Streams : \/ pc'[r] = pc[r]
                                 \/ pc[r] \in Counted /\ pc'[r] \in Counted
  <2>1. InHandler' = InHandler /\ PastCap' = PastCap
    BY <1>4 DEF InHandler, PastCap, Counted, Subscribed
  <2> QED
    BY <1>1, <1>2, <1>3, <1>4, <2>1
<1>5. ASSUME NEW r \in Streams, pc[r] = "new", sseCount' = sseCount + 1,
             others' = others,
             pc' = [pc EXCEPT ![r] = IF sseCount' > MaxStreams
                                     THEN "refused" ELSE "connect"]
      PROVE  SlotsAreExact' /\ sseCount' \in Nat
  <2>1. /\ InHandler' = InHandler \cup {r} /\ r \notin InHandler
        /\ r \notin PastCap
    BY <1>5 DEF InHandler, PastCap, TypeOK
  <2>2. Cardinality(InHandler') = nIn + 1
    BY <1>2, <2>1, FS_AddElement
  <2>3. CASE sseCount' > MaxStreams
    <3>1. PastCap' = PastCap
      BY <1>5, <2>3 DEF PastCap, TypeOK
    <3> QED
      BY <1>1, <1>2, <1>3, <1>5, <2>2, <3>1
  <2>4. CASE ~(sseCount' > MaxStreams)
    <3>1. PastCap' = PastCap \cup {r}
      BY <1>5, <2>4 DEF PastCap, TypeOK
    <3>2. Cardinality(PastCap') = nPast + 1
      BY <1>2, <2>1, <3>1, FS_AddElement
    <3> QED
      BY <1>1, <1>2, <1>3, <1>5, <2>2, <2>4, <3>2
  <2> QED
    BY <2>3, <2>4
<1>6. ASSUME NEW r \in Streams, pc[r] \in {"refused", "release"},
             sseCount' = sseCount - 1, others' = others,
             pc' = [pc EXCEPT ![r] = "end"]
      PROVE  SlotsAreExact' /\ sseCount' \in Nat
  <2>1. /\ InHandler' = InHandler \ {r} /\ r \in InHandler
        /\ PastCap' = PastCap \ {r}
    BY <1>6 DEF InHandler, PastCap, TypeOK
  <2>2. Cardinality(InHandler') = nIn - 1 /\ nIn >= 1
    <3>1. Cardinality(InHandler') = nIn - 1
      BY <1>2, <2>1, FS_RemoveElement
    <3>2. nIn # 0
      BY <1>2, <2>1, FS_EmptySet
    <3> QED
      BY <1>2, <3>1, <3>2
  <2>3. Cardinality(PastCap') \in Nat /\ Cardinality(PastCap') <= nPast
    BY <1>2, <2>1, FS_Subset, FS_CardinalityType
  <2> QED
    BY <1>1, <1>2, <1>3, <1>6, <2>2, <2>3
<1> QED
  BY <1>4, <1>5, <1>6, PcEffect

LEMMA ChannelTypes ==
  ASSUME NEW c \in Seq(Statuses), NEW v \in Statuses
  PROVE  /\ Append(c, v) \in Seq(Statuses) /\ Len(Append(c, v)) = Len(c) + 1
         /\ Append(c, v) # << >> /\ Last(Append(c, v)) = v
         /\ Len(c) \in Nat
         /\ c # << >> => /\ Head(c) \in Statuses
                         /\ Tail(c) \in Seq(Statuses)
                         /\ Len(Tail(c)) = Len(c) - 1
         /\ c # << >> => Len(c) >= 1 /\ Last(c) \in Statuses
<1>1. Len(Append(c, v)) = Len(c) + 1 /\ Append(c, v)[Len(c) + 1] = v
  OBVIOUS
<1>2. c # << >> => Len(c) >= 1 /\ Head(c) \in Statuses
                   /\ Tail(c) \in Seq(Statuses) /\ Len(Tail(c)) = Len(c) - 1
  OBVIOUS
<1> QED
  BY <1>1, <1>2 DEF Last

LEMMA TailLast ==
  ASSUME NEW c \in Seq(Statuses), c # << >>
  PROVE  /\ Len(c) = 1 => Tail(c) = << >> /\ Last(c) = Head(c)
         /\ Len(c) # 1 => Tail(c) # << >> /\ Last(Tail(c)) = Last(c)
<1>1. Len(c) \in Nat /\ Len(c) >= 1 /\ Len(Tail(c)) = Len(c) - 1
      /\ Tail(c) \in Seq(Statuses) /\ Head(c) = c[1]
  OBVIOUS
<1>2. \A i \in 1 .. Len(Tail(c)) : Tail(c)[i] = c[i + 1]
  BY <1>1
<1>3. CASE Len(c) = 1
  <2>1. Len(Tail(c)) = 0
    BY <1>1, <1>3
  <2>2. Tail(c) = << >>
    <3> DEFINE t == Tail(c)
    <3>1. t \in Seq(Statuses) /\ Len(t) = 0
      BY <1>1, <2>1
    <3> HIDE DEF t
    <3>2. t = << >>
      BY <3>1, EmptySeq
    <3> QED
      BY <3>2 DEF t
  <2> QED
    BY <1>1, <1>3, <2>2 DEF Last
<1>4. CASE Len(c) # 1
  <2>0. Len(<< >>) = 0
    OBVIOUS
  <2>1. Tail(c) # << >> /\ Len(Tail(c)) \in 1 .. Len(Tail(c))
    <3> DEFINE t == Tail(c)
    <3>1. Len(t) \in Nat /\ Len(t) >= 1
      BY <1>1, <1>4
    <3> HIDE DEF t
    <3>2. t # << >> /\ Len(t) \in 1 .. Len(t)
      BY <2>0, <3>1
    <3> QED
      BY <3>2 DEF t
  <2>2. Tail(c)[Len(Tail(c))] = c[Len(c)]
    BY <1>1, <1>2, <2>1
  <2> QED
    BY <1>4, <2>1, <2>2 DEF Last
<1> QED
  BY <1>3, <1>4

LEMMA StepTypeOK ==
  TypeOK /\ CastInv /\ DialInv /\ SlotsAreExact /\ [Next]_vars => TypeOK'
<1> SUFFICES ASSUME TypeOK, CastInv, DialInv, SlotsAreExact, [Next]_vars
             PROVE  TypeOK'
  OBVIOUS
<1> USE StreamsAssumption DEF StreamsAssumption, connVars, castVars, chanVars,
        readVars, pageVars, Sessions, Nil
<1> DEFINE Pcs == {"new", "refused", "connect", "dial", "subscribe",
                   "snapshot", "snapWait", "loop", "blocked", "refresh",
                   "refWait", "cancel", "release", "end"}
<1>1. /\ sseCount' \in Nat /\ others' \in 0 .. MaxStreams
      /\ pc' \in [Streams -> Pcs]
  <2>1. /\ sseCount' \in Nat /\ others' = others
    BY PcEffect, StepSlots
  <2>2. DOMAIN pc' = Streams /\ pc' = [r \in Streams |-> pc'[r]]
    BY DEF Next, Dial, Goto, Login, LoginOk, LoginFails, ConnectReturns,
           Reader, Dispatch, Broadcast, Cast, Offer, Evict, Push,
           BroadcastEnds, Disconnect, DropSubscribers, Serve, Enter,
           AlreadyConnected, DialFails, Subscribe, Read, ReadLock, ReadRefused,
           SnapshotSent, SendState, ReadEnds, Refresh, Pings, PingBlocks,
           WriteFails, Receive, Leave, Cancel, Release, Outside, ClientLeaves,
           ClientReads, OtherLocks, OtherEnds, vars, TypeOK
  <2>3. \A r \in Streams : pc'[r] \in Pcs
    BY PcEffect DEF Counted, Subscribed, TypeOK
  <2> QED
    BY <2>1, <2>2, <2>3 DEF TypeOK
<1>2. /\ conn' \in Sessions \cup {Nil} /\ dialled' \in 0 .. MaxSessions
      /\ loggedIn' \in BOOLEAN
      /\ dialler' \in Streams \cup {Nobody, Other}
      /\ dead' \subseteq Sessions
  <2>1. CASE Dial
    BY <2>1 DEF Dial, TypeOK
  <2>2. CASE Login
    <3>1. UNCHANGED <<conn, dialled>> /\ dialler' = Nobody
      BY <2>2 DEF Login, LoginOk, LoginFails, ConnectReturns
    <3>2. loggedIn' \in BOOLEAN
      BY <2>2 DEF Login, LoginOk, LoginFails, TypeOK
    <3>3. {dialled} \ {Nil} \subseteq Sessions /\ dead \subseteq Sessions
      BY DEF TypeOK
    <3>4. dead' \subseteq Sessions
      BY <2>2, <3>3 DEF Login, LoginOk, LoginFails, CloseConn
    <3> QED
      BY <3>1, <3>2, <3>4 DEF TypeOK
  <2>3. CASE \E n \in Sessions : Disconnect(n)
    BY <2>3 DEF Disconnect, CloseConn, TypeOK
  <2>4. CASE UNCHANGED <<connVars, dead>>
    BY <2>4 DEF TypeOK
  <2> QED
    BY <2>1, <2>2, <2>3, <2>4
       DEF Next, Reader, Dispatch, Broadcast, Cast, Offer, Evict, Push,
           BroadcastEnds, DropSubscribers, Serve, Enter, AlreadyConnected,
           DialFails, Subscribe, Read, ReadLock, ReadRefused, SnapshotSent,
           ReadEnds, Refresh, Pings, PingBlocks, WriteFails, Receive, Leave,
           Cancel, Release, Outside, ClientLeaves, ClientReads, OtherLocks,
           OtherEnds, vars
<1>3. /\ reader' \in [Sessions -> {"none", "reading", "took", "offer",
                                   "evict", "push", "drop", "done"}]
      /\ news' \in [Sessions -> Statuses \cup {Nil}]
      /\ lastNews' \in Statuses \cup {Nil}
      /\ subMu' \in Sessions \cup {Nil}
      /\ todo' \subseteq Streams /\ slow' \in Streams \cup {Nobody}
  <2>1. CASE Dial
    BY <2>1 DEF Dial, TypeOK
  <2>2. ASSUME NEW n \in Sessions, Reader(n)
        PROVE  <1>3!:
    <3>1. CASE Dispatch(n)
      BY <3>1 DEF Dispatch, TypeOK
    <3>2. CASE Broadcast(n)
      BY <3>2 DEF Broadcast, TypeOK
    <3>3. CASE Offer(n)
      BY <3>3 DEF Offer, EvictNext, TypeOK
    <3>4. CASE Evict(n) \/ Push(n)
      BY <3>4 DEF Evict, Push, TypeOK
    <3>5. CASE BroadcastEnds(n)
      BY <3>5 DEF BroadcastEnds, TypeOK
    <3>6. CASE Disconnect(n) \/ DropSubscribers(n)
      BY <3>6 DEF Disconnect, DropSubscribers, TypeOK
    <3> QED
      BY <2>2, <3>1, <3>2, <3>3, <3>4, <3>5, <3>6 DEF Reader, Cast
  <2>3. CASE UNCHANGED castVars
    BY <2>3 DEF TypeOK
  <2> QED
    BY <2>1, <2>2, <2>3
       DEF Next, Login, LoginOk, LoginFails, ConnectReturns, Serve, Enter,
           AlreadyConnected, DialFails, Subscribe, Read, ReadLock, ReadRefused,
           SnapshotSent, ReadEnds, Refresh, Pings, PingBlocks, WriteFails,
           Receive, Leave, Cancel, Release, Outside, ClientLeaves, ClientReads,
           OtherLocks, OtherEnds, vars
<1>4. /\ chan' \in [Streams -> Seq(Statuses)]
      /\ \A r \in Streams : Len(chan'[r]) <= Buffer
  <2>1. ASSUME NEW r \in Streams, NEW c \in Seq(Statuses),
               chan' = [chan EXCEPT ![r] = c], Len(c) <= Buffer
        PROVE  <1>4!:
    BY <2>1 DEF TypeOK
  <2>2. ASSUME NEW n \in Sessions, Cast(n) PROVE <1>4!:
    <3>1. CASE Offer(n)
      <4>1. news[n] \in Statuses
        BY <3>1 DEF Offer, CastInv, Casting
      <4>2. CASE UNCHANGED chan
        BY <4>2 DEF TypeOK
      <4>3. ASSUME NEW r \in Streams, Len(chan[r]) < Buffer,
                   chan' = [chan EXCEPT ![r] = Append(@, news[n])]
            PROVE  <1>4!:
        <5>1. chan[r] \in Seq(Statuses)
          BY DEF TypeOK
        <5>2. Append(chan[r], news[n]) \in Seq(Statuses)
              /\ Len(Append(chan[r], news[n])) <= Buffer
          BY <4>1, <4>3, <5>1, ChannelTypes
        <5> QED
          BY <2>1, <4>3, <5>2
      <4>4. PICK r \in todo :
               \/ /\ ~Full(r)
                  /\ chan' = [chan EXCEPT ![r] = Append(@, news[n])]
               \/ UNCHANGED chan
        BY <3>1 DEF Offer
      <4>5. r \in Streams /\ Len(chan[r]) \in Nat
        BY DEF TypeOK
      <4> QED
        BY <4>2, <4>3, <4>4, <4>5 DEF Full
    <3>2. CASE Evict(n)
      BY <2>1, <3>2, ChannelTypes DEF Evict, CastInv, Casting, TypeOK
    <3>3. CASE Push(n)
      BY <2>1, <3>3, ChannelTypes DEF Push, Full, CastInv, Casting, TypeOK
    <3>4. CASE BroadcastEnds(n)
      BY <3>4 DEF BroadcastEnds, TypeOK
    <3> QED
      BY <2>2, <3>1, <3>2, <3>3, <3>4 DEF Cast
  <2>3. ASSUME NEW r \in Streams, Receive(r) \/ Cancel(r) PROVE <1>4!:
    <3>1. CASE Receive(r)
      <4>1. chan[r] # << >> /\ chan[r] \in Seq(Statuses)
            /\ Len(chan[r]) <= Buffer
        BY <3>1 DEF Receive, TypeOK
      <4>2. Tail(chan[r]) \in Seq(Statuses) /\ Len(Tail(chan[r])) <= Buffer
        BY <4>1
      <4> QED
        BY <2>1, <3>1, <4>2 DEF Receive
    <3>2. CASE Cancel(r)
      <4>1. << >> \in Seq(Statuses) /\ Len(<< >>) <= Buffer
        OBVIOUS
      <4> QED
        BY <2>1, <3>2, <4>1 DEF Cancel
    <3> QED
      BY <2>3, <3>1, <3>2
  <2>4. CASE UNCHANGED chan
    BY <2>4 DEF TypeOK
  <2> QED
    BY <2>2, <2>3, <2>4
       DEF Next, Dial, Login, LoginOk, LoginFails, ConnectReturns, Reader,
           Dispatch, Broadcast, Disconnect, DropSubscribers, Serve, Enter,
           AlreadyConnected, DialFails, Subscribe, Read, ReadLock, ReadRefused,
           SnapshotSent, ReadEnds, Refresh, Pings, PingBlocks, WriteFails,
           Leave, Release, Outside, ClientLeaves, ClientReads, OtherLocks,
           OtherEnds, vars
<1>5. /\ subs' \subseteq Streams /\ panicked' \in BOOLEAN
      /\ open' \in [Streams -> {"no", "open", "closed"}]
  <2>1. ASSUME NEW n \in Sessions, DropSubscribers(n) PROVE <1>5!:
    BY <2>1 DEF DropSubscribers, CloseChans, TypeOK
  <2>2. ASSUME NEW r \in Streams, Subscribe(r) \/ Cancel(r) PROVE <1>5!:
    <3>1. CASE Subscribe(r)
      BY <3>1 DEF Subscribe, TypeOK
    <3>2. CASE Cancel(r)
      BY <3>2 DEF Cancel, CloseOwn, CloseChans, TypeOK
    <3> QED
      BY <2>2, <3>1, <3>2
  <2>3. CASE UNCHANGED <<subs, open, panicked>>
    BY <2>3 DEF TypeOK
  <2> QED
    BY <2>1, <2>2, <2>3
       DEF Next, Dial, Login, LoginOk, LoginFails, ConnectReturns, Reader,
           Dispatch, Broadcast, Cast, Offer, Evict, Push, BroadcastEnds,
           Disconnect, Serve, Enter, AlreadyConnected, DialFails, Read,
           ReadLock, ReadRefused, SnapshotSent, ReadEnds, Refresh, Pings,
           PingBlocks, WriteFails, Receive, Leave, Release, Outside,
           ClientLeaves, ClientReads, OtherLocks, OtherEnds, vars
<1>6. opMu' \in Streams \cup {Nobody, Other} /\ mail' \in Statuses \cup {Nil}
  BY DEF Next, Dial, Login, LoginOk, LoginFails, ConnectReturns, Reader,
         Dispatch, Broadcast, Cast, Offer, Evict, Push, BroadcastEnds,
         Disconnect, DropSubscribers, Serve, Enter, AlreadyConnected,
         DialFails, Subscribe, Read, ReadLock, ReadRefused, SnapshotSent,
         ReadEnds, Refresh, Pings, PingBlocks, WriteFails, Receive, Leave,
         Cancel, Release, Outside, ClientLeaves, ClientReads, OtherLocks,
         OtherEnds, vars, TypeOK
<1>7. gone' \subseteq Streams /\ sent' \in [Streams -> Statuses \cup {Nil}]
  <2>1. ASSUME NEW r \in Streams, NEW v \in Statuses \cup {Nil},
               sent' = [sent EXCEPT ![r] = v]
        PROVE  sent' \in [Streams -> Statuses \cup {Nil}]
    BY <2>1 DEF TypeOK
  <2>2. ASSUME NEW r \in Streams, Serve(r) \/ ClientLeaves(r) \/ ClientReads(r)
        PROVE  <1>7!:
    <3>1. CASE SnapshotSent(r)
      BY <2>1, <3>1 DEF SnapshotSent, SendState, TypeOK
    <3>2. CASE Receive(r)
      <4>1. Head(chan[r]) \in Statuses
        BY <3>2, ChannelTypes DEF Receive, TypeOK
      <4> QED
        BY <2>1, <3>2, <4>1 DEF Receive, SendState, TypeOK
    <3>3. CASE ~SnapshotSent(r) /\ ~Receive(r)
      BY <2>1, <2>2, <3>3
         DEF Serve, Enter, AlreadyConnected, DialFails, Subscribe, Read,
             ReadLock, ReadRefused, ReadEnds, Refresh, Pings, PingBlocks,
             WriteFails, Leave, Cancel, Release, Outside, ClientLeaves,
             ClientReads, OtherLocks, OtherEnds, TypeOK
    <3> QED
      BY <3>1, <3>2, <3>3
  <2>3. CASE UNCHANGED <<gone, sent>>
    BY <2>3 DEF TypeOK
  <2> QED
    BY <2>2, <2>3
       DEF Next, Dial, Login, LoginOk, LoginFails, ConnectReturns, Reader,
           Dispatch, Broadcast, Cast, Offer, Evict, Push, BroadcastEnds,
           Disconnect, DropSubscribers, OtherLocks, OtherEnds, vars
<1> QED
  BY <1>1, <1>2, <1>3, <1>4, <1>5, <1>6, <1>7 DEF TypeOK

-----------------------------------------------------------------------------
(* The registry and the lock of a broadcast.                               *)

LEMMA StepCastInv == TypeOK /\ CastInv /\ [Next]_vars => CastInv'
<1> SUFFICES ASSUME TypeOK, CastInv, [Next]_vars PROVE CastInv'
  OBVIOUS
<1> USE DEF connVars, castVars, chanVars, readVars, pageVars, Casting
<1>1. Nil \notin Sessions /\ Nobody \notin Streams
  BY StreamsAssumption DEF StreamsAssumption, Sessions, Nil
<1>2. CASE Dial
  <2>1. /\ UNCHANGED <<news, subMu, todo, slow, subs>>
        /\ reader' = [reader EXCEPT ![dialled + 1] = "reading"]
        /\ dialled + 1 \in Sessions
    BY <1>2, StreamsAssumption
       DEF Dial, TypeOK, StreamsAssumption, Sessions
  <2>2. reader[dialled + 1] = "none" /\ dialled' = dialled + 1
        /\ dialled \in Nat
    BY <1>2, <2>1 DEF Dial, CastInv, TypeOK
  <2>3. \A n \in Sessions : n > dialled' => n > dialled /\ n # dialled + 1
    BY <2>2 DEF Sessions
  <2>4. \A n \in Sessions : n > dialled' => reader'[n] = "none"
    BY <2>1, <2>3 DEF CastInv, TypeOK
  <2> QED
    BY <2>1, <2>2, <2>4 DEF CastInv, TypeOK
<1>3. ASSUME NEW n \in Sessions, Dispatch(n) PROVE CastInv'
  BY <1>3 DEF Dispatch, CastInv, TypeOK
<1>4. ASSUME NEW n \in Sessions, Broadcast(n) PROVE CastInv'
  BY <1>1, <1>4 DEF Broadcast, CastInv, TypeOK
<1>5. ASSUME NEW n \in Sessions, Offer(n) PROVE CastInv'
  <2>1. todo' \subseteq subs /\ UNCHANGED <<subs, subMu, news, dialled>>
    BY <1>5 DEF Offer, CastInv
  <2>2. subMu = n /\ news[n] \in Statuses /\ slow = Nobody /\ n # Nil
    BY <1>1, <1>5 DEF Offer, CastInv
  <2>3. \/ UNCHANGED <<reader, slow>>
        \/ slow' \in subs /\ reader' = [reader EXCEPT ![n] = "evict"]
    BY <1>5 DEF Offer, EvictNext, CastInv
  <2> QED
    BY <2>1, <2>2, <2>3 DEF CastInv, TypeOK
<1>6. ASSUME NEW n \in Sessions, Evict(n) PROVE CastInv'
  BY <1>1, <1>6 DEF Evict, CastInv, TypeOK
<1>7. ASSUME NEW n \in Sessions, Push(n) PROVE CastInv'
  BY <1>1, <1>7 DEF Push, CastInv, TypeOK
<1>8. ASSUME NEW n \in Sessions, BroadcastEnds(n) PROVE CastInv'
  BY <1>1, <1>8 DEF BroadcastEnds, CastInv, TypeOK
<1>9. ASSUME NEW n \in Sessions, Disconnect(n) PROVE CastInv'
  BY <1>9 DEF Disconnect, CastInv, TypeOK
<1>10. ASSUME NEW n \in Sessions, DropSubscribers(n) PROVE CastInv'
  BY <1>1, <1>10 DEF DropSubscribers, CastInv, TypeOK
<1>11. ASSUME NEW r \in Streams, Subscribe(r) \/ Cancel(r) PROVE CastInv'
  BY <1>1, <1>11 DEF Subscribe, Cancel, CastInv, TypeOK
<1>12. CASE UNCHANGED <<castVars, subs, dialled>>
  BY <1>12 DEF CastInv
<1> QED
  BY <1>2, <1>3, <1>4, <1>5, <1>6, <1>7, <1>8, <1>9, <1>10, <1>11, <1>12
     DEF Next, Login, LoginOk, LoginFails, ConnectReturns, Reader, Cast, Serve,
         Enter, AlreadyConnected, DialFails, Read, ReadLock, ReadRefused,
         SnapshotSent, ReadEnds, Refresh, Pings, PingBlocks, WriteFails,
         Receive, Leave, Release, Outside, ClientLeaves, ClientReads,
         OtherLocks, OtherEnds, vars

LEMMA StepSubsInv == StreamInv /\ [Next]_vars => SubsInv'
<1> SUFFICES ASSUME TypeOK, CastInv, SubsInv, DialInv, [Next]_vars
             PROVE  SubsInv'
  BY DEF StreamInv
<1> USE DEF connVars, castVars, chanVars, readVars, pageVars
<1> DEFINE OtherMove == \A r \in Streams :
                           \/ pc'[r] = pc[r]
                           \/ pc[r] \in Subscribed /\ pc'[r] \in Subscribed
                           \/ pc[r] \notin Subscribed /\ pc'[r] \notin Subscribed
<1>1. CASE UNCHANGED <<subs, open, panicked>> /\ OtherMove
  BY <1>1 DEF SubsInv
<1>2. ASSUME NEW n \in Sessions, DropSubscribers(n) PROVE SubsInv'
  BY <1>2 DEF DropSubscribers, CloseChans, SubsInv, TypeOK
<1>3. ASSUME NEW r \in Streams, Subscribe(r) PROVE SubsInv'
  BY <1>3 DEF Subscribe, Goto, SubsInv, TypeOK, Subscribed
<1>4. ASSUME NEW r \in Streams, Cancel(r) PROVE SubsInv'
  <2>1. ~panicked'
    <3>1. \A x \in {r} \cap subs : open[x] # "closed"
      BY DEF SubsInv
    <3>2. panicked' = (panicked \/ \E x \in {r} \cap subs :
                                      open[x] = "closed")
      BY <1>4 DEF Cancel, CloseOwn, CloseChans
    <3> QED
      BY <3>1, <3>2, Zenon DEF SubsInv
  <2> QED
    BY <1>4, <2>1 DEF Cancel, CloseOwn, CloseChans, Goto, SubsInv, TypeOK,
                      Subscribed
<1>5. ASSUME NEW r \in Streams, NEW w, Goto(r, w),
             \/ pc[r] \in Subscribed /\ w \in Subscribed
             \/ pc[r] \notin Subscribed /\ w \notin Subscribed
      PROVE  OtherMove
  BY <1>5 DEF Goto, TypeOK
<1>6. CASE Dial
  BY <1>1, <1>5, <1>6 DEF Dial, Subscribed
<1>7. CASE Login
  BY <1>1, <1>7 DEF Login, LoginOk, LoginFails, ConnectReturns, DialInv,
                    Subscribed
<1>8. ASSUME NEW n \in Sessions, Reader(n), ~DropSubscribers(n) PROVE SubsInv'
  BY <1>1, <1>8 DEF Reader, Dispatch, Broadcast, Cast, Offer, Evict, Push,
                    BroadcastEnds, Disconnect
<1>9. ASSUME NEW r \in Streams, Serve(r), ~Subscribe(r), ~Cancel(r)
      PROVE  SubsInv'
  <2>1. UNCHANGED <<subs, open, panicked>>
    BY <1>9 DEF Serve, Enter, AlreadyConnected, DialFails, Read, ReadLock,
                ReadRefused, SnapshotSent, ReadEnds, Refresh, Pings,
                PingBlocks, WriteFails, Receive, Leave, Release
  <2>2. OtherMove
    <3>1. CASE Enter(r) \/ AlreadyConnected(r) \/ DialFails(r) \/ Release(r)
      BY <1>5, <3>1
         DEF Enter, AlreadyConnected, DialFails, Release, Subscribed
    <3>2. CASE Read(r)
      BY <1>5, <3>2 DEF Read, ReadLock, Waiting, ReadRefused, SnapshotSent,
                        SendState, ReadEnds, Subscribed
    <3>3. CASE Refresh(r) \/ Receive(r) \/ Pings(r) \/ Leave(r)
      BY <1>5, <3>3 DEF Refresh, Pings, PingBlocks, WriteFails, Receive,
                        SendState, Leave, Subscribed
    <3> QED
      BY <1>9, <3>1, <3>2, <3>3 DEF Serve, Pings
  <2> QED
    BY <1>1, <2>1, <2>2
<1>10. CASE UNCHANGED vars \/ Outside
  BY <1>1, <1>10, OutsideEffect DEF vars, Subscribed
<1> QED
  BY <1>2, <1>3, <1>4, <1>6, <1>7, <1>8, <1>9, <1>10 DEF Next, Outside

LEMMA InitStreamInv == Init => StreamInv
<1> SUFFICES ASSUME Init PROVE StreamInv
  OBVIOUS
<1> USE StreamsAssumption DEF StreamsAssumption, Init
<1>1. TypeOK
  <2>1. others \in 0 .. MaxStreams /\ sseCount \in Nat
    OBVIOUS
  <2>2. << >> \in Seq(Statuses) /\ Len(<< >>) <= Buffer
    OBVIOUS
  <2>3. chan \in [Streams -> Seq(Statuses)]
        /\ \A r \in Streams : Len(chan[r]) <= Buffer
    BY <2>2
  <2>4. /\ reader \in [Sessions -> {"none", "reading", "took", "offer",
                                   "evict", "push", "drop", "done"}]
        /\ news \in [Sessions -> Statuses \cup {Nil}]
        /\ open \in [Streams -> {"no", "open", "closed"}]
        /\ sent \in [Streams -> Statuses \cup {Nil}]
    OBVIOUS
  <2>5. pc \in [Streams -> {"new", "refused", "connect", "dial", "subscribe",
                           "snapshot", "snapWait", "loop", "refresh",
                           "refWait", "cancel", "release", "end"}]
    OBVIOUS
  <2>6. /\ conn \in Sessions \cup {Nil} /\ subMu \in Sessions \cup {Nil}
        /\ lastNews \in Statuses \cup {Nil} /\ mail \in Statuses \cup {Nil}
        /\ dialled \in 0 .. MaxSessions
    OBVIOUS
  <2>7. loggedIn \in BOOLEAN /\ panicked \in BOOLEAN
    OBVIOUS
  <2>8. /\ dialler \in Streams \cup {Nobody, Other}
        /\ opMu \in Streams \cup {Nobody} /\ slow \in Streams \cup {Nobody}
        /\ todo \subseteq Streams /\ subs \subseteq Streams
        /\ gone \subseteq Streams /\ dead \subseteq Sessions
    OBVIOUS
  <2> HIDE DEF Init
  <2> QED
    BY <2>1, <2>3, <2>4, <2>5, <2>6, <2>7, <2>8 DEF TypeOK
<1>2. CastInv
  BY DEF CastInv, Casting, Sessions, Nil
<1>3. SubsInv /\ DialInv
  BY DEF SubsInv, DialInv, Subscribed
<1>4. SlotsAreExact
  <2>1. InHandler = {} /\ PastCap = {}
    BY DEF InHandler, PastCap
  <2>2. others \in Nat /\ others <= MaxStreams /\ sseCount = others
    OBVIOUS
  <2>3. /\ sseCount = others + Cardinality(InHandler)
        /\ others + Cardinality(PastCap) <= MaxStreams
    BY <2>1, <2>2, FS_EmptySet
  <2> QED
    BY <2>3 DEF SlotsAreExact, InHandler, PastCap
<1> QED
  BY <1>1, <1>2, <1>3, <1>4 DEF StreamInv

LEMMA StepStreamInv == StreamInv /\ [Next]_vars => StreamInv'
BY StepTypeOK, StepCastInv, StepSubsInv, StepDialInv, StepSlots DEF StreamInv

\* The types hold, however requests, broadcasts and lost links interleave
\* (server.go:220-297, client.go:386-442).
THEOREM StreamTypes == Spec => []TypeOK
<1>1. StreamInv => TypeOK
  BY DEF StreamInv
<1>2. QED
  BY <1>1, InitStreamInv, StepStreamInv, PTL DEF Spec

\* Nobody closes a channel that is closed already, and a broadcast never meets
\* a closed one: a stream's own cancel and the readers of any number of
\* sessions agree through the registry (client.go:391-393, 436-439).
THEOREM OneCloseEach == Spec => []ChannelsClosedOnce
<1>1. StreamInv => ChannelsClosedOnce
  BY DEF StreamInv, SubsInv, CastInv, TypeOK, ChannelsClosedOnce
<1>2. QED
  BY <1>1, InitStreamInv, StepStreamInv, PTL DEF Spec

\* The counter is the number of requests inside handleEvents, whichever way
\* each of them leaves, and never more than the cap get past its test
\* (server.go:221-228).
THEOREM SlotsCounted == Spec => []SlotsAreExact
<1>1. StreamInv => SlotsAreExact
  BY DEF StreamInv
<1>2. QED
  BY <1>1, InitStreamInv, StepStreamInv, PTL DEF Spec

-----------------------------------------------------------------------------
(* What the clients are shown.                                             *)

LEMMA StepRoomInv == StreamInv /\ RoomInv /\ [Next]_vars => RoomInv'
<1> SUFFICES ASSUME StreamInv, RoomInv, [Next]_vars PROVE RoomInv'
  OBVIOUS
<1> USE DEF StreamInv, connVars, castVars, chanVars, readVars, pageVars
<1> DEFINE Empty(r) ==
             /\ pc[r] \notin Subscribed => chan[r] = << >>
             /\ pc[r] \notin Subscribed \ {"snapshot", "snapWait"}
                  => sent[r] = Nil
             /\ pc[r] \in InRead => opMu = r
           Room == \A n \in Sessions : reader[n] = "push"
                                         => Len(chan[slow]) < Buffer
<1>1. ASSUME NEW r \in Streams PROVE Empty(r)'
  <2>0. Empty(r)
    BY DEF RoomInv
  <2>1. CASE Dial
    BY <2>0, <2>1 DEF Dial, Goto, TypeOK, Subscribed, InRead
  <2>2. CASE Login
    BY <2>0, <2>2 DEF Login, LoginOk, LoginFails, ConnectReturns, DialInv,
                      Subscribed, InRead
  <2>3. ASSUME NEW n \in Sessions, Cast(n) PROVE Empty(r)'
    <3>1. UNCHANGED <<pc, sent, opMu>>
      BY <2>3 DEF Cast, Offer, Evict, Push, BroadcastEnds
    <3>2. chan'[r] = chan[r] \/ r \in subs
      BY <2>3 DEF Cast, Offer, Evict, Push, BroadcastEnds, CastInv, TypeOK
    <3> QED
      BY <2>0, <3>1, <3>2 DEF SubsInv
  <2>4. ASSUME NEW n \in Sessions, Reader(n), ~Cast(n) PROVE Empty(r)'
    BY <2>0, <2>4
       DEF Reader, Dispatch, Broadcast, Disconnect, DropSubscribers
  <2>5. ASSUME NEW x \in Streams, x # r, Serve(x) PROVE Empty(r)'
    <3>1. UNCHANGED <<pc[r], sent[r], chan[r]>>
      BY <2>5 DEF Serve, Enter, AlreadyConnected, DialFails, Subscribe, Read,
                  ReadLock, ReadRefused, SnapshotSent, SendState, ReadEnds,
                  Refresh, Pings, PingBlocks, WriteFails, Receive, Leave,
                  Cancel, Release, Goto, TypeOK
    <3>2. opMu' = opMu \/ opMu \in {x, Nobody}
      BY <2>5 DEF Serve, Enter, AlreadyConnected, DialFails, Subscribe, Read,
                  ReadLock, ReadRefused, SnapshotSent, ReadEnds, Refresh,
                  Pings, PingBlocks, WriteFails, Receive, Leave, Cancel,
                  Release, RoomInv, InRead
    <3>3. r # Nobody
      BY StreamsAssumption DEF StreamsAssumption
    <3> QED
      BY <2>0, <2>5, <3>1, <3>2, <3>3
  <2>6. CASE Read(r)
    BY <2>0, <2>6 DEF Read, ReadLock, Waiting, ReadRefused, SnapshotSent,
                      SendState, ReadEnds, Goto, TypeOK, Subscribed, InRead
  <2>7. CASE Enter(r) \/ AlreadyConnected(r) \/ DialFails(r) \/ Subscribe(r)
             \/ Release(r)
    BY <2>0, <2>7 DEF Enter, AlreadyConnected, DialFails, Subscribe, Release,
                      Goto, TypeOK, Subscribed, InRead
  <2>8. CASE Refresh(r) \/ Receive(r) \/ Pings(r) \/ Leave(r) \/ Cancel(r)
    BY <2>0, <2>8 DEF Refresh, Pings, PingBlocks, WriteFails, Receive,
                      SendState, Leave, Cancel, Goto, TypeOK, Subscribed,
                      InRead
  <2>9. CASE UNCHANGED vars \/ Outside
    <3>1. r \notin {Nobody, Other}
      BY StreamsAssumption DEF StreamsAssumption
    <3> QED
      BY <2>0, <2>9, <3>1, OutsideEffect DEF vars, Subscribed, InRead
  <2> QED
    BY <2>1, <2>2, <2>3, <2>4, <2>5, <2>6, <2>7, <2>8, <2>9
       DEF Next, Serve, Pings, Outside
<1>2. Room'
  <2> SUFFICES ASSUME NEW n \in Sessions, reader'[n] = "push"
               PROVE  Len(chan'[slow']) < Buffer
    OBVIOUS
  <2>0. \A c \in Seq(Statuses) : c # << >> => Len(Tail(c)) = Len(c) - 1
    OBVIOUS
  <2>1. CASE Evict(n)
    <3>1. slow \in Streams /\ slow' = slow
      BY <2>1 DEF Evict, CastInv, TypeOK
    <3>2. /\ chan[slow] \in Seq(Statuses) /\ Len(chan[slow]) <= Buffer
          /\ Len(chan[slow]) \in Nat /\ Buffer \in Nat \ {0}
      BY <3>1, StreamsAssumption DEF TypeOK, StreamsAssumption
    <3>3. chan'[slow] = IF chan[slow] = << >> THEN << >> ELSE Tail(chan[slow])
      BY <2>1, <3>1 DEF Evict, TypeOK
    <3>4. Len(<< >>) = 0
      OBVIOUS
    <3> QED
      BY <2>0, <3>1, <3>2, <3>3, <3>4
  <2>2. CASE ~Evict(n)
    <3>1. reader[n] = "push" /\ subMu = n /\ slow' = slow /\ n # Nil
      <4>1. reader[n] = "push"
        <5>1. CASE Dial
          BY <2>2, <5>1 DEF Dial, TypeOK
        <5>2. ASSUME NEW m \in Sessions, Reader(m) PROVE reader[n] = "push"
          BY <2>2, <5>2 DEF Reader, Dispatch, Broadcast, Cast, Offer,
               EvictNext, Evict, Push, BroadcastEnds, Disconnect,
               DropSubscribers, TypeOK
        <5>3. CASE reader' = reader
          BY <5>3
        <5> QED
          BY <5>1, <5>2, <5>3
             DEF Next, Login, LoginOk, LoginFails, ConnectReturns, Serve,
                 Enter, AlreadyConnected, DialFails, Subscribe, Read, ReadLock,
                 ReadRefused, SnapshotSent, ReadEnds, Refresh, Pings,
                 PingBlocks, WriteFails, Receive, Leave, Cancel, Release,
                 Outside, ClientLeaves, ClientReads, OtherLocks, OtherEnds,
                 vars
      <4>2. subMu = n /\ n # Nil
        BY <4>1 DEF CastInv, Casting, Sessions, Nil
      <4>3. ~Push(n)
        BY DEF Push, TypeOK
      <4>4. \A m \in Sessions : ~Offer(m) /\ ~Evict(m) /\ ~(Push(m) /\ m # n)
                                /\ ~BroadcastEnds(m)
        BY <2>2, <4>1, <4>2
           DEF Offer, Evict, Push, BroadcastEnds, CastInv, Casting
      <4>5. slow' = slow
        BY <4>3, <4>4
           DEF Next, Dial, Login, LoginOk, LoginFails, ConnectReturns, Reader,
               Dispatch, Broadcast, Cast, Disconnect, DropSubscribers, Serve,
               Enter, AlreadyConnected, DialFails, Subscribe, Read, ReadLock,
               ReadRefused, SnapshotSent, ReadEnds, Refresh, Pings, PingBlocks,
               WriteFails, Receive, Leave, Cancel, Release, Outside,
               ClientLeaves, ClientReads, OtherLocks, OtherEnds, vars
      <4> QED
        BY <4>1, <4>2, <4>5
    <3>2. Len(chan[slow]) < Buffer /\ slow \in Streams
      BY <3>1 DEF RoomInv, CastInv, TypeOK
    <3>3. chan'[slow] = chan[slow] \/ Receive(slow)
      <4>1. \A m \in Sessions : ~Offer(m) /\ ~Evict(m) /\ ~Push(m)
        BY <2>2, <3>1 DEF Offer, Evict, Push, CastInv, Casting, TypeOK
      <4>2. \A x \in Streams : ~Cancel(x)
        BY <3>1 DEF Cancel
      <4>3. ASSUME NEW x \in Streams, Receive(x)
            PROVE  chan'[slow] = chan[slow] \/ Receive(slow)
        <5>1. CASE x = slow
          BY <4>3, <5>1
        <5>2. CASE x # slow
          BY <3>2, <4>3, <5>2 DEF Receive, TypeOK
        <5> QED
          BY <5>1, <5>2
      <4> QED
        BY <4>1, <4>2, <4>3
           DEF Next, Dial, Login, LoginOk, LoginFails, ConnectReturns, Reader,
               Dispatch, Broadcast, Cast, BroadcastEnds, Disconnect,
               DropSubscribers, Serve, Enter, AlreadyConnected, DialFails,
               Subscribe, Read, ReadLock, ReadRefused, SnapshotSent, ReadEnds,
               Refresh, Pings, PingBlocks, WriteFails, Leave, Release, Outside,
               ClientLeaves, ClientReads, OtherLocks, OtherEnds, vars
    <3>4. /\ chan[slow] \in Seq(Statuses) /\ Len(chan[slow]) \in Nat
          /\ Buffer \in Nat
      BY <3>2, StreamsAssumption DEF TypeOK, StreamsAssumption
    <3>5. CASE chan'[slow] = chan[slow]
      BY <3>1, <3>2, <3>5
    <3>6. CASE Receive(slow)
      <4>1. chan'[slow] = Tail(chan[slow]) /\ chan[slow] # << >>
        BY <3>2, <3>6 DEF Receive, TypeOK
      <4>2. Len(Tail(chan[slow])) < Buffer
        BY <2>0, <3>2, <3>4, <4>1
      <4> QED
        BY <3>1, <4>1, <4>2
    <3> QED
      BY <3>3, <3>5, <3>6
  <2> QED
    BY <2>1, <2>2
<1> QED
  BY <1>1, <1>2 DEF RoomInv

\* A step that leaves alone what a stream is shown.
LEMMA NewsKept ==
  ASSUME NEW r \in Streams, News(r),
         UNCHANGED <<chan[r], sent[r], Latest>>,
         Coming(r) => Coming(r)',
         pc'[r] \in Live /\ r \notin gone' => pc[r] \in Live /\ r \notin gone,
         pc'[r] = "snapWait" /\ mail' # Nil => pc[r] = "snapWait" /\ mail # Nil
  PROVE  News(r)'
BY DEF News, Newest

LEMMA BroadcastNews ==
  ASSUME StreamInv, RoomInv, NewsInv, NEW n \in Sessions, Cast(n),
         NEW r \in Streams, open[r] = "open"
  PROVE  News(r)'
<1> USE DEF StreamInv, connVars, castVars, chanVars, readVars, pageVars
<1>0. /\ subMu = n /\ n # Nil /\ Latest = news[n] /\ news[n] \in Statuses
      /\ UNCHANGED <<pc, gone, mail, sent>>
  BY DEF Cast, Offer, Evict, Push, BroadcastEnds, CastInv, Casting, Latest,
         Sessions, Nil
<1>1. News(r) /\ chan[r] \in Seq(Statuses)
  BY DEF NewsInv, TypeOK
<1>2. Took <=> Took'
  <2>1. reader[n] # "took" /\ reader'[n] # "took"
    BY DEF Cast, Offer, EvictNext, Evict, Push, BroadcastEnds, TypeOK
  <2>2. \A m \in Sessions : m # n => reader'[m] = reader[m]
    BY DEF Cast, Offer, Evict, Push, BroadcastEnds, TypeOK
  <2> QED
    BY <2>1, <2>2 DEF Took
<1>3. ASSUME Latest' = Latest, chan'[r] = Append(chan[r], news[n])
      PROVE  News(r)'
  <2>1. chan'[r] # << >> /\ Last(chan'[r]) = news[n]
    BY <1>0, <1>1, <1>3, ChannelTypes
  <2> QED
    BY <1>0, <1>3, <2>1 DEF News, Newest
<1>4. ASSUME Latest' = Latest, chan'[r] = chan[r], Coming(r) => Coming(r)'
      PROVE  News(r)'
  BY <1>0, <1>1, <1>4, NewsKept
<1>5. CASE Offer(n)
  <2>1. PICK x \in todo :
           /\ todo' = todo \ {x}
           /\ \/ ~Full(x) /\ chan' = [chan EXCEPT ![x] = Append(@, news[n])]
                 /\ slow' = slow
              \/ slow' = x /\ UNCHANGED chan
    BY <1>5 DEF Offer
  <2>2. Latest' = Latest /\ slow = Nobody /\ r # Nobody
    BY <1>5, StreamsAssumption
       DEF Offer, Latest, CastInv, StreamsAssumption
  <2>3. CASE x = r
    <3>1. CASE slow' = x
      BY <2>3, <3>1 DEF News, Coming
    <3>2. CASE slow' # x
      <4>1. chan'[r] = Append(chan[r], news[n])
        BY <2>1, <2>3, <3>2 DEF TypeOK
      <4> QED
        BY <1>3, <2>2, <4>1
    <3> QED
      BY <3>1, <3>2
  <2>4. CASE x # r
    <3>1. chan'[r] = chan[r]
      BY <2>1, <2>4 DEF TypeOK
    <3>2. Coming(r) => Coming(r)'
      BY <1>2, <2>1, <2>2, <2>4 DEF Coming
    <3> QED
      BY <1>4, <2>2, <3>1, <3>2
  <2> QED
    BY <2>3, <2>4
<1>6. CASE Evict(n)
  <2>1. Latest' = Latest /\ UNCHANGED <<todo, slow>>
    BY <1>6 DEF Evict, Latest
  <2>2. CASE slow = r
    BY <2>1, <2>2 DEF News, Coming
  <2>3. CASE slow # r
    <3>1. chan'[r] = chan[r]
      BY <1>6, <2>3 DEF Evict, TypeOK
    <3> QED
      BY <1>2, <1>4, <2>1, <3>1 DEF Coming
  <2> QED
    BY <2>2, <2>3
<1>7. CASE Push(n)
  <2>1. Latest' = Latest /\ todo' = todo /\ slow \in Streams
    BY <1>7 DEF Push, Latest, CastInv, TypeOK
  <2>2. CASE slow = r
    <3>1. Len(chan[r]) < Buffer /\ Len(chan[r]) \in Nat /\ Buffer \in Nat
      BY <1>1, <1>7, <2>2, StreamsAssumption
         DEF Push, RoomInv, StreamsAssumption
    <3>2. ~Full(slow)
      BY <2>2, <3>1 DEF Full
    <3>3. chan'[r] = Append(chan[r], news[n])
      BY <1>7, <2>2, <3>2 DEF Push, TypeOK
    <3> QED
      BY <1>3, <2>1, <3>3
  <2>3. CASE slow # r
    <3>1. chan'[r] = chan[r]
      BY <1>7, <2>3 DEF Push, TypeOK
    <3>2. Coming(r) => Coming(r)'
      BY <1>2, <2>1, <2>3 DEF Coming
    <3> QED
      BY <1>4, <2>1, <3>1, <3>2
  <2> QED
    BY <2>2, <2>3
<1>8. CASE BroadcastEnds(n)
  <2>1. subMu' = Nil /\ lastNews' = news[n] /\ UNCHANGED <<chan, todo, slow>>
    BY <1>8 DEF BroadcastEnds
  <2>2. Latest' = Latest
    BY <1>0, <2>1 DEF Latest
  <2>3. Coming(r) => Coming(r)'
    BY <1>2, <2>1 DEF Coming
  <2> QED
    BY <1>4, <2>1, <2>2, <2>3
<1> QED
  BY <1>5, <1>6, <1>7, <1>8 DEF Cast

LEMMA ServeNews ==
  ASSUME StreamInv, RoomInv, NewsInv, NEW x \in Streams, Serve(x),
         NEW r \in Streams, open'[r] = "open"
  PROVE  News(r)'
<1> USE DEF StreamInv, connVars, castVars, chanVars, readVars, pageVars
<1>1. UNCHANGED castVars
  BY DEF Serve, Enter, AlreadyConnected, DialFails, Subscribe, Read, ReadLock,
         ReadRefused, SnapshotSent, ReadEnds, Refresh, Pings, PingBlocks,
         WriteFails, Receive, Leave, Cancel, Release
<1>2. Latest' = Latest /\ (Coming(r) <=> Coming(r)')
  BY <1>1 DEF Latest, Coming, Took
<1>3. CASE Subscribe(r)
  <2>1. chan[r] = << >> /\ sent[r] = Nil
    BY <1>3 DEF Subscribe, RoomInv, Subscribed
  <2>2. Newest(r)' = Nil /\ pc'[r] = "snapshot"
    BY <1>3, <2>1 DEF Subscribe, Goto, Newest, TypeOK
  <2> QED
    BY <2>2 DEF News
<1>4. ~Cancel(r)
  <2> SUFFICES ASSUME Cancel(r) PROVE FALSE
    OBVIOUS
  <2>1. r \notin subs /\ open'[r] = open[r]
    BY DEF Cancel, CloseOwn, CloseChans
  <2> QED
    BY <2>1 DEF SubsInv
<1>5. CASE ~Subscribe(r)
  <2>0. open[r] = "open"
    BY <1>4, <1>5
       DEF Serve, Enter, AlreadyConnected, DialFails, Subscribe, Read,
           ReadLock, ReadRefused, SnapshotSent, ReadEnds, Refresh, Pings,
           PingBlocks, WriteFails, Receive, Leave, Cancel, CloseOwn,
           CloseChans, Release, TypeOK
  <2>1. News(r)
    BY <2>0 DEF NewsInv
  <2>2. mail' \in {mail, Nil} /\ (r \in gone => r \in gone' \/ pc'[r] = "end")
    BY DEF Serve, Enter, AlreadyConnected, DialFails, Subscribe, Read,
           ReadLock, ReadRefused, SnapshotSent, ReadEnds, Refresh, Pings,
           PingBlocks, WriteFails, Receive, Leave, Cancel, Release, Goto,
           TypeOK
  <2>3. ASSUME x # r PROVE News(r)'
    <3>1. UNCHANGED <<chan[r], sent[r], pc[r]>>
      BY <2>3 DEF Serve, Enter, AlreadyConnected, DialFails, Subscribe, Read,
                  ReadLock, ReadRefused, SnapshotSent, SendState, ReadEnds,
                  Refresh, Pings, PingBlocks, WriteFails, Receive, Leave,
                  Cancel, Release, Goto, TypeOK
    <3> QED
      BY <1>2, <2>1, <2>2, <3>1, NewsKept DEF Live, Subscribed
  <2>4. CASE SnapshotSent(r)
    <3>1. /\ chan' = chan /\ pc[r] = "snapWait" /\ mail # Nil
          /\ gone' = gone /\ pc'[r] \in {"loop", "blocked", "cancel"}
          /\ pc'[r] # "cancel" => r \notin gone \/ pc[r] \in Live
      BY <2>4 DEF SnapshotSent, SendState, Goto, TypeOK, Live, Subscribed
    <3>2. CASE chan[r] = << >>
      BY <1>2, <2>1, <3>1, <3>2 DEF News
    <3>3. CASE chan[r] # << >>
      <4>1. Newest(r)' = Newest(r)
        BY <3>1, <3>3 DEF Newest
      <4> QED
        BY <1>2, <2>1, <3>1, <4>1 DEF News, Live, Subscribed
    <3> QED
      BY <3>2, <3>3
  <2>5. CASE Receive(r)
    <3>1. /\ chan[r] # << >> /\ chan'[r] = Tail(chan[r])
          /\ pc[r] = "loop" /\ gone' = gone
          /\ \/ sent'[r] = Head(chan[r]) /\ pc'[r] \in {"loop", "blocked"}
             \/ pc'[r] = "cancel"
      BY <2>5 DEF Receive, SendState, Goto, TypeOK
    <3>2. CASE sent'[r] = Head(chan[r]) /\ pc'[r] \in {"loop", "blocked"}
      <4>1. chan[r] \in Seq(Statuses)
        BY DEF TypeOK
      <4>2. CASE Len(chan[r]) = 1
        <5>1. Tail(chan[r]) = << >> /\ Last(chan[r]) = Head(chan[r])
          BY <3>1, <4>1, <4>2, TailLast
        <5> QED
          BY <1>2, <2>1, <3>1, <3>2, <5>1 DEF News, Newest, Live, Subscribed
      <4>3. CASE Len(chan[r]) # 1
        <5>1. Tail(chan[r]) # << >> /\ Last(Tail(chan[r])) = Last(chan[r])
          BY <3>1, <4>1, <4>3, TailLast
        <5> QED
          BY <1>2, <2>1, <3>1, <3>2, <5>1 DEF News, Newest, Live, Subscribed
      <4> QED
        BY <4>2, <4>3
    <3>3. CASE pc'[r] = "cancel"
      BY <3>3 DEF News, Live
    <3> QED
      BY <3>1, <3>2, <3>3
  <2>6. CASE x = r /\ ~SnapshotSent(r) /\ ~Receive(r)
    <3>1. UNCHANGED <<chan, sent>>
      BY <1>4, <1>5, <2>6
         DEF Serve, Enter, AlreadyConnected, DialFails, Read, ReadLock,
             ReadRefused, ReadEnds, Refresh, Pings, PingBlocks, WriteFails,
             Leave, Release
    <3>2. /\ pc'[r] \in Live => pc[r] \in Live
          /\ pc'[r] = "snapWait" => mail' = Nil
      BY <1>4, <1>5, <2>6
         DEF Serve, Enter, AlreadyConnected, DialFails, Read, ReadLock,
             Waiting, ReadRefused, ReadEnds, Refresh, Pings, PingBlocks,
             WriteFails, Leave, Release, Goto, TypeOK, Live, Subscribed
    <3> QED
      BY <1>2, <2>1, <2>2, <3>1, <3>2, NewsKept DEF Live, Subscribed
  <2> QED
    BY <2>3, <2>4, <2>5, <2>6
<1> QED
  BY <1>3, <1>5

LEMMA StepNewsInv ==
  StreamInv /\ RoomInv /\ NewsInv /\ [Next]_vars => NewsInv'
<1> SUFFICES ASSUME StreamInv, RoomInv, NewsInv, [Next]_vars,
                    NEW r \in Streams, open'[r] = "open"
             PROVE  News(r)'
  BY DEF NewsInv
<1> USE DEF StreamInv, connVars, castVars, chanVars, readVars, pageVars
<1>1. ASSUME NEW x \in Streams, Serve(x) PROVE News(r)'
  BY <1>1, ServeNews
<1>2. ASSUME ~\E x \in Streams : Serve(x), open[r] = "open" PROVE News(r)'
  <2>1. News(r)
    BY <1>2 DEF NewsInv
  <2>2. ASSUME UNCHANGED <<news, lastNews, subMu, todo, slow, chan, sent>>,
               Took => Took', r \notin gone' => r \notin gone,
               \/ pc'[r] = pc[r] \/ pc'[r] \notin Live
               \/ pc[r] = "blocked" /\ pc'[r] = "loop",
               mail' \in {mail, Nil}
        PROVE  News(r)'
    <3>1. Latest' = Latest /\ (Coming(r) => Coming(r)')
      BY <2>2 DEF Latest, Coming
    <3> QED
      BY <2>1, <2>2, <3>1, NewsKept DEF Live, Subscribed
  <2>3. CASE Dial
    <3>1. dialled + 1 \in Sessions /\ dialled + 1 > dialled
      BY <2>3, StreamsAssumption
         DEF Dial, TypeOK, StreamsAssumption, Sessions
    <3>2. reader[dialled + 1] = "none"
      BY <3>1 DEF CastInv
    <3>3. Took => Took'
      BY <2>3, <3>2 DEF Dial, Took, TypeOK
    <3>4. pc'[r] = pc[r] \/ pc'[r] \notin Live
      BY <2>3 DEF Dial, Goto, TypeOK, Live, Subscribed
    <3> QED
      BY <2>2, <2>3, <3>3, <3>4 DEF Dial
  <2>4. CASE Login
    <3>1. pc'[r] = pc[r] \/ pc'[r] \notin Live
      BY <2>4 DEF Login, LoginOk, LoginFails, ConnectReturns, Live, Subscribed
    <3> QED
      BY <2>2, <2>4, <3>1
         DEF Login, LoginOk, LoginFails, ConnectReturns, Took
  <2>5. ASSUME NEW n \in Sessions, Dispatch(n) PROVE News(r)'
    <3>1. Took'
      BY <2>5 DEF Dispatch, Took, TypeOK
    <3> QED
      BY <3>1 DEF News, Coming
  <2>6. ASSUME NEW n \in Sessions, Broadcast(n) PROVE News(r)'
    <3>1. r \in todo'
      BY <1>2, <2>6 DEF Broadcast, SubsInv
    <3> QED
      BY <3>1 DEF News, Coming
  <2>7. ASSUME NEW n \in Sessions, Cast(n) PROVE News(r)'
    BY <1>2, <2>7, BroadcastNews
  <2>8. ASSUME NEW n \in Sessions, Disconnect(n) PROVE News(r)'
    <3>1. Took => Took'
      BY <2>8 DEF Disconnect, Took, TypeOK
    <3> QED
      BY <2>2, <2>8, <3>1 DEF Disconnect
  <2>9. ASSUME NEW n \in Sessions, DropSubscribers(n) PROVE News(r)'
    <3>1. r \in subs
      BY <1>2 DEF SubsInv
    <3>2. open'[r] = "closed"
      BY <2>9, <3>1 DEF DropSubscribers, CloseChans
    <3> QED
      BY <3>2
  <2>10. CASE UNCHANGED vars \/ Outside
    BY <2>2, <2>10, OutsideEffect DEF vars, Took
  <2> QED
    BY <1>2, <2>3, <2>4, <2>5, <2>6, <2>7, <2>8, <2>9, <2>10
       DEF Next, Reader, Outside
<1>3. ASSUME ~\E x \in Streams : Serve(x) PROVE open[r] = "open"
  BY <1>3
     DEF Next, Dial, Login, LoginOk, LoginFails, ConnectReturns, Reader,
         Dispatch, Broadcast, Cast, Offer, Evict, Push, BroadcastEnds,
         Disconnect, DropSubscribers, CloseChans, Outside, ClientLeaves,
         ClientReads, OtherLocks, OtherEnds, vars
<1> QED
  BY <1>1, <1>2, <1>3

\* Whatever overtakes what, a client's snapshot or a broadcast, a slow client
\* or a lost link: once no status is on its way from a reader, every stream
\* still connected shows, or finds last in its channel, the status that was
\* broadcast last (client.go:386-412, server.go:247-297).
THEOREM NewestIsShown == Spec => []StreamShowsNewest
<1>1. Init => RoomInv /\ NewsInv
  <2> SUFFICES ASSUME Init PROVE RoomInv /\ NewsInv
    OBVIOUS
  <2> QED
    BY DEF Init, RoomInv, NewsInv, InRead, Subscribed
<1>2. StreamInv /\ NewsInv => StreamShowsNewest
  <2> SUFFICES ASSUME StreamInv, NewsInv,
                      \A n \in Sessions :
                         reader[n] \in {"none", "reading", "drop", "done"},
                      NEW r \in Streams,
                      pc[r] \in {"loop", "blocked", "refresh", "refWait"},
                      r \notin gone, open[r] # "closed"
               PROVE  Newest(r) \in {Nil, lastNews}
    BY DEF StreamShowsNewest
  <2>1. ~Took /\ subMu = Nil
    BY DEF Took, StreamInv, TypeOK, CastInv, Casting
  <2>2. todo = {} /\ slow = Nobody /\ r # Nobody
    BY <2>1, StreamsAssumption DEF StreamInv, CastInv, StreamsAssumption
  <2>3. pc[r] \in Subscribed /\ pc[r] \in Live
    BY DEF Subscribed, Live
  <2>4. open[r] = "open"
    BY <2>3 DEF StreamInv, SubsInv, TypeOK
  <2> QED
    BY <2>1, <2>2, <2>3, <2>4 DEF NewsInv, News, Coming, Latest
<1>3. QED
  BY <1>1, <1>2, InitStreamInv, StepStreamInv, StepRoomInv, StepNewsInv, PTL
     DEF Spec

=============================================================================
