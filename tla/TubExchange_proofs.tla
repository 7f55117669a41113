--------------------------- MODULE TubExchange_proofs -------------------------
(***************************************************************************)
(* Proofs about TubExchange, for any number of callers, sessions, calls    *)
(* and states of the tub and any capacity of readCh: its types, and the    *)
(* three things Read and Write promise of the answers they are given.      *)
(*                                                                         *)
(* Each needs to know what is on its way: the frames in both directions    *)
(* and the status in the reader's hand, which calls they answer, that      *)
(* their versions never decrease and that no two writes of a session have  *)
(* the same number.                                                        *)
(***************************************************************************)
EXTENDS TubExchange, FiniteSetTheorems, TLAPS

\* The frames under way, in each direction.
Elems(s) == {s[i] : i \in 1 .. Len(s)}
Sent == Elems(toDev)
Coming == Elems(toApp)
WriteFrames ==
    {m \in Sent : m.kind = "write"} \cup {m \in Coming : m.kind = "ack"}

Requests == [kind : {"read", "write"}, seq : 0 .. MaxOps, op : Ops]
Reports == [kind : {"status", "ack"}, ver : Versions, seq : 0 .. MaxOps,
            op : Ops \cup {0}]

WireType ==
    /\ toDev \in Seq(Requests) /\ toApp \in Seq(Reports)
    /\ rhand \in Reports /\ rhand.kind = "status"
    /\ \A m \in WriteFrames : m.seq \in Ops /\ m.op \in Ops

\* The writers that will take a number, once each has opMu.
Queued == {c \in Callers : pc[c] = "writeLock"}

CountInv ==
    /\ writeSeq + Cardinality(Queued) <= begun
    /\ \A c \in Callers :
        /\ pc[c] \in {"writeSend", "writeWait"} => wseq[c] \in Ops
        /\ pc[c] # "idle" => req[c] \in 1 .. begun

TypeInv == TypeOK /\ WireType /\ CountInv

\* A caller between Lock and Unlock has opMu, and each call is made by one.
InSection(c) == pc[c] \in {"readSend", "readWait", "writeSend", "writeWait"}
CallInv ==
    /\ \A c \in Callers : InSection(c) => opMu = c
    /\ \A c, d \in Callers :
        c # d /\ pc[c] # "idle" /\ pc[d] # "idle" => req[c] # req[d]

\* Nothing under way belongs to a call whose request is not sent.
Known == {m.op : m \in Sent \cup Coming} \cup {rhand.op} \cup answered
KnownInv ==
    /\ Known \subseteq 0 .. begun
    /\ \A c \in Callers :
        pc[c] \in {"readLock", "readSend", "writeLock", "writeSend"}
            => req[c] \notin Known

\* The versions never decrease from readCh through the reader's hand and the
\* link to the tub.
Statuses == {i \in 1 .. Len(toApp) : toApp[i].kind = "status"}
OrderInv ==
    /\ rhand.ver <= devVer /\ seen <= devVer
    /\ reader # "reading" =>
        seen <= rhand.ver /\ \A i \in Statuses : rhand.ver <= toApp[i].ver
    /\ \A i \in Statuses : seen <= toApp[i].ver /\ toApp[i].ver <= devVer
    /\ \A i, j \in Statuses : i < j => toApp[i].ver <= toApp[j].ver
FloorInv ==
    \A c \in Callers :
        /\ floor[c] <= seen
        /\ pc[c] \in {"readSend", "readWait"} =>
              \A i \in 1 .. Len(readCh) : readCh[i] >= floor[c]
FreshInv == OrderInv /\ FloorInv

\* A link that is down has nothing on it, and no call used a session to come.
LinkInv ==
    /\ conn = Nil => toDev = << >> /\ toApp = << >>
    /\ conn <= sessions
    /\ \A c \in Callers :
        /\ used[c] <= sessions
        /\ pc[c] = "readWait" => used[c] # Nil

\* Acknowledged is applied; the writer registered under a number waits for
\* it; and while no number crosses sessions no two writes under way share one.
AppliedInv == \A m \in Coming : m.kind = "ack" => m.op \in applied
WriterInv ==
    \A s \in Ops : writeCh[s] # Nobody =>
        /\ pc[writeCh[s]] = "writeWait"
        /\ wseq[writeCh[s]] = s
NumberInv ==
    /\ \A m \in WriteFrames : m.seq <= writeSeq
    /\ \A c \in Callers :
        /\ pc[c] = "writeSend" =>
            /\ wseq[c] = writeSeq
            /\ \A m \in WriteFrames : m.seq < wseq[c]
        /\ pc[c] = "writeWait" =>
            \A m \in WriteFrames : m.seq = wseq[c] => m.op = req[c]
AckInv == AppliedInv /\ WriterInv /\ (~crossed => NumberInv) /\ AckIsMine

-----------------------------------------------------------------------------
(* Queues and counts.                                                      *)

LEMMA AppendElems ==
  ASSUME NEW S, NEW s \in Seq(S), NEW x \in S
  PROVE  /\ Append(s, x) \in Seq(S)
         /\ Elems(Append(s, x)) = Elems(s) \cup {x}
BY DEF Elems

LEMMA TailElems ==
  ASSUME NEW S, NEW s \in Seq(S), s # << >>
  PROVE  /\ Tail(s) \in Seq(S) /\ Head(s) \in S
         /\ Head(s) \in Elems(s) /\ Elems(Tail(s)) \subseteq Elems(s)
<1>1. /\ Tail(s) \in Seq(S) /\ Head(s) \in S /\ Head(s) = s[1] /\ Len(s) >= 1
      /\ Len(Tail(s)) = Len(s) - 1
      /\ \A i \in 1 .. Len(Tail(s)) : Tail(s)[i] = s[i + 1]
  OBVIOUS
<1>2. Elems(Tail(s)) \subseteq Elems(s)
  BY <1>1 DEF Elems
<1> QED
  BY <1>1, <1>2 DEF Elems

LEMMA NothingElems == Elems(<< >>) = {}
BY DEF Elems

LEMMA QueuedCount ==
  /\ IsFiniteSet(Queued) /\ Cardinality(Queued) \in Nat
  /\ \A c \in Callers \ Queued :
        Cardinality(Queued \cup {c}) = Cardinality(Queued) + 1
  /\ \A c \in Queued : Cardinality(Queued \ {c}) = Cardinality(Queued) - 1
                       /\ Cardinality(Queued) >= 1
<1>1. IsFiniteSet(Queued)
  BY ExchangeAssumption, FS_Subset DEF ExchangeAssumption, Queued
<1>2. \A c \in Callers \ Queued :
         Cardinality(Queued \cup {c}) = Cardinality(Queued) + 1
  BY <1>1, FS_AddElement
<1>3. \A c \in Queued :
         /\ Cardinality(Queued \ {c}) = Cardinality(Queued) - 1
         /\ Cardinality(Queued) >= 1
  <2>1. TAKE c \in Queued
  <2>2. /\ IsFiniteSet(Queued \ {c})
        /\ Cardinality(Queued \ {c}) = Cardinality(Queued) - 1
    BY <1>1, FS_RemoveElement
  <2>3. Cardinality(Queued \ {c}) \in Nat /\ Cardinality(Queued) \in Nat
    BY <1>1, <2>2, FS_CardinalityType
  <2> QED
    BY <2>2, <2>3
<1> QED
  BY <1>1, <1>2, <1>3, FS_CardinalityType

LEMMA InitTypeInv == Init => TypeInv
<1> SUFFICES ASSUME Init PROVE TypeInv
  OBVIOUS
<1>1. TypeOK
  <2>1. /\ MaxSessions \in Nat /\ MaxOps \in Nat /\ MaxVer \in Nat
        /\ ReadCap \in Nat
    BY ExchangeAssumption DEF ExchangeAssumption
  <2>2. << >> \in Seq(Versions) /\ Len(<< >>) = 0
    OBVIOUS
  <2>3. 0 \in Versions /\ 0 \in 0 .. MaxOps /\ 0 \in 0 .. MaxSessions
    BY <2>1 DEF Versions
  <2>4. readCh \in Seq(Versions) /\ Len(readCh) <= ReadCap
    BY <2>1, <2>2 DEF Init
  <2>5. /\ pc \in [Callers -> {"idle", "readLock", "readSend", "readWait",
                               "writeLock", "writeSend", "writeWait"}]
        /\ req \in [Callers -> Ops \cup {0}]
        /\ used \in [Callers -> Sessions \cup {Nil}]
        /\ wseq \in [Callers -> 0 .. MaxOps]
        /\ floor \in [Callers -> Versions]
        /\ writeCh \in [Ops -> Callers \cup {Nobody}]
    BY <2>3 DEF Init
  <2>6. /\ conn \in Sessions \cup {Nil} /\ sessions \in 0 .. MaxSessions
        /\ loggedIn \in BOOLEAN /\ crossed \in BOOLEAN
        /\ opMu \in Callers \cup {Nobody}
        /\ begun \in 0 .. MaxOps /\ writeSeq \in 0 .. MaxOps
        /\ done \subseteq Callers
        /\ reader \in {"reading", "dropOldest", "push"}
        /\ seen \in Versions /\ devVer \in Versions
        /\ answered \subseteq Ops /\ applied \subseteq Ops
    BY <2>3 DEF Init
  <2> QED
    BY <2>4, <2>5, <2>6 DEF TypeOK
<1>2. WireType
  BY ExchangeAssumption, NothingElems
     DEF Init, WireType, ExchangeAssumption, NoFrame, StatusFrame, Reports,
         Requests, Versions, WriteFrames, Sent, Coming
<1>3. Queued = {}
  BY DEF Init, Queued
<1>4. CountInv
  BY <1>3, FS_EmptySet DEF Init, CountInv
<1> QED
  BY <1>1, <1>2, <1>4 DEF TypeInv

\* A number is free for a writer that has come to take one.
LEMMA RoomForNumber ==
  ASSUME TypeInv, NEW c \in Callers, pc[c] = "writeLock"
  PROVE  writeSeq + 1 \in Ops
<1>1. c \in Queued
  BY DEF Queued
<1>2. Cardinality(Queued) >= 1 /\ Cardinality(Queued) \in Nat
  BY <1>1, QueuedCount
<1>3. /\ writeSeq + Cardinality(Queued) <= begun
      /\ writeSeq \in Nat /\ begun \in 0 .. MaxOps
  BY DEF TypeInv, TypeOK, CountInv
<1> QED
  BY <1>2, <1>3, ExchangeAssumption DEF Ops, ExchangeAssumption

LEMMA StepTypeOK == TypeInv /\ [Next]_vars => TypeOK'
<1> SUFFICES ASSUME TypeInv, [Next]_vars PROVE TypeOK'
  OBVIOUS
<1> USE DEF sessionVars, callVars, readerVars, devVars
<1>0. /\ MaxSessions \in Nat /\ MaxOps \in Nat /\ MaxVer \in Nat
      /\ ReadCap \in Nat \ {0} /\ Nobody \notin Callers
  BY ExchangeAssumption DEF ExchangeAssumption
<1>1. TypeOK
  BY DEF TypeInv
<1>2. CASE Install
  BY <1>0, <1>1, <1>2 DEF Install, ResetSeq, TypeOK, Sessions
<1>3. CASE Login \/ Disconnect
  BY <1>1, <1>3 DEF Login, Disconnect, TypeOK
<1>4. ASSUME NEW c \in Callers, BeginRead(c) \/ BeginWrite(c) PROVE TypeOK'
  <2>1. PICK where \in {"readLock", "writeLock"} : Begin(c, where)
    BY <1>4 DEF BeginRead, BeginWrite
  <2>2. begun + 1 \in Ops /\ begun + 1 \in 0 .. MaxOps
    BY <1>0, <1>1, <2>1 DEF Begin, TypeOK, Ops
  <2> QED
    BY <1>1, <2>1, <2>2 DEF Begin, TypeOK
<1>5. ASSUME NEW c \in Callers, LockRead(c) PROVE TypeOK'
  BY <1>0, <1>1, <1>5 DEF LockRead, DrainRead, TypeOK
<1>6. ASSUME NEW c \in Callers, SendRead(c) PROVE TypeOK'
  BY <1>1, <1>6 DEF SendRead, Return, TypeOK, Nil
<1>7. ASSUME NEW c \in Callers, ReadReturns(c) PROVE TypeOK'
  <2>1. Tail(readCh) \in Seq(Versions) /\ Len(Tail(readCh)) <= ReadCap
    BY <1>0, <1>1, <1>7 DEF ReadReturns, TypeOK
  <2> QED
    BY <1>1, <1>7, <2>1 DEF ReadReturns, Return, TypeOK
<1>8. ASSUME NEW c \in Callers, ReadTimeout(c) PROVE TypeOK'
  BY <1>1, <1>8 DEF ReadTimeout, Return, TypeOK
<1>9. ASSUME NEW c \in Callers, LockWrite(c) PROVE TypeOK'
  <2>1. writeSeq + 1 \in 0 .. MaxOps
    BY <1>9, RoomForNumber, <1>0 DEF LockWrite, Ops
  <2>2. /\ pc' \in [Callers -> {"idle", "readLock", "readSend", "readWait",
                                "writeLock", "writeSend", "writeWait"}]
        /\ opMu' \in Callers \cup {Nobody}
    BY <1>1, <1>9 DEF LockWrite, Return, TypeOK
  <2>3. writeSeq' \in 0 .. MaxOps /\ wseq' \in [Callers -> 0 .. MaxOps]
    <3>1. \/ /\ writeSeq' = writeSeq + 1
             /\ wseq' = [wseq EXCEPT ![c] = writeSeq + 1]
          \/ writeSeq' = writeSeq /\ wseq' = wseq
      BY <1>9 DEF LockWrite, NextSeq
    <3>2. writeSeq \in 0 .. MaxOps /\ wseq \in [Callers -> 0 .. MaxOps]
      BY <1>1 DEF TypeOK
    <3> QED
      BY <2>1, <3>1, <3>2
  <2>4. UNCHANGED <<sessionVars, crossed, req, used, floor, begun, readCh,
                    writeCh, done, readerVars, devVars>>
    BY <1>9 DEF LockWrite
  <2>5. loggedIn' = loggedIn /\ crossed' = crossed
    BY <2>4
  <2>6. /\ conn' = conn /\ sessions' = sessions /\ req' = req /\ used' = used
        /\ floor' = floor /\ begun' = begun /\ readCh' = readCh
        /\ writeCh' = writeCh /\ done' = done /\ reader' = reader
        /\ seen' = seen /\ answered' = answered /\ applied' = applied
        /\ devVer' = devVer
    BY <2>4
  <2> QED
    BY <1>1, <2>2, <2>3, <2>5, <2>6 DEF TypeOK
<1>10. ASSUME NEW c \in Callers, SendWrite(c) PROVE TypeOK'
  <2>1. /\ pc' \in [Callers -> {"idle", "readLock", "readSend", "readWait",
                                "writeLock", "writeSend", "writeWait"}]
        /\ opMu' \in Callers \cup {Nobody}
    BY <1>1, <1>10 DEF SendWrite, Return, TypeOK
  <2>2. writeCh' \in [Ops -> Callers \cup {Nobody}]
    <3>1. writeCh' = [writeCh EXCEPT ![wseq[c]] = c] \/ writeCh' = writeCh
      BY <1>10 DEF SendWrite
    <3> QED
      BY <1>1, <3>1 DEF TypeOK
  <2>3. used' \in [Callers -> Sessions \cup {Nil}]
    BY <1>1, <1>10 DEF SendWrite, TypeOK
  <2>4. done' \subseteq Callers
    BY <1>1, <1>10 DEF SendWrite, TypeOK
  <2> QED
    BY <1>1, <1>10, <2>1, <2>2, <2>3, <2>4 DEF SendWrite, TypeOK
<1>11. ASSUME NEW c \in Callers, WriteReturns(c) PROVE TypeOK'
  BY <1>1, <1>11 DEF WriteReturns, Return, TypeOK
<1>12. ASSUME NEW f \in Reports, Deliver(f), ~Full,
              UNCHANGED <<sessionVars, crossed, opMu, callVars, writeSeq,
                          writeCh, done, devVars>>
       PROVE  TypeOK'
  <2>1. f.ver \in Versions /\ f.op \in Ops \cup {0}
    BY <1>12 DEF Reports
  <2>2. /\ Append(readCh, f.ver) \in Seq(Versions)
        /\ Len(Append(readCh, f.ver)) <= ReadCap
    BY <1>0, <1>1, <1>12, <2>1 DEF Full, TypeOK
  <2> QED
    BY <1>1, <1>12, <2>1, <2>2 DEF Deliver, TypeOK
<1>13. CASE DispatchStatus
  <2>1. Head(toApp) \in Reports
    BY <1>13, TailElems DEF DispatchStatus, TypeInv, WireType
  <2>2. CASE Deliver(Head(toApp)) /\ ~Full
    BY <1>12, <1>13, <2>1, <2>2 DEF DispatchStatus
  <2>3. CASE reader' = "dropOldest" /\ UNCHANGED <<readCh, seen, answered>>
    BY <1>1, <1>13, <2>3 DEF DispatchStatus, TypeOK
  <2> QED
    BY <1>13, <2>2, <2>3 DEF DispatchStatus
<1>14. CASE DropOldest
  <2>1. Tail(readCh) \in Seq(Versions) /\ Len(Tail(readCh)) <= ReadCap
    BY <1>0, <1>1, <1>14 DEF DropOldest, TypeOK
  <2> QED
    BY <1>1, <1>14, <2>1 DEF DropOldest, TypeOK
<1>15. CASE PushStatus
  BY <1>12, <1>15 DEF PushStatus, TypeInv, WireType
<1>16. CASE DispatchAck
  <2>1. Head(toApp) \in WriteFrames
    BY <1>16, TailElems DEF DispatchAck, TypeInv, WireType, WriteFrames, Coming
  <2>2. writeCh[Head(toApp).seq] \in Callers \cup {Nobody}
    BY <1>1, <2>1 DEF TypeOK, TypeInv, WireType
  <2> QED
    BY <1>1, <1>16, <2>2 DEF DispatchAck, TypeOK
<1>17. CASE DevAnswer
  <2>1. Head(toDev) \in Requests
    BY <1>17, TailElems DEF DevAnswer, TypeInv, WireType
  <2> QED
    BY <1>1, <1>17, <2>1 DEF DevAnswer, TypeOK, Requests
<1>18. CASE DevChange
  BY <1>0, <1>1, <1>18 DEF DevChange, TypeOK, Versions
<1>19. CASE UNCHANGED vars
  BY <1>1, <1>19 DEF vars, TypeOK
<1> QED
  BY <1>2, <1>3, <1>4, <1>5, <1>6, <1>7, <1>8, <1>9, <1>10, <1>11, <1>13,
     <1>14, <1>15, <1>16, <1>17, <1>18, <1>19
     DEF Next, Session, Reader, Device, Caller, Lock, Proceed

\* A step adds to the wires at most the frame it sends.
LEMMA StepWireType == TypeInv /\ [Next]_vars => WireType'
<1> SUFFICES ASSUME TypeInv, [Next]_vars PROVE WireType'
  OBVIOUS
<1>0. WireType
  BY DEF TypeInv
<1>1. ASSUME UNCHANGED <<toDev, toApp, rhand>> PROVE WireType'
  BY <1>0, <1>1 DEF WireType, WriteFrames, Sent, Coming
<1>2. CASE Disconnect
  BY <1>0, <1>2, NothingElems
     DEF Disconnect, readerVars, WireType, WriteFrames, Sent, Coming
<1>3. ASSUME NEW c \in Callers, SendRead(c) PROVE WireType'
  <2>1. CASE UNCHANGED toDev
    BY <1>1, <1>3, <2>1 DEF SendRead, readerVars
  <2>2. CASE toDev' = Append(toDev, ReadReq(req[c]))
    <3>1. ReadReq(req[c]) \in Requests
      BY <1>3, ExchangeAssumption
         DEF SendRead, TypeInv, TypeOK, CountInv, ReadReq, Requests, Ops,
             ExchangeAssumption
    <3>2. toDev' \in Seq(Requests) /\ Sent' = Sent \cup {ReadReq(req[c])}
      BY <1>0, <2>2, <3>1, AppendElems DEF WireType, Sent
    <3>3. UNCHANGED <<toApp, rhand>>
      BY <1>3 DEF SendRead, readerVars
    <3> QED
      BY <1>0, <3>2, <3>3 DEF WireType, WriteFrames, Coming, ReadReq
  <2> QED
    BY <1>3, <2>1, <2>2 DEF SendRead
<1>4. ASSUME NEW c \in Callers, SendWrite(c) PROVE WireType'
  <2>1. CASE UNCHANGED toDev
    BY <1>1, <1>4, <2>1 DEF SendWrite, readerVars
  <2>2. CASE toDev' = Append(toDev, WriteReq(req[c], wseq[c]))
    <3>1. WriteReq(req[c], wseq[c]) \in Requests
      BY <1>4, ExchangeAssumption
         DEF SendWrite, TypeInv, TypeOK, CountInv, WriteReq, Requests, Ops,
             ExchangeAssumption
    <3>2. req[c] \in Ops /\ wseq[c] \in Ops
      BY <1>4, ExchangeAssumption
         DEF SendWrite, TypeInv, TypeOK, CountInv, Ops, ExchangeAssumption
    <3>3. /\ toDev' \in Seq(Requests)
          /\ Sent' = Sent \cup {WriteReq(req[c], wseq[c])}
      BY <1>0, <2>2, <3>1, AppendElems DEF WireType, Sent
    <3>4. UNCHANGED <<toApp, rhand>>
      BY <1>4 DEF SendWrite, readerVars
    <3> QED
      BY <1>0, <3>2, <3>3, <3>4 DEF WireType, WriteFrames, Coming, WriteReq
  <2> QED
    BY <1>4, <2>1, <2>2 DEF SendWrite
<1>5. CASE DispatchStatus \/ DispatchAck
  <2>1. toApp # << >> /\ toApp' = Tail(toApp) /\ UNCHANGED toDev
    BY <1>5 DEF DispatchStatus, DispatchAck
  <2>2. /\ toApp' \in Seq(Reports) /\ Head(toApp) \in Reports
        /\ Coming' \subseteq Coming
    BY <1>0, <2>1, TailElems DEF WireType, Coming
  <2>3. rhand' \in Reports /\ rhand'.kind = "status"
    BY <1>0, <1>5, <2>2 DEF DispatchStatus, DispatchAck, readerVars, WireType
  <2> QED
    BY <1>0, <2>1, <2>2, <2>3 DEF WireType, WriteFrames, Sent
<1>6. CASE PushStatus
  <2>1. NoFrame \in Reports /\ NoFrame.kind = "status"
    BY ExchangeAssumption
       DEF NoFrame, StatusFrame, Reports, Versions, ExchangeAssumption
  <2>2. rhand' = NoFrame /\ UNCHANGED <<toDev, toApp>>
    BY <1>6 DEF PushStatus
  <2> QED
    BY <1>0, <2>1, <2>2 DEF WireType, WriteFrames, Sent, Coming
<1>7. CASE DevAnswer
  <2> DEFINE m == Head(toDev)
  <2>1. /\ toDev' = Tail(toDev) /\ m \in Requests /\ m \in Sent
        /\ toDev' \in Seq(Requests) /\ Sent' \subseteq Sent
    BY <1>0, <1>7, TailElems DEF DevAnswer, WireType, Sent
  <2>2. UNCHANGED rhand /\ devVer \in Versions
    BY <1>7 DEF DevAnswer, readerVars, TypeInv, TypeOK
  <2>3. CASE UNCHANGED toApp
    BY <1>0, <2>1, <2>2, <2>3 DEF WireType, WriteFrames, Coming
  <2>4. ASSUME NEW f \in Reports, toApp' = Append(toApp, f),
               f.kind = "ack" => f.seq \in Ops /\ f.op \in Ops
        PROVE  WireType'
    <3>1. toApp' \in Seq(Reports) /\ Coming' = Coming \cup {f}
      BY <1>0, <2>4, AppendElems DEF WireType, Coming
    <3> QED
      BY <1>0, <2>1, <2>2, <2>4, <3>1 DEF WireType, WriteFrames
  <2>5. StatusFrame(devVer, m.op) \in Reports
    BY <2>1, <2>2, ExchangeAssumption
       DEF StatusFrame, Reports, Requests, ExchangeAssumption
  <2>6. CASE m.kind = "write" /\ toApp' = Append(toApp, AckFrame(m.seq, m.op))
    <3>1. m.seq \in Ops /\ m.op \in Ops
      BY <1>0, <2>1, <2>6 DEF WireType, WriteFrames
    <3>2. AckFrame(m.seq, m.op) \in Reports
      BY <3>1, ExchangeAssumption
         DEF AckFrame, Reports, Versions, Ops, ExchangeAssumption
    <3> QED
      BY <2>4, <2>6, <3>1, <3>2 DEF AckFrame
  <2> QED
    BY <1>7, <2>3, <2>4, <2>5, <2>6 DEF DevAnswer, StatusFrame
<1>8. CASE DevChange
  <2> DEFINE f == StatusFrame(devVer + 1, 0)
  <2>1. toApp' = Append(toApp, f) /\ UNCHANGED <<toDev, rhand>>
    BY <1>8 DEF DevChange, readerVars
  <2>2. f \in Reports
    BY <1>8, ExchangeAssumption
       DEF DevChange, StatusFrame, Reports, Versions, TypeInv, TypeOK,
           ExchangeAssumption
  <2>3. toApp' \in Seq(Reports) /\ Coming' = Coming \cup {f}
    BY <1>0, <2>1, <2>2, AppendElems DEF WireType, Coming
  <2> QED
    BY <1>0, <2>1, <2>3 DEF WireType, WriteFrames, Sent, StatusFrame
<1>9. CASE Install \/ Login \/ DropOldest \/ UNCHANGED vars
  BY <1>1, <1>9 DEF Install, Login, DropOldest, vars, readerVars
<1>10. ASSUME NEW c \in Callers,
              \/ BeginRead(c) \/ BeginWrite(c) \/ Lock(c)
              \/ ReadReturns(c) \/ ReadTimeout(c) \/ WriteReturns(c)
       PROVE  WireType'
  BY <1>1, <1>10
     DEF BeginRead, BeginWrite, Begin, Lock, LockRead, LockWrite, ReadReturns,
         ReadTimeout, WriteReturns, readerVars
<1> QED
  BY <1>2, <1>3, <1>4, <1>5, <1>6, <1>7, <1>8, <1>9, <1>10
     DEF Next, Session, Reader, Device, Caller, Proceed

\* Only callers change what is kept of callers, each what is kept of itself.
LEMMA OthersKept ==
  ASSUME TypeInv, NEW c \in Callers, Caller(c), NEW d \in Callers, d # c
  PROVE  /\ pc'[d] = pc[d] /\ req'[d] = req[d] /\ used'[d] = used[d]
         /\ wseq'[d] = wseq[d] /\ floor'[d] = floor[d]
BY DEF Caller, BeginRead, BeginWrite, Begin, Lock, LockRead, LockWrite,
       Proceed, SendRead, ReadReturns, ReadTimeout, SendWrite, WriteReturns,
       Return, TypeInv, TypeOK

LEMMA CallsKept ==
  ASSUME Session \/ Reader \/ Device \/ UNCHANGED vars
  PROVE  UNCHANGED <<callVars, opMu, writeCh>>
BY DEF Session, Install, Login, Disconnect, Reader, DispatchStatus, DropOldest,
       PushStatus, DispatchAck, Device, DevAnswer, DevChange, vars

LEMMA StepCountInv == TypeInv /\ TypeOK' /\ [Next]_vars => CountInv'
<1> SUFFICES ASSUME TypeInv, TypeOK', [Next]_vars PROVE CountInv'
  OBVIOUS
<1>0. /\ begun \in Nat /\ writeSeq \in Nat /\ Cardinality(Queued) \in Nat
      /\ writeSeq + Cardinality(Queued) <= begun
  BY QueuedCount DEF TypeInv, TypeOK, CountInv
<1>1. ASSUME UNCHANGED <<pc, req, wseq, begun>>,
             writeSeq' = writeSeq \/ writeSeq' = 0
      PROVE  CountInv'
  <2>1. Queued' = Queued
    BY <1>1 DEF Queued
  <2> QED
    BY <1>0, <1>1, <2>1 DEF TypeInv, CountInv
<1>2. CASE Session \/ Reader \/ Device \/ UNCHANGED vars
  <2>1. writeSeq' = writeSeq \/ writeSeq' = 0
    BY <1>2 DEF Session, Install, ResetSeq, Login, Disconnect, Reader,
                DispatchStatus, DropOldest, PushStatus, DispatchAck, Device,
                DevAnswer, DevChange, vars
  <2> QED
    BY <1>1, <1>2, <2>1, CallsKept DEF callVars
<1>3. ASSUME NEW c \in Callers, Caller(c),
             writeSeq' + Cardinality(Queued') <= begun', begun' >= begun,
             pc'[c] \in {"writeSend", "writeWait"} => wseq'[c] \in Ops,
             pc'[c] # "idle" => req'[c] \in 1 .. begun'
      PROVE  CountInv'
  <2>1. ASSUME NEW d \in Callers
        PROVE  /\ pc'[d] \in {"writeSend", "writeWait"} => wseq'[d] \in Ops
               /\ pc'[d] # "idle" => req'[d] \in 1 .. begun'
    <3>1. CASE d = c
      BY <1>3, <3>1
    <3>2. CASE d # c
      <4>1. begun' \in Nat /\ 1 .. begun \subseteq 1 .. begun'
        BY <1>0, <1>3 DEF TypeOK
      <4> QED
        BY <1>3, <3>2, <4>1, OthersKept DEF TypeInv, CountInv
    <3> QED
      BY <3>1, <3>2
  <2> QED
    BY <1>3, <2>1 DEF CountInv
<1>4. ASSUME NEW c \in Callers, Caller(c), begun' = begun,
             writeSeq' = writeSeq,
             (pc[c] = "writeLock") = (pc'[c] = "writeLock")
      PROVE  writeSeq' + Cardinality(Queued') <= begun'
  <2>1. Queued' = Queued
    BY <1>4, OthersKept DEF Queued
  <2> QED
    BY <1>0, <1>4, <2>1
<1>5. ASSUME NEW c \in Callers, BeginRead(c) PROVE CountInv'
  <2>1. Caller(c) /\ begun' = begun + 1 /\ writeSeq' = writeSeq
    BY <1>5 DEF Caller, BeginRead, Begin
  <2>2. pc[c] = "idle" /\ pc'[c] = "readLock" /\ req'[c] = begun + 1
    BY <1>5 DEF BeginRead, Begin, TypeInv, TypeOK
  <2>3. Queued' = Queued
    BY <2>1, <2>2, OthersKept DEF Queued
  <2>4. req'[c] \in 1 .. begun'
    BY <1>0, <2>1, <2>2
  <2>5. writeSeq' + Cardinality(Queued') <= begun' /\ begun' >= begun
    BY <1>0, <2>1, <2>3
  <2> QED
    BY <1>3, <2>1, <2>2, <2>4, <2>5
<1>6. ASSUME NEW c \in Callers, BeginWrite(c) PROVE CountInv'
  <2>1. Caller(c) /\ begun' = begun + 1 /\ writeSeq' = writeSeq
    BY <1>6 DEF Caller, BeginWrite, Begin
  <2>2. pc[c] = "idle" /\ pc'[c] = "writeLock" /\ req'[c] = begun + 1
    BY <1>6 DEF BeginWrite, Begin, TypeInv, TypeOK
  <2>3. Queued' = Queued \cup {c} /\ c \notin Queued
    BY <2>1, <2>2, OthersKept DEF Queued
  <2>4. Cardinality(Queued') = Cardinality(Queued) + 1
    BY <2>3, QueuedCount
  <2>5. req'[c] \in 1 .. begun'
    BY <1>0, <2>1, <2>2
  <2>6. writeSeq' + Cardinality(Queued') <= begun' /\ begun' >= begun
    BY <1>0, <2>1, <2>4
  <2> QED
    BY <1>3, <2>1, <2>2, <2>5, <2>6
<1>7. ASSUME NEW c \in Callers, LockWrite(c) PROVE CountInv'
  <2>1. Caller(c) /\ begun' = begun /\ pc[c] = "writeLock" /\ req' = req
    BY <1>7 DEF Caller, Lock, LockWrite
  <2>2. \/ writeSeq' = writeSeq + 1 /\ pc'[c] = "writeSend"
           /\ wseq'[c] = writeSeq + 1
        \/ writeSeq' = writeSeq /\ pc'[c] = "idle"
    BY <1>7 DEF LockWrite, NextSeq, Return, TypeInv, TypeOK
  <2>3. Queued' = Queued \ {c} /\ c \in Queued
    BY <2>1, <2>2, OthersKept DEF Queued
  <2>4. Cardinality(Queued') = Cardinality(Queued) - 1
    BY <2>3, QueuedCount
  <2>5. writeSeq' + Cardinality(Queued') <= begun' /\ begun' >= begun
    BY <1>0, <2>1, <2>2, <2>4
  <2>6. writeSeq + 1 \in Ops /\ req[c] \in 1 .. begun
    BY <2>1, RoomForNumber DEF TypeInv, CountInv
  <2> QED
    BY <1>3, <2>1, <2>2, <2>5, <2>6
<1>8. ASSUME NEW c \in Callers, LockRead(c) \/ Proceed(c) PROVE CountInv'
  <2>1. Caller(c) /\ begun' = begun /\ writeSeq' = writeSeq
        /\ req' = req /\ wseq' = wseq
    BY <1>8 DEF Caller, Lock, LockRead, Proceed, SendRead, ReadReturns,
                ReadTimeout, SendWrite, WriteReturns
  <2>2. /\ pc[c] # "idle" /\ pc[c] # "writeLock" /\ pc'[c] # "writeLock"
        /\ pc'[c] \in {"writeSend", "writeWait"} => pc[c] = "writeSend"
    BY <1>8 DEF LockRead, Proceed, SendRead, ReadReturns, ReadTimeout,
                SendWrite, WriteReturns, Return, TypeInv, TypeOK
  <2>3. writeSeq' + Cardinality(Queued') <= begun' /\ begun' >= begun
    BY <1>0, <1>4, <2>1, <2>2
  <2> QED
    BY <1>3, <2>1, <2>2, <2>3 DEF TypeInv, CountInv
<1> QED
  BY <1>2, <1>5, <1>6, <1>7, <1>8 DEF Next, Caller, Lock

LEMMA TypeInvariance == Spec => []TypeInv
<1>1. TypeInv /\ [Next]_vars => TypeInv'
  BY StepTypeOK, StepWireType, StepCountInv DEF TypeInv
<1>2. QED
  BY <1>1, InitTypeInv, PTL DEF Spec

\* The types hold whatever callers, reader, tub and network do (client.go
\* 137-243, 280-345): a sequence number is never more than the calls begun,
\* and readCh never holds more than its capacity.
THEOREM ExchangeTypes == Spec => []TypeOK
<1>1. TypeInv => TypeOK
  BY DEF TypeInv
<1>2. QED
  BY <1>1, TypeInvariance, PTL

-----------------------------------------------------------------------------
(* opMu, and the calls under way.                                          *)

LEMMA StepCallInv == TypeInv /\ CallInv /\ [Next]_vars => CallInv'
<1> SUFFICES ASSUME TypeInv, CallInv, [Next]_vars PROVE CallInv'
  OBVIOUS
<1>1. CASE Session \/ Reader \/ Device \/ UNCHANGED vars
  BY <1>1, CallsKept DEF callVars, CallInv, InSection
<1>2. ASSUME NEW c \in Callers, Caller(c),
             \A d \in Callers \ {c} : InSection(d) => opMu' = d,
             InSection(c)' => opMu' = c,
             pc'[c] # "idle" =>
                \A d \in Callers \ {c} : pc[d] # "idle" => req'[c] # req[d]
      PROVE  CallInv'
  <2>1. ASSUME NEW d \in Callers PROVE InSection(d)' => opMu' = d
    BY <1>2, OthersKept DEF InSection
  <2>2. ASSUME NEW d \in Callers, NEW e \in Callers, d # e,
               pc'[d] # "idle", pc'[e] # "idle"
        PROVE  req'[d] # req'[e]
    BY <1>2, <2>2, OthersKept DEF CallInv
  <2> QED
    BY <2>1, <2>2 DEF CallInv
<1>3. ASSUME NEW c \in Callers, BeginRead(c) \/ BeginWrite(c) PROVE CallInv'
  <2>1. /\ Caller(c) /\ opMu' = opMu /\ req'[c] = begun + 1
        /\ pc'[c] \in {"readLock", "writeLock"}
    BY <1>3 DEF Caller, BeginRead, BeginWrite, Begin, TypeInv, TypeOK
  <2>2. \A d \in Callers : pc[d] # "idle" => req[d] # begun + 1
    BY DEF TypeInv, TypeOK, CountInv
  <2> QED
    BY <1>2, <2>1, <2>2 DEF CallInv, InSection
<1>4. ASSUME NEW c \in Callers, Lock(c) PROVE CallInv'
  <2>1. \A d \in Callers : ~InSection(d)
    BY <1>4, ExchangeAssumption
       DEF Lock, LockRead, LockWrite, LockFree, CallInv, ExchangeAssumption
  <2>2. Caller(c) /\ req' = req /\ pc[c] # "idle"
    BY <1>4 DEF Caller, Lock, LockRead, LockWrite
  <2>3. InSection(c)' => opMu' = c
    BY <1>4 DEF Lock, LockRead, LockWrite, Return, InSection, TypeInv, TypeOK
  <2> QED
    BY <1>2, <2>1, <2>2, <2>3 DEF CallInv
<1>5. ASSUME NEW c \in Callers, Proceed(c) PROVE CallInv'
  <2>1. InSection(c)
    BY <1>5 DEF Proceed, SendRead, ReadReturns, ReadTimeout, SendWrite,
                WriteReturns, InSection
  <2>2. \A d \in Callers \ {c} : ~InSection(d)
    BY <2>1 DEF CallInv
  <2>3. Caller(c) /\ req' = req /\ pc[c] # "idle"
    BY <1>5 DEF Caller, Proceed, SendRead, ReadReturns, ReadTimeout, SendWrite,
                WriteReturns
  <2>4. InSection(c)' => opMu' = opMu
    BY <1>5 DEF Proceed, SendRead, ReadReturns, ReadTimeout, SendWrite,
                WriteReturns, Return, InSection, TypeInv, TypeOK
  <2> QED
    BY <1>2, <2>1, <2>2, <2>3, <2>4 DEF CallInv
<1> QED
  BY <1>1, <1>3, <1>4, <1>5 DEF Next, Caller

\* What is under way comes from what was, or is the request a caller sends.
LEMMA KnownKept ==
  ASSUME TypeInv, [Next]_vars,
         \A c \in Callers : ~SendRead(c) /\ ~SendWrite(c)
  PROVE  Known' \subseteq Known \cup {0}
<1>0. WireType
  BY DEF TypeInv
<1>1. ASSUME UNCHANGED <<toDev, toApp, rhand, answered>> PROVE Known' = Known
  BY <1>1 DEF Known, Sent, Coming
<1>2. CASE Disconnect
  BY <1>2, NothingElems DEF Disconnect, readerVars, Known, Sent, Coming
<1>3. CASE DispatchStatus \/ DispatchAck
  <2> DEFINE m == Head(toApp)
  <2>1. /\ Coming' \subseteq Coming /\ m \in Coming /\ UNCHANGED Sent
        /\ rhand' \in {rhand, m}
        /\ answered' \subseteq answered \cup {m.op}
    BY <1>0, <1>3, TailElems
       DEF DispatchStatus, DispatchAck, Deliver, WireType, Coming, Sent,
           readerVars
  <2> HIDE DEF m
  <2> QED
    BY <2>1 DEF Known
<1>4. CASE PushStatus
  <2>1. /\ UNCHANGED <<Sent, Coming>> /\ rhand'.op = 0
        /\ answered' \subseteq answered \cup {rhand.op}
    BY <1>4 DEF PushStatus, Deliver, Sent, Coming, NoFrame, StatusFrame
  <2> QED
    BY <2>1 DEF Known
<1>5. CASE DevAnswer
  <2> DEFINE m == Head(toDev)
  <2>1. m \in Sent /\ Sent' \subseteq Sent /\ UNCHANGED <<rhand, answered>>
    BY <1>0, <1>5, TailElems DEF DevAnswer, WireType, Sent, readerVars
  <2>2. CASE UNCHANGED toApp
    BY <2>1, <2>2 DEF Known, Coming
  <2>3. ASSUME NEW f \in Reports, toApp' = Append(toApp, f), f.op = m.op
        PROVE  Known' \subseteq Known
    <3>1. Coming' = Coming \cup {f}
      BY <1>0, <2>3, AppendElems DEF WireType, Coming
    <3> QED
      BY <2>1, <2>3, <3>1 DEF Known
  <2>4. m \in Requests /\ (m.kind = "write" => m.seq \in Ops /\ m.op \in Ops)
    BY <1>0, <1>5, <2>1, TailElems DEF DevAnswer, WireType, WriteFrames
  <2>5. StatusFrame(devVer, m.op) \in Reports
    BY <2>4, ExchangeAssumption
       DEF StatusFrame, Reports, Requests, TypeInv, TypeOK, ExchangeAssumption
  <2>6. m.kind = "write" => AckFrame(m.seq, m.op) \in Reports
    BY <2>4, ExchangeAssumption
       DEF AckFrame, Reports, Versions, Ops, ExchangeAssumption
  <2> QED
    BY <1>5, <2>2, <2>3, <2>5, <2>6 DEF DevAnswer, StatusFrame, AckFrame
<1>6. CASE DevChange
  <2> DEFINE f == StatusFrame(devVer + 1, 0)
  <2>1. f \in Reports
    BY <1>6, ExchangeAssumption
       DEF DevChange, StatusFrame, Reports, Versions, TypeInv, TypeOK,
           ExchangeAssumption
  <2>2. Coming' = Coming \cup {f} /\ UNCHANGED <<Sent, rhand, answered>>
    BY <1>0, <1>6, <2>1, AppendElems
       DEF DevChange, WireType, Coming, Sent, readerVars
  <2> QED
    BY <2>2 DEF Known, StatusFrame
<1>7. CASE Install \/ Login \/ DropOldest \/ UNCHANGED vars
  BY <1>1, <1>7 DEF Install, Login, DropOldest, vars, readerVars
<1>8. ASSUME NEW c \in Callers,
             \/ BeginRead(c) \/ BeginWrite(c) \/ Lock(c)
             \/ ReadReturns(c) \/ ReadTimeout(c) \/ WriteReturns(c)
      PROVE  Known' = Known
  BY <1>1, <1>8
     DEF BeginRead, BeginWrite, Begin, Lock, LockRead, LockWrite, ReadReturns,
         ReadTimeout, WriteReturns, readerVars
<1> QED
  BY <1>2, <1>3, <1>4, <1>5, <1>6, <1>7, <1>8
     DEF Next, Session, Reader, Device, Caller, Proceed

\* A caller sends its own request, or nothing.
LEMMA SendEffect ==
  ASSUME TypeInv, NEW c \in Callers, SendRead(c) \/ SendWrite(c)
  PROVE  /\ Coming' = Coming
         /\ \/ Sent' = Sent
            \/ pc[c] = "readSend" /\ Sent' = Sent \cup {ReadReq(req[c])}
            \/ pc[c] = "writeSend"
               /\ Sent' = Sent \cup {WriteReq(req[c], wseq[c])}
         /\ UNCHANGED <<rhand, answered>>
<1>1. req[c] \in Ops /\ (pc[c] = "writeSend" => wseq[c] \in Ops)
  BY ExchangeAssumption
     DEF SendRead, SendWrite, TypeInv, TypeOK, CountInv, Ops,
         ExchangeAssumption
<1>2. /\ ReadReq(req[c]) \in Requests
      /\ pc[c] = "writeSend" => WriteReq(req[c], wseq[c]) \in Requests
  BY <1>1, ExchangeAssumption
     DEF ReadReq, WriteReq, Requests, Ops, ExchangeAssumption
<1>3. /\ UNCHANGED <<toApp, rhand, answered>>
      /\ \/ toDev' = toDev
         \/ pc[c] = "readSend" /\ toDev' = Append(toDev, ReadReq(req[c]))
         \/ pc[c] = "writeSend"
            /\ toDev' = Append(toDev, WriteReq(req[c], wseq[c]))
  BY DEF SendRead, SendWrite, readerVars
<1>4. ASSUME NEW m \in Requests, toDev' = Append(toDev, m)
      PROVE  Sent' = Sent \cup {m}
  BY <1>4, AppendElems DEF Sent, TypeInv, WireType
<1>5. Coming' = Coming /\ (toDev' = toDev => Sent' = Sent)
  BY <1>3 DEF Coming, Sent
<1> QED
  BY <1>2, <1>3, <1>4, <1>5

LEMMA StepKnownInv ==
  TypeInv /\ CallInv /\ KnownInv /\ TypeInv' /\ [Next]_vars => KnownInv'
<1> SUFFICES ASSUME TypeInv, CallInv, KnownInv, TypeInv', [Next]_vars
             PROVE  KnownInv'
  OBVIOUS
<1> DEFINE Unsent == {"readLock", "readSend", "writeLock", "writeSend"}
<1>1. begun \in Nat /\ begun' \in Nat /\ begun <= begun'
  <2>1. begun \in Nat /\ begun' \in Nat
    BY DEF TypeInv, TypeOK
  <2>2. begun' = begun \/ begun' = begun + 1
    BY CallsKept
       DEF callVars, Next, Caller, BeginRead, BeginWrite, Begin, Lock, LockRead,
           LockWrite, Proceed, SendRead, ReadReturns, ReadTimeout, SendWrite,
           WriteReturns
  <2> QED
    BY <2>1, <2>2
<1>2. ASSUME NEW c \in Callers, SendRead(c) \/ SendWrite(c) PROVE KnownInv'
  <2>1. Known' \subseteq Known \cup {req[c]}
    BY <1>2, SendEffect DEF Known, ReadReq, WriteReq
  <2>2. /\ Caller(c) /\ pc'[c] \notin Unsent /\ pc[c] \in Unsent
        /\ begun' = begun
    BY <1>2 DEF SendRead, SendWrite, Return, Caller, Proceed, TypeInv, TypeOK
  <2>3. req[c] \in 0 .. begun
    BY <2>2 DEF TypeInv, TypeOK, CountInv
  <2>4. ASSUME NEW d \in Callers, pc'[d] \in Unsent PROVE req'[d] \notin Known'
    <3>1. d # c
      BY <2>2, <2>4
    <3>2. pc[d] = pc'[d] /\ req'[d] = req[d]
      BY <2>2, <3>1, OthersKept
    <3>3. req[d] # req[c]
      BY <2>2, <2>4, <3>1, <3>2 DEF CallInv
    <3> QED
      BY <2>1, <2>4, <3>2, <3>3 DEF KnownInv
  <2> QED
    BY <2>1, <2>2, <2>3, <2>4 DEF KnownInv
<1>3. ASSUME \A c \in Callers : ~SendRead(c) /\ ~SendWrite(c) PROVE KnownInv'
  <2>1. Known' \subseteq Known \cup {0}
    BY <1>3, KnownKept
  <2>2. Known' \subseteq 0 .. begun'
    <3>1. 0 .. begun \subseteq 0 .. begun' /\ 0 \in 0 .. begun'
      BY <1>1
    <3> QED
      BY <2>1, <3>1 DEF KnownInv
  <2>3. ASSUME NEW d \in Callers, pc'[d] \in Unsent PROVE req'[d] \notin Known'
    <3>1. req'[d] # 0
      <4>1. req'[d] \in 1 .. begun'
        BY <2>3 DEF TypeInv, CountInv
      <4> QED
        BY <1>1, <4>1
    <3>2. CASE pc[d] \in Unsent /\ req'[d] = req[d]
      BY <2>1, <3>1, <3>2 DEF KnownInv
    <3>3. CASE BeginRead(d) \/ BeginWrite(d)
      <4>1. req'[d] = begun + 1
        BY <3>3 DEF BeginRead, BeginWrite, Begin, TypeInv, TypeOK
      <4> QED
        BY <1>1, <2>1, <3>1, <4>1 DEF KnownInv
    <3>4. \/ pc[d] \in Unsent /\ req'[d] = req[d]
          \/ BeginRead(d) \/ BeginWrite(d)
      <4>1. CASE Session \/ Reader \/ Device \/ UNCHANGED vars
        BY <2>3, <4>1, CallsKept DEF callVars
      <4>2. ASSUME NEW c \in Callers, Caller(c), c # d
            PROVE  pc[d] \in Unsent /\ req'[d] = req[d]
        BY <2>3, <4>2, OthersKept
      <4>3. CASE Lock(d) \/ Proceed(d)
        BY <1>3, <2>3, <4>3
           DEF Lock, LockRead, LockWrite, Proceed, ReadReturns, ReadTimeout,
               WriteReturns, Return, TypeInv, TypeOK
      <4> QED
        BY <4>1, <4>2, <4>3 DEF Next, Caller
    <3> QED
      BY <3>2, <3>3, <3>4
  <2> QED
    BY <2>2, <2>3 DEF KnownInv
<1> QED
  BY <1>2, <1>3

-----------------------------------------------------------------------------
(* Versions.                                                               *)

LEMMA StepOrderInv == TypeInv /\ OrderInv /\ [Next]_vars => OrderInv'
<1> SUFFICES ASSUME TypeInv, OrderInv, [Next]_vars PROVE OrderInv'
  OBVIOUS
<1>0. /\ toApp \in Seq(Reports) /\ Len(toApp) \in Nat
      /\ devVer \in Nat /\ seen \in Nat /\ rhand.ver \in Nat
      /\ \A i \in Statuses : toApp[i].ver \in Nat
  <2>1. Versions \subseteq Nat
    BY DEF Versions
  <2>2. toApp \in Seq(Reports) /\ rhand \in Reports
    BY DEF TypeInv, WireType
  <2>3. \A m \in Reports : m.ver \in Nat
    BY <2>1 DEF Reports
  <2>4. \A i \in Statuses : toApp[i] \in Reports
    BY <2>2 DEF Statuses
  <2> QED
    BY <2>1, <2>2, <2>3, <2>4 DEF TypeInv, TypeOK
<1>1. ASSUME UNCHANGED <<toApp, rhand, reader, seen, devVer>> PROVE OrderInv'
  BY <1>1 DEF OrderInv, Statuses
<1>2. CASE Disconnect
  <2>1. /\ toApp' = << >> /\ reader' = "reading"
        /\ UNCHANGED <<rhand, seen, devVer>>
    BY <1>2 DEF Disconnect, readerVars, devVars
  <2>2. Statuses' = {}
    BY <2>1 DEF Statuses
  <2> QED
    BY <2>1, <2>2 DEF OrderInv
\* The head of the link is the oldest status on it, and is taken off it.
<1>3. ASSUME toApp # << >>, toApp' = Tail(toApp)
      PROVE  /\ \A i \in Statuses' :
                   i + 1 \in Statuses /\ toApp'[i] = toApp[i + 1]
             /\ 1 \in Statuses <=> Head(toApp).kind = "status"
             /\ Head(toApp) = toApp[1]
  <2>1. /\ Len(toApp') = Len(toApp) - 1 /\ Len(toApp) >= 1
        /\ \A i \in 1 .. Len(toApp') : toApp'[i] = toApp[i + 1]
        /\ Head(toApp) = toApp[1]
    BY <1>0, <1>3
  <2> QED
    BY <1>0, <2>1 DEF Statuses
<1>4. CASE DispatchAck
  <2>1. /\ toApp # << >> /\ toApp' = Tail(toApp)
        /\ UNCHANGED <<rhand, reader, seen, devVer>>
    BY <1>4 DEF DispatchAck, readerVars, devVars
  <2>2. /\ Statuses \subseteq Int
        /\ \A i \in Statuses' :
              i + 1 \in Statuses /\ toApp'[i] = toApp[i + 1] /\ i \in Int
    BY <1>3, <2>1 DEF Statuses
  <2>3. /\ \A i \in Statuses' : seen <= toApp'[i].ver /\ toApp'[i].ver <= devVer
        /\ reader # "reading" => \A i \in Statuses' : rhand.ver <= toApp'[i].ver
    BY <2>2 DEF OrderInv
  <2>4. \A i, j \in Statuses' : i < j => toApp'[i].ver <= toApp'[j].ver
    <3> SUFFICES ASSUME NEW i \in Statuses', NEW j \in Statuses', i < j
                 PROVE  toApp'[i].ver <= toApp'[j].ver
      OBVIOUS
    <3>1. i + 1 < j + 1
      BY <2>2
    <3> QED
      BY <2>2, <3>1 DEF OrderInv
  <2> QED
    BY <2>1, <2>3, <2>4 DEF OrderInv
<1>5. CASE DispatchStatus
  <2> DEFINE m == Head(toApp)
  <2>1. /\ toApp # << >> /\ toApp' = Tail(toApp) /\ devVer' = devVer
        /\ m.kind = "status" /\ reader = "reading"
    BY <1>5 DEF DispatchStatus, devVars
  <2>2. /\ seen <= m.ver /\ m.ver <= devVer
        /\ \A i \in Statuses' : m.ver <= toApp'[i].ver /\ toApp'[i].ver <= devVer
        /\ \A i, j \in Statuses' : i < j => toApp'[i].ver <= toApp'[j].ver
    BY <1>0, <1>3, <2>1 DEF OrderInv, Statuses
  <2>3. CASE seen' = m.ver /\ reader' = "reading" /\ rhand' = rhand
    BY <2>1, <2>2, <2>3 DEF OrderInv
  <2>4. CASE seen' = seen /\ reader' = "dropOldest" /\ rhand' = m
    <3>1. \A i \in Statuses' : seen <= toApp'[i].ver
      BY <1>0, <1>3, <2>1 DEF OrderInv, Statuses
    <3> QED
      BY <2>1, <2>2, <2>4, <3>1 DEF OrderInv
  <2> QED
    BY <1>5, <2>3, <2>4 DEF DispatchStatus, Deliver
<1>6. CASE DropOldest
  <2>1. UNCHANGED <<toApp, rhand, seen, devVer>> /\ reader = "dropOldest"
    BY <1>6 DEF DropOldest, devVars
  <2> QED
    BY <2>1 DEF OrderInv, Statuses
<1>7. CASE PushStatus
  <2>1. /\ UNCHANGED <<toApp, devVer>> /\ reader = "push"
        /\ reader' = "reading" /\ seen' = rhand.ver /\ rhand'.ver = 0
    BY <1>7 DEF PushStatus, Deliver, NoFrame, StatusFrame, devVars
  <2> QED
    BY <1>0, <2>1 DEF OrderInv, Statuses
\* A status is the newest when the tub sends it.
<1>8. ASSUME NEW f, toApp' = Append(toApp, f),
             f.kind = "status" => f.ver = devVer', devVer' \in Nat,
             devVer <= devVer', UNCHANGED <<rhand, reader, seen>>
      PROVE  OrderInv'
  <2> DEFINE n == Len(toApp) + 1
  <2>1. /\ \A i \in Statuses' : \/ i \in Statuses /\ toApp'[i] = toApp[i]
                                \/ i = n /\ toApp'[i].ver = devVer'
        /\ \A i \in Statuses : i < n
    BY <1>0, <1>8 DEF Statuses
  <2>2. rhand.ver <= devVer' /\ seen <= devVer'
    BY <1>0, <1>8 DEF OrderInv
  <2>3. \A i \in Statuses : /\ toApp[i].ver <= devVer' /\ seen <= toApp[i].ver
                            /\ reader # "reading" => rhand.ver <= toApp[i].ver
    BY <1>0, <1>8 DEF OrderInv
  <2>4. \A i \in Statuses' :
           /\ toApp'[i].ver <= devVer' /\ seen <= toApp'[i].ver
           /\ reader # "reading" => rhand.ver <= toApp'[i].ver
    <3>1. TAKE i \in Statuses'
    <3>2. CASE i \in Statuses /\ toApp'[i] = toApp[i]
      BY <2>3, <3>2
    <3>3. CASE toApp'[i].ver = devVer'
      BY <1>8, <2>2, <3>3
    <3> QED
      BY <2>1, <3>2, <3>3
  <2>5. \A i, j \in Statuses' : i < j => toApp'[i].ver <= toApp'[j].ver
    BY <1>0, <1>8, <2>1, <2>3 DEF OrderInv, Statuses
  <2>6. reader # "reading" => seen <= rhand.ver
    BY DEF OrderInv
  <2> QED
    BY <1>8, <2>2, <2>4, <2>5, <2>6 DEF OrderInv
<1>9. CASE DevAnswer
  <2>1. UNCHANGED <<rhand, reader, seen, devVer>>
    BY <1>9 DEF DevAnswer, readerVars
  <2>2. UNCHANGED toApp \/ \E f : toApp' = Append(toApp, f)
                                  /\ (f.kind = "status" => f.ver = devVer)
    BY <1>9 DEF DevAnswer, StatusFrame, AckFrame
  <2> QED
    BY <1>0, <1>1, <1>8, <2>1, <2>2
<1>10. CASE DevChange
  BY <1>0, <1>8, <1>10 DEF DevChange, StatusFrame, readerVars
<1>11. CASE Install \/ Login \/ UNCHANGED vars
  BY <1>1, <1>11 DEF Install, Login, vars, readerVars, devVars
<1>12. ASSUME NEW c \in Callers, Caller(c) PROVE OrderInv'
  BY <1>1, <1>12
     DEF Caller, BeginRead, BeginWrite, Begin, Lock, LockRead, LockWrite,
         Proceed, SendRead, ReadReturns, ReadTimeout, SendWrite, WriteReturns,
         readerVars, devVars
<1> QED
  BY <1>2, <1>4, <1>5, <1>6, <1>7, <1>9, <1>10, <1>11, <1>12
     DEF Next, Session, Reader, Device

\* What a step does to readCh, and that what is put there is never older.
LEMMA ReadChEffect ==
  ASSUME TypeInv, OrderInv, [Next]_vars
  PROVE  /\ seen <= seen'
         /\ \/ readCh' \in {readCh, << >>, Append(readCh, seen')}
            \/ readCh # << >> /\ readCh' = Tail(readCh)
<1>1. CASE DispatchStatus
  <2>1. /\ toApp \in Seq(Reports) /\ toApp # << >>
        /\ Head(toApp).kind = "status"
    BY <1>1 DEF DispatchStatus, TypeInv, WireType
  <2>2. 1 \in Statuses /\ Head(toApp) = toApp[1]
    BY <2>1 DEF Statuses
  <2> QED
    BY <1>1, <2>2
       DEF DispatchStatus, Deliver, OrderInv, TypeInv, TypeOK, Versions
<1>2. CASE PushStatus
  BY <1>2 DEF PushStatus, Deliver, OrderInv
<1>3. CASE \/ Session \/ DropOldest \/ DispatchAck \/ Device
           \/ UNCHANGED vars
           \/ \E c \in Callers : Caller(c)
  <2>1. /\ seen' = seen
        /\ \/ readCh' = readCh \/ readCh' = << >>
           \/ readCh # << >> /\ readCh' = Tail(readCh)
    BY <1>3
       DEF Session, Install, Login, Disconnect, DropOldest, DispatchAck,
           Device, DevAnswer, DevChange, vars, Caller, BeginRead, BeginWrite,
           Begin, Lock, LockRead, DrainRead, LockWrite, Proceed, SendRead,
           ReadReturns, ReadTimeout, SendWrite, WriteReturns, readerVars
  <2> QED
    BY <2>1 DEF TypeInv, TypeOK, Versions
<1> QED
  BY <1>1, <1>2, <1>3 DEF Next, Reader

LEMMA StepFloorInv ==
  TypeInv /\ FreshInv /\ TypeInv' /\ [Next]_vars => FloorInv'
<1> SUFFICES ASSUME TypeInv, FreshInv, TypeInv', [Next]_vars,
                    NEW c \in Callers
             PROVE  /\ floor'[c] <= seen'
                    /\ pc'[c] \in {"readSend", "readWait"} =>
                          \A i \in 1 .. Len(readCh') : readCh'[i] >= floor'[c]
  BY DEF FloorInv
<1>1. /\ readCh \in Seq(Versions) /\ Versions \subseteq Nat
      /\ seen \in Nat /\ seen' \in Nat
      /\ floor[c] \in Nat /\ seen <= seen'
      /\ \/ readCh' \in {readCh, << >>, Append(readCh, seen')}
         \/ readCh # << >> /\ readCh' = Tail(readCh)
  <2>1. Versions \subseteq Nat
    BY DEF Versions
  <2>2. readCh \in Seq(Versions)
    BY DEF TypeInv, TypeOK
  <2>3. seen \in Nat /\ seen' \in Nat /\ floor[c] \in Nat
    BY <2>1 DEF TypeInv, TypeOK
  <2> QED
    BY <2>1, <2>2, <2>3, ReadChEffect DEF FreshInv
<1>2. CASE LockRead(c)
  <2>1. floor'[c] = seen /\ seen' = seen /\ readCh' = << >>
    BY <1>2 DEF LockRead, DrainRead, readerVars, TypeInv, TypeOK
  <2> QED
    BY <1>1, <2>1
<1>3. CASE ~LockRead(c)
  <2>1. floor'[c] = floor[c]
        /\ (pc'[c] \in {"readSend", "readWait"} =>
              pc[c] \in {"readSend", "readWait"})
    <3>1. CASE Session \/ Reader \/ Device \/ UNCHANGED vars
      BY <3>1, CallsKept DEF callVars
    <3>2. ASSUME NEW d \in Callers, Caller(d), d # c
          PROVE  floor'[c] = floor[c] /\ pc'[c] = pc[c]
      BY <3>2, OthersKept
    <3>3. CASE Caller(c)
      BY <1>3, <3>3
         DEF Caller, BeginRead, BeginWrite, Begin, Lock, LockWrite, Proceed,
             SendRead, ReadReturns, ReadTimeout, SendWrite, WriteReturns,
             Return, TypeInv, TypeOK
    <3> QED
      BY <3>1, <3>2, <3>3 DEF Next
  <2>2. floor[c] <= seen'
    BY <1>1 DEF FreshInv, FloorInv
  <2>3. ASSUME pc[c] \in {"readSend", "readWait"}, NEW i \in 1 .. Len(readCh')
        PROVE  readCh'[i] >= floor[c]
    <3>1. \A j \in 1 .. Len(readCh) : readCh[j] >= floor[c]
      BY <2>3 DEF FreshInv, FloorInv
    <3>2. CASE readCh' = Tail(readCh) /\ readCh # << >>
      <4>1. readCh'[i] = readCh[i + 1] /\ i + 1 \in 1 .. Len(readCh)
        BY <1>1, <2>3, <3>2
      <4> QED
        BY <3>1, <4>1
    <3>3. CASE readCh' = Append(readCh, seen')
      <4>1. \/ i \in 1 .. Len(readCh) /\ readCh'[i] = readCh[i]
            \/ readCh'[i] = seen'
        BY <1>1, <2>3, <3>3
      <4> QED
        BY <1>1, <2>2, <3>1, <4>1
    <3>4. CASE readCh' = << >> \/ readCh' = readCh
      BY <2>3, <3>1, <3>4
    <3> QED
      BY <1>1, <3>2, <3>3, <3>4
  <2> QED
    BY <2>1, <2>2, <2>3
<1> QED
  BY <1>2, <1>3

\* A state that Read returns is no older than any the client had been sent when
\* the Read took opMu: the drain of client.go:159-166, readCh in order, and the
\* oldest dropped when it is full (316-321), whatever is pushed or reconnected.
THEOREM FreshReads == Spec => []ReadsAreFresh
<1>1. Init => FreshInv
  <2>1. Init => Statuses = {}
    BY DEF Init, Statuses
  <2> QED
    BY <2>1 DEF Init, FreshInv, OrderInv, FloorInv, NoFrame, StatusFrame
<1>2. TypeInv /\ TypeInv' /\ FreshInv /\ [Next]_vars => FreshInv'
  BY StepOrderInv, StepFloorInv DEF FreshInv
<1>3. TypeInv /\ FreshInv => ReadsAreFresh
  <2> SUFFICES ASSUME TypeInv, FreshInv, NEW c \in Callers,
                      pc[c] = "readWait", readCh # << >>
               PROVE  Head(readCh) >= floor[c]
    BY DEF ReadsAreFresh
  <2>1. 1 \in 1 .. Len(readCh) /\ Head(readCh) = readCh[1]
    BY DEF TypeInv, TypeOK
  <2> QED
    BY <2>1 DEF FreshInv, FloorInv
<1>4. QED
  BY <1>1, <1>2, <1>3, TypeInvariance, PTL DEF Spec

-----------------------------------------------------------------------------
(* Answers.                                                                *)

LEMMA StepLinkInv == TypeInv /\ LinkInv /\ [Next]_vars => LinkInv'
<1> SUFFICES ASSUME TypeInv, LinkInv, [Next]_vars PROVE LinkInv'
  OBVIOUS
<1>0. /\ sessions \in Nat /\ conn \in Nat /\ \A c \in Callers : used[c] \in Nat
      /\ toDev \in Seq(Requests) /\ toApp \in Seq(Reports)
  BY ExchangeAssumption
     DEF TypeInv, TypeOK, WireType, Sessions, Nil, ExchangeAssumption
<1>1. CASE Install
  BY <1>0, <1>1 DEF Install, LinkInv, callVars, Nil
<1>2. CASE Disconnect
  BY <1>0, <1>2 DEF Disconnect, LinkInv, callVars, Nil
<1>3. CASE Login \/ UNCHANGED vars
  BY <1>3 DEF Login, LinkInv, vars, sessionVars, callVars
<1>4. CASE Reader \/ Device
  <2>1. UNCHANGED <<conn, sessions, used, pc>>
    BY <1>4 DEF Reader, DispatchStatus, DropOldest, PushStatus, DispatchAck,
                Device, DevAnswer, DevChange, sessionVars, callVars
  <2>2. ASSUME conn = Nil PROVE UNCHANGED <<toDev, toApp>>
    BY <1>4, <2>2
       DEF Reader, DispatchStatus, DropOldest, PushStatus, DispatchAck, Device,
           DevAnswer, DevChange, LinkInv
  <2> QED
    BY <2>1, <2>2 DEF LinkInv
<1>5. ASSUME NEW c \in Callers, Caller(c) PROVE LinkInv'
  <2>1. /\ UNCHANGED <<conn, sessions>>
        /\ conn = Nil => UNCHANGED <<toDev, toApp>>
    BY <1>5 DEF Caller, BeginRead, BeginWrite, Begin, Lock, LockRead, LockWrite,
                Proceed, SendRead, ReadReturns, ReadTimeout, SendWrite,
                WriteReturns, sessionVars
  <2>2. /\ used'[c] = used[c] \/ used'[c] = conn
        /\ pc'[c] = "readWait" => used'[c] # Nil
    BY <1>5 DEF Caller, BeginRead, BeginWrite, Begin, Lock, LockRead, LockWrite,
                Proceed, SendRead, ReadReturns, ReadTimeout, SendWrite,
                WriteReturns, Return, TypeInv, TypeOK
  <2>3. ASSUME NEW d \in Callers
        PROVE  /\ used'[d] <= sessions'
               /\ pc'[d] = "readWait" => used'[d] # Nil
    BY <1>5, <2>1, <2>2, OthersKept DEF LinkInv
  <2> QED
    BY <2>1, <2>3 DEF LinkInv
<1> QED
  BY <1>1, <1>2, <1>3, <1>4, <1>5 DEF Next, Session

\* While one caller is between Lock and Unlock no other takes opMu or goes on.
LEMMA Alone ==
  ASSUME CallInv, NEW c \in Callers, InSection(c),
         NEW d \in Callers, Lock(d) \/ Proceed(d)
  PROVE  d = c
<1>1. opMu = c
  BY DEF CallInv
<1>2. CASE Lock(d)
  BY <1>1, <1>2, ExchangeAssumption
     DEF Lock, LockRead, LockWrite, LockFree, ExchangeAssumption
<1>3. CASE Proceed(d)
  <2>1. InSection(d)
    BY <1>3 DEF Proceed, SendRead, ReadReturns, ReadTimeout, SendWrite,
                WriteReturns, InSection
  <2> QED
    BY <1>1, <2>1 DEF CallInv
<1> QED
  BY <1>2, <1>3

LEMMA StepNotStolen ==
  ASSUME TypeInv, CallInv, KnownInv, LinkInv, ResponseNotStolen, [Next]_vars
  PROVE  ResponseNotStolen'
<1> SUFFICES ASSUME NEW c \in Callers, pc'[c] = "readWait",
                    req'[c] \in answered', used'[c] = conn'
             PROVE  readCh' # << >> \/ reader' = "push"
  BY DEF ResponseNotStolen
<1>0. readCh \in Seq(Versions)
  BY DEF TypeInv, TypeOK
<1>1. CASE SendRead(c)
  BY <1>1 DEF SendRead, readerVars, KnownInv, Known
<1>2. ASSUME ~SendRead(c)
      PROVE  pc[c] = "readWait" /\ req'[c] = req[c] /\ used'[c] = used[c]
  <2>1. CASE Session \/ Reader \/ Device \/ UNCHANGED vars
    BY <2>1, CallsKept DEF callVars
  <2>2. CASE Caller(c)
    BY <1>2, <2>2
       DEF Caller, BeginRead, BeginWrite, Begin, Lock, LockRead, LockWrite,
           Proceed, ReadReturns, ReadTimeout, SendWrite, WriteReturns, Return,
           TypeInv, TypeOK
  <2>3. ASSUME NEW d \in Callers, d # c, Caller(d)
        PROVE  pc[c] = "readWait" /\ req'[c] = req[c] /\ used'[c] = used[c]
    BY <2>3, OthersKept
  <2> QED
    BY <2>1, <2>2, <2>3 DEF Next
<1>3. ASSUME ~SendRead(c), answered' = answered, conn' = conn,
             readCh # << >> => readCh' # << >> \/ reader' = "push",
             reader = "push" => readCh' # << >> \/ reader' = "push"
      PROVE  readCh' # << >> \/ reader' = "push"
  BY <1>2, <1>3 DEF ResponseNotStolen
<1>4. ASSUME ~SendRead(c), UNCHANGED <<readCh, reader, answered, conn>>
      PROVE  readCh' # << >> \/ reader' = "push"
  BY <1>3, <1>4
<1>5. ASSUME ~SendRead(c), NEW d \in Callers, Caller(d)
      PROVE  readCh' # << >> \/ reader' = "push"
  <2>1. InSection(c) /\ d # c
    BY <1>2, <1>5
       DEF InSection, Caller, BeginRead, BeginWrite, Begin, Lock, LockRead,
           LockWrite, Proceed, ReadReturns, ReadTimeout, SendWrite,
           WriteReturns, Return, TypeInv, TypeOK
  <2>2. BeginRead(d) \/ BeginWrite(d)
    BY <1>5, <2>1, Alone DEF Caller
  <2> QED
    BY <1>4, <1>5, <2>2
       DEF BeginRead, BeginWrite, Begin, readerVars, sessionVars
<1>6. CASE Install \/ Disconnect
  <2>1. ~SendRead(c)
    BY <1>6 DEF Install, Disconnect, SendRead, sessionVars, TypeInv, TypeOK, Nil
  <2>2. used'[c] <= sessions /\ used'[c] # Nil
    BY <1>2, <2>1 DEF LinkInv
  <2> QED
    BY <1>6, <2>2 DEF Install, Disconnect, TypeInv, TypeOK
<1>7. CASE DispatchStatus
  <2>1. CASE Deliver(Head(toApp))
    BY <1>0, <2>1 DEF Deliver
  <2>2. CASE Full /\ readCh' = readCh
    BY <1>0, <2>2, ExchangeAssumption DEF Full, ExchangeAssumption
  <2> QED
    BY <1>7, <2>1, <2>2 DEF DispatchStatus
<1>8. CASE DropOldest \/ PushStatus
  BY <1>0, <1>8 DEF DropOldest, PushStatus, Deliver
<1>9. CASE Login \/ DispatchAck \/ Device \/ UNCHANGED vars
  <2>1. UNCHANGED <<pc, readCh, reader, answered, conn>>
    BY <1>9 DEF Login, DispatchAck, Device, DevAnswer, DevChange, vars,
                sessionVars, readerVars, callVars
  <2> QED
    BY <1>1, <1>4, <2>1
<1> QED
  BY <1>1, <1>5, <1>6, <1>7, <1>8, <1>9 DEF Next, Session, Reader

SafeInv == TypeInv /\ CallInv /\ KnownInv /\ LinkInv /\ ResponseNotStolen

LEMMA InitSafeInv == Init => SafeInv
<1> SUFFICES ASSUME Init PROVE SafeInv
  OBVIOUS
<1>1. CallInv /\ LinkInv /\ ResponseNotStolen
  BY DEF Init, CallInv, LinkInv, ResponseNotStolen, InSection, Nil
<1>2. Known = {0}
  BY NothingElems DEF Init, Known, Sent, Coming, NoFrame, StatusFrame
<1>3. KnownInv
  BY <1>2 DEF Init, KnownInv
<1> QED
  BY <1>1, <1>3, InitTypeInv DEF SafeInv

LEMMA SafeInvariance == Spec => []SafeInv
<1>1. TypeInv /\ TypeInv' /\ SafeInv /\ [Next]_vars => SafeInv'
  BY StepCallInv, StepKnownInv, StepLinkInv, StepNotStolen DEF SafeInv
<1>2. QED
  BY <1>1, InitSafeInv, TypeInvariance, PTL DEF Spec

\* The answer to a Read is there for the Read that asked (client.go:23-27):
\* opMu keeps every other caller from draining or taking it, and when readCh
\* is full the reader goroutine drops an older one to push it.
THEOREM AnswerNotStolen == Spec => []ResponseNotStolen
<1>1. SafeInv => ResponseNotStolen
  BY DEF SafeInv
<1>2. QED
  BY <1>1, SafeInvariance, PTL

-----------------------------------------------------------------------------
(* Sequence numbers.                                                       *)

\* A frame of a write under way is one that was, or is sent by its writer.
LEMMA FramesKept ==
  ASSUME TypeInv, [Next]_vars, NEW m \in WriteFrames'
  PROVE  \/ \E k \in WriteFrames : k.seq = m.seq /\ k.op = m.op
         \/ \E c \in Callers :
               /\ pc[c] = "writeSend" /\ SendWrite(c)
               /\ m.seq = wseq[c] /\ m.op = req[c]
<1> DEFINE Kept == \E k \in WriteFrames : k.seq = m.seq /\ k.op = m.op
<1>0. WireType
  BY DEF TypeInv
<1>1. ASSUME Sent' \subseteq Sent, Coming' \subseteq Coming PROVE Kept
  BY <1>1 DEF WriteFrames
<1>2. ASSUME NEW c \in Callers, SendRead(c) \/ SendWrite(c)
      PROVE  \/ Kept
             \/ /\ pc[c] = "writeSend" /\ SendWrite(c)
                /\ m.seq = wseq[c] /\ m.op = req[c]
  <2>1. CASE Sent' = Sent \cup {ReadReq(req[c])}
    BY <1>2, <2>1, SendEffect DEF WriteFrames, ReadReq
  <2>2. CASE pc[c] = "writeSend"
             /\ Sent' = Sent \cup {WriteReq(req[c], wseq[c])}
    <3>1. SendWrite(c)
      BY <1>2, <2>2 DEF SendRead
    <3> QED
      BY <2>2, <3>1, SendEffect DEF WriteFrames, WriteReq
  <2> QED
    BY <1>1, <1>2, <2>1, <2>2, SendEffect
<1>3. CASE Disconnect
  BY <1>1, <1>3, NothingElems DEF Disconnect, Sent, Coming
<1>4. CASE DispatchStatus \/ DispatchAck
  <2>1. Coming' \subseteq Coming /\ Sent' = Sent
    BY <1>0, <1>4, TailElems
       DEF DispatchStatus, DispatchAck, WireType, Coming, Sent
  <2> QED
    BY <1>1, <2>1
<1>5. CASE DevAnswer
  <2> DEFINE k == Head(toDev)
  <2>1. k \in Sent /\ Sent' \subseteq Sent /\ k \in Requests
    BY <1>0, <1>5, TailElems DEF DevAnswer, WireType, Sent
  <2>2. CASE UNCHANGED toApp
    BY <1>1, <2>1, <2>2 DEF Coming
  <2>3. CASE toApp' = Append(toApp, StatusFrame(devVer, k.op))
    <3>1. StatusFrame(devVer, k.op) \in Reports
      BY <2>1, ExchangeAssumption
         DEF StatusFrame, Reports, Requests, TypeInv, TypeOK,
             ExchangeAssumption
    <3>2. Coming' = Coming \cup {StatusFrame(devVer, k.op)}
      BY <1>0, <2>3, <3>1, AppendElems DEF WireType, Coming
    <3> QED
      BY <2>1, <3>2 DEF WriteFrames, StatusFrame
  <2>4. CASE k.kind = "write" /\ toApp' = Append(toApp, AckFrame(k.seq, k.op))
    <3>1. k \in WriteFrames
      BY <2>1, <2>4 DEF WriteFrames
    <3>2. AckFrame(k.seq, k.op) \in Reports
      BY <1>0, <3>1, ExchangeAssumption
         DEF AckFrame, Reports, Versions, Ops, WireType, ExchangeAssumption
    <3>3. Coming' = Coming \cup {AckFrame(k.seq, k.op)}
      BY <1>0, <2>4, <3>2, AppendElems DEF WireType, Coming
    <3> QED
      BY <2>1, <3>1, <3>3 DEF WriteFrames, AckFrame
  <2> QED
    BY <1>5, <2>2, <2>3, <2>4 DEF DevAnswer
<1>6. CASE DevChange
  <2> DEFINE f == StatusFrame(devVer + 1, 0)
  <2>1. f \in Reports
    BY <1>6, ExchangeAssumption
       DEF DevChange, StatusFrame, Reports, Versions, TypeInv, TypeOK,
           ExchangeAssumption
  <2>2. Coming' = Coming \cup {f} /\ Sent' = Sent
    BY <1>0, <1>6, <2>1, AppendElems DEF DevChange, WireType, Coming, Sent
  <2> QED
    BY <2>2 DEF WriteFrames, StatusFrame
<1>7. CASE Install \/ Login \/ DropOldest \/ PushStatus \/ UNCHANGED vars
  BY <1>1, <1>7 DEF Install, Login, DropOldest, PushStatus, vars, Sent, Coming
<1>8. ASSUME NEW c \in Callers,
             \/ BeginRead(c) \/ BeginWrite(c) \/ Lock(c)
             \/ ReadReturns(c) \/ ReadTimeout(c) \/ WriteReturns(c)
      PROVE  Kept
  BY <1>1, <1>8
     DEF BeginRead, BeginWrite, Begin, Lock, LockRead, LockWrite, ReadReturns,
         ReadTimeout, WriteReturns, Sent, Coming
<1> QED
  BY <1>2, <1>3, <1>4, <1>5, <1>6, <1>7, <1>8
     DEF Next, Session, Reader, Device, Caller, Proceed

LEMMA StepAppliedInv == TypeInv /\ AppliedInv /\ [Next]_vars => AppliedInv'
<1> SUFFICES ASSUME TypeInv, AppliedInv, [Next]_vars PROVE AppliedInv'
  OBVIOUS
<1>0. WireType
  BY DEF TypeInv
<1>1. ASSUME Coming' \subseteq Coming, applied' = applied PROVE AppliedInv'
  BY <1>1 DEF AppliedInv
<1>2. ASSUME NEW f \in Reports, toApp' = Append(toApp, f),
             f.kind = "ack" => f.op \in applied', applied \subseteq applied'
      PROVE  AppliedInv'
  <2>1. Coming' = Coming \cup {f}
    BY <1>0, <1>2, AppendElems DEF WireType, Coming
  <2> QED
    BY <1>2, <2>1 DEF AppliedInv
<1>3. CASE Disconnect
  BY <1>1, <1>3, NothingElems DEF Disconnect, Coming, devVars
<1>4. CASE DispatchStatus \/ DispatchAck
  <2>1. Coming' \subseteq Coming /\ applied' = applied
    BY <1>0, <1>4, TailElems
       DEF DispatchStatus, DispatchAck, WireType, Coming, devVars
  <2> QED
    BY <1>1, <2>1
<1>5. CASE DevAnswer
  <2> DEFINE k == Head(toDev)
  <2>1. k \in Requests /\ k \in Sent
    BY <1>0, <1>5, TailElems DEF DevAnswer, WireType, Sent
  <2>2. CASE UNCHANGED <<toApp, applied>>
    BY <1>1, <2>2 DEF Coming
  <2>3. CASE toApp' = Append(toApp, StatusFrame(devVer, k.op))
             /\ UNCHANGED applied
    <3>1. StatusFrame(devVer, k.op) \in Reports
      BY <2>1, ExchangeAssumption
         DEF StatusFrame, Reports, Requests, TypeInv, TypeOK,
             ExchangeAssumption
    <3> QED
      BY <1>2, <2>3, <3>1 DEF StatusFrame
  <2>4. CASE /\ k.kind = "write" /\ applied' = applied \cup {k.op}
             /\ toApp' = Append(toApp, AckFrame(k.seq, k.op))
    <3>1. k.seq \in Ops /\ k.op \in Ops
      BY <1>0, <2>1, <2>4 DEF WireType, WriteFrames
    <3>2. AckFrame(k.seq, k.op) \in Reports
      BY <3>1, ExchangeAssumption
         DEF AckFrame, Reports, Versions, Ops, ExchangeAssumption
    <3> QED
      BY <1>2, <2>4, <3>2 DEF AckFrame
  <2> QED
    BY <1>5, <2>2, <2>3, <2>4 DEF DevAnswer
<1>6. CASE DevChange
  <2>1. StatusFrame(devVer + 1, 0) \in Reports
    BY <1>6, ExchangeAssumption
       DEF DevChange, StatusFrame, Reports, Versions, TypeInv, TypeOK,
           ExchangeAssumption
  <2> QED
    BY <1>2, <1>6, <2>1 DEF DevChange, StatusFrame
<1>7. CASE Install \/ Login \/ DropOldest \/ PushStatus \/ UNCHANGED vars
  BY <1>1, <1>7 DEF Install, Login, DropOldest, PushStatus, vars, Coming,
                    devVars
<1>8. ASSUME NEW c \in Callers, Caller(c) PROVE AppliedInv'
  BY <1>1, <1>8
     DEF Caller, BeginRead, BeginWrite, Begin, Lock, LockRead, LockWrite,
         Proceed, SendRead, ReadReturns, ReadTimeout, SendWrite, WriteReturns,
         Coming, devVars
<1> QED
  BY <1>3, <1>4, <1>5, <1>6, <1>7, <1>8
     DEF Next, Session, Reader, Device

\* What a caller's own step leaves of its number.
LEMMA WaiterEffect ==
  ASSUME TypeInv, [Next]_vars, NEW c \in Callers,
         pc'[c] \in {"writeSend", "writeWait"}
  PROVE  /\ req'[c] = req[c]
         /\ \/ pc'[c] = pc[c] /\ wseq'[c] = wseq[c]
            \/ /\ LockWrite(c) /\ pc'[c] = "writeSend"
               /\ wseq'[c] = writeSeq + 1 /\ writeSeq' = writeSeq + 1
            \/ /\ SendWrite(c) /\ pc'[c] = "writeWait"
               /\ wseq'[c] = wseq[c] /\ pc[c] = "writeSend"
<1>1. CASE Session \/ Reader \/ Device \/ UNCHANGED vars
  BY <1>1, CallsKept DEF callVars
<1>2. ASSUME NEW d \in Callers, d # c, Caller(d)
      PROVE  pc'[c] = pc[c] /\ wseq'[c] = wseq[c] /\ req'[c] = req[c]
  BY <1>2, OthersKept
<1>3. CASE BeginRead(c) \/ BeginWrite(c)
  BY <1>3 DEF BeginRead, BeginWrite, Begin, TypeInv, TypeOK
<1>4. CASE LockRead(c) \/ SendRead(c) \/ ReadReturns(c) \/ ReadTimeout(c)
           \/ WriteReturns(c)
  BY <1>4 DEF LockRead, SendRead, ReadReturns, ReadTimeout, WriteReturns,
              Return, TypeInv, TypeOK
<1>5. CASE LockWrite(c)
  BY <1>5 DEF LockWrite, NextSeq, Return, TypeInv, TypeOK
<1>6. CASE SendWrite(c)
  BY <1>6 DEF SendWrite, Return, TypeInv, TypeOK
<1> QED
  BY <1>1, <1>2, <1>3, <1>4, <1>5, <1>6 DEF Next, Caller, Lock, Proceed

LEMMA StepWriterInv ==
  TypeInv /\ CallInv /\ WriterInv /\ [Next]_vars => WriterInv'
<1> SUFFICES ASSUME TypeInv, CallInv, WriterInv, [Next]_vars,
                    NEW s \in Ops, writeCh'[s] # Nobody
             PROVE  pc'[writeCh'[s]] = "writeWait" /\ wseq'[writeCh'[s]] = s
  BY DEF WriterInv
<1> DEFINE w == writeCh[s]
<1>1. ASSUME w # Nobody
      PROVE  w \in Callers /\ InSection(w) /\ pc[w] = "writeWait" /\ wseq[w] = s
  BY <1>1 DEF WriterInv, InSection, TypeInv, TypeOK
<1>2. CASE Session \/ Reader \/ Device \/ UNCHANGED vars
  BY <1>1, <1>2, CallsKept DEF callVars
<1>3. ASSUME NEW c \in Callers, SendWrite(c)
      PROVE  pc'[writeCh'[s]] = "writeWait" /\ wseq'[writeCh'[s]] = s
  <2>1. pc[c] = "writeSend" /\ Proceed(c)
    BY <1>3 DEF SendWrite, Proceed
  <2>2. w = Nobody
    BY <1>1, <2>1, Alone
  <2>3. /\ writeCh' = [writeCh EXCEPT ![wseq[c]] = c]
        /\ pc' = [pc EXCEPT ![c] = "writeWait"] /\ wseq' = wseq
    BY <1>3, <2>2 DEF SendWrite
  <2> QED
    BY <2>2, <2>3 DEF TypeInv, TypeOK
<1>4. ASSUME NEW c \in Callers, WriteReturns(c)
      PROVE  pc'[writeCh'[s]] = "writeWait" /\ wseq'[writeCh'[s]] = s
  <2>1. /\ pc[c] = "writeWait" /\ Proceed(c) /\ wseq' = wseq
        /\ writeCh' = [writeCh EXCEPT ![wseq[c]] = Nobody]
    BY <1>4 DEF WriteReturns, Proceed
  <2>2. writeCh'[s] = w /\ s # wseq[c]
    BY <2>1 DEF TypeInv, TypeOK
  <2> QED
    BY <1>1, <2>1, <2>2, Alone
<1>5. ASSUME NEW c \in Callers, BeginRead(c) \/ BeginWrite(c)
      PROVE  pc'[writeCh'[s]] = "writeWait" /\ wseq'[writeCh'[s]] = s
  BY <1>1, <1>5 DEF BeginRead, BeginWrite, Begin, TypeInv, TypeOK
<1>6. ASSUME NEW c \in Callers,
             Lock(c) \/ SendRead(c) \/ ReadReturns(c) \/ ReadTimeout(c)
      PROVE  pc'[writeCh'[s]] = "writeWait" /\ wseq'[writeCh'[s]] = s
  <2>1. writeCh' = writeCh
    BY <1>6 DEF Lock, LockRead, LockWrite, SendRead, ReadReturns, ReadTimeout
  <2>2. Lock(c) \/ Proceed(c)
    BY <1>6 DEF Proceed
  <2>3. c = w
    BY <1>1, <2>1, <2>2, Alone
  <2> QED
    BY <1>1, <1>6, <2>1, <2>3
       DEF Lock, LockRead, LockWrite, SendRead, ReadReturns, ReadTimeout
<1> QED
  BY <1>2, <1>3, <1>4, <1>5, <1>6 DEF Next, Caller, Proceed

\* The counter goes on by one when a writer takes a number; a new session
\* starts it again, with nothing on the link and no number held unsent, unless
\* one crosses.
LEMMA CounterEffect ==
  ASSUME TypeInv, LinkInv, [Next]_vars, ~crossed'
  PROVE  /\ ~crossed
         /\ \/ writeSeq' = writeSeq
            \/ writeSeq' = writeSeq + 1 /\ \E c \in Callers : LockWrite(c)
            \/ WriteFrames' = {} /\ \A c \in Callers : pc'[c] # "writeSend"
<1>1. CASE Install
  <2>1. \A c \in Callers : pc'[c] # "writeSend"
    BY <1>1 DEF Install, callVars
  <2>2. toDev' = << >> /\ toApp' = << >>
    BY <1>1 DEF Install, LinkInv
  <2>3. WriteFrames' = {}
    BY <2>2, NothingElems DEF WriteFrames, Sent, Coming
  <2> QED
    BY <1>1, <2>1, <2>3 DEF Install
<1>2. CASE Login \/ Disconnect \/ Reader \/ Device \/ UNCHANGED vars
  BY <1>2 DEF Login, Disconnect, Reader, DispatchStatus, DropOldest, PushStatus,
              DispatchAck, Device, DevAnswer, DevChange, vars
<1>3. ASSUME NEW c \in Callers, Caller(c)
      PROVE  /\ ~crossed
             /\ \/ writeSeq' = writeSeq
                \/ writeSeq' = writeSeq + 1 /\ LockWrite(c)
  <2>1. CASE LockWrite(c)
    BY <2>1 DEF LockWrite, NextSeq
  <2>2. CASE BeginRead(c) \/ BeginWrite(c) \/ LockRead(c) \/ Proceed(c)
    BY <2>2 DEF BeginRead, BeginWrite, Begin, LockRead, Proceed, SendRead,
                ReadReturns, ReadTimeout, SendWrite, WriteReturns
  <2> QED
    BY <1>3, <2>1, <2>2 DEF Caller, Lock
<1> QED
  BY <1>1, <1>2, <1>3 DEF Next, Session

LEMMA StepNumberInv ==
  ASSUME TypeInv, CallInv, LinkInv, NumberInv, [Next]_vars, ~crossed'
  PROVE  NumberInv'
<1>0. /\ writeSeq \in Nat /\ \A c \in Callers : wseq[c] \in Nat
      /\ \A m \in WriteFrames : m.seq \in Nat
  BY DEF TypeInv, TypeOK, WireType, Ops
<1>1. CASE WriteFrames' = {} /\ \A c \in Callers : pc'[c] # "writeSend"
  BY <1>1 DEF NumberInv
<1>2. ASSUME \/ writeSeq' = writeSeq
             \/ writeSeq' = writeSeq + 1 /\ \E c \in Callers : LockWrite(c)
      PROVE  NumberInv'
  <2>1. \A m \in WriteFrames : m.seq <= writeSeq /\ m.seq <= writeSeq'
    BY <1>0, <1>2 DEF NumberInv
  <2>2. \A c \in Callers : pc[c] = "writeSend" => wseq[c] <= writeSeq'
    BY <1>0, <1>2 DEF NumberInv
  <2>3. \A m \in WriteFrames' : m.seq <= writeSeq'
    BY <2>1, <2>2, FramesKept
  <2>4. ASSUME NEW c \in Callers, pc'[c] = "writeSend"
        PROVE  wseq'[c] = writeSeq' /\ \A m \in WriteFrames' : m.seq < wseq'[c]
    <3>1. CASE LockWrite(c)
      <4>1. wseq'[c] = writeSeq + 1 /\ writeSeq' = writeSeq + 1
        BY <2>4, <3>1, WaiterEffect
           DEF LockWrite, TypeInv, TypeOK
      <4>2. \A m \in WriteFrames' : \E k \in WriteFrames : k.seq = m.seq
        <5>1. \A d \in Callers : ~SendWrite(d)
          BY <3>1 DEF LockWrite, SendWrite, Return, TypeInv, TypeOK
        <5> QED
          BY <5>1, FramesKept
      <4> QED
        BY <1>0, <2>1, <4>1, <4>2
    <3>2. CASE pc[c] = "writeSend" /\ wseq'[c] = wseq[c]
      <4>1. /\ \A d \in Callers \ {c} : ~Lock(d) /\ ~Proceed(d)
            /\ ~LockWrite(c) /\ ~SendWrite(c)
        BY <2>4, <3>2, Alone
           DEF InSection, LockWrite, SendWrite, Return, TypeInv, TypeOK
      <4>2. writeSeq' = writeSeq
        BY <1>2, <4>1 DEF Lock
      <4>3. \A m \in WriteFrames' : \E k \in WriteFrames : k.seq = m.seq
        BY <4>1, FramesKept DEF Proceed
      <4> QED
        BY <3>2, <4>2, <4>3 DEF NumberInv
    <3> QED
      BY <2>4, <3>1, <3>2, WaiterEffect
  <2>5. ASSUME NEW c \in Callers, pc'[c] = "writeWait",
               NEW m \in WriteFrames', m.seq = wseq'[c]
        PROVE  m.op = req'[c]
    <3>1. /\ req'[c] = req[c] /\ wseq'[c] = wseq[c]
          /\ \/ pc[c] = "writeWait"
             \/ pc[c] = "writeSend" /\ SendWrite(c)
      BY <2>5, WaiterEffect
    <3>2. \A d \in Callers : SendWrite(d) => d = c
      BY <3>1, Alone DEF InSection, Proceed
    <3>3. CASE \E k \in WriteFrames : k.seq = m.seq /\ k.op = m.op
      <4>1. PICK k \in WriteFrames : k.seq = m.seq /\ k.op = m.op
        BY <3>3
      <4>2. pc[c] # "writeSend"
        BY <1>0, <2>5, <3>1, <4>1 DEF NumberInv
      <4> QED
        BY <2>5, <3>1, <4>1, <4>2 DEF NumberInv
    <3> QED
      BY <3>1, <3>2, <3>3, FramesKept
  <2> QED
    BY <2>3, <2>4, <2>5 DEF NumberInv
<1> QED
  BY <1>1, <1>2, CounterEffect

LEMMA StepAckIsMine ==
  ASSUME TypeInv, CallInv, LinkInv, AckInv, [Next]_vars
  PROVE  AckIsMine'
<1> SUFFICES ASSUME NEW c \in Callers, pc'[c] = "writeWait", c \in done',
                    ~crossed'
             PROVE  req'[c] \in applied'
  BY DEF AckIsMine
<1>1. ~crossed /\ NumberInv
  BY CounterEffect DEF AckInv
<1>2. applied \subseteq applied'
  BY DEF Next, Session, Install, Login, Disconnect, Reader, DispatchStatus,
         DropOldest, PushStatus, DispatchAck, Device, DevAnswer, DevChange,
         Caller, BeginRead, BeginWrite, Begin, Lock, LockRead, LockWrite,
         Proceed, SendRead, ReadReturns, ReadTimeout, SendWrite, WriteReturns,
         vars, devVars
<1>3. ~SendWrite(c)
  BY DEF SendWrite
<1>4. pc[c] = "writeWait" /\ req'[c] = req[c]
  BY <1>3, WaiterEffect
<1>5. CASE c \in done
  BY <1>1, <1>2, <1>4, <1>5 DEF AckInv, AckIsMine
<1>6. CASE c \notin done
  <2> DEFINE m == Head(toApp)
  <2>1. DispatchAck
    BY <1>6
       DEF Next, Session, Install, Login, Disconnect, Reader, DispatchStatus,
           DropOldest, PushStatus, Device, DevAnswer, DevChange, Caller,
           BeginRead, BeginWrite, Begin, Lock, LockRead, LockWrite, Proceed,
           SendRead, ReadReturns, ReadTimeout, SendWrite, WriteReturns, vars
  <2>2. m \in Coming /\ m.kind = "ack" /\ c = writeCh[m.seq]
    BY <1>6, <2>1, TailElems DEF DispatchAck, TypeInv, WireType, Coming
  <2>3. m \in WriteFrames /\ m.seq \in Ops
    BY <2>2 DEF WriteFrames, TypeInv, WireType
  <2>4. wseq[c] = m.seq
    BY <2>2, <2>3, ExchangeAssumption
       DEF AckInv, WriterInv, ExchangeAssumption
  <2>5. m.op = req[c]
    BY <1>1, <1>4, <2>3, <2>4 DEF NumberInv
  <2> QED
    BY <1>2, <1>4, <2>2, <2>5 DEF AckInv, AppliedInv
<1> QED
  BY <1>5, <1>6

\* Write returns nil only when the tub answered this very write, not one that
\* timed out and was answered late: numbers are not given twice in a session
\* (client.go:201), a number is forgotten when its Write returns (210-214), and
\* what is left on a lost link is lost with it.  A number taken before a
\* reconnect and sent after it is the known exception.
THEOREM AckAnswersThisWrite == Spec => []AckIsMine
<1>1. Init => AckInv
  BY NothingElems
     DEF Init, AckInv, AppliedInv, WriterInv, NumberInv, AckIsMine, WriteFrames,
         Sent, Coming
<1>2. SafeInv /\ AckInv /\ [Next]_vars => AckInv'
  <2> SUFFICES ASSUME SafeInv, AckInv, [Next]_vars PROVE AckInv'
    OBVIOUS
  <2>1. AppliedInv' /\ WriterInv'
    BY StepAppliedInv, StepWriterInv DEF SafeInv, AckInv
  <2>2. ASSUME ~crossed' PROVE NumberInv'
    BY <2>2, CounterEffect, StepNumberInv DEF SafeInv, AckInv
  <2> QED
    BY <2>1, <2>2, StepAckIsMine DEF SafeInv, AckInv
<1>3. AckInv => AckIsMine
  BY DEF AckInv
<1>4. QED
  BY <1>1, <1>2, <1>3, SafeInvariance, PTL DEF Spec

=============================================================================
