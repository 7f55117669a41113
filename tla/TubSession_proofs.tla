--------------------------- MODULE TubSession_proofs --------------------------
(***************************************************************************)
(* Proofs that every session of TubSession, for any number of dials, is    *)
(* type correct, authenticated, and closes each socket and stop channel.   *)
(*                                                                         *)
(* The properties need one another: which connection c.conn can be (the    *)
(* last one dialled, or none) decides which sockets may be open, and the   *)
(* login a reader reports is traced back through its hand and the link to  *)
(* the tub that accepted it.  Inv is their inductive strengthening, and    *)
(* what shows, at the end, that TubSession implements SessionPromise.      *)
(***************************************************************************)
EXTENDS TubSession, SequenceTheorems, TLAPS

Handshaking == {"greet", "await", "finish"}

\* connectMu: the holder found the client logged out, and once it has dialled
\* it works on the last connection.
DialInv ==
    /\ connecting # "no" => ~loggedIn
    /\ connecting = "dial" => dialled < MaxConns
    /\ connecting \in Handshaking => dialled \in Conns

\* c.mu: conn and stopHB are set and cleared together, to the last attempt.
ConnInv ==
    /\ conn # Nil => conn = dialled
    /\ stopHB = conn
    /\ \A n \in stopClosed \cup closed : n <= dialled

\* A current connection is open until the attempt or the session is over.
OpenInv ==
    (conn # Nil /\ (loggedIn \/ connecting \in Handshaking))
        => conn \notin closed

\* Readers exist for the dialled connections and read from their own or a
\* later one.
ReaderInv ==
    \A r \in Conns :
        /\ r > dialled => reader[r] = "none"
        /\ reader[r] \in {"none", "start"} =>
              rconn[r] = Nil /\ hand[r] = << >> /\ loginDone[r] # "ok"
        /\ rconn[r] # Nil => r <= rconn[r] /\ rconn[r] <= dialled

\* An accepted login, wherever it is on its way to Connect.
Accepts(s) == \E i \in 1 .. Len(s) : s[i] = "loginOk"
AuthInv ==
    /\ \A n \in Conns : Accepts(toApp[n]) => n \in authed
    /\ \A r \in Conns : /\ Accepts(hand[r]) => rconn[r] \in authed
                        /\ loginDone[r] = "ok" => rconn[r] \in authed
    /\ connecting = "finish" => dialled \in authed

\* The heartbeat of a logged-in session runs until its stop channel closes.
BeatInv ==
    (loggedIn /\ conn # Nil /\ conn \notin peerGone) =>
        \/ hb[conn] = "start"
        \/ hb[conn] = "beating" /\ hbStop[conn] \notin stopClosed

Inv == TypeOK /\ DialInv /\ ConnInv /\ ReaderInv /\ NoLeakedSocket

-----------------------------------------------------------------------------
LEMMA InitInv == Init => Inv
<1> SUFFICES ASSUME Init PROVE Inv
  OBVIOUS
<1> USE SessionAssumption DEF SessionAssumption, Init, Conns, MaybeConn, Nil
<1>1. ClientType
  <2>1. dialled \in 0 .. MaxConns
    OBVIOUS
  <2> QED
    BY <2>1 DEF ClientType
<1>2. AttemptType
  BY DEF AttemptType
<1>3. LinkType /\ ReaderHasConn
  BY DEF LinkType, ReaderHasConn
<1>4. DialInv /\ ConnInv /\ ReaderInv /\ NoLeakedSocket
  BY DEF DialInv, ConnInv, ReaderInv, NoLeakedSocket, Handshaking
<1> QED
  BY <1>1, <1>2, <1>3, <1>4 DEF Inv, TypeOK

\* Cutting a queue of frames in two, and sending one.
LEMMA Cut ==
  ASSUME NEW S, NEW s \in Seq(S), NEW k \in 1 .. Len(s)
  PROVE  /\ SubSeq(s, 1, k) \in Seq(S)
         /\ SubSeq(s, k + 1, Len(s)) \in Seq(S)
         /\ \A i \in 1 .. Len(SubSeq(s, 1, k)) :
               i \in 1 .. Len(s) /\ SubSeq(s, 1, k)[i] = s[i]
         /\ \A i \in 1 .. Len(SubSeq(s, k + 1, Len(s))) :
               k + i \in 1 .. Len(s) /\ SubSeq(s, k + 1, Len(s))[i] = s[k + i]
BY SubSeqProperties

LEMMA SendType ==
  ASSUME LinkType, NEW c \in Conns, NEW m \in Requests, SendOk(c, m)
  PROVE  toDev' \in [Conns -> Seq(Requests)]
<1>1. Append(toDev[c], m) \in Seq(Requests)
  BY DEF LinkType
<1> QED
  BY <1>1 DEF SendOk, LinkType

\* What one dispatched frame can do.
LEMMA DispatchEffect ==
  ASSUME TypeOK, NEW r \in Conns, ReaderDispatch(r)
  PROVE  /\ reader[r] = "reading" /\ hand[r] # << >>
         /\ hand' = [hand EXCEPT ![r] = Tail(@)]
         /\ \/ UNCHANGED loginDone
            \/ Signal(r, "err")
            \/ Signal(r, "ok") /\ Head(hand[r]) = "loginOk"
         /\ UNCHANGED toDev \/ (conn \in Conns /\ SendOk(conn, "loginReq"))
<1>1. Head(hand[r]) \in Answers
  BY DEF ReaderDispatch, TypeOK, LinkType
<1>2. CASE Head(hand[r]) = "passcode"
  <2>1. EchoPasscode /\ UNCHANGED loginDone
    BY <1>2 DEF ReaderDispatch
  <2>2. UNCHANGED toDev \/ (conn \in Conns /\ SendOk(conn, "loginReq"))
    BY <2>1 DEF EchoPasscode, TypeOK, ClientType, MaybeConn
  <2> QED
    BY <2>1, <2>2 DEF ReaderDispatch
<1>3. CASE Head(hand[r]) = "badPasscode"
  BY <1>3 DEF ReaderDispatch
<1>4. CASE Head(hand[r]) = "loginOk"
  BY <1>4 DEF ReaderDispatch
<1>5. CASE Head(hand[r]) = "loginNo"
  BY <1>5 DEF ReaderDispatch
<1> QED
  BY <1>1, <1>2, <1>3, <1>4, <1>5 DEF Answers

\* What c.mu protects: the part of Inv that an attempt or a teardown changes.
ClientCore == ClientType /\ DialInv /\ ConnInv /\ NoLeakedSocket

LEMMA GiveUpCore ==
  ASSUME Inv, connecting \in Handshaking, GiveUp
  PROVE  ClientCore'
<1> USE DEF Inv, TypeOK, ClientType, DialInv, ConnInv, GiveUp, CloseAttempt,
            Conns, Nil, Handshaking
<1>1. dialled \in Conns /\ closed' = closed \cup {dialled}
  OBVIOUS
<1>2. ClientType'
  BY <1>1
<1>3. DialInv' /\ ConnInv'
  BY <1>1
<1>4. NoLeakedSocket'
  BY <1>1 DEF NoLeakedSocket
<1> QED
  BY <1>2, <1>3, <1>4 DEF ClientCore

LEMMA TearDownCore ==
  ASSUME Inv, TearDown, UNCHANGED <<connecting, dialled>>
  PROVE  ClientCore'
<1> USE DEF Inv, TypeOK, ClientType, DialInv, ConnInv, TearDown, CloseStop,
            DropStop, Conns, Nil, Handshaking
<1>1. ClientType'
  BY DEF MaybeConn
<1>2. DialInv' /\ ConnInv'
  BY DEF MaybeConn
<1>3. NoLeakedSocket'
  BY DEF NoLeakedSocket, MaybeConn
<1> QED
  BY <1>1, <1>2, <1>3 DEF ClientCore

LEMMA StepInv == Inv /\ [Next]_vars => Inv'
<1> SUFFICES ASSUME Inv, [Next]_vars
             PROVE  Inv'
  OBVIOUS
<1> USE SessionAssumption DEF SessionAssumption
<1>1. CASE ConnectBegin
  <2>1. ClientType'
    BY <1>1
       DEF Inv, TypeOK, Conns, Nil, ClientType, DialInv, Handshaking,
           MaybeConn, ConnectBegin, clientVars, readerVars, hbVars, peerVars
  <2>2. DialInv'
    BY <1>1
       DEF Inv, TypeOK, Conns, Nil, ClientType, DialInv, Handshaking,
           ConnectBegin, clientVars, readerVars, hbVars, peerVars
  <2>3. NoLeakedSocket'
    BY <1>1
       DEF Inv, TypeOK, Conns, Nil, ClientType, MaybeConn, DialInv, ConnInv,
           NoLeakedSocket, Handshaking, ConnectBegin, clientVars, readerVars,
           hbVars, peerVars
  <2>4. AttemptType' /\ LinkType' /\ ReaderHasConn' /\ ConnInv' /\ ReaderInv'
    BY <1>1
       DEF Inv, TypeOK, AttemptType, LinkType, ReaderHasConn, ConnInv,
           ReaderInv, ConnectBegin, clientVars, readerVars, hbVars, peerVars
  <2> QED
    BY <2>1, <2>2, <2>3, <2>4 DEF Inv, TypeOK, ClientCore
<1>2. CASE DialFails
  <2>1. ClientType'
    BY <1>2
       DEF Inv, TypeOK, Conns, Nil, ClientType, DialInv, Handshaking,
           MaybeConn, DialFails, clientVars, readerVars, hbVars, peerVars
  <2>2. DialInv'
    BY <1>2
       DEF Inv, TypeOK, Conns, Nil, ClientType, DialInv, Handshaking,
           DialFails, clientVars, readerVars, hbVars, peerVars
  <2>3. NoLeakedSocket'
    BY <1>2
       DEF Inv, TypeOK, Conns, Nil, ClientType, MaybeConn, DialInv, ConnInv,
           NoLeakedSocket, Handshaking, DialFails, clientVars, readerVars,
           hbVars, peerVars
  <2>4. AttemptType' /\ LinkType' /\ ReaderHasConn' /\ ConnInv' /\ ReaderInv'
    BY <1>2
       DEF Inv, TypeOK, AttemptType, LinkType, ReaderHasConn, ConnInv,
           ReaderInv, DialFails, clientVars, readerVars, hbVars, peerVars
  <2> QED
    BY <2>1, <2>2, <2>3, <2>4 DEF Inv, TypeOK, ClientCore
<1>3. CASE Install
  <2>1. ClientType'
    BY <1>3
       DEF Inv, TypeOK, Conns, Nil, ClientType, DialInv, Handshaking,
           MaybeConn, Install, clientVars, readerVars, hbVars, peerVars
  <2>2. AttemptType'
    BY <1>3
       DEF Inv, TypeOK, Conns, Nil, AttemptType, ClientType, DialInv,
           MaybeConn, Install, clientVars, readerVars, hbVars, peerVars
  <2>3. DialInv'
    BY <1>3
       DEF Inv, TypeOK, Conns, Nil, ClientType, DialInv, Handshaking, Install,
           clientVars, readerVars, hbVars, peerVars
  <2>4. ConnInv'
    BY <1>3
       DEF Inv, TypeOK, Conns, Nil, ClientType, DialInv, ConnInv, Handshaking,
           MaybeConn, Install, clientVars, readerVars, hbVars, peerVars
  <2>5. ReaderInv'
    BY <1>3
       DEF Inv, TypeOK, Conns, Nil, ClientType, AttemptType, MaybeConn,
           DialInv, ConnInv, ReaderInv, Handshaking, Install, clientVars,
           readerVars, hbVars, peerVars
  <2>6. NoLeakedSocket'
    BY <1>3
       DEF Inv, TypeOK, Conns, Nil, ClientType, MaybeConn, DialInv, ConnInv,
           NoLeakedSocket, Handshaking, Install, clientVars, readerVars,
           hbVars, peerVars
  <2>7. LinkType' /\ ReaderHasConn'
    BY <1>3
       DEF Inv, TypeOK, LinkType, ReaderHasConn, Install, clientVars,
           readerVars, hbVars, peerVars
  <2> QED
    BY <2>1, <2>2, <2>3, <2>4, <2>5, <2>6, <2>7 DEF Inv, TypeOK, ClientCore
<1>4. CASE Greet
  <2>1. ASSUME GiveUp PROVE ClientCore'
    BY <1>4, <2>1, GiveUpCore DEF Greet, Handshaking
  <2>2. ASSUME connecting' = "await", UNCHANGED <<clientVars, dialled>>
        PROVE  ClientCore'
    BY <1>4, <2>2
       DEF Inv, TypeOK, ClientCore, ClientType, DialInv, ConnInv,
           NoLeakedSocket, Handshaking, Greet, clientVars
  <2>3. ClientCore'
    BY <1>4, <2>1, <2>2 DEF Greet
  <2>4. LinkType'
    <3>1. dialled \in Conns
      BY <1>4 DEF Greet, Inv, DialInv, Handshaking
    <3>2. toDev' \in [Conns -> Seq(Requests)]
      BY <1>4, <3>1, SendType
         DEF Greet, SendFails, Inv, TypeOK, LinkType, Requests
    <3> QED
      BY <1>4, <3>2 DEF Greet, readerVars, peerVars, Inv, TypeOK, LinkType
  <2>5. AttemptType' /\ ReaderHasConn' /\ ReaderInv'
    BY <1>4
       DEF Inv, TypeOK, AttemptType, ReaderHasConn, ReaderInv, Greet, SendOk,
           SendFails, GiveUp, clientVars, readerVars, hbVars, peerVars
  <2> QED
    BY <2>3, <2>4, <2>5 DEF Inv, TypeOK, ClientCore
<1>5. CASE AwaitAnswer
  <2>1. ASSUME GiveUp PROVE ClientCore'
    BY <1>5, <2>1, GiveUpCore DEF AwaitAnswer, Handshaking
  <2>2. ASSUME connecting' = "finish", UNCHANGED <<clientVars, dialled>>
        PROVE  ClientCore'
    BY <1>5, <2>2
       DEF Inv, TypeOK, ClientCore, ClientType, DialInv, ConnInv,
           NoLeakedSocket, Handshaking, AwaitAnswer, clientVars
  <2>3. ClientCore'
    BY <1>5, <2>1, <2>2 DEF AwaitAnswer
  <2>4. AttemptType'
    BY <1>5
       DEF Inv, TypeOK, Conns, Nil, AttemptType, ClientType, DialInv,
           MaybeConn, AwaitAnswer, GiveUp, clientVars, readerVars, hbVars,
           peerVars
  <2>5. ReaderInv'
    BY <1>5
       DEF Inv, TypeOK, Conns, Nil, ClientType, AttemptType, MaybeConn,
           DialInv, ConnInv, ReaderInv, Handshaking, AwaitAnswer, GiveUp,
           clientVars, readerVars, hbVars, peerVars
  <2>6. LinkType' /\ ReaderHasConn'
    BY <1>5
       DEF Inv, TypeOK, LinkType, ReaderHasConn, AwaitAnswer, GiveUp,
           clientVars, readerVars, hbVars, peerVars
  <2> QED
    BY <2>3, <2>4, <2>5, <2>6 DEF Inv, TypeOK, ClientCore
<1>6. CASE AwaitTimeout
  <2>1. ClientCore'
    BY <1>6, GiveUpCore DEF AwaitTimeout, Handshaking
  <2>2. AttemptType' /\ LinkType' /\ ReaderHasConn' /\ ReaderInv'
    BY <1>6
       DEF Inv, TypeOK, AttemptType, LinkType, ReaderHasConn, ReaderInv,
           AwaitTimeout, GiveUp, clientVars, readerVars, hbVars, peerVars
  <2> QED
    BY <2>1, <2>2 DEF Inv, TypeOK, ClientCore
<1>7. CASE Finish
  <2>1. ClientType'
    BY <1>7
       DEF Inv, TypeOK, Conns, Nil, ClientType, DialInv, Handshaking,
           MaybeConn, Finish, SpawnHeartbeat, clientVars, readerVars, hbVars,
           peerVars
  <2>2. AttemptType'
    BY <1>7
       DEF Inv, TypeOK, Conns, Nil, AttemptType, ClientType, DialInv,
           MaybeConn, Finish, SpawnHeartbeat, clientVars, readerVars, hbVars,
           peerVars
  <2>3. DialInv'
    BY <1>7
       DEF Inv, TypeOK, Conns, Nil, ClientType, DialInv, Handshaking, Finish,
           SpawnHeartbeat, clientVars, readerVars, hbVars, peerVars
  <2>4. NoLeakedSocket'
    BY <1>7
       DEF Inv, TypeOK, Conns, Nil, ClientType, MaybeConn, DialInv, ConnInv,
           NoLeakedSocket, Handshaking, Finish, SpawnHeartbeat, clientVars,
           readerVars, hbVars, peerVars
  <2>5. LinkType' /\ ReaderHasConn' /\ ConnInv' /\ ReaderInv'
    BY <1>7
       DEF Inv, TypeOK, LinkType, ReaderHasConn, ConnInv, ReaderInv, Finish,
           SpawnHeartbeat, clientVars, readerVars, hbVars, peerVars
  <2> QED
    BY <2>1, <2>2, <2>3, <2>4, <2>5 DEF Inv, TypeOK, ClientCore
<1>8. CASE Close
  <2>1. ClientCore'
    BY <1>8, TearDownCore DEF Close
  <2>2. AttemptType' /\ LinkType' /\ ReaderHasConn' /\ ReaderInv'
    BY <1>8
       DEF Inv, TypeOK, AttemptType, LinkType, ReaderHasConn, ReaderInv, Close,
           TearDown, clientVars, readerVars, hbVars, peerVars
  <2> QED
    BY <2>1, <2>2 DEF Inv, TypeOK, ClientCore
<1>9. ASSUME NEW n \in Conns, ReaderStart(n)
      PROVE  Inv'
  <2>1. AttemptType'
    BY <1>9
       DEF Inv, TypeOK, Conns, Nil, AttemptType, ClientType, DialInv,
           MaybeConn, ReaderStart, AfterStart, clientVars, readerVars, hbVars,
           peerVars
  <2>2. ReaderHasConn'
    BY <1>9
       DEF Inv, TypeOK, Conns, Nil, ReaderHasConn, AttemptType, ClientType,
           MaybeConn, DialInv, ReaderStart, AfterStart, clientVars, readerVars,
           hbVars, peerVars
  <2>3. ReaderInv'
    BY <1>9
       DEF Inv, TypeOK, Conns, Nil, ClientType, AttemptType, MaybeConn,
           DialInv, ConnInv, ReaderInv, Handshaking, ReaderStart, AfterStart,
           clientVars, readerVars, hbVars, peerVars
  <2>4. ClientType' /\ LinkType' /\ DialInv' /\ ConnInv' /\ NoLeakedSocket'
    BY <1>9
       DEF Inv, TypeOK, ClientType, LinkType, DialInv, ConnInv, NoLeakedSocket,
           Handshaking, ReaderStart, AfterStart, clientVars, readerVars,
           hbVars, peerVars
  <2> QED
    BY <2>1, <2>2, <2>3, <2>4 DEF Inv, TypeOK, ClientCore
<1>10. ASSUME NEW n \in Conns, ReaderTake(n)
      PROVE  Inv'
  <2>1. LinkType'
    <3>1. rconn[n] \in Conns
      BY <1>10 DEF ReaderTake, Inv, TypeOK, ReaderHasConn
    <3>2. PICK k \in 1 .. Len(toApp[rconn[n]]) :
             /\ hand' = [hand EXCEPT ![n] = SubSeq(toApp[rconn[n]], 1, k)]
             /\ toApp' = [toApp EXCEPT ![rconn[n]] =
                              SubSeq(@, k + 1, Len(@))]
      BY <1>10 DEF ReaderTake
    <3>3. toApp[rconn[n]] \in Seq(Answers)
      BY <3>1 DEF Inv, TypeOK, LinkType
    <3>4. /\ SubSeq(toApp[rconn[n]], 1, k) \in Seq(Answers)
          /\ SubSeq(toApp[rconn[n]], k + 1, Len(toApp[rconn[n]]))
                \in Seq(Answers)
      BY <3>3, Cut
    <3> QED
      BY <1>10, <3>2, <3>4
         DEF ReaderTake, peerVars, Inv, TypeOK, LinkType
  <2>2. ReaderInv'
    BY <1>10
       DEF Inv, TypeOK, Conns, Nil, ClientType, AttemptType, MaybeConn,
           DialInv, ConnInv, ReaderInv, Handshaking, ReaderTake, clientVars,
           readerVars, hbVars, peerVars
  <2>3. /\ ClientType' /\ AttemptType' /\ ReaderHasConn' /\ DialInv'
        /\ ConnInv' /\ NoLeakedSocket'
    BY <1>10
       DEF Inv, TypeOK, ClientType, AttemptType, ReaderHasConn, DialInv,
           ConnInv, NoLeakedSocket, Handshaking, ReaderTake, clientVars,
           readerVars, hbVars, peerVars
  <2> QED
    BY <2>1, <2>2, <2>3 DEF Inv, TypeOK, ClientCore
<1>11. ASSUME NEW n \in Conns, ReaderDispatch(n)
      PROVE  Inv'
  <2>1. AttemptType'
    BY <1>11, DispatchEffect
       DEF Inv, TypeOK, AttemptType, Signal, ReaderDispatch, hbVars
  <2>2. LinkType'
    <3>1. toDev' \in [Conns -> Seq(Requests)]
      BY <1>11, DispatchEffect, SendType DEF Inv, TypeOK, LinkType, Requests
    <3>2. Tail(hand[n]) \in Seq(Answers)
      BY <1>11, DispatchEffect DEF Inv, TypeOK, LinkType
    <3> QED
      BY <1>11, <3>1, <3>2, DispatchEffect
         DEF Inv, TypeOK, LinkType, ReaderDispatch, peerVars
  <2>3. ReaderInv'
    <3>1. /\ reader[n] = "reading"
          /\ \A r \in Conns \ {n} : /\ hand'[r] = hand[r]
                                   /\ loginDone'[r] = loginDone[r]
          /\ UNCHANGED <<reader, rconn, dialled>>
      BY <1>11, DispatchEffect
         DEF Inv, TypeOK, LinkType, AttemptType, Signal, ReaderDispatch
    <3> QED
      BY <3>1 DEF Inv, ReaderInv
  <2>4. /\ ClientType' /\ ReaderHasConn' /\ DialInv' /\ ConnInv'
        /\ NoLeakedSocket'
    BY <1>11
       DEF Inv, TypeOK, ClientType, ReaderHasConn, DialInv, ConnInv,
           NoLeakedSocket, Handshaking, ReaderDispatch, Signal, EchoPasscode,
           SendOk, clientVars, readerVars, hbVars, peerVars
  <2> QED
    BY <2>1, <2>2, <2>3, <2>4 DEF Inv, TypeOK, ClientCore
<1>12. ASSUME NEW n \in Conns, ReaderFails(n)
      PROVE  Inv'
  <2>1. ClientCore'
    BY <1>12, TearDownCore DEF ReaderFails
  <2>2. AttemptType'
    BY <1>12
       DEF Inv, TypeOK, Conns, Nil, AttemptType, ClientType, DialInv,
           MaybeConn, ReaderFails, TearDown, clientVars, readerVars, hbVars,
           peerVars
  <2>3. ReaderHasConn'
    BY <1>12
       DEF Inv, TypeOK, Conns, Nil, ReaderHasConn, AttemptType, ClientType,
           MaybeConn, DialInv, ReaderFails, TearDown, clientVars, readerVars,
           hbVars, peerVars
  <2>4. ReaderInv'
    BY <1>12
       DEF Inv, TypeOK, Conns, Nil, ClientType, AttemptType, MaybeConn,
           DialInv, ConnInv, ReaderInv, Handshaking, ReaderFails, TearDown,
           clientVars, readerVars, hbVars, peerVars
  <2>5. LinkType'
    BY <1>12
       DEF Inv, TypeOK, LinkType, ReaderFails, TearDown, clientVars,
           readerVars, hbVars, peerVars
  <2> QED
    BY <2>1, <2>2, <2>3, <2>4, <2>5 DEF Inv, TypeOK, ClientCore
<1>13. ASSUME NEW n \in Conns, HeartbeatStart(n)
      PROVE  Inv'
  <2>1. AttemptType'
    BY <1>13
       DEF Inv, TypeOK, Conns, Nil, AttemptType, ClientType, DialInv,
           MaybeConn, HeartbeatStart, clientVars, readerVars, hbVars, peerVars
  <2>2. /\ ClientType' /\ LinkType' /\ ReaderHasConn' /\ DialInv'
        /\ ConnInv' /\ ReaderInv' /\ NoLeakedSocket'
    BY <1>13
       DEF Inv, TypeOK, ClientType, LinkType, ReaderHasConn, DialInv, ConnInv,
           ReaderInv, NoLeakedSocket, Handshaking, HeartbeatStart, clientVars,
           readerVars, hbVars, peerVars
  <2> QED
    BY <2>1, <2>2 DEF Inv, TypeOK, ClientCore
<1>14. ASSUME NEW n \in Conns, HeartbeatStops(n)
      PROVE  Inv'
  <2>1. AttemptType'
    BY <1>14
       DEF Inv, TypeOK, Conns, Nil, AttemptType, ClientType, DialInv,
           MaybeConn, HeartbeatStops, clientVars, readerVars, hbVars, peerVars
  <2>2. /\ ClientType' /\ LinkType' /\ ReaderHasConn' /\ DialInv'
        /\ ConnInv' /\ ReaderInv' /\ NoLeakedSocket'
    BY <1>14
       DEF Inv, TypeOK, ClientType, LinkType, ReaderHasConn, DialInv, ConnInv,
           ReaderInv, NoLeakedSocket, Handshaking, HeartbeatStops, clientVars,
           readerVars, hbVars, peerVars
  <2> QED
    BY <2>1, <2>2 DEF Inv, TypeOK, ClientCore
<1>15. ASSUME NEW n \in Conns, DevAnswer(n)
      PROVE  Inv'
  <2>1. LinkType'
    <3>1. toDev[n] \in Seq(Requests) /\ toDev[n] # << >>
      BY <1>15 DEF DevAnswer, Inv, TypeOK, LinkType
    <3>2. /\ Head(toDev[n]) \in Requests /\ Tail(toDev[n]) \in Seq(Requests)
      BY <3>1
    <3>3. AnswersTo[Head(toDev[n])] \subseteq Answers
      BY <3>2 DEF AnswersTo, Requests, Answers
    <3>4. PICK a \in Answers :
             /\ toApp' = [toApp EXCEPT ![n] = Append(@, a)]
             /\ authed' = IF a = "loginOk" THEN authed \cup {n} ELSE authed
      BY <1>15, <3>3 DEF DevAnswer
    <3>5. toApp' \in [Conns -> Seq(Answers)] /\ authed' \subseteq Conns
      BY <3>4 DEF Inv, TypeOK, LinkType
    <3>6. toDev' \in [Conns -> Seq(Requests)] /\ UNCHANGED <<peerGone, hand>>
      BY <1>15, <3>2 DEF DevAnswer, Inv, TypeOK, LinkType, readerVars
    <3> QED
      BY <3>5, <3>6 DEF Inv, TypeOK, LinkType
  <2>2. /\ ClientType' /\ AttemptType' /\ ReaderHasConn' /\ DialInv'
        /\ ConnInv' /\ ReaderInv' /\ NoLeakedSocket'
    BY <1>15
       DEF Inv, TypeOK, ClientType, AttemptType, ReaderHasConn, DialInv,
           ConnInv, ReaderInv, NoLeakedSocket, Handshaking, DevAnswer,
           AnswersTo, clientVars, readerVars, hbVars, peerVars
  <2> QED
    BY <2>1, <2>2 DEF Inv, TypeOK, ClientCore
<1>16. ASSUME NEW n \in Conns, DevDrops(n)
      PROVE  Inv'
  <2>1. LinkType'
    BY <1>16
       DEF Inv, TypeOK, Conns, Nil, LinkType, ClientType, AttemptType,
           ReaderHasConn, MaybeConn, DialInv, ConnInv, Requests, Answers,
           Handshaking, DevDrops, clientVars, readerVars, hbVars, peerVars
  <2>2. /\ ClientType' /\ AttemptType' /\ ReaderHasConn' /\ DialInv'
        /\ ConnInv' /\ ReaderInv' /\ NoLeakedSocket'
    BY <1>16
       DEF Inv, TypeOK, ClientType, AttemptType, ReaderHasConn, DialInv,
           ConnInv, ReaderInv, NoLeakedSocket, Handshaking, DevDrops,
           clientVars, readerVars, hbVars, peerVars
  <2> QED
    BY <2>1, <2>2 DEF Inv, TypeOK, ClientCore
<1>17. CASE UNCHANGED vars
  BY <1>17
     DEF vars, clientVars, readerVars, hbVars, peerVars, Inv, TypeOK,
         ClientType, AttemptType, LinkType, ReaderHasConn, DialInv, ConnInv,
         ReaderInv, NoLeakedSocket, Handshaking
<1>18. QED
  BY <1>1, <1>2, <1>3, <1>4, <1>5, <1>6, <1>7, <1>8, <1>9, <1>10, <1>11,
     <1>12, <1>13, <1>14, <1>15, <1>16, <1>17
     DEF Next, Connect, ReadLoop, HeartbeatLoop, Device

-----------------------------------------------------------------------------
\* The second layer: what a session that is logged in, or logging in, has.
AuthAndBeat ==
    /\ StopClosedOnce /\ OpenInv
    /\ AuthInv /\ SessionAuthenticated
    /\ BeatInv

LEMMA InitAuthAndBeat == Init => AuthAndBeat
<1> SUFFICES ASSUME Init PROVE AuthAndBeat
  OBVIOUS
<1>1. AuthInv
  BY DEF Init, AuthInv, Accepts
<1> QED
  BY <1>1 DEF Init, AuthAndBeat, StopClosedOnce, OpenInv, SessionAuthenticated,
              BeatInv, Nil

LEMMA StepAuthAndBeat == Inv /\ AuthAndBeat /\ [Next]_vars => AuthAndBeat'
<1> SUFFICES ASSUME Inv, AuthAndBeat, [Next]_vars
             PROVE  AuthAndBeat'
  OBVIOUS
<1> USE SessionAssumption DEF SessionAssumption
<1>1. CASE ConnectBegin
  <2>1. OpenInv'
    BY <1>1
       DEF Inv, TypeOK, AuthAndBeat, Conns, Nil, OpenInv, ClientType, DialInv,
           ConnInv, Handshaking, ConnectBegin, clientVars, readerVars, hbVars,
           peerVars
  <2>2. StopClosedOnce' /\ AuthInv' /\ SessionAuthenticated' /\ BeatInv'
    BY <1>1
       DEF AuthAndBeat, StopClosedOnce, AuthInv, SessionAuthenticated, BeatInv,
           Handshaking, Accepts, ConnectBegin, clientVars, readerVars, hbVars,
           peerVars
  <2> QED
    BY <2>1, <2>2 DEF AuthAndBeat
<1>2. CASE DialFails
  <2>1. /\ StopClosedOnce' /\ OpenInv' /\ AuthInv' /\ SessionAuthenticated'
        /\ BeatInv'
    BY <1>2
       DEF AuthAndBeat, StopClosedOnce, OpenInv, AuthInv, SessionAuthenticated,
           BeatInv, Handshaking, Accepts, DialFails, clientVars, readerVars,
           hbVars, peerVars
  <2> QED
    BY <2>1 DEF AuthAndBeat
<1>3. CASE Install
  <2>1. StopClosedOnce'
    BY <1>3
       DEF Inv, TypeOK, AuthAndBeat, Conns, Nil, StopClosedOnce, ClientType,
           ConnInv, Install, clientVars, readerVars, hbVars, peerVars
  <2>2. OpenInv'
    BY <1>3
       DEF Inv, TypeOK, AuthAndBeat, Conns, Nil, OpenInv, ClientType, DialInv,
           ConnInv, Handshaking, Install, clientVars, readerVars, hbVars,
           peerVars
  <2>3. AuthInv'
    BY <1>3
       DEF Inv, TypeOK, AuthAndBeat, Conns, Nil, AuthInv, Accepts, ClientType,
           AttemptType, LinkType, ReaderHasConn, DialInv, ConnInv, ReaderInv,
           Handshaking, MaybeConn, Install, clientVars, readerVars, hbVars,
           peerVars
  <2>4. SessionAuthenticated'
    BY <1>3
       DEF Inv, TypeOK, AuthAndBeat, Conns, Nil, SessionAuthenticated, AuthInv,
           ClientType, DialInv, ConnInv, Handshaking, Install, clientVars,
           readerVars, hbVars, peerVars
  <2>5. BeatInv'
    BY <1>3
       DEF Inv, TypeOK, AuthAndBeat, Conns, Nil, BeatInv, StopClosedOnce,
           OpenInv, ClientType, AttemptType, DialInv, ConnInv, Handshaking,
           MaybeConn, Install, clientVars, readerVars, hbVars, peerVars
  <2> QED
    BY <2>1, <2>2, <2>3, <2>4, <2>5 DEF AuthAndBeat
<1>4. CASE Greet
  <2>1. OpenInv'
    BY <1>4
       DEF Inv, TypeOK, AuthAndBeat, Conns, Nil, OpenInv, ClientType, DialInv,
           ConnInv, Handshaking, Greet, SendOk, SendFails, GiveUp,
           CloseAttempt, clientVars, readerVars, hbVars, peerVars
  <2>2. AuthInv'
    BY <1>4
       DEF Inv, TypeOK, AuthAndBeat, Conns, Nil, AuthInv, Accepts, ClientType,
           AttemptType, LinkType, ReaderHasConn, DialInv, ConnInv, ReaderInv,
           Handshaking, MaybeConn, Greet, SendOk, SendFails, GiveUp,
           CloseAttempt, clientVars, readerVars, hbVars, peerVars
  <2>3. StopClosedOnce' /\ SessionAuthenticated' /\ BeatInv'
    BY <1>4
       DEF AuthAndBeat, StopClosedOnce, SessionAuthenticated, BeatInv, Greet,
           SendOk, SendFails, GiveUp, CloseAttempt, clientVars, readerVars,
           hbVars, peerVars
  <2> QED
    BY <2>1, <2>2, <2>3 DEF AuthAndBeat
<1>5. CASE AwaitAnswer
  <2>1. OpenInv'
    BY <1>5
       DEF Inv, TypeOK, AuthAndBeat, Conns, Nil, OpenInv, ClientType, DialInv,
           ConnInv, Handshaking, AwaitAnswer, GiveUp, CloseAttempt, clientVars,
           readerVars, hbVars, peerVars
  <2>2. AuthInv'
    <3>1. connecting' = "finish" => dialled \in authed
      <4> SUFFICES ASSUME connecting' = "finish"
                   PROVE  dialled \in authed
        OBVIOUS
      <4>1. dialled \in Conns /\ loginDone[dialled] = "ok"
        BY <1>5 DEF AwaitAnswer, GiveUp, Inv, DialInv, Handshaking
      <4>2. rconn[dialled] \in authed /\ rconn[dialled] \in Conns
        BY <4>1 DEF AuthAndBeat, AuthInv, Inv, TypeOK, LinkType
      <4> QED
        BY <4>1, <4>2 DEF Inv, ReaderInv, TypeOK, ClientType, Conns, Nil
    <3>2. \A r \in Conns : loginDone'[r] = "ok" => loginDone[r] = "ok"
      BY <1>5 DEF AwaitAnswer, Inv, TypeOK, AttemptType
    <3> QED
      BY <1>5, <3>1, <3>2
         DEF AwaitAnswer, GiveUp, clientVars, AuthAndBeat, AuthInv, Accepts,
             readerVars, peerVars
  <2>3. StopClosedOnce' /\ SessionAuthenticated' /\ BeatInv'
    BY <1>5
       DEF AuthAndBeat, StopClosedOnce, SessionAuthenticated, BeatInv,
           AwaitAnswer, GiveUp, CloseAttempt, clientVars, readerVars, hbVars,
           peerVars
  <2> QED
    BY <2>1, <2>2, <2>3 DEF AuthAndBeat
<1>6. CASE AwaitTimeout
  <2>1. OpenInv'
    BY <1>6
       DEF Inv, TypeOK, AuthAndBeat, Conns, Nil, OpenInv, ClientType, DialInv,
           ConnInv, Handshaking, AwaitTimeout, GiveUp, CloseAttempt,
           clientVars, readerVars, hbVars, peerVars
  <2>2. AuthInv'
    BY <1>6
       DEF Inv, TypeOK, AuthAndBeat, Conns, Nil, AuthInv, Accepts, ClientType,
           AttemptType, LinkType, ReaderHasConn, DialInv, ConnInv, ReaderInv,
           Handshaking, MaybeConn, AwaitTimeout, GiveUp, CloseAttempt,
           clientVars, readerVars, hbVars, peerVars
  <2>3. StopClosedOnce' /\ SessionAuthenticated' /\ BeatInv'
    BY <1>6
       DEF AuthAndBeat, StopClosedOnce, SessionAuthenticated, BeatInv,
           AwaitTimeout, GiveUp, CloseAttempt, clientVars, readerVars, hbVars,
           peerVars
  <2> QED
    BY <2>1, <2>2, <2>3 DEF AuthAndBeat
<1>7. CASE Finish
  <2>1. OpenInv'
    BY <1>7
       DEF Inv, TypeOK, AuthAndBeat, Conns, Nil, OpenInv, ClientType, DialInv,
           ConnInv, Handshaking, Finish, SpawnHeartbeat, clientVars,
           readerVars, hbVars, peerVars
  <2>2. AuthInv'
    BY <1>7
       DEF Inv, TypeOK, AuthAndBeat, Conns, Nil, AuthInv, Accepts, ClientType,
           AttemptType, LinkType, ReaderHasConn, DialInv, ConnInv, ReaderInv,
           Handshaking, MaybeConn, Finish, SpawnHeartbeat, clientVars,
           readerVars, hbVars, peerVars
  <2>3. SessionAuthenticated'
    BY <1>7
       DEF Inv, TypeOK, AuthAndBeat, Conns, Nil, SessionAuthenticated, AuthInv,
           ClientType, DialInv, ConnInv, Handshaking, Finish, SpawnHeartbeat,
           clientVars, readerVars, hbVars, peerVars
  <2>4. BeatInv'
    BY <1>7
       DEF Inv, TypeOK, AuthAndBeat, Conns, Nil, BeatInv, StopClosedOnce,
           OpenInv, ClientType, AttemptType, DialInv, ConnInv, Handshaking,
           MaybeConn, Finish, SpawnHeartbeat, clientVars, readerVars, hbVars,
           peerVars
  <2>5. StopClosedOnce'
    BY <1>7
       DEF AuthAndBeat, StopClosedOnce, Finish, SpawnHeartbeat, clientVars,
           readerVars, hbVars, peerVars
  <2> QED
    BY <2>1, <2>2, <2>3, <2>4, <2>5 DEF AuthAndBeat
<1>8. CASE Close
  <2>1. StopClosedOnce'
    BY <1>8
       DEF Inv, TypeOK, AuthAndBeat, Conns, Nil, StopClosedOnce, ClientType,
           ConnInv, Close, TearDown, CloseStop, DropStop, clientVars,
           readerVars, hbVars, peerVars
  <2>2. OpenInv'
    BY <1>8
       DEF Inv, TypeOK, AuthAndBeat, Conns, Nil, OpenInv, ClientType, DialInv,
           ConnInv, Handshaking, Close, TearDown, CloseStop, DropStop,
           clientVars, readerVars, hbVars, peerVars
  <2>3. SessionAuthenticated'
    BY <1>8
       DEF Inv, TypeOK, AuthAndBeat, Conns, Nil, SessionAuthenticated, AuthInv,
           ClientType, DialInv, ConnInv, Handshaking, Close, TearDown,
           CloseStop, DropStop, clientVars, readerVars, hbVars, peerVars
  <2>4. BeatInv'
    BY <1>8
       DEF Inv, TypeOK, AuthAndBeat, Conns, Nil, BeatInv, StopClosedOnce,
           OpenInv, ClientType, AttemptType, DialInv, ConnInv, Handshaking,
           MaybeConn, Close, TearDown, CloseStop, DropStop, clientVars,
           readerVars, hbVars, peerVars
  <2>5. AuthInv'
    BY <1>8
       DEF AuthAndBeat, AuthInv, Handshaking, Accepts, Close, TearDown,
           CloseStop, DropStop, clientVars, readerVars, hbVars, peerVars
  <2> QED
    BY <2>1, <2>2, <2>3, <2>4, <2>5 DEF AuthAndBeat
<1>9. ASSUME NEW n \in Conns, ReaderStart(n)
      PROVE  AuthAndBeat'
  <2>1. AuthInv'
    <3>1. ~Accepts(hand[n]) /\ loginDone[n] # "ok"
      BY <1>9 DEF ReaderStart, Inv, ReaderInv, Accepts
    <3>2. \A r \in Conns \ {n} : rconn'[r] = rconn[r]
      BY <1>9 DEF ReaderStart, Inv, TypeOK, AttemptType
    <3> QED
      BY <1>9, <3>1, <3>2
         DEF ReaderStart, clientVars, peerVars, AuthAndBeat, AuthInv, Accepts
  <2>2. StopClosedOnce' /\ OpenInv' /\ SessionAuthenticated' /\ BeatInv'
    BY <1>9
       DEF AuthAndBeat, StopClosedOnce, OpenInv, SessionAuthenticated, BeatInv,
           Handshaking, ReaderStart, AfterStart, clientVars, readerVars,
           hbVars, peerVars
  <2> QED
    BY <2>1, <2>2 DEF AuthAndBeat
<1>10. ASSUME NEW n \in Conns, ReaderTake(n)
      PROVE  AuthAndBeat'
  <2>1. AuthInv'
    <3> DEFINE c == rconn[n]
    <3>1. c \in Conns /\ toApp[c] \in Seq(Answers)
      BY <1>10 DEF ReaderTake, Inv, TypeOK, ReaderHasConn, LinkType
    <3>2. PICK k \in 1 .. Len(toApp[c]) :
             /\ hand' = [hand EXCEPT ![n] = SubSeq(toApp[c], 1, k)]
             /\ toApp' = [toApp EXCEPT ![c] = SubSeq(@, k + 1, Len(@))]
      BY <1>10 DEF ReaderTake
    <3>3. /\ hand'[n] = SubSeq(toApp[c], 1, k)
          /\ \A r \in Conns \ {n} : hand'[r] = hand[r]
          /\ toApp'[c] = SubSeq(toApp[c], k + 1, Len(toApp[c]))
          /\ \A m \in Conns \ {c} : toApp'[m] = toApp[m]
      BY <3>1, <3>2 DEF Inv, TypeOK, LinkType
    <3>4. Accepts(hand'[n]) => Accepts(toApp[c])
      BY <3>1, <3>3, Cut DEF Accepts
    <3>5. Accepts(toApp'[c]) => Accepts(toApp[c])
      BY <3>1, <3>3, Cut DEF Accepts
    <3>6. Accepts(toApp[c]) => c \in authed
      BY <3>1 DEF AuthAndBeat, AuthInv
    <3>7. UNCHANGED <<rconn, authed, loginDone, connecting, dialled>>
      BY <1>10 DEF ReaderTake, peerVars
    <3>8. \A m \in Conns : Accepts(toApp'[m]) => m \in authed
      BY <3>3, <3>5, <3>6 DEF AuthAndBeat, AuthInv
    <3>9. \A r \in Conns : Accepts(hand'[r]) => rconn[r] \in authed
      BY <3>3, <3>4, <3>6 DEF AuthAndBeat, AuthInv
    <3> QED
      BY <3>7, <3>8, <3>9 DEF AuthAndBeat, AuthInv, Accepts
  <2>2. StopClosedOnce' /\ OpenInv' /\ SessionAuthenticated' /\ BeatInv'
    BY <1>10
       DEF AuthAndBeat, StopClosedOnce, OpenInv, SessionAuthenticated, BeatInv,
           Handshaking, ReaderTake, clientVars, readerVars, hbVars, peerVars
  <2> QED
    BY <2>1, <2>2 DEF AuthAndBeat
<1>11. ASSUME NEW n \in Conns, ReaderDispatch(n)
      PROVE  AuthAndBeat'
  <2>1. AuthInv'
    <3>1. /\ hand[n] \in Seq(Answers) /\ hand[n] # << >>
          /\ hand'[n] = Tail(hand[n])
          /\ \A r \in Conns \ {n} :
                hand'[r] = hand[r] /\ loginDone'[r] = loginDone[r]
          /\ UNCHANGED <<rconn, authed, toApp, connecting, dialled>>
      BY <1>11, DispatchEffect
         DEF Inv, TypeOK, LinkType, AttemptType, Signal, ReaderDispatch,
             peerVars
    <3>2. Accepts(hand'[n]) => Accepts(hand[n])
      <4>1. \A i \in 1 .. Len(Tail(hand[n])) :
               i + 1 \in 1 .. Len(hand[n]) /\ Tail(hand[n])[i] = hand[n][i + 1]
        BY <3>1
      <4> QED
        BY <3>1, <4>1 DEF Accepts
    <3>3. loginDone'[n] = "ok" => (loginDone[n] = "ok" \/ Accepts(hand[n]))
      <4>1. Head(hand[n]) = "loginOk" => Accepts(hand[n])
        BY <3>1 DEF Accepts
      <4> QED
        BY <1>11, <4>1, DispatchEffect
           DEF Inv, TypeOK, AttemptType, Signal
    <3>4. \A r \in Conns : /\ Accepts(hand'[r]) => rconn[r] \in authed
                           /\ loginDone'[r] = "ok" => rconn[r] \in authed
      BY <3>1, <3>2, <3>3 DEF AuthAndBeat, AuthInv
    <3> QED
      BY <3>1, <3>4 DEF AuthAndBeat, AuthInv
  <2>2. StopClosedOnce' /\ OpenInv' /\ SessionAuthenticated' /\ BeatInv'
    BY <1>11
       DEF AuthAndBeat, StopClosedOnce, OpenInv, SessionAuthenticated, BeatInv,
           Handshaking, ReaderDispatch, Signal, EchoPasscode, SendOk,
           clientVars, readerVars, hbVars, peerVars
  <2> QED
    BY <2>1, <2>2 DEF AuthAndBeat
<1>12. ASSUME NEW n \in Conns, ReaderFails(n)
      PROVE  AuthAndBeat'
  <2>1. StopClosedOnce'
    BY <1>12
       DEF Inv, TypeOK, AuthAndBeat, Conns, Nil, StopClosedOnce, ClientType,
           ConnInv, ReaderFails, TearDown, CloseStop, DropStop, clientVars,
           readerVars, hbVars, peerVars
  <2>2. OpenInv'
    BY <1>12
       DEF Inv, TypeOK, AuthAndBeat, Conns, Nil, OpenInv, ClientType, DialInv,
           ConnInv, Handshaking, ReaderFails, TearDown, CloseStop, DropStop,
           clientVars, readerVars, hbVars, peerVars
  <2>3. SessionAuthenticated'
    BY <1>12
       DEF Inv, TypeOK, AuthAndBeat, Conns, Nil, SessionAuthenticated, AuthInv,
           ClientType, DialInv, ConnInv, Handshaking, ReaderFails, TearDown,
           CloseStop, DropStop, clientVars, readerVars, hbVars, peerVars
  <2>4. BeatInv'
    BY <1>12
       DEF Inv, TypeOK, AuthAndBeat, Conns, Nil, BeatInv, StopClosedOnce,
           OpenInv, ClientType, AttemptType, DialInv, ConnInv, Handshaking,
           MaybeConn, ReaderFails, TearDown, CloseStop, DropStop, clientVars,
           readerVars, hbVars, peerVars
  <2>5. AuthInv'
    BY <1>12
       DEF AuthAndBeat, AuthInv, Handshaking, Accepts, ReaderFails, TearDown,
           CloseStop, DropStop, clientVars, readerVars, hbVars, peerVars
  <2> QED
    BY <2>1, <2>2, <2>3, <2>4, <2>5 DEF AuthAndBeat
<1>13. ASSUME NEW n \in Conns, HeartbeatStart(n)
      PROVE  AuthAndBeat'
  <2>1. BeatInv'
    BY <1>13
       DEF Inv, TypeOK, AuthAndBeat, Conns, Nil, BeatInv, StopClosedOnce,
           OpenInv, ClientType, AttemptType, DialInv, ConnInv, Handshaking,
           MaybeConn, HeartbeatStart, clientVars, readerVars, hbVars, peerVars
  <2>2. StopClosedOnce' /\ OpenInv' /\ AuthInv' /\ SessionAuthenticated'
    BY <1>13
       DEF AuthAndBeat, StopClosedOnce, OpenInv, AuthInv, SessionAuthenticated,
           Handshaking, Accepts, HeartbeatStart, clientVars, readerVars,
           hbVars, peerVars
  <2> QED
    BY <2>1, <2>2 DEF AuthAndBeat
<1>14. ASSUME NEW n \in Conns, HeartbeatStops(n)
      PROVE  AuthAndBeat'
  <2>1. BeatInv'
    BY <1>14
       DEF Inv, TypeOK, AuthAndBeat, Conns, Nil, BeatInv, StopClosedOnce,
           OpenInv, ClientType, AttemptType, DialInv, ConnInv, Handshaking,
           MaybeConn, HeartbeatStops, clientVars, readerVars, hbVars, peerVars
  <2>2. StopClosedOnce' /\ OpenInv' /\ AuthInv' /\ SessionAuthenticated'
    BY <1>14
       DEF AuthAndBeat, StopClosedOnce, OpenInv, AuthInv, SessionAuthenticated,
           Handshaking, Accepts, HeartbeatStops, clientVars, readerVars,
           hbVars, peerVars
  <2> QED
    BY <2>1, <2>2 DEF AuthAndBeat
<1>15. ASSUME NEW n \in Conns, DevAnswer(n)
      PROVE  AuthAndBeat'
  <2>1. AuthInv'
    <3>1. PICK a \in Answers :
             /\ toApp' = [toApp EXCEPT ![n] = Append(@, a)]
             /\ authed' = IF a = "loginOk" THEN authed \cup {n} ELSE authed
      <4>1. Head(toDev[n]) \in Requests
        BY <1>15 DEF DevAnswer, Inv, TypeOK, LinkType
      <4>2. AnswersTo[Head(toDev[n])] \subseteq Answers
        BY <4>1 DEF AnswersTo, Requests, Answers
      <4> QED
        BY <1>15, <4>2 DEF DevAnswer
    <3>2. toApp[n] \in Seq(Answers) /\ toApp'[n] = Append(toApp[n], a)
      BY <3>1 DEF Inv, TypeOK, LinkType
    <3>3. Accepts(toApp'[n]) => (Accepts(toApp[n]) \/ a = "loginOk")
      BY <3>2 DEF Accepts
    <3>4. \A m \in Conns : Accepts(toApp'[m]) => m \in authed'
      BY <3>1, <3>3 DEF AuthAndBeat, AuthInv, Inv, TypeOK, LinkType
    <3>5. authed \subseteq authed'
      BY <3>1
    <3> QED
      BY <1>15, <3>4, <3>5
         DEF DevAnswer, readerVars, AuthAndBeat, AuthInv, Accepts
  <2>2. SessionAuthenticated'
    BY <1>15
       DEF Inv, TypeOK, AuthAndBeat, Conns, Nil, SessionAuthenticated, AuthInv,
           ClientType, DialInv, ConnInv, Handshaking, DevAnswer, AnswersTo,
           clientVars, readerVars, hbVars, peerVars
  <2>3. StopClosedOnce' /\ OpenInv' /\ BeatInv'
    BY <1>15
       DEF AuthAndBeat, StopClosedOnce, OpenInv, BeatInv, Handshaking,
           DevAnswer, AnswersTo, clientVars, readerVars, hbVars, peerVars
  <2> QED
    BY <2>1, <2>2, <2>3 DEF AuthAndBeat
<1>16. ASSUME NEW n \in Conns, DevDrops(n)
      PROVE  AuthAndBeat'
  <2>1. BeatInv'
    BY <1>16
       DEF Inv, TypeOK, AuthAndBeat, Conns, Nil, BeatInv, StopClosedOnce,
           OpenInv, ClientType, AttemptType, DialInv, ConnInv, Handshaking,
           MaybeConn, DevDrops, clientVars, readerVars, hbVars, peerVars
  <2>2. StopClosedOnce' /\ OpenInv' /\ AuthInv' /\ SessionAuthenticated'
    BY <1>16
       DEF AuthAndBeat, StopClosedOnce, OpenInv, AuthInv, SessionAuthenticated,
           Handshaking, Accepts, DevDrops, clientVars, readerVars, hbVars,
           peerVars
  <2> QED
    BY <2>1, <2>2 DEF AuthAndBeat
<1>17. CASE UNCHANGED vars
  BY <1>17
     DEF vars, clientVars, readerVars, hbVars, peerVars, AuthAndBeat,
         StopClosedOnce, OpenInv, AuthInv, SessionAuthenticated, BeatInv,
         Handshaking, Accepts
<1>18. QED
  BY <1>1, <1>2, <1>3, <1>4, <1>5, <1>6, <1>7, <1>8, <1>9, <1>10, <1>11,
     <1>12, <1>13, <1>14, <1>15, <1>16, <1>17
     DEF Next, Connect, ReadLoop, HeartbeatLoop, Device

-----------------------------------------------------------------------------
(* The theorems.                                                           *)

LEMMA Invariance == Spec => [](Inv /\ AuthAndBeat)
<1>1. Init => Inv /\ AuthAndBeat
  BY InitInv, InitAuthAndBeat
<1>2. (Inv /\ AuthAndBeat) /\ [Next]_vars => (Inv /\ AuthAndBeat)'
  BY StepInv, StepAuthAndBeat
<1>3. QED
  BY <1>1, <1>2, PTL DEF Spec

\* Every variable of the client keeps its type, for any number of dials, and a
\* reader past its start either has a connection to read from or has ended
\* the program on a nil one (client.go:241-245).
THEOREM TypeCorrect == Spec => []TypeOK
<1>1. Inv => TypeOK
  BY DEF Inv
<1>2. QED
  BY <1>1, Invariance, PTL

\* Whatever attempts fail, time out or are replaced, Connect, Close and
\* markDisconnected between them close every socket but the current one.
THEOREM NoSocketLeaks == Spec => []NoLeakedSocket
<1>1. Inv => NoLeakedSocket
  BY DEF Inv
<1>2. QED
  BY <1>1, Invariance, PTL

\* Close and markDisconnected close every stop channel at most once
\* (client.go:132 and :424), however often and in whatever order they run.
THEOREM StopClosesOnce == Spec => []StopClosedOnce
<1>1. AuthAndBeat => StopClosedOnce
  BY DEF AuthAndBeat
<1>2. QED
  BY <1>1, Invariance, PTL

\* Connect reports a login only on a connection on which the tub accepted
\* one, although answers of abandoned attempts arrive at any time.
THEOREM SessionsAreAuthenticated == Spec => []SessionAuthenticated
<1>1. AuthAndBeat => SessionAuthenticated
  BY DEF AuthAndBeat
<1>2. QED
  BY <1>1, Invariance, PTL

\* A session that is up has its heartbeat: a reconnect never leaves it with
\* a heartbeat goroutine that waits on a channel closed before.
THEOREM LiveSessionsBeat == Spec => []LiveSessionBeats
<1>1. Inv /\ AuthAndBeat => LiveSessionBeats
  BY DEF Inv, AuthAndBeat, BeatInv, LiveSessionBeats, StopClosedOnce, TypeOK,
         ClientType, AttemptType, Nil, MaybeConn, Conns
<1>2. QED
  BY <1>1, Invariance, PTL

(***************************************************************************)
(* TubSession implements SessionPromise: whatever the goroutines of the    *)
(* client, the tub and the network do, for any number of dials, each step  *)
(* of theirs is a step of the promise or leaves what it speaks of alone.   *)
(***************************************************************************)

\* The state of the promise that a state of the client stands for.
Phase ==
    IF loggedIn /\ conn # Nil THEN "in"
    ELSE IF connecting \in Handshaking THEN "trying"
    ELSE "idle"

\* The tub is asked only on connections that were dialled.
SentInv == \A n \in Conns : toDev[n] # << >> => n <= dialled

Mapped == Inv /\ AuthAndBeat /\ SentInv

\* A step that leaves the frames to the tub alone, or adds one on n, keeps
\* SentInv when n was dialled.
LEMMA SendKeepsSent ==
  ASSUME Inv, SentInv, NEW n \in Conns, n <= dialled, dialled' = dialled,
         NEW m, SendOk(n, m)
  PROVE  SentInv'
BY DEF SendOk, SentInv, Inv, TypeOK, LinkType

LEMMA StepSent == Mapped /\ [Next]_vars => SentInv'
<1> SUFFICES ASSUME Mapped, [Next]_vars PROVE SentInv'
  OBVIOUS
<1> USE DEF Mapped
<1>1. dialled \in Nat /\ dialled <= MaxConns
  BY SessionAssumption DEF SessionAssumption, Inv, TypeOK, ClientType
<1>2. CASE Greet
  <2>1. dialled \in Conns /\ dialled' = dialled
    BY <1>2 DEF Greet, GiveUp, Inv, DialInv, Handshaking
  <2>2. SendOk(dialled, "passcodeReq") \/ UNCHANGED toDev
    BY <1>2 DEF Greet, SendFails
  <2> QED
    BY <1>1, <2>1, <2>2, SendKeepsSent DEF SentInv, Conns
<1>3. ASSUME NEW r \in Conns, ReaderDispatch(r) PROVE SentInv'
  <2>1. dialled' = dialled
    BY <1>3 DEF ReaderDispatch
  <2>2. UNCHANGED toDev \/ (conn \in Conns /\ SendOk(conn, "loginReq"))
    BY <1>3, DispatchEffect DEF Inv
  <2>3. conn \in Conns => conn <= dialled
    BY <1>1 DEF Inv, ConnInv, Conns, Nil
  <2> QED
    BY <2>1, <2>2, <2>3, SendKeepsSent DEF SentInv
<1>4. ASSUME NEW n \in Conns, DevAnswer(n) PROVE SentInv'
  <2>1. toDev' = [toDev EXCEPT ![n] = Tail(@)] /\ toDev[n] # << >>
    BY <1>4 DEF DevAnswer
  <2>2. dialled' = dialled
    BY <1>4 DEF DevAnswer
  <2> QED
    BY <2>1, <2>2 DEF SentInv, Inv, TypeOK, LinkType
<1>5. ASSUME NEW n \in Conns, DevDrops(n) PROVE SentInv'
  BY <1>5 DEF DevDrops, SentInv, Inv, TypeOK, LinkType
<1>6. CASE Install
  BY <1>1, <1>6 DEF Install, SentInv, Conns
<1>7. ASSUME UNCHANGED <<toDev, dialled>> PROVE SentInv'
  BY <1>7 DEF SentInv
<1>8. CASE ConnectBegin \/ DialFails \/ AwaitAnswer \/ AwaitTimeout \/ Finish
  BY <1>7, <1>8
     DEF ConnectBegin, DialFails, AwaitAnswer, AwaitTimeout, Finish, GiveUp
<1>9. CASE Close
  BY <1>7, <1>9 DEF Close
<1>10. ASSUME NEW n \in Conns,
              \/ ReaderStart(n) \/ ReaderTake(n) \/ ReaderFails(n)
              \/ HeartbeatLoop(n)
       PROVE  SentInv'
  BY <1>7, <1>10
     DEF ReaderStart, ReaderTake, ReaderFails, HeartbeatLoop, HeartbeatStart,
         HeartbeatStops
<1>11. CASE UNCHANGED vars
  BY <1>7, <1>11 DEF vars
<1> QED
  BY <1>2, <1>3, <1>4, <1>5, <1>6, <1>8, <1>9, <1>10, <1>11
     DEF Next, Connect, ReadLoop, Device

-----------------------------------------------------------------------------
(* Each step of the client as a step of the promise.                       *)

PhaseUnchanged == Phase' = Phase /\ dialled' = dialled /\ authed' = authed

LEMMA TearDownMaps ==
  ASSUME Mapped, TearDown, UNCHANGED <<connecting, dialled, authed>>
  PROVE  PhaseUnchanged \/ Promise!Leave
<1>1. CASE Phase = "in"
  <2>1. connecting = "no"
    BY <1>1 DEF Phase, Mapped, Inv, DialInv, TypeOK, ClientType, Handshaking
  <2>2. Phase' = "idle"
    BY <2>1 DEF TearDown, Phase, Handshaking
  <2> QED
    BY <1>1, <2>2 DEF Promise!Leave, Phase, Handshaking
<1>2. CASE Phase # "in"
  BY <1>2 DEF TearDown, Phase, PhaseUnchanged, Handshaking
<1> QED
  BY <1>1, <1>2

LEMMA GiveUpMaps ==
  ASSUME Mapped, connecting \in Handshaking, GiveUp, authed' = authed
  PROVE  Promise!Leave
<1>1. Phase = "trying"
  BY DEF Mapped, Inv, DialInv, Handshaking, Phase
<1>2. Phase' = "idle"
  BY DEF Mapped, Inv, DialInv, Handshaking, Phase, GiveUp
<1> QED
  BY <1>1, <1>2 DEF Promise!Leave, Phase, GiveUp, Handshaking

LEMMA StepMaps ==
  Mapped /\ [Next]_vars => [Promise!PromiseNext]_(Promise!promiseVars)
<1> SUFFICES ASSUME Mapped, [Next]_vars
             PROVE  Promise!PromiseNext \/ PhaseUnchanged
  BY DEF Promise!promiseVars, PhaseUnchanged, Phase, Handshaking
<1>1. ~loggedIn \/ connecting = "no"
  BY DEF Mapped, Inv, DialInv
<1>2. CASE ConnectBegin \/ DialFails
  BY <1>1, <1>2
     DEF ConnectBegin, DialFails, Phase, PhaseUnchanged, clientVars, peerVars,
         Handshaking
<1>3. CASE Install
  <2>1. Phase = "idle" /\ Phase' = "trying"
    BY <1>1, <1>3 DEF Install, Phase, Handshaking
  <2> QED
    BY <1>3, <2>1
       DEF Install, Promise!PromiseNext, Promise!Try, Phase, Handshaking,
           peerVars
<1>4. CASE Greet
  <2>1. CASE GiveUp
    BY <1>4, <2>1, GiveUpMaps
       DEF Greet, Promise!PromiseNext, Handshaking, peerVars
  <2>2. CASE connecting' = "await" /\ UNCHANGED <<clientVars, dialled>>
    BY <1>4, <2>2
       DEF Greet, Phase, PhaseUnchanged, Handshaking, clientVars, peerVars
  <2> QED
    BY <1>4, <2>1, <2>2 DEF Greet
<1>5. CASE AwaitAnswer
  <2>1. CASE GiveUp
    BY <1>5, <2>1, GiveUpMaps
       DEF AwaitAnswer, Promise!PromiseNext, Handshaking, peerVars
  <2>2. CASE connecting' = "finish" /\ UNCHANGED <<clientVars, dialled>>
    BY <1>5, <2>2
       DEF AwaitAnswer, Phase, PhaseUnchanged, Handshaking, clientVars,
           peerVars
  <2> QED
    BY <1>5, <2>1, <2>2 DEF AwaitAnswer
<1>6. CASE AwaitTimeout
  BY <1>6, GiveUpMaps
     DEF AwaitTimeout, Promise!PromiseNext, Handshaking, peerVars
<1>7. CASE Finish
  <2>1. Phase = "trying" /\ dialled \in authed
    BY <1>1, <1>7 DEF Finish, Phase, Handshaking, Mapped, AuthAndBeat, AuthInv
  <2>2. UNCHANGED <<dialled, authed>>
    BY <1>7 DEF Finish, peerVars
  <2>3. CASE conn # Nil
    <3>1. Phase' = "in"
      BY <1>7, <2>3 DEF Finish, Phase
    <3> QED
      BY <2>1, <2>2, <3>1
         DEF Promise!PromiseNext, Promise!Enter, Phase, Handshaking
  <2>4. CASE conn = Nil
    <3>1. Phase' = "idle"
      BY <1>7, <2>4 DEF Finish, Phase, Handshaking
    <3> QED
      BY <2>1, <2>2, <3>1
         DEF Promise!PromiseNext, Promise!Leave, Phase, Handshaking
  <2> QED
    BY <2>3, <2>4
<1>8. CASE Close
  BY <1>8, TearDownMaps DEF Close, Promise!PromiseNext, peerVars
<1>9. ASSUME NEW r \in Conns, ReaderFails(r)
      PROVE  Promise!PromiseNext \/ PhaseUnchanged
  BY <1>9, TearDownMaps DEF ReaderFails, Promise!PromiseNext, peerVars
<1>10. ASSUME NEW n \in Conns, DevAnswer(n)
       PROVE  Promise!PromiseNext \/ PhaseUnchanged
  <2>1. authed' = authed \/ authed' = authed \cup {n}
    BY <1>10 DEF DevAnswer
  <2>2. n \in 1 .. dialled
    BY <1>10, SessionAssumption
       DEF DevAnswer, Mapped, SentInv, Inv, TypeOK, ClientType, Conns,
           SessionAssumption
  <2>3. Phase' = Phase /\ dialled' = dialled
    BY <1>10 DEF DevAnswer, Phase, clientVars
  <2> QED
    BY <2>1, <2>2, <2>3
       DEF PhaseUnchanged, Promise!PromiseNext, Promise!Accept, Phase,
           Handshaking
<1>11. ASSUME UNCHANGED <<clientVars, connecting, dialled, authed>>
       PROVE  PhaseUnchanged
  BY <1>11 DEF PhaseUnchanged, Phase, clientVars
<1>12. ASSUME NEW n \in Conns,
              \/ ReaderStart(n) \/ ReaderTake(n) \/ ReaderDispatch(n)
              \/ HeartbeatLoop(n) \/ DevDrops(n)
       PROVE  PhaseUnchanged
  BY <1>11, <1>12
     DEF ReaderStart, ReaderTake, ReaderDispatch, HeartbeatLoop,
         HeartbeatStart, HeartbeatStops, DevDrops, peerVars
<1>13. CASE UNCHANGED vars
  BY <1>11, <1>13 DEF vars, peerVars
<1> QED
  BY <1>2, <1>3, <1>4, <1>5, <1>6, <1>7, <1>8, <1>9, <1>10, <1>12, <1>13
     DEF Next, Connect, ReadLoop, Device

\* The client keeps its promise: a session begins only out of the attempt
\* under way and only if the tub accepted the login of that one, and one that
\* has ended is never resumed (client.go:61-126, 420-431).
THEOREM PromiseKept == Spec => KeepsPromise
<1>1. Init => SentInv /\ Promise!PromiseInit
  BY DEF Init, SentInv, Promise!PromiseInit, Nil, Conns
<1>2. Spec => []Mapped
  <2>1. (Inv /\ AuthAndBeat) /\ SentInv /\ [Next]_vars => SentInv'
    BY StepSent DEF Mapped
  <2>2. (Inv /\ AuthAndBeat) /\ SentInv => Mapped
    BY DEF Mapped
  <2> QED
    BY <1>1, <2>1, <2>2, Invariance, PTL DEF Spec
<1>3. QED
  BY <1>1, <1>2, StepMaps, PTL DEF Spec, KeepsPromise, Promise!PromiseSpec
=============================================================================
