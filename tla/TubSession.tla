------------------------------ MODULE TubSession ------------------------------
(***************************************************************************)
(* The life of a tub session in internal/tub/client.go: Connect dials,     *)
(* installs the connection, starts a reader goroutine and waits for it to  *)
(* report the login; markDisconnected and Close tear the session down; a   *)
(* heartbeat goroutine runs beside a logged-in session.                    *)
(*                                                                         *)
(* A connection is named by the attempt that dialled it, and so are the    *)
(* channels and goroutines that attempt makes: stopHB, loginDone, readLoop *)
(* and heartbeatLoop.  The locks c.mu and c.connectMu are the atomicity of *)
(* the actions and the single variable "connecting".  Requests other than  *)
(* the handshake are in TubExchange, subscribers are not modelled here.    *)
(***************************************************************************)
EXTENDS Naturals, Sequences, FiniteSets

CONSTANTS
    MaxConns,          \* bound on the dials of one behaviour
    CloseConcurrently  \* TRUE: Close may be called while Connect runs

ASSUME SessionAssumption ==
    /\ MaxConns \in Nat \ {0}
    /\ CloseConcurrently \in BOOLEAN

Conns == 1 .. MaxConns
Nil == 0                    \* a nil net.Conn or a nil channel
MaybeConn == Conns \cup {Nil}

Requests == {"passcodeReq", "loginReq"}
Answers == {"passcode", "badPasscode", "loginOk", "loginNo"}
AnswersTo == [passcodeReq |-> {"passcode", "badPasscode"},
              loginReq    |-> {"loginOk", "loginNo"}]

VARIABLES
    conn,        \* c.conn
    loggedIn,    \* c.loggedIn
    stopHB,      \* c.stopHB
    stopClosed,  \* the stop channels that were closed
    connecting,  \* where the holder of connectMu is in Connect
    dialled,     \* how many connections were dialled; the last one's name
    loginDone,   \* the one-slot channel of each attempt
    reader,      \* where the reader goroutine of each attempt is
    rconn,       \* the connection each reader read from c.conn at its start
    hand,        \* the frames each reader has read and not yet dispatched
    hb,          \* where the heartbeat goroutine of each attempt is
    hbStop,      \* the stop channel each heartbeat waits on
    closed,      \* the connections closed on this side
    peerGone,    \* the connections the tub or the network dropped
    authed,      \* the connections on which the tub accepted the login
    toDev, toApp \* the frames in flight on each connection

clientVars == <<conn, loggedIn, stopHB, stopClosed, closed>>
readerVars == <<reader, rconn, hand>>
hbVars == <<hb, hbStop>>
peerVars == <<peerGone, authed>>
vars == <<clientVars, connecting, dialled, loginDone, readerVars, hbVars,
          peerVars, toDev, toApp>>

ClientType ==
    /\ conn \in MaybeConn /\ stopHB \in MaybeConn
    /\ loggedIn \in BOOLEAN
    /\ stopClosed \subseteq Conns /\ closed \subseteq Conns
    /\ connecting \in {"no", "dial", "greet", "await", "finish"}
    /\ dialled \in 0 .. MaxConns
AttemptType ==
    /\ loginDone \in [Conns -> {"empty", "ok", "err"}]
    /\ reader \in [Conns -> {"none", "start", "reading", "done", "panicked"}]
    /\ rconn \in [Conns -> MaybeConn]
    /\ hb \in [Conns -> {"none", "start", "beating", "done"}]
    /\ hbStop \in [Conns -> MaybeConn]
LinkType ==
    /\ peerGone \subseteq Conns /\ authed \subseteq Conns
    /\ hand \in [Conns -> Seq(Answers)]
    /\ toDev \in [Conns -> Seq(Requests)]
    /\ toApp \in [Conns -> Seq(Answers)]

\* A reader that reads has a connection to read from.
ReaderHasConn == \A r \in Conns : reader[r] = "reading" => rconn[r] \in Conns

TypeOK == ClientType /\ AttemptType /\ LinkType /\ ReaderHasConn

Init ==
    /\ conn = Nil /\ stopHB = Nil /\ loggedIn = FALSE
    /\ stopClosed = {} /\ closed = {} /\ peerGone = {} /\ authed = {}
    /\ connecting = "no" /\ dialled = 0
    /\ loginDone = [n \in Conns |-> "empty"]
    /\ reader = [n \in Conns |-> "none"]
    /\ rconn = [n \in Conns |-> Nil]
    /\ hand = [n \in Conns |-> << >>]
    /\ hb = [n \in Conns |-> "none"]
    /\ hbStop = [n \in Conns |-> Nil]
    /\ toDev = [n \in Conns |-> << >>]
    /\ toApp = [n \in Conns |-> << >>]

\* A panic in any goroutine ends the program.
Alive == \A r \in Conns : reader[r] # "panicked"

-----------------------------------------------------------------------------
(* Helpers shared by several handlers.                                     *)

\* conn.Write of a frame on n: closed here, it fails; the peer gone, it may
\* fail or be lost; otherwise the tub will receive it.
SendOk(n, m) ==
    /\ n \notin closed
    /\ toDev' = IF n \in peerGone THEN toDev
                ELSE [toDev EXCEPT ![n] = Append(@, m)]
SendFails(n) ==
    /\ n \in closed \cup peerGone
    /\ UNCHANGED toDev

\* The section under c.mu that markDisconnected and Close share.
KeepStop == stopHB' = stopHB  \* variant: the closed channel is not forgotten
CloseStop == stopClosed' = stopClosed \cup ({stopHB} \ {Nil})
DropStop == stopHB' = Nil
TearDown ==
    /\ loggedIn' = FALSE
    /\ CloseStop
    /\ DropStop
    /\ closed' = closed \cup ({conn} \ {Nil})
    /\ conn' = Nil

-----------------------------------------------------------------------------
(* Connect.  The holder of connectMu works on attempt "dialled".           *)

ConnectBegin ==
    /\ connecting = "no"
    /\ ~loggedIn
    /\ dialled < MaxConns
    /\ connecting' = "dial"
    /\ UNCHANGED <<clientVars, dialled, loginDone, readerVars, hbVars,
                   peerVars, toDev, toApp>>

DialFails ==
    /\ connecting = "dial"
    /\ connecting' = "no"
    /\ UNCHANGED <<clientVars, dialled, loginDone, readerVars, hbVars,
                   peerVars, toDev, toApp>>

Install ==
    LET n == dialled + 1 IN
    /\ connecting = "dial"
    /\ dialled' = n
    /\ conn' = n
    /\ stopHB' = n
    /\ reader' = [reader EXCEPT ![n] = "start"]
    /\ connecting' = "greet"
    /\ UNCHANGED <<loggedIn, stopClosed, closed, loginDone, rconn, hand,
                   hbVars, peerVars, toDev, toApp>>

\* Every failure after the dial closes the attempt's own connection and
\* leaves c.conn as it is.
LeaveOpen == UNCHANGED closed  \* variant: an error return without the Close
CloseAttempt == closed' = closed \cup {dialled}
GiveUp ==
    /\ CloseAttempt
    /\ connecting' = "no"
    /\ UNCHANGED <<conn, loggedIn, stopHB, stopClosed, dialled>>

Greet ==
    /\ connecting = "greet"
    /\ \/ /\ SendOk(dialled, "passcodeReq")
          /\ connecting' = "await"
          /\ UNCHANGED <<clientVars, dialled>>
       \/ /\ SendFails(dialled)
          /\ GiveUp
    /\ UNCHANGED <<loginDone, readerVars, hbVars, peerVars, toApp>>

AwaitAnswer ==
    /\ connecting = "await"
    /\ loginDone[dialled] # "empty"
    /\ loginDone' = [loginDone EXCEPT ![dialled] = "empty"]
    /\ \/ /\ loginDone[dialled] = "ok"
          /\ connecting' = "finish"
          /\ UNCHANGED <<clientVars, dialled>>
       \/ /\ loginDone[dialled] = "err"
          /\ GiveUp
    /\ UNCHANGED <<readerVars, hbVars, peerVars, toDev, toApp>>

\* ctx.Done or the 8 s timer; and the variant without either.
NoTimeout == FALSE
AwaitTimeout ==
    /\ connecting = "await"
    /\ GiveUp
    /\ UNCHANGED <<loginDone, readerVars, hbVars, peerVars, toDev, toApp>>

\* Variant: the heartbeat is started for the first session only.
SpawnOnce == hb' = IF dialled > 1 THEN hb ELSE [hb EXCEPT ![dialled] = "start"]
SpawnHeartbeat == hb' = [hb EXCEPT ![dialled] = "start"]
Finish ==
    /\ connecting = "finish"
    /\ loggedIn' = TRUE
    /\ SpawnHeartbeat
    /\ connecting' = "no"
    /\ UNCHANGED <<conn, stopHB, stopClosed, closed, dialled, loginDone,
                   readerVars, hbStop, peerVars, toDev, toApp>>

Close ==
    /\ CloseConcurrently \/ connecting = "no"
    /\ TearDown
    /\ UNCHANGED <<connecting, dialled, loginDone, readerVars, hbVars,
                   peerVars, toDev, toApp>>

-----------------------------------------------------------------------------
(* readLoop(loginDone) of attempt r.                                       *)

NoNilCheck == "reading"  \* variant: a nil connection can be read
AfterStart == IF conn = Nil THEN "panicked" ELSE "reading"

ReaderStart(r) ==
    /\ reader[r] = "start"
    /\ rconn' = [rconn EXCEPT ![r] = conn]
    /\ reader' = [reader EXCEPT ![r] = AfterStart]
    /\ UNCHANGED <<clientVars, connecting, dialled, loginDone, hand, hbVars,
                   peerVars, toDev, toApp>>

\* conn.Read and ParseFrames: any non-empty prefix of what has arrived.
ReaderTake(r) ==
    /\ reader[r] = "reading" /\ hand[r] = << >>
    /\ rconn[r] \notin closed
    /\ LET c == rconn[r] IN
       \E k \in 1 .. Len(toApp[c]) :
          /\ hand' = [hand EXCEPT ![r] = SubSeq(toApp[c], 1, k)]
          /\ toApp' = [toApp EXCEPT ![c] = SubSeq(@, k + 1, Len(@))]
    /\ UNCHANGED <<clientVars, connecting, dialled, loginDone, reader, rconn,
                   hbVars, peerVars, toDev>>

\* A non-blocking send on the attempt's one-slot channel; and the variant in
\* which all attempts share one channel.
SignalShared(r, v) ==
    loginDone' = [loginDone EXCEPT ![dialled] = IF @ = "empty" THEN v ELSE @]
Signal(r, v) ==
    loginDone' = [loginDone EXCEPT ![r] = IF @ = "empty" THEN v ELSE @]

\* The passcode is echoed on the current c.conn, which need not be the
\* connection it came from; a failed write is ignored.
EchoPasscode ==
    \/ /\ conn # Nil
       /\ SendOk(conn, "loginReq")
    \/ /\ conn = Nil \/ conn \in closed \cup peerGone
       /\ UNCHANGED toDev

ReaderDispatch(r) ==
    /\ reader[r] = "reading" /\ hand[r] # << >>
    /\ hand' = [hand EXCEPT ![r] = Tail(@)]
    /\ LET f == Head(hand[r]) IN
       \/ /\ f = "passcode"
          /\ EchoPasscode
          /\ UNCHANGED loginDone
       \/ /\ f \in {"badPasscode", "loginNo"}
          /\ Signal(r, "err")
          /\ UNCHANGED toDev
       \/ /\ f = "loginOk"
          /\ Signal(r, "ok")
          /\ UNCHANGED toDev
    /\ UNCHANGED <<clientVars, connecting, dialled, reader, rconn, hbVars,
                   peerVars, toApp>>

\* conn.Read fails: markDisconnected, whose c.conn need not be this reader's.
ReaderFails(r) ==
    /\ reader[r] = "reading" /\ hand[r] = << >>
    /\ rconn[r] \in closed \cup peerGone
    /\ TearDown
    /\ reader' = [reader EXCEPT ![r] = "done"]
    /\ UNCHANGED <<connecting, dialled, loginDone, rconn, hand, hbVars,
                   peerVars, toDev, toApp>>

-----------------------------------------------------------------------------
(* heartbeatLoop of attempt h.  A tick reads conn and loggedIn and then    *)
(* writes; a close between the two also closes the stop channel, so the    *)
(* exit it causes is the one HeartbeatStops takes.                         *)

HeartbeatStart(h) ==
    /\ hb[h] = "start"
    /\ hbStop' = [hbStop EXCEPT ![h] = stopHB]
    /\ hb' = [hb EXCEPT ![h] = IF stopHB = Nil THEN "done" ELSE "beating"]
    /\ UNCHANGED <<clientVars, connecting, dialled, loginDone, readerVars,
                   peerVars, toDev, toApp>>

HeartbeatStops(h) ==
    /\ hb[h] = "beating"
    /\ \/ hbStop[h] \in stopClosed
       \/ ~loggedIn \/ conn = Nil
       \/ conn \in closed \cup peerGone
    /\ hb' = [hb EXCEPT ![h] = "done"]
    /\ UNCHANGED <<clientVars, connecting, dialled, loginDone, readerVars,
                   hbStop, peerVars, toDev, toApp>>

-----------------------------------------------------------------------------
(* The tub, an external device reached over TCP.                           *)

DevAnswer(n) ==
    /\ n \notin peerGone /\ toDev[n] # << >>
    /\ toDev' = [toDev EXCEPT ![n] = Tail(@)]
    /\ \E a \in AnswersTo[Head(toDev[n])] :
          /\ toApp' = [toApp EXCEPT ![n] = Append(@, a)]
          /\ authed' = IF a = "loginOk" THEN authed \cup {n} ELSE authed
    /\ UNCHANGED <<clientVars, connecting, dialled, loginDone, readerVars,
                   hbVars, peerGone>>

DevDrops(n) ==
    /\ n <= dialled /\ n \notin peerGone
    /\ peerGone' = peerGone \cup {n}
    /\ toDev' = [toDev EXCEPT ![n] = << >>]
    /\ UNCHANGED <<clientVars, connecting, dialled, loginDone, readerVars,
                   hbVars, authed, toApp>>

-----------------------------------------------------------------------------
Connect ==
    ConnectBegin \/ DialFails \/ Install \/ Greet \/ AwaitAnswer
        \/ AwaitTimeout \/ Finish
ReadLoop(r) ==
    ReaderStart(r) \/ ReaderTake(r) \/ ReaderDispatch(r) \/ ReaderFails(r)
HeartbeatLoop(h) == HeartbeatStart(h) \/ HeartbeatStops(h)
Device(n) == DevAnswer(n) \/ DevDrops(n)

Next ==
    /\ Alive
    /\ \/ Connect
       \/ Close
       \/ \E n \in Conns : ReadLoop(n) \/ HeartbeatLoop(n) \/ Device(n)

Spec == Init /\ [][Next]_vars

\* What the Go scheduler and the timers promise: a goroutine that can run
\* does; the tub promises nothing, and nobody has to call Connect.
Finishing == Install \/ Greet \/ AwaitAnswer \/ AwaitTimeout \/ Finish
Fairness ==
    /\ WF_vars(Alive /\ Finishing)
    /\ \A n \in Conns : /\ WF_vars(Alive /\ ReadLoop(n))
                        /\ WF_vars(Alive /\ HeartbeatLoop(n))
FairSpec == Spec /\ Fairness

-----------------------------------------------------------------------------
(* Properties.                                                             *)

\* A session the client calls logged in is one the tub accepted the login
\* on: a late answer of an abandoned attempt never logs another one in
\* (the one-slot loginDone channel of client.go:97).
SessionAuthenticated ==
    (loggedIn /\ conn # Nil) => conn \in authed

\* Connect never forgets an open socket: whatever attempts failed, timed out
\* or were replaced, every dialled connection but the current one is closed,
\* and the current one is open only while it is logging in or logged in.
NoLeakedSocket ==
    \A n \in 1 .. dialled :
        \/ n \in closed
        \/ /\ n = conn
           /\ loggedIn \/ connecting \in {"greet", "await", "finish"}

\* The stop channel Close or markDisconnected will close is still open, in
\* whatever order they and Connect run: no "close of closed channel" panic.
StopClosedOnce == stopHB # Nil => stopHB \notin stopClosed

\* A logged-in session has a heartbeat goroutine that nothing has told to
\* stop, unless the link itself is gone.
LiveSessionBeats ==
    (loggedIn /\ conn # Nil /\ conn \notin peerGone) =>
        \E h \in Conns :
            \/ hb[h] = "start"
            \/ hb[h] = "beating" /\ hbStop[h] \notin stopClosed

\* connectMu is not held for ever: a Connect that has dialled returns, even
\* when the tub never answers.
ConnectReturns == connecting = "await" ~> (connecting = "no" \/ ~Alive)

\* An attempt that was replaced leaves no goroutine behind: its reader ends,
\* or it adopted a later connection that is still open.
ReplacedReaderEnds ==
    \A n \in Conns :
        dialled > n ~> \/ reader[n] = "done"
                       \/ rconn[n] > n /\ rconn[n] \notin closed
                       \/ ~Alive

\* The client keeps what SessionPromise says, with the connections as the
\* names of the attempts: one at a time, authenticated, never resumed
\* (client.go:61-63, 120-122, 420-431).
Promise == INSTANCE SessionPromise WITH
    phase <- IF loggedIn /\ conn # Nil THEN "in"
             ELSE IF connecting \in {"greet", "await", "finish"} THEN "trying"
             ELSE "idle",
    attempt <- dialled,
    accepted <- authed
KeepsPromise == Promise!PromiseSpec

\* client.go:145 "LoggedIn reports whether the client has an active
\* authenticated session."
LoggedInHasConn == loggedIn => conn # Nil
=============================================================================
