----------------------------- MODULE EventStreams -----------------------------
(***************************************************************************)
(* GET /api/events: handleEvents and ensureConnected of                    *)
(* internal/web/server.go over Subscribe, broadcast and markDisconnected   *)
(* of internal/tub/client.go.  Each stream is a goroutine that selects     *)
(* among its channel, its timers and its client's leaving; the readers of  *)
(* the sessions broadcast to the channels and, when a link is lost, close  *)
(* them.                                                                   *)
(*                                                                         *)
(* Sessions are numbered; how one is dialled and logged in is TubSession's *)
(* subject and is an install and an end here, and how a Read gets its      *)
(* answer is TubExchange's: it is the first status dispatched after it     *)
(* took opMu.  A lock is the atomicity of an action, but for opMu and for   *)
(* subMu during a broadcast, which runs beside the receivers.              *)
(***************************************************************************)
EXTENDS Naturals, Sequences, FiniteSets, SequencesExt

CONSTANTS
    Streams,      \* requests for /api/events
    Nobody,       \* no stream
    Other,        \* another caller of Connect or Read: a request, the scheduler
    MaxStreams,   \* maxSSEClients, 16 in the code
    MaxOthers,    \* bound on the streams it counts besides Streams
    Buffer,       \* what a subscriber's channel holds, 4 in the code
    MaxSessions,  \* bound on the sessions of one behaviour
    Statuses      \* the states of the tub a status may show, in their order

ASSUME StreamsAssumption ==
    /\ IsFiniteSet(Streams)
    /\ {Nobody, Other} \cap Streams = {} /\ Nobody # Other
    /\ MaxStreams \in Nat /\ MaxOthers \in 0 .. MaxStreams
    /\ Buffer \in Nat \ {0}
    /\ MaxSessions \in Nat /\ Statuses \subseteq Nat \ {0}

Nil == 0
Sessions == 1 .. MaxSessions

VARIABLES
    conn, loggedIn,  \* c.conn, as the number of its session, and c.loggedIn
    dialled,     \* how many sessions were installed
    dialler,     \* who holds connectMu in Connect
    dead,        \* the connections the client has closed
    reader,      \* where the reader of each session is
    news,        \* the status it is dispatching
    subMu,       \* the reader that broadcasts
    todo, slow,  \* the channels it has not served; the one it found full
    subs,        \* c.subs
    chan, open,  \* the subscribers' channels: their contents, and whether
                 \* they are made ("no"), open or closed
    panicked,    \* a channel was closed twice
    opMu, mail,  \* who holds opMu in Read, and its answer
    pc,          \* where each stream is in handleEvents
    sseCount,    \* s.sseCount
    others,      \* the streams it counts that are not among Streams
    gone,        \* the streams whose clients have left
    sent,        \* the last status sent to each client
    lastNews     \* the status broadcast last

connVars == <<conn, loggedIn, dialled, dialler>>
castVars == <<reader, news, subMu, todo, slow, lastNews>>
chanVars == <<subs, chan, open, panicked>>
readVars == <<opMu, mail>>
pageVars == <<sseCount, others, gone, sent>>
vars == <<connVars, dead, castVars, chanVars, readVars, pageVars, pc>>

TypeOK ==
    /\ conn \in Sessions \cup {Nil} /\ dialled \in 0 .. MaxSessions
    /\ {loggedIn, panicked} \subseteq BOOLEAN
    /\ dialler \in Streams \cup {Nobody, Other}
    /\ dead \subseteq Sessions
    /\ lastNews \in Statuses \cup {Nil}
    /\ reader \in [Sessions -> {"none", "reading", "took", "offer", "evict",
                                "push", "drop", "done"}]
    /\ news \in [Sessions -> Statuses \cup {Nil}]
    /\ subMu \in Sessions \cup {Nil}
    /\ todo \subseteq Streams /\ slow \in Streams \cup {Nobody}
    /\ subs \subseteq Streams
    /\ chan \in [Streams -> Seq(Statuses)]
    /\ \A r \in Streams : Len(chan[r]) <= Buffer
    /\ open \in [Streams -> {"no", "open", "closed"}]
    /\ opMu \in Streams \cup {Nobody, Other} /\ mail \in Statuses \cup {Nil}
    /\ pc \in [Streams -> {"new", "refused", "connect", "dial", "subscribe",
                           "snapshot", "snapWait", "loop", "blocked",
                           "refresh", "refWait", "cancel", "release",
                           "end"}]
    /\ sseCount \in Nat /\ others \in 0 .. MaxStreams
    /\ gone \subseteq Streams
    /\ sent \in [Streams -> Statuses \cup {Nil}]

Init ==
    /\ conn = Nil /\ loggedIn = FALSE /\ dialled = 0
    /\ dialler = Nobody
    /\ dead = {}
    /\ reader = [n \in Sessions |-> "none"]
    /\ news = [n \in Sessions |-> Nil] /\ lastNews = Nil
    /\ subMu = Nil /\ todo = {} /\ slow = Nobody
    /\ subs = {} /\ chan = [r \in Streams |-> << >>]
    /\ open = [r \in Streams |-> "no"] /\ panicked = FALSE
    /\ opMu = Nobody /\ mail = Nil
    /\ pc = [r \in Streams |-> "new"]
    /\ others \in 0 .. MaxOthers /\ sseCount = others
    /\ gone = {} /\ sent = [r \in Streams |-> Nil]

Goto(r, where) == pc' = [pc EXCEPT ![r] = where]

-----------------------------------------------------------------------------
(* Connect, for the stream or the other caller that holds connectMu.       *)

CloseConn(n) == dead' = dead \cup ({n} \ {Nil})

\* connectMu is taken, the dial succeeds and the connection is installed.
Dial ==
    /\ dialler = Nobody /\ ~loggedIn /\ dialled < MaxSessions
    /\ \/ /\ dialler' = Other
          /\ UNCHANGED pc
       \/ \E r \in Streams : /\ pc[r] = "connect"
                             /\ dialler' = r
                             /\ Goto(r, "dial")
    /\ dialled' = dialled + 1 /\ conn' = dialled + 1
    /\ mail' = Nil  \* readCh is drained
    /\ reader' = [reader EXCEPT ![dialled + 1] = "reading"]
    /\ UNCHANGED <<loggedIn, dead, news, subMu, todo, slow, lastNews,
                   chanVars, opMu, pageVars>>

DialFails(r) ==
    /\ dialler = Nobody /\ ~loggedIn
    /\ pc[r] = "connect"
    /\ Goto(r, "release")
    /\ UNCHANGED <<connVars, dead, castVars, chanVars, readVars, pageVars>>

\* Connect returns, and with it ensureConnected.
ConnectReturns(where) ==
    /\ dialler # Nobody /\ dialler' = Nobody
    /\ pc' = [r \in Streams |-> IF r = dialler THEN where ELSE pc[r]]
    /\ UNCHANGED <<conn, dialled, castVars, chanVars, readVars, pageVars>>

LoginOk ==
    /\ ConnectReturns("subscribe")
    /\ loggedIn' = TRUE
    /\ UNCHANGED dead

\* A refused login or no answer in time: the attempt's own connection is
\* closed, and c.conn stays as it is.
LoginFails ==
    /\ ConnectReturns("release")
    /\ CloseConn(dialled)
    /\ UNCHANGED loggedIn

-----------------------------------------------------------------------------
(* The reader of session n: dispatch of a status, and markDisconnected.    *)

\* A status the tub sent, when asked or on its own, and which shows the state
\* of the last or a later one, goes into readCh, from which the Read under way
\* takes it.
Dispatch(n) ==
    /\ reader[n] = "reading" /\ n \notin dead
    /\ \E status \in {v \in Statuses : v >= lastNews} :
          /\ news' = [news EXCEPT ![n] = status]
          /\ mail' = IF opMu # Nobody /\ mail = Nil THEN status ELSE mail
    /\ reader' = [reader EXCEPT ![n] = "took"]
    /\ UNCHANGED <<connVars, dead, subMu, todo, slow, lastNews, chanVars,
                   opMu, pageVars, pc>>

Broadcast(n) ==
    /\ reader[n] = "took" /\ subMu = Nil
    /\ subMu' = n /\ todo' = subs
    /\ reader' = [reader EXCEPT ![n] = "offer"]
    /\ UNCHANGED <<connVars, dead, news, slow, lastNews, chanVars,
                   readVars, pageVars, pc>>

\* A channel is full; and the variant that is off by one.
AlmostFull(r) == Len(chan[r]) > Buffer
Full(r) == Len(chan[r]) >= Buffer

\* The three selects of broadcast, each of which never blocks; and the
\* variant that leaves a full channel as it is.
NoEvict(n) == "push"
EvictNext(n) == "evict"
Offer(n) ==
    /\ reader[n] = "offer"
    /\ \E r \in todo :
          /\ todo' = todo \ {r}
          /\ \/ /\ ~Full(r)
                /\ chan' = [chan EXCEPT ![r] = Append(@, news[n])]
                /\ UNCHANGED <<reader, slow>>
             \/ /\ Full(r)
                /\ slow' = r
                /\ reader' = [reader EXCEPT ![n] = EvictNext(n)]
                /\ UNCHANGED chan
    /\ UNCHANGED <<connVars, dead, news, subMu, lastNews, subs, open,
                   panicked, readVars, pageVars, pc>>
Evict(n) ==
    /\ reader[n] = "evict"
    /\ chan' = [chan EXCEPT ![slow] = IF @ = << >> THEN @ ELSE Tail(@)]
    /\ reader' = [reader EXCEPT ![n] = "push"]
    /\ UNCHANGED <<connVars, dead, news, subMu, todo, slow, lastNews,
                   subs, open, panicked, readVars, pageVars, pc>>
Push(n) ==
    /\ reader[n] = "push"
    /\ chan' = [chan EXCEPT ![slow] = IF Full(slow) THEN @
                                      ELSE Append(@, news[n])]
    /\ slow' = Nobody
    /\ reader' = [reader EXCEPT ![n] = "offer"]
    /\ UNCHANGED <<connVars, dead, news, subMu, todo, lastNews, subs,
                   open, panicked, readVars, pageVars, pc>>
BroadcastEnds(n) ==
    /\ reader[n] = "offer" /\ todo = {}
    /\ subMu' = Nil
    /\ lastNews' = news[n]
    /\ news' = [news EXCEPT ![n] = Nil]
    /\ reader' = [reader EXCEPT ![n] = "reading"]
    /\ UNCHANGED <<connVars, dead, todo, slow, chanVars, readVars,
                   pageVars, pc>>

\* conn.Read fails, since the client has closed the connection or since it is
\* lost: the two sections of markDisconnected, under mu and under subMu.  The
\* connection it closes is the current one, whosever it is.
Disconnect(n) ==
    /\ reader[n] = "reading"
    /\ loggedIn' = FALSE /\ conn' = Nil
    /\ CloseConn(conn)
    /\ reader' = [reader EXCEPT ![n] = "drop"]
    /\ UNCHANGED <<dialled, dialler, news, subMu, todo,
                   slow, lastNews, chanVars, readVars, pageVars, pc>>

CloseChans(S) ==
    /\ panicked' = (panicked \/ \E r \in S : open[r] = "closed")
    /\ open' = [r \in Streams |-> IF r \in S THEN "closed" ELSE open[r]]

DropSubscribers(n) ==
    /\ reader[n] = "drop" /\ subMu = Nil
    /\ CloseChans(subs)
    /\ subs' = {}
    /\ reader' = [reader EXCEPT ![n] = "done"]
    /\ UNCHANGED <<connVars, dead, news, subMu, todo, slow, lastNews,
                   chan, readVars, pageVars, pc>>

-----------------------------------------------------------------------------
(* handleEvents.                                                           *)

Enter(r) ==
    /\ pc[r] = "new"
    /\ sseCount' = sseCount + 1
    /\ Goto(r, IF sseCount' > MaxStreams THEN "refused" ELSE "connect")
    /\ UNCHANGED <<connVars, dead, castVars, chanVars, readVars, others,
                   gone, sent>>

AlreadyConnected(r) ==
    /\ pc[r] = "connect" /\ loggedIn
    /\ Goto(r, "subscribe")
    /\ UNCHANGED <<connVars, dead, castVars, chanVars, readVars,
                   pageVars>>

Subscribe(r) ==
    /\ pc[r] = "subscribe" /\ subMu = Nil
    /\ subs' = subs \cup {r}
    /\ open' = [open EXCEPT ![r] = "open"]
    /\ Goto(r, "snapshot")
    /\ UNCHANGED <<connVars, dead, castVars, chan, panicked, readVars,
                   pageVars>>

\* Tub.Read, for the snapshot or for a refresh, whose result is dropped: it
\* reaches the stream as a broadcast.
Waiting == [snapshot |-> "snapWait", refresh |-> "refWait"]
ReadLock(r) ==
    /\ pc[r] \in {"snapshot", "refresh"}
    /\ opMu = Nobody /\ conn \notin dead \cup {Nil}
    /\ opMu' = r /\ mail' = Nil
    /\ Goto(r, Waiting[pc[r]])
    /\ UNCHANGED <<connVars, dead, castVars, chanVars, pageVars>>
\* Not logged in, not connected, or the request cannot be sent.
ReadRefused(r) ==
    /\ pc[r] \in {"snapshot", "refresh"}
    /\ ~loggedIn \/ opMu = Nobody
    /\ Goto(r, "loop")
    /\ UNCHANGED <<connVars, dead, castVars, chanVars, readVars,
                   pageVars>>

\* sendState: it may fail once the client has left, and it has no deadline,
\* so that it hangs as long as a client that stays does not read.
SendState(r, v) ==
    \/ /\ sent' = [sent EXCEPT ![r] = v]
       /\ Goto(r, "loop") \/ (r \notin gone /\ Goto(r, "blocked"))
    \/ /\ r \in gone
       /\ Goto(r, "cancel")
       /\ UNCHANGED sent

SnapshotSent(r) ==
    /\ pc[r] = "snapWait" /\ mail # Nil
    /\ SendState(r, mail)
    /\ opMu' = Nobody /\ mail' = Nil
    /\ UNCHANGED <<connVars, dead, castVars, chanVars, sseCount, others,
                   gone>>
ReadEnds(r) ==
    /\ pc[r] \in {"snapWait", "refWait"}
    /\ opMu' = Nobody /\ mail' = Nil
    /\ Goto(r, "loop")
    /\ UNCHANGED <<connVars, dead, castVars, chanVars, pageVars>>

\* The Read or Write of another caller, which its own timers end.
OtherLocks ==
    /\ opMu = Nobody /\ conn \notin dead \cup {Nil}
    /\ opMu' = Other /\ mail' = Nil
    /\ UNCHANGED <<connVars, dead, castVars, chanVars, pageVars, pc>>
OtherEnds ==
    /\ opMu = Other
    /\ opMu' = Nobody /\ mail' = Nil
    /\ UNCHANGED <<connVars, dead, castVars, chanVars, pageVars, pc>>

Refresh(r) ==
    /\ pc[r] = "loop"
    /\ Goto(r, "refresh")
    /\ UNCHANGED <<connVars, dead, castVars, chanVars, readVars,
                   pageVars>>

Receive(r) ==
    /\ pc[r] = "loop" /\ chan[r] # << >>
    /\ SendState(r, Head(chan[r]))
    /\ chan' = [chan EXCEPT ![r] = Tail(@)]
    /\ UNCHANGED <<connVars, dead, castVars, subs, open, panicked,
                   readVars, sseCount, others, gone>>

\* A ping hangs in the same way, and either ends when the client reads again
\* or fails when it has left.
PingBlocks(r) ==
    /\ pc[r] = "loop" /\ r \notin gone
    /\ Goto(r, "blocked")
    /\ UNCHANGED <<connVars, dead, castVars, chanVars, readVars,
                   pageVars>>
WriteFails(r) ==
    /\ pc[r] = "blocked" /\ r \in gone
    /\ Goto(r, "cancel")
    /\ UNCHANGED <<connVars, dead, castVars, chanVars, readVars,
                   pageVars>>

\* The channel is closed and empty, or the client has left, which the
\* request's context or a ping tells; and the variant that only pings.
OnlyPings(r) == FALSE
Over(r) == r \in gone
Leave(r) ==
    /\ pc[r] = "loop"
    /\ Over(r) \/ (open[r] = "closed" /\ chan[r] = << >>)
    /\ Goto(r, "cancel")
    /\ UNCHANGED <<connVars, dead, castVars, chanVars, readVars,
                   pageVars>>

\* The deferred cancel closes the channel unless a disconnect has; and the
\* variant that always does.
CloseAlways(r) == CloseChans({r})
CloseOwn(r) == CloseChans({r} \cap subs)
Cancel(r) ==
    /\ pc[r] = "cancel" /\ subMu = Nil
    /\ CloseOwn(r)
    /\ subs' = subs \ {r}
    /\ chan' = [chan EXCEPT ![r] = << >>]  \* garbage from here on
    /\ sent' = [sent EXCEPT ![r] = Nil]
    /\ Goto(r, "release")
    /\ UNCHANGED <<connVars, dead, castVars, readVars, sseCount, others,
                   gone>>

\* The slot is given back; and the variant that keeps it on an error.
KeepIfRefused(r) == IF pc[r] = "refused" THEN sseCount ELSE sseCount - 1
GiveBack(r) == sseCount - 1
Release(r) ==
    /\ pc[r] \in {"refused", "release"}
    /\ sseCount' = GiveBack(r)
    /\ gone' = gone \ {r}
    /\ Goto(r, "end")
    /\ UNCHANGED <<connVars, dead, castVars, chanVars, readVars, others,
                   sent>>

-----------------------------------------------------------------------------
(* The clients of the streams, external.                                   *)

ClientLeaves(r) ==
    /\ pc[r] \notin {"new", "refused", "cancel", "release", "end"}
    /\ r \notin gone
    /\ gone' = gone \cup {r}
    /\ UNCHANGED <<connVars, dead, castVars, chanVars, readVars, pc,
                   sseCount, others, sent>>

ClientReads(r) ==
    /\ pc[r] = "blocked" /\ r \notin gone
    /\ Goto(r, "loop")
    /\ UNCHANGED <<connVars, dead, castVars, chanVars, readVars,
                   pageVars>>

-----------------------------------------------------------------------------
Login == LoginOk \/ LoginFails
Cast(n) == Offer(n) \/ Evict(n) \/ Push(n) \/ BroadcastEnds(n)
Reader(n) ==
    Dispatch(n) \/ Broadcast(n) \/ Cast(n) \/ Disconnect(n)
        \/ DropSubscribers(n)
Read(r) == ReadLock(r) \/ ReadRefused(r) \/ SnapshotSent(r) \/ ReadEnds(r)
Serve(r) ==
    Enter(r) \/ AlreadyConnected(r) \/ DialFails(r) \/ Subscribe(r) \/ Read(r)
        \/ Refresh(r) \/ Receive(r) \/ PingBlocks(r) \/ WriteFails(r)
        \/ Leave(r) \/ Cancel(r) \/ Release(r)

Next ==
    \/ Dial \/ Login \/ OtherLocks \/ OtherEnds
    \/ \E n \in Sessions : Reader(n)
    \/ \E r \in Streams : Serve(r) \/ ClientLeaves(r) \/ ClientReads(r)

Spec == Init /\ [][Next]_vars

\* Goroutines that can run do, mutexes are handed to those that starve, the
\* timers of Connect and Read fire, and select chooses every ready case in
\* the long run.  Nothing is assumed of the tub or of the clients: a write to
\* a client that does not read may hang for ever.
Proceeds(r) ==
    \/ AlreadyConnected(r) \/ DialFails(r) \/ (Dial /\ dialler' = r)
    \/ Subscribe(r) \/ ReadLock(r) \/ ReadRefused(r) \/ Cancel(r)
Empties(r) == Leave(r) \/ (open[r] = "closed" /\ Receive(r))
Fairness ==
    /\ WF_vars(Login) /\ WF_vars(OtherEnds)
    /\ \A n \in Sessions : WF_vars(Cast(n)) /\ SF_vars(DropSubscribers(n))
    /\ \A r \in Streams :
          /\ WF_vars(Release(r) \/ ReadEnds(r) \/ SnapshotSent(r)
                        \/ WriteFails(r))
          /\ SF_vars(Proceeds(r)) /\ SF_vars(Empties(r))
FairSpec == Spec /\ Fairness

-----------------------------------------------------------------------------
(* Properties.                                                             *)

\* No channel is closed twice, and a broadcast finds every registered one
\* open, although a stream's own cancel and the markDisconnected of any
\* session's reader both close it (client.go:391-393, 436-439).
ChannelsClosedOnce ==
    ~panicked /\ \A r \in subs \cup todo : open[r] = "open"

\* The counter is the number of requests inside handleEvents, and no more
\* than the cap get past its test (server.go:221-228).
SlotsAreExact ==
    /\ sseCount = others + Cardinality({r \in Streams :
                                           pc[r] \notin {"new", "end"}})
    /\ others + Cardinality({r \in Streams :
                                pc[r] \notin {"new", "refused", "end"}})
          <= MaxStreams

\* What a stream's client shows once it has what is in the channel.
Newest(r) == IF chan[r] = << >> THEN sent[r] ELSE Last(chan[r])

\* However slow a client is, and whichever came first, its snapshot or a
\* broadcast: with no broadcast under way, the last status it was sent, or
\* will be from its channel, is the one broadcast last (client.go:399-400).
StreamShowsNewest ==
    (\A n \in Sessions : reader[n] \in {"none", "reading", "drop", "done"})
    => \A r \in Streams :
          (pc[r] \in {"loop", "blocked", "refresh", "refWait"}
             /\ r \notin gone /\ open[r] # "closed")
          => Newest(r) \in {Nil, lastNews}

\* A stream whose client leaves ends and gives its slot back, whatever the
\* tub does: no wait for a lock, a login, a reading or a hung write holds it
\* for ever.  So does one whose channel a lost session has closed, unless its
\* client stops reading for good (server.go:252, 277-282, client.go:433-434).
StreamsEnd ==
    \A r \in Streams :
        /\ r \in gone ~> pc[r] = "end"
        /\ []<>(pc[r] # "blocked") => (open[r] = "closed" ~> pc[r] = "end")
=============================================================================
