------------------------------- MODULE WebPage -------------------------------
(***************************************************************************)
(* The page of internal/web/public/index.html: its toggles, setAttrs,      *)
(* which sends one update and waits first for the one in flight, and       *)
(* listen, which renders the states the server pushes while none is.       *)
(*                                                                         *)
(* A script runs to its end before anything else happens, and with it the  *)
(* callbacks of the promises it settles, in the order they were attached:  *)
(* each is part of the action.  The server takes a POST in three steps,    *)
(* its write, its reading and its answer (ApiSet), and the answer may be   *)
(* lost at any point; the page's requests and its event stream travel on   *)
(* connections of their own.  Both need the server's session with the tub  *)
(* (TubSession, EventStreams), which is lost, found and left silent at any *)
(* time here.                                                              *)
(***************************************************************************)
EXTENDS Naturals, Sequences, SequencesExt, FiniteSets, FiniteSetsExt

CONSTANTS
    Toggles,     \* the buttons, as the attributes they switch
    MaxClicks,   \* bound on the clicks
    MaxOutside,  \* bound on the changes somebody else makes
    MaxPushes    \* bound on the states on their way on the event stream

ASSUME PageAssumption == {MaxClicks, MaxOutside, MaxPushes} \subseteq Nat

Nobody == 0
Clicks == 1 .. MaxClicks
Null == << >>
States == [Toggles -> BOOLEAN]

VARIABLES
    dev,        \* the tub's state
    outside,    \* how often somebody else has changed it
    state,      \* the state the page rendered last
    shown,      \* how the buttons look
    inflight,   \* the click whose promise "inflight" holds
    ask,        \* the update of each click: a button and a value
    call,       \* where its setAttrs is
    onto,       \* the click whose promise it waits, or waited, for
    job,        \* where its request is at the server
    answer,     \* the reading it is answered with
    session,    \* the server's session with the tub: none, good, or dead,
                \* with nothing coming back on it
    dropping,   \* whether a lost session has yet to close the channels
    stream,     \* where the page's event stream is
    pushes      \* the states on their way on it

pageVars == <<state, shown, inflight, ask, call, onto>>
serverVars == <<job, answer>>
tubVars == <<session, dropping>>
streamVars == <<stream, pushes>>
vars == <<dev, outside, pageVars, serverVars, tubVars, streamVars>>

TypeOK ==
    /\ dev \in States /\ outside \in 0 .. MaxOutside
    /\ state \in States \cup {Null} /\ shown \in States
    /\ inflight \in Clicks \cup {Nobody}
    /\ ask \in Seq(Toggles \X BOOLEAN) /\ Len(ask) <= MaxClicks
    /\ call \in [Clicks -> {"none", "waiting", "sent", "ok", "failed"}]
    /\ onto \in [Clicks -> Clicks \cup {Nobody}]
    /\ job \in [Clicks -> {"none", "sent", "taken", "read"}]
    /\ answer \in [Clicks -> States \cup {Null}]
    /\ session \in {"none", "good", "dead"} /\ dropping \in BOOLEAN
    /\ stream \in {"off", "opening", "on", "closed"}
    /\ pushes \in Seq(States) /\ Len(pushes) <= MaxPushes

Off == [k \in Toggles |-> FALSE]
Init ==
    /\ dev \in States /\ outside = 0
    /\ state = Null /\ shown = Off /\ inflight = Nobody
    /\ ask = << >> /\ call = [c \in Clicks |-> "none"]
    /\ onto = [c \in Clicks |-> Nobody]
    /\ job = [c \in Clicks |-> "none"] /\ answer = [c \in Clicks |-> Null]
    /\ session = "none" /\ dropping = FALSE
    /\ stream = "off" /\ pushes = << >>

-----------------------------------------------------------------------------
(* The page.                                                               *)

\* A toggle is switched and setAttrs called: it waits if there is a request
\* in flight, and sends its update if not.
Click(k) ==
    /\ Len(ask) < MaxClicks /\ state # Null
    /\ LET c == Len(ask) + 1
           next == ~state[k]
       IN /\ ask' = Append(ask, <<k, next>>)
          /\ shown' = [shown EXCEPT ![k] = next]
          /\ \/ /\ inflight # Nobody
                /\ call' = [call EXCEPT ![c] = "waiting"]
                /\ onto' = [onto EXCEPT ![c] = inflight]
                /\ UNCHANGED <<inflight, job>>
             \/ /\ inflight = Nobody
                /\ call' = [call EXCEPT ![c] = "sent"]
                /\ job' = [job EXCEPT ![c] = "sent"]
                /\ inflight' = c
                /\ UNCHANGED onto
    /\ UNCHANGED <<dev, outside, state, answer, tubVars, streamVars>>

\* Those that wait for the promise of c, and the variant that forgets all
\* but the first.
Waiters(c) == {w \in Clicks : call[w] = "waiting" /\ onto[w] = c}
FirstWaiter(c) == IF Waiters(c) = {} THEN {} ELSE {Min(Waiters(c))}
Awoken(c) == Waiters(c)

\* The request of c is answered with its reading, or in a variant at once.
AnsweredEarly(c) == job[c] # "none"
Answered(c) == job[c] = "read"

\* "inflight" is cleared before those that wait go on, the last of which
\* leaves its own there; and the variant that clears it after them.
ClearedLast(c) == Nobody
HandedOn(c) == IF Awoken(c) = {} THEN Nobody ELSE Max(Awoken(c))

\* Its state is rendered, and then all that wait for it send their updates.
Succeeds(c) ==
    /\ call[c] = "sent" /\ Answered(c)
    /\ state' = answer[c] /\ shown' = answer[c]
    /\ call' = [w \in Clicks |-> IF w = c THEN "ok"
                                 ELSE IF w \in Awoken(c) THEN "sent"
                                 ELSE call[w]]
    /\ job' = [w \in Clicks |-> IF w \in Awoken(c) THEN "sent"
                                ELSE IF w = c THEN "none" ELSE job[w]]
    /\ answer' = [answer EXCEPT ![c] = Null]
    /\ inflight' = HandedOn(c)
    /\ UNCHANGED <<dev, outside, ask, onto, tubVars, streamVars>>

\* It fails, and with it, unsent, all that wait for it: each toggles its
\* button back.  The variant clears "inflight" only when a request succeeds.
KeepInflight(c) == inflight
Cleared(c) == Nobody
Fails(c) ==
    /\ call[c] = "sent"
    /\ LET failed == {c} \cup Awoken(c)
           last(k) == Max({w \in failed : ask[w][1] = k})
       IN /\ shown' = [k \in Toggles |->
                          IF \E w \in failed : ask[w][1] = k
                          THEN ~ask[last(k)][2] ELSE shown[k]]
          /\ call' = [w \in Clicks |-> IF w \in failed THEN "failed"
                                       ELSE call[w]]
    /\ inflight' = Cleared(c)
    /\ UNCHANGED <<dev, outside, state, ask, onto, serverVars, tubVars,
                   streamVars>>

\* A pushed state is rendered, unless a request is in flight.
Receive ==
    /\ pushes # << >>
    /\ pushes' = Tail(pushes)
    /\ \/ /\ inflight # Nobody
          /\ UNCHANGED <<state, shown>>
       \/ /\ inflight = Nobody
          /\ state' = Head(pushes) /\ shown' = Head(pushes)
    /\ UNCHANGED <<dev, outside, inflight, ask, call, onto,
                   serverVars, tubVars, stream>>

\* onerror: the stream has ended, or its connection breaks or is refused,
\* which may happen at any time; and the timer that listens again, whose
\* request is in handleEvents once ensureConnected lets it pass.
OnError ==
    /\ stream' = "off" /\ pushes' = << >>
    /\ UNCHANGED <<dev, outside, pageVars, serverVars, tubVars>>
Ended == stream = "closed" /\ pushes = << >>
StreamEnds == Ended /\ OnError
StreamBreaks == stream # "off" /\ ~Ended /\ OnError
Listen ==
    /\ stream = "off" /\ session # "none"
    /\ stream' = "opening"
    /\ UNCHANGED <<dev, outside, pageVars, serverVars, tubVars, pushes>>

-----------------------------------------------------------------------------
(* The server: its session with the tub, handleSet and handleEvents.       *)

\* ensureConnected, for this page, for another request or for the scheduler.
EnsureConnected ==
    /\ session = "none"
    /\ session' = "good"
    /\ UNCHANGED <<dev, outside, pageVars, serverVars, dropping, streamVars>>

\* The two sections of markDisconnected; the second one closes the channel of
\* a stream that has subscribed, and misses one that has not yet.
Disconnect ==
    /\ session # "none"
    /\ session' = "none" /\ dropping' = TRUE
    /\ UNCHANGED <<dev, outside, pageVars, serverVars, streamVars>>
DropSubscribers ==
    /\ dropping
    /\ dropping' = FALSE
    /\ stream' = IF stream = "on" THEN "closed" ELSE stream
    /\ UNCHANGED <<dev, outside, pageVars, serverVars, session, pushes>>

\* handleSet's write, which reaches the tub whether or not the answer will
\* come back, and its second reading.
Take(c) ==
    /\ job[c] = "sent" /\ session # "none"
    /\ job' = [job EXCEPT ![c] = "taken"]
    /\ dev' = [dev EXCEPT ![ask[c][1]] = ask[c][2]]
    /\ UNCHANGED <<outside, pageVars, answer, tubVars, streamVars>>
ReadAfter(c) ==
    /\ job[c] = "taken" /\ session = "good"
    /\ job' = [job EXCEPT ![c] = "read"]
    /\ answer' = [answer EXCEPT ![c] = dev]
    /\ UNCHANGED <<dev, outside, pageVars, tubVars, streamVars>>

\* handleEvents: its subscription, and a state sent: the snapshot, the report
\* of a change or the answer of the refresh of every 15 s, which does not
\* connect.
Subscribe ==
    /\ stream = "opening"
    /\ stream' = "on"
    /\ UNCHANGED <<dev, outside, pageVars, serverVars, tubVars, pushes>>
Push ==
    /\ stream = "on" /\ session = "good" /\ Len(pushes) < MaxPushes
    /\ pushes' = Append(pushes, dev)
    /\ UNCHANGED <<dev, outside, pageVars, serverVars, tubVars, stream>>

-----------------------------------------------------------------------------
(* The tub, on which a session may hang, and the others who use it.        *)

Hang ==
    /\ session = "good"
    /\ session' = "dead"
    /\ UNCHANGED <<dev, outside, pageVars, serverVars, dropping, streamVars>>
Recover ==
    /\ session = "dead"
    /\ session' = "good"
    /\ UNCHANGED <<dev, outside, pageVars, serverVars, dropping, streamVars>>

Outside(k) ==
    /\ outside < MaxOutside
    /\ outside' = outside + 1
    /\ dev' = [dev EXCEPT ![k] = ~@]
    /\ UNCHANGED <<pageVars, serverVars, tubVars, streamVars>>

-----------------------------------------------------------------------------
SetAttrs(c) == Succeeds(c) \/ Fails(c)
HandleSet(c) == Take(c) \/ ReadAfter(c)
HandleEvents == Subscribe \/ Push
Tub == EnsureConnected \/ Disconnect \/ DropSubscribers \/ Hang \/ Recover
Events == Receive \/ StreamEnds \/ StreamBreaks \/ Listen
Next ==
    \/ \E k \in Toggles : Click(k) \/ Outside(k)
    \/ \E c \in Clicks : SetAttrs(c) \/ HandleSet(c)
    \/ Events \/ HandleEvents \/ Tub

Spec == Init /\ [][Next]_vars

\* Every request ends, with an answer or the failure of its connection; the
\* page takes what arrives and listens again; and a handler proceeds when it
\* can.  Nobody has to connect to the tub, and the tub has to do nothing.
Fairness ==
    /\ \A c \in Clicks : WF_vars(SetAttrs(c))
    /\ WF_vars(Receive) /\ WF_vars(StreamEnds) /\ WF_vars(Listen)
    /\ WF_vars(Subscribe) /\ WF_vars(Push)
FairSpec == Spec /\ Fairness

-----------------------------------------------------------------------------
(* Properties.                                                             *)

\* "inflight" is exactly the request that is out, so that no two are and no
\* push is rendered meanwhile (index.html:324, 774-778), until two clicks
\* have waited for the same one: then both go out.
OneAtATime ==
    (\A v, w \in Clicks : (v # w /\ onto[v] = onto[w]) => onto[v] = Nobody)
    => {c \in Clicks : call[c] = "sent"} = {inflight} \ {Nobody}

\* However clicks, answers, failures, pushes and lost sessions cross, the page
\* shows the tub's state once things are quiet and the server has a session on
\* which the tub answers: no push that was suppressed, answer that was
\* overtaken, button that was toggled back or stream that was closed or that
\* subscribed too late leaves it wrong for good (index.html:768, 774-778,
\* server.go:244, 286-289).
PageConverges ==
    <>[](session = "good") /\ <>[][~StreamBreaks]_vars
        => <>[](state = dev /\ shown = dev)

\* Every click is answered, by a state or by an alert, also those that wait
\* for another's request (index.html:324, 530-531).
ClicksEnd ==
    \A c \in Clicks : (call[c] = "waiting") ~> (call[c] \in {"ok", "failed"})
=============================================================================
