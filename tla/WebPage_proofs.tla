---------------------------- MODULE WebPage_proofs ----------------------------
(***************************************************************************)
(* Proofs about WebPage, for any toggles and any number of clicks,         *)
(* changes, pushes, failures and sessions.                                 *)
(***************************************************************************)
EXTENDS WebPage, WellFoundedInduction, TLAPS

\* What has not been clicked asks for nothing, and a request that was read
\* back has a reading.
AskInv ==
    \A c \in Clicks :
        /\ c > Len(ask) => /\ call[c] = "none" /\ onto[c] = Nobody
                           /\ job[c] = "none"
        /\ job[c] = "read" => answer[c] \in States

\* No two clicks have waited for the same request.
Alone == \A v, w \in Clicks : (v # w /\ onto[v] = onto[w]) => onto[v] = Nobody
Sent == {c \in Clicks : call[c] = "sent"}

PageInv == TypeOK /\ AskInv /\ OneAtATime

-----------------------------------------------------------------------------
(* Types.                                                                  *)

LEMMA MaxOfClicks ==
  ASSUME NEW S \in SUBSET Clicks, S # {}
  PROVE  Max(S) \in S
<1>1. MaxClicks \in Nat /\ \A x \in S : x \in 1 .. MaxClicks
  BY PageAssumption DEF PageAssumption, Clicks
<1> DEFINE T == {MaxClicks - x : x \in S}
<1>2. T \subseteq Nat /\ T # {}
  <2>1. \A x \in S : MaxClicks - x \in Nat
    BY <1>1
  <2> QED
    BY <2>1
<1>3. \E m \in T : \A y \in T : ~(<<y, m>> \in OpToRel(<, Nat))
  <2> HIDE DEF T
  <2> QED
    BY <1>2, WFMin, NatLessThanWellFounded
<1>4. PICK x \in S :
         \A y \in T : ~(<<y, MaxClicks - x>> \in OpToRel(<, Nat))
  BY <1>3
<1>5. ASSUME NEW y \in S PROVE x >= y
  <2>1. ~(<<MaxClicks - y, MaxClicks - x>> \in OpToRel(<, Nat))
    BY <1>4
  <2>2. MaxClicks - y \in Nat /\ MaxClicks - x \in Nat
    BY <1>1
  <2>3. ~(MaxClicks - y < MaxClicks - x)
    BY <2>1, <2>2 DEF OpToRel
  <2> QED
    BY <1>1, <2>3
<1> QED
  BY <1>5 DEF Max

LEMMA StepPageTypes == TypeOK /\ AskInv /\ [Next]_vars => TypeOK' /\ AskInv'
<1> SUFFICES ASSUME TypeOK, AskInv, [Next]_vars PROVE TypeOK' /\ AskInv'
  OBVIOUS
<1> USE PageAssumption DEF PageAssumption, pageVars, serverVars, tubVars,
        streamVars, Clicks
<1>0. Len(ask) \in Nat
      /\ \A c \in Clicks : c <= Len(ask) => ask[c] \in Toggles \X BOOLEAN
  BY DEF TypeOK
<1>1. ASSUME NEW k \in Toggles, Click(k) PROVE TypeOK' /\ AskInv'
  <2> DEFINE c == Len(ask) + 1
  <2>1. (~state[k]) \in BOOLEAN /\ c \in Clicks
    BY <1>0, <1>1 DEF Click, TypeOK
  <2>2. /\ ask' \in Seq(Toggles \X BOOLEAN) /\ Len(ask') = c
        /\ shown' \in States
    <3>1. ask' = Append(ask, <<k, ~state[k]>>)
          /\ shown' = [shown EXCEPT ![k] = ~state[k]]
      BY <1>1 DEF Click
    <3>2. <<k, ~state[k]>> \in Toggles \X BOOLEAN
      BY <2>1
    <3>3. ask \in Seq(Toggles \X BOOLEAN) /\ shown \in States
      BY DEF TypeOK
    <3>4. shown' \in States
      BY <2>1, <3>1, <3>3 DEF States
    <3> QED
      BY <3>1, <3>2, <3>3, <3>4
  <2>3. /\ call' = [call EXCEPT ![c] = call'[c]]
        /\ call'[c] \in {"waiting", "sent"}
        /\ onto' = [onto EXCEPT ![c] = onto'[c]]
        /\ onto'[c] \in Clicks \cup {Nobody}
        /\ job' = [job EXCEPT ![c] = job'[c]] /\ job'[c] \in {"none", "sent"}
        /\ inflight' \in Clicks \cup {Nobody}
    <3>1. /\ call = [w \in Clicks |-> call[w]]
          /\ onto = [w \in Clicks |-> onto[w]]
          /\ job = [w \in Clicks |-> job[w]]
          /\ inflight \in Clicks \cup {Nobody}
      BY DEF TypeOK
    <3>2. onto[c] = Nobody /\ job[c] = "none" /\ call[c] = "none"
      <4>1. c > Len(ask)
        BY <1>0
      <4> HIDE DEF c
      <4> QED
        BY <2>1, <4>1 DEF AskInv
    <3> HIDE DEF c
    <3>3. CASE inflight # Nobody
      <4>1. /\ call' = [call EXCEPT ![c] = "waiting"] /\ UNCHANGED job
            /\ onto' = [onto EXCEPT ![c] = inflight] /\ inflight' = inflight
        BY <1>1, <3>3 DEF Click, c
      <4> QED
        BY <2>1, <3>1, <3>2, <3>3, <4>1
    <3>4. CASE inflight = Nobody
      <4>1. /\ call' = [call EXCEPT ![c] = "sent"] /\ UNCHANGED onto
            /\ job' = [job EXCEPT ![c] = "sent"] /\ inflight' = c
        BY <1>1, <3>4 DEF Click, c
      <4> QED
        BY <2>1, <3>1, <3>2, <3>4, <4>1
    <3> QED
      BY <3>3, <3>4
  <2> HIDE DEF c
  <2>4. TypeOK'
    <3>1. /\ call' \in [Clicks -> {"none", "waiting", "sent", "ok", "failed"}]
          /\ onto' \in [Clicks -> Clicks \cup {Nobody}]
          /\ job' \in [Clicks -> {"none", "sent", "taken", "read"}]
      <4>1. /\ call \in [Clicks -> {"none", "waiting", "sent", "ok", "failed"}]
            /\ onto \in [Clicks -> Clicks \cup {Nobody}]
            /\ job \in [Clicks -> {"none", "sent", "taken", "read"}]
        BY DEF TypeOK
      <4>2. call' \in [Clicks -> {"none", "waiting", "sent", "ok", "failed"}]
        BY <2>3, <4>1
      <4>3. onto' \in [Clicks -> Clicks \cup {Nobody}]
        BY <2>3, <4>1
      <4>4. job' \in [Clicks -> {"none", "sent", "taken", "read"}]
        BY <2>3, <4>1
      <4> QED
        BY <4>2, <4>3, <4>4
    <3>2. Len(ask') <= MaxClicks
      BY <2>1, <2>2
    <3>3. UNCHANGED <<dev, outside, state, answer, tubVars, streamVars>>
      BY <1>1 DEF Click
    <3> QED
      BY <2>2, <2>3, <3>1, <3>2, <3>3 DEF TypeOK
  <2>5. AskInv'
    <3>1. answer' = answer /\ c = Len(ask) + 1
      BY <1>1 DEF Click, c
    <3>2. ASSUME NEW d \in Clicks, d # c
          PROVE  call'[d] = call[d] /\ onto'[d] = onto[d] /\ job'[d] = job[d]
      BY <2>1, <2>3, <3>2 DEF TypeOK
    <3>3. /\ job'[c] # "read"
          /\ \A d \in Clicks : d > Len(ask') => d # c /\ d > Len(ask)
      BY <1>0, <2>1, <2>2, <2>3, <3>1 DEF Clicks
    <3> QED
      BY <3>1, <3>2, <3>3 DEF AskInv
  <2> QED
    BY <2>4, <2>5
<1>2. ASSUME NEW d \in Clicks, Succeeds(d) PROVE TypeOK' /\ AskInv'
  <2>1. answer[d] \in States
    BY <1>2 DEF Succeeds, Answered, AskInv
  <2>2. inflight' \in Clicks \cup {Nobody}
    BY <1>2, MaxOfClicks DEF Succeeds, HandedOn, Awoken, Waiters
  <2>3. \A w \in Awoken(d) : call[w] = "waiting"
    BY DEF Awoken, Waiters
  <2>4. TypeOK'
    BY <1>2, <2>1, <2>2 DEF Succeeds, TypeOK
  <2>5. AskInv'
    BY <1>2, <2>3 DEF Succeeds, AskInv
  <2> QED
    BY <2>4, <2>5
<1>3. ASSUME NEW d \in Clicks, Fails(d) PROVE TypeOK' /\ AskInv'
  <2>1. \A w \in {d} \cup Awoken(d) : call[w] # "none"
    BY <1>3 DEF Fails, Awoken, Waiters
  <2>2. shown' \in States
    BY <1>3 DEF Fails, TypeOK, States
  <2>3. call' \in [Clicks -> {"none", "waiting", "sent", "ok", "failed"}]
    BY <1>3 DEF Fails, TypeOK
  <2>4. TypeOK'
    BY <1>3, <2>2, <2>3 DEF Fails, Cleared, TypeOK
  <2>5. AskInv'
    BY <1>3, <2>1 DEF Fails, AskInv
  <2> QED
    BY <2>4, <2>5
<1>4. ASSUME NEW d \in Clicks, Take(d) PROVE TypeOK' /\ AskInv'
  <2>1. ask[d] \in Toggles \X BOOLEAN /\ d <= Len(ask)
    BY <1>0, <1>4 DEF Take, AskInv
  <2>2. dev' \in States
    BY <1>4, <2>1 DEF Take, TypeOK, States
  <2> QED
    BY <1>4, <2>1, <2>2 DEF Take, TypeOK, AskInv
<1>5. ASSUME NEW d \in Clicks, ReadAfter(d) PROVE TypeOK' /\ AskInv'
  BY <1>0, <1>5 DEF ReadAfter, TypeOK, AskInv
<1>6. CASE Receive
  <2>1. Head(pushes) \in States /\ Tail(pushes) \in Seq(States)
        /\ Len(Tail(pushes)) <= MaxPushes
    BY <1>6 DEF Receive, TypeOK
  <2> QED
    BY <1>6, <2>1 DEF Receive, TypeOK, AskInv
<1>7. CASE StreamEnds \/ StreamBreaks \/ Listen \/ Subscribe \/ Tub
  <2>1. pushes' \in {<< >>, pushes} /\ << >> \in Seq(States) /\ Len(<< >>) = 0
    BY <1>7 DEF StreamEnds, StreamBreaks, OnError, Listen, Subscribe, Tub,
                EnsureConnected, Disconnect, DropSubscribers, Hang, Recover
  <2>2. UNCHANGED <<dev, outside, pageVars, serverVars>>
    BY <1>7 DEF StreamEnds, StreamBreaks, OnError, Listen, Subscribe, Tub,
                EnsureConnected, Disconnect, DropSubscribers, Hang, Recover
  <2>3. /\ session' \in {"none", "good", "dead"} /\ dropping' \in BOOLEAN
        /\ stream' \in {"off", "opening", "on", "closed"}
    BY <1>7 DEF StreamEnds, StreamBreaks, OnError, Listen, Subscribe, Tub,
                EnsureConnected, Disconnect, DropSubscribers, Hang, Recover,
                TypeOK
  <2>4. pushes' \in Seq(States) /\ Len(pushes') <= MaxPushes
    <3>1. MaxPushes \in Nat
      OBVIOUS
    <3>2. CASE pushes' = << >>
      BY <2>1, <3>1, <3>2
    <3>3. CASE pushes' = pushes
      BY <3>3 DEF TypeOK
    <3> QED
      BY <2>1, <3>2, <3>3
  <2> QED
    BY <2>2, <2>3, <2>4 DEF TypeOK, AskInv
<1>8. CASE Push
  <2>1. pushes' \in Seq(States) /\ Len(pushes') <= MaxPushes
    BY <1>8 DEF Push, TypeOK
  <2> QED
    BY <1>8, <2>1 DEF Push, TypeOK, AskInv
<1>9. ASSUME NEW k \in Toggles, Outside(k) PROVE TypeOK' /\ AskInv'
  <2>1. dev' \in States /\ outside' \in 0 .. MaxOutside
    BY <1>9 DEF Outside, TypeOK, States
  <2> QED
    BY <1>9, <2>1 DEF Outside, TypeOK, AskInv
<1>10. CASE UNCHANGED vars
  BY <1>10 DEF vars, TypeOK, AskInv
<1> QED
  BY <1>1, <1>2, <1>3, <1>4, <1>5, <1>6, <1>7, <1>8, <1>9, <1>10
     DEF Next, SetAttrs, HandleSet, Events, HandleEvents

-----------------------------------------------------------------------------
(* One request at a time.                                                  *)

LEMMA StepOneAtATime == PageInv /\ [Next]_vars => OneAtATime'
<1> SUFFICES ASSUME PageInv, [Next]_vars, Alone'
             PROVE  Sent' = {inflight'} \ {Nobody}
  BY DEF OneAtATime, Alone, Sent
<1> USE DEF PageInv, pageVars, serverVars, tubVars, streamVars
<1>1. CASE UNCHANGED <<call, onto, inflight>>
  BY <1>1 DEF OneAtATime, Alone, Sent
<1>2. ASSUME NEW k \in Toggles, Click(k) PROVE Sent' = {inflight'} \ {Nobody}
  <2> DEFINE c == Len(ask) + 1
  <2>1. c \in Clicks /\ c > Len(ask) /\ c # Nobody
    BY <1>2, PageAssumption
       DEF Click, TypeOK, Clicks, Nobody, PageAssumption
  <2>2. call[c] = "none" /\ onto[c] = Nobody
    BY <2>1 DEF AskInv
  <2>3. \A v \in Clicks : v # c => onto'[v] = onto[v]
    BY <1>2, <2>1 DEF Click, TypeOK
  <2>4. Alone
    BY <2>2, <2>3 DEF Alone
  <2>5. Sent = {inflight} \ {Nobody}
    BY <2>4 DEF OneAtATime, Alone, Sent
  <2>6. CASE inflight # Nobody
    <3>1. Sent' = Sent /\ inflight' = inflight
      BY <1>2, <2>1, <2>2, <2>6 DEF Click, TypeOK, Sent
    <3> QED
      BY <2>5, <3>1
  <2>7. CASE inflight = Nobody
    <3>1. Sent' = Sent \cup {c} /\ inflight' = c
      BY <1>2, <2>1, <2>2, <2>7 DEF Click, TypeOK, Sent
    <3> QED
      BY <2>1, <2>5, <2>7, <3>1
  <2> QED
    BY <2>6, <2>7
<1>3. ASSUME NEW d \in Clicks, SetAttrs(d) PROVE Sent' = {inflight'} \ {Nobody}
  <2>1. onto' = onto /\ call[d] = "sent"
    BY <1>3 DEF SetAttrs, Succeeds, Fails
  <2>2. Alone
    BY <2>1 DEF Alone
  <2>3. Sent = {inflight} \ {Nobody} /\ d \in Sent
    BY <2>1, <2>2 DEF OneAtATime, Alone, Sent
  <2>4. d = inflight
    BY <2>3
  <2>5. \A w \in Clicks : call[w] = "sent" => w = d
    BY <2>3, <2>4 DEF Sent
  <2>6. CASE Succeeds(d)
    <3>1. \A v, w \in Awoken(d) : v = w
      BY <2>2 DEF Awoken, Waiters, Alone, Clicks, Nobody
    <3>2. Sent' = Awoken(d)
      BY <2>5, <2>6 DEF Succeeds, Sent, Awoken, Waiters
    <3>3. CASE Awoken(d) = {}
      BY <2>6, <3>2, <3>3 DEF Succeeds, HandedOn
    <3>4. ASSUME NEW w \in Awoken(d) PROVE Sent' = {inflight'} \ {Nobody}
      <4>1. Max(Awoken(d)) \in Awoken(d)
        BY <3>4, MaxOfClicks DEF Awoken, Waiters
      <4>2. inflight' = w /\ w \in Clicks
        BY <2>6, <3>1, <3>4, <4>1 DEF Succeeds, HandedOn, Awoken, Waiters
      <4> QED
        <5>1. w # Nobody
          BY <4>2 DEF Clicks, Nobody
        <5>2. Awoken(d) = {w}
          BY <3>1, <3>4
        <5> QED
          BY <3>2, <4>2, <5>1, <5>2
    <3> QED
      BY <3>3, <3>4
  <2>7. CASE Fails(d)
    BY <2>5, <2>7 DEF Fails, Cleared, Sent
  <2> QED
    BY <1>3, <2>6, <2>7 DEF SetAttrs
<1>4. CASE Events \/ HandleEvents \/ Tub \/ UNCHANGED vars
           \/ (\E d \in Clicks : HandleSet(d)) \/ (\E k \in Toggles : Outside(k))
  BY <1>1, <1>4
     DEF Events, Receive, StreamEnds, StreamBreaks, OnError, Listen,
         HandleEvents, Subscribe, Push, Tub, EnsureConnected, Disconnect,
         DropSubscribers, Hang, Recover, vars, HandleSet, Take, ReadAfter,
         Outside
<1> QED
  BY <1>2, <1>3, <1>4 DEF Next

LEMMA InitPageInv == Init => PageInv
<1> SUFFICES ASSUME Init PROVE PageInv
  OBVIOUS
<1>1. TypeOK
  <2>1. /\ << >> \in Seq(Toggles \X BOOLEAN) /\ << >> \in Seq(States)
        /\ Len(<< >>) <= MaxClicks /\ Len(<< >>) <= MaxPushes
    BY PageAssumption DEF PageAssumption
  <2>2. ask = << >> /\ pushes = << >>
    BY DEF Init
  <2>3. Off \in States /\ 0 \in 0 .. MaxOutside
    BY PageAssumption DEF PageAssumption, Off, States
  <2>4. /\ dev \in States /\ state = Null
        /\ session = "none" /\ dropping = FALSE /\ stream = "off"
    BY DEF Init
  <2>5. /\ call \in [Clicks -> {"none", "waiting", "sent", "ok", "failed"}]
        /\ onto \in [Clicks -> Clicks \cup {Nobody}]
        /\ job \in [Clicks -> {"none", "sent", "taken", "read"}]
        /\ answer \in [Clicks -> States \cup {Null}]
        /\ inflight \in Clicks \cup {Nobody}
    BY DEF Init
  <2>6. shown = Off /\ outside = 0
    BY DEF Init
  <2> QED
    BY <2>1, <2>2, <2>3, <2>4, <2>5, <2>6 DEF TypeOK
<1>2. AskInv
  BY DEF Init, AskInv
<1>3. OneAtATime
  <2>1. Sent = {} /\ inflight = Nobody
    BY DEF Init, Sent
  <2> QED
    BY <2>1 DEF OneAtATime, Sent
<1> QED
  BY <1>1, <1>2, <1>3 DEF PageInv

LEMMA StepPageInv == PageInv /\ [Next]_vars => PageInv'
BY StepPageTypes, StepOneAtATime DEF PageInv

\* The types hold, however clicks, answers, failures and pushes cross
\* (index.html:513-541, 760-790); in particular what is rendered is a state
\* that the tub was in.
THEOREM PageTypes == Spec => []TypeOK
<1>1. PageInv => TypeOK
  BY DEF PageInv
<1>2. QED
  BY <1>1, InitPageInv, StepPageInv, PTL DEF Spec

\* "inflight" is exactly the request that is out, whether it was sent by a
\* click or by one that waited, as long as no two have waited for the same one
\* (index.html:324, 774-778).
THEOREM InflightIsOut == Spec => []OneAtATime
<1>1. PageInv => OneAtATime
  BY DEF PageInv
<1>2. QED
  BY <1>1, InitPageInv, StepPageInv, PTL DEF Spec
=============================================================================
