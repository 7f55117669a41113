# A TLA+ verification of tubctl

tubctl (`src/`) drives a hot tub over its LAN protocol. A client keeps one TCP
session to the tub; an HTTP server, a scheduler and a command line use that
client. The program is small, but almost all of it runs concurrently: a reader
and a heartbeat goroutine per connection, HTTP handlers, event streams, a
scheduler tick, and a tub that answers late, or not at all, or hangs up.

This directory holds TLA+ modules that model the program, TLC configurations
that check them on small instances, and TLAPS proofs of the safety properties for
any number of connections, callers, streams, clicks, PUTs and writers, any day and
any list of schedules. Line numbers below are those of the files in `src/`.

## 1. Inventory

| component | state | operations | interacts with |
|---|---|---|---|
| sessions, `internal/tub/client.go` | `conn`, `loggedIn`, `stopHB`, `connectMu`, a `loginDone` channel and two goroutines per attempt | `Connect`, `Close`, `markDisconnected`, `readLoop`, the login cases of `dispatch`, `heartbeatLoop` | the tub over TCP; every user of the client |
| requests, `client.go` | `opMu`, `writeSeq`, `readCh` (8 slots), `writeCh` | `Read`, `Write`, the status and acknowledgement cases of `dispatch` | the reader goroutine through channels |
| subscribers, `client.go` | `subs`, `subSeq` | `Subscribe`, its cancel function, `broadcast` | event streams of the HTTP server |
| framing, `internal/tub/frame.go` | the buffer in `readLoop` | `EncodeFrame`, `ParseFrames` | the reader, the senders |
| attributes, `internal/tub/encode.go`, `status.go` | none (the table `Writable`) | `ValidateUpdates`, `EncodeControl`, `ParseStatus` | `Write`, `dispatch`, the HTTP server |
| HTTP API, `internal/web/server.go` | `connectMu`, `sseCount` | `handleSet`, `handleEvents`, `handleState`, `handlePutSchedules`, ... | client, scheduler |
| scheduler, `internal/sched/sched.go` | `schedules`, `inWindow` | `tick`, `apply`, `Replace`, `List` | client; the PUT handler |
| schedule store, `sched.go` | `schedules.json` and its `.tmp` | `save`, `load` | `Replace`, process start |
| web page, `internal/web/public/index.html` | `inflight`, `pendingTemp`, an `EventSource` | `setAttrs`, event handling | HTTP API |
| command line, `cmd/tubctl` | none | `serve`, `set`, `state`, `watch`, `config` | client, directly; `set` with a client of its own |

What is hard about it, and what makes each part correct:

* **Sessions.** `Connect` installs a connection before it is logged in, and an
  attempt that fails leaves its reader goroutine behind. That reader fetches
  `c.conn` when it first runs, and ends by tearing down whatever `c.conn` is
  then. Correct means: a session believed to be logged in is; sockets are
  closed; a stop channel is closed once; a live session has a heartbeat;
  `Connect` gives up.
* **Requests.** One exchange at a time, but the answers to exchanges that timed
  out, and reports nobody asked for, arrive in between. Correct means: an answer
  reaches the call that asked, is no older than what was received before, and
  every call returns.
* **Framing.** TCP cuts the stream anywhere. Correct means: exactly the frames
  that were sent, in order, at once, with a small buffer.
* **Set requests.** Read, write, wait, read, with other writers in between and
  two kinds of firmware. Correct means: what was asked is done, to the number,
  and nothing else; the answer, the log and the verdict of `tubctl set` say so.
* **Scheduler.** Edges of daily windows, written to a tub that may be away, with
  the list replaced and the server restarted at any time. Correct means: heat
  inside the windows, none left on by the scheduler outside them unless it
  has lost track of it, manual sessions left alone, failed edges retried.
* **Store.** Concurrent PUTs, errors half way, crashes. Correct means: the file
  always parses, an error means nothing changed, memory and file agree.
* **Event streams.** A cap on their number, channels that a disconnect closes,
  slow readers. Correct means: a stream ends when its client leaves or,
  if the client reads, when its channel is closed; no channel is closed twice, slots are given back, and
  a slow stream ends up with the newest state.
* **Web page.** Clicks made while a request is in flight, requests that fail,
  pushed states that are suppressed meanwhile. Correct means: every click is
  answered, requests go out one at a time, and the page ends up with the state of
  the tub if the server has a session on which the tub answers.

`PROJECT.json` lists under `hazards` each place where one of these could go
wrong, with its line and the properties that would notice.

## 2. Modules

| module | models | what an action is |
|---|---|---|
| `TubSession` | sessions | the code between two lock operations, channel operations or socket calls |
| `SessionPromise` | what `client.go` promises of its sessions: `TubSession` implements it | one visible change of a session |
| `TubSession_proofs` | theorems about `TubSession`, and the proof that it keeps the promise | |
| `TubExchange` | requests | the same; an exchange is `Lock...`, `Send...`, then a return or a timeout |
| `TubExchange_proofs` | theorems about `TubExchange` | |
| `Frame` | `EncodeFrame`, `ParseFrames` as functions on bytes | |
| `FrameStream` | the receive side of `readLoop` | one `conn.Read` with all that follows it |
| `FrameStream_proofs` | theorems about `Frame` and `FrameStream` | |
| `Control` | validation, `EncodeControl`, `ParseStatus`; the tub's side of both | |
| `ApiSet` | everybody who writes: `handleSet`, the scheduler's `apply`, `tubctl set` | one `Read` or `Write` of a client |
| `ApiSet_proofs` | theorems about `Control` and `ApiSet` | |
| `EventStreams` | `handleEvents`, `ensureConnected`, `Subscribe`, `broadcast`, the subscribers' side of `markDisconnected` | the code between two lock, channel or socket operations; each `select` of `broadcast` |
| `EventStreams_proofs` | theorems about `EventStreams` | |
| `DailyWindow` | `inDailyWindow` | |
| `Scheduler` | `tick`, `apply`, `Replace`, restarts, a clock, a tub, a user | a piece of `tick` between two uses of `s.mu`; `apply` is one step |
| `Scheduler_proofs` | theorems about `DailyWindow` and `Scheduler` | |
| `SchedStore` | `Replace` and `save` down to system calls, `load` | one system call |
| `DurableList` | what `sched.go` promises of its list: `SchedStore` implements it for serial PUTs | one visible change of the list |
| `SchedStore_proofs` | theorems about `SchedStore`, and the proof that it implements `DurableList` | |
| `WebPage` | the toggles, `setAttrs`, `apiWrite`, `listen` | one script or callback, run to its end with the promises it settles |
| `WebPage_proofs` | theorems about `WebPage` | |
| `MC...` | constants for TLC | |

How they fit together:

* `FrameStream` justifies the link of `TubSession` and `TubExchange`: a reader
  takes any number of whole frames, in order.
* `TubSession` is the life of a session; `TubExchange` uses what it shows. Its
  `Install`, `Login` and `Disconnect` are the moments of a session at which the
  client's request state changes. A reader of `TubExchange` is the reader of the
  current connection.
* `SessionPromise` is the view of a session that `EventStreams` and `ApiSet` have:
  one attempt at a time, authenticated, never resumed. The refinement mapping is
  `Promise` at the end of `TubSession`: "in" is `loggedIn` with a connection,
  "trying" is an attempt that has dialled, and the name of an attempt is its
  connection. A session whose link drops before `Connect`'s last step is one that
  was left without having been entered.
* `TubExchange` justifies that `ApiSet` and `Scheduler` take a `Read` or a `Write`
  as one step, and what a reading may be: the tub's state, or a late answer.
  `EventStreams` keeps `opMu` and the answer (`mail`), because a stream that waits
  for either cannot leave.
* `ApiSet` composes the writers over one tub: requests and scheduler edges with the
  client they share, commands with clients of their own. `WebPage` has its three
  steps at the server: the write, the reading after it and the answer.
* `WebPage` has the server's session as it is seen from a page: none, one on which the
  tub answers, or one that is silent. What it says of the page's event stream (when its
  channel is closed, and when it is missed) is what `EventStreams` has in full.
* `SchedStore` justifies that `Scheduler`'s `Replace` is one step between requests,
  and `DurableList` says what that step does: a list is durable before it is in
  force (`Durable` at the end of `SchedStore` is the mapping).

Names in the modules are those of the code wherever it has one. Variables marked
as ghosts in the comments (`authed` on the tub's side; `crossed`, `floor`,
`begun`, `answered`, `applied` of `TubExchange`; `who`, `lit`, `free`, `ticked`,
`tickOk`, `forgot` of `Scheduler`; `since` and `kept` of `FrameStream`; the last four of
`ApiSet`; `sent` and `lastNews` of `EventStreams`) are there for the properties; no action's guard in the client reads them.

Every definition named *variant* in a comment is a deliberately wrong version
of the definition that follows it. It is not used by the specification; each
property is paired in `PROJECT.json` with the variant that breaks it.

### Choices worth knowing

* `TubSession`: a connection, its channels and its goroutines share the number
  of the attempt that made them. A lock is the atomicity of an action. A heartbeat
  tick that reads the state and then fails to write ends exactly like one that
  sees a closed stop channel, so both are `HeartbeatStops`. A panic ends the
  program (`Alive`).
* `TubExchange`: a session ends at any time between two frames. Readers left over from
  failed attempts, which can end it at any other moment too, are in `TubSession` only. A
  status that `ParseStatus` rejects is one that never came. A status is its version, so that "stale" can be said; `readCh`
  has 2 or 3 slots instead of 8. Reports come unasked (`DevChange`).
* `Frame` works on real bytes, because length fields and resynchronising are
  about bytes. Bodies of 32768 bytes and more, which the length field cannot
  express, are never sent by this client or tub.
* `Control` covers the 14 writable attributes; a JSON value is a number with the
  type it had. Water temperature and fault flags are read-only and left out. The
  bits of a payload are a sum of their weights, so that a sum can be taken apart.
* `Scheduler`: a day has 4 or 6 minutes. Only the tub's heat and filter switches are
  kept. Lists are those `Replace` accepts. Schedule IDs are pairs of the
  replacement that made them and an index, as `sched.go:106` makes them unique.
* `EventStreams`: sessions are numbered, and a login is an install and an end,
  successful or not, since the steps between are `TubSession`'s. `c.subMu` is a
  variable only while a broadcast holds it, because streams receive during one.
  A status is the number of the state it shows; the tub never shows an older one
  after a newer. A server that is full is one with streams beyond those
  modelled (`others`). A write to a client may block ("blocked"): the handler sets no
  deadline, and `serve.go` no `WriteTimeout`. Other callers hold `opMu` now and then
  (`OtherLocks`).
* `WebPage`: a script runs to its end, with the continuations of the promises it
  settles in the order in which they were attached; that order is what decides
  who goes next in `setAttrs`. The prompt for a token and the repeated request of
  `apiWrite` are part of one request being out. The server takes a request in
  three steps and may lose its answer at any of them.
* `SchedStore`: a file is known by its inode, because the point is which file a
  descriptor writes to after a rename. The contents are a list, nothing, or a
  torn list. Crashes are those of the process, not of the machine.

## 3. Runs

Bounds are constants of the configurations.

| run | bounds | distinct states | what it shows |
|---|---|---|---|
| `Session` | 2 dials, `Close` at any time | 40830 | `SessionAuthenticated`, `NoLeakedSocket`, `StopClosedOnce`, `LiveSessionBeats`; the refinement `KeepsPromise`; under fairness `ConnectReturns` and `ReplacedReaderEnds` |
| `ZombieSession` (violated) | 2 dials, no `Close` during `Connect` | | `LoggedInHasConn` fails |
| `Exchange` | 2 callers, 2 sessions, 2 operations, 2 versions, 2 slots | 168391 | `ReadsAreFresh`, `ResponseNotStolen`, `AckIsMine`; under fairness `CallsReturn` |
| `StuckReader` (violated) | 1 session, 3 operations, 3 versions | | `OldestThere` fails |
| `FrameStream` | 3 short messages or 2 long, reads of 1, 2, 3, 7, 11 or 130 bytes | 19100 | `DispatchedInOrder`, `NothingInvented`, a small buffer |
| `ApiSet` | 2 of 4 writers (2 requests, an edge, a command), 12 bodies, 8 command lines, 2 tub states, 1 use of the panel | 803694 | `WriteDoesAsAsked`, `AnswerShowsWrite`, `LogIsTrue`, `VerdictIsTrue` |
| `SchedulerSafety` | 2 windows, 2 edits, day of 6, failures, lost answers, restarts, a user | 799578 | `MembershipIsLit`, `NoForgottenHeat`, `ManualNotStomped` |
| `SchedulerWindow` | every window of a day of 4, both modes, failures | 10720 | `HeatsInsideWindows`; under fairness `EdgesRetried` |
| `AdjacentWindowCut` (violated) | 2 adjoining windows, day of 6, nothing fails | | `HeatsInsideWindows` fails |
| `StoreSerial` | 3 PUTs one after another, 2 crashes | 3498 | `NeverTorn`, `MemoryIsDisk`; the refinement `ListIsDurable` |
| `Streams` | 1 stream, 2 sessions, buffer of 1, cap of 1 with 0 or 1 other streams, 2 states | 83902 | `ChannelsClosedOnce`, `SlotsAreExact`, `StreamShowsNewest`; under fairness `StreamsEnd` |
| `WebPage` | 1 toggle, 3 clicks, 1 outside change, 1 push in flight | 489370 | `OneAtATime`; under fairness `PageConverges`, `ClicksEnd` |

Why the bounds are enough. Two dials give an old attempt and a new one, which is
what every hazard of sessions is about (the theorems below need no bound). Two
callers contend for `opMu`, two sessions make sequence numbers start over, and
two slots are enough for a channel to be full. A frame stream needs every cut of
two neighbouring frames; reads of one byte reach every cut, and the larger ones
take several frames at once. Two writers of any kinds interleave with each
other and with the panel; the values are the two ends of each width and the first beyond. A day
of four minutes has windows that are empty, of every length, across midnight and
ending at it. Three PUTs give an old list, one in force and one under way.
With a stream counted besides, the one modelled is refused; a buffer of one is full
after one status. Two sessions, with a stream and another caller who dials, let the
end of the first overlap the second: its reader closes the channels of the next one's
streams, or misses a stream that is about to subscribe. Streams meet one another only
in `opMu`, `connectMu` and the counter, where another caller stands for the rest, and in
`subMu`; the theorems have any number of them, and with two streams and one session
the safety properties hold as well (365466 states). Of three clicks two can wait for
the first, which is the case in which two requests are out at once. Sessions of the
page come and go any number of times.

Deadlock is not checked where the environment may simply stop: the bounds on
dials, operations, PUTs and requests end a behaviour, and so does a panic.

### Fairness

* `TubSession`, `TubExchange`: weak fairness of each goroutine, since the Go
  scheduler runs a goroutine that can run, and of the timers in `Connect`, `Read`
  and `Write`. `opMu` is handed over fairly (Go's mutexes turn to FIFO order
  after a millisecond of starvation). Nothing is assumed of the tub: it may stay
  silent for ever, and nobody has to call `Connect`.
* `Scheduler`: the ticker ticks (weak), and a write that is tried for ever in the
  end succeeds (strong). The retries are stated for one part of the day, because
  the clock is not forced to stand still nor to move.
* `EventStreams`: weak fairness of the end of a login and of another's exchange
  (`Connect`, `Read` and `Write` have their timers), of a broadcast, whose selects never
  block, and of a write to a client that has left, which fails; strong fairness of a
  stream's and a reader's waits for `connectMu`, `opMu` and `subMu`, which Go's mutexes
  hand over, and of a stream's emptying a closed channel and leaving, because `select`
  picks among its ready cases at random. Nothing is assumed of the tub, the network
  or the clients: a session may never be lost, a client may never leave, and it may
  stop reading for ever. A client that does so and stays keeps its handler and its
  slot, in the model as in the code (`server.go:252`, `291`); so the second half of
  `StreamsEnd`, on closed channels, is for streams that are not blocked for ever, a
  condition of the property and not a fairness of the specification.
* `WebPage`: every `fetch` ends, with an answer or an error; what arrives is received;
  the timer of `onerror` listens again, which succeeds only while the server has a
  session; a handler proceeds when it can, and sends a state now and then while it is
  subscribed and the session answers (the refresh of every 15 s, `server.go:286-289`,
  which does not connect). That there is such a session in the long run, and that the
  page's own connection stops breaking, are the premises of `PageConverges`: a stream
  whose channel was closed, or that subscribed too late to be told, shows nothing new
  until somebody else connects. A click need never come.

### Disagreements between code and comments

Each of these has a run of its own.

* `ZombieSession`: the link drops after the login was reported and before
  `client.go:121`. `loggedIn` is true with a nil `conn`; `Connect` is a no-op from
  then on, so only a restart or `Close` repairs it.
* `StuckReader`: `client.go:319` receives from a channel that a `Read` has just
  drained (`client.go:159`). The reader waits for ever; the session looks alive.
* `AdjacentWindowCut`: windows 10-12 and 12-14, the later one listed first: at
  12:00 the heater is turned on and then off, and stays off.

Seen while modelling, by changing a constant of a run or a premise of a property:

* Without `~forgot`, `NoForgottenHeat` fails in two ways. A start the tub obeyed without
  the client learning it, until the window is over, is never committed, so the end of
  the window is no edge, nothing is retried (`sched.go:181`, `206-207`) and the heater
  stays on. And a list that is replaced inside a window by one without that window, or
  a restart that lasts beyond it, leaves the heater on: the next tick reconciles
  against the new windows (`sched.go:86-87`) only where they are on (`170-174`).
* A `WriteDoesAsAsked` without its last disjunct fails: of two POSTs at once at a tub
  that applies all the values of a write, the second puts back what the first has
  changed since it read (`server.go:326-332`).
* A stream that connects (`server.go:230`) before and subscribes (`server.go:244`) after
  `markDisconnected` has dropped the subscribers waits on a channel nobody closes. Its
  reads do not connect, and its client is not told to (`client.go:433-434`); that a
  stream waiting without a session ends or is given one fails of `EventStreams`.
* With `OneAtATime = FALSE` in `StoreSerial`, `ListIsDurable` and `NeverTorn` fail:
  concurrent PUTs write one temporary file. The second writes into the file that
  the first has already renamed into place, and then fails to rename: it is
  answered with an error although its list is what a restart loads
  (`sched.go:110-112`, `254`), or the file is torn.
* In `WebPage`, two clicks that waited for the same request go out together; the
  first of them to end clears `inflight`, and a push is rendered while the other is in
  flight, against `index.html:774`. `OneAtATime` speaks of the time before two clicks
  have waited for the same request. With four clicks the tub may end up as the last
  but one asked.

Seen in the code, without a property of their own: a reader that
starts after `Close` calls `Read` on a nil connection (`client.go:245`; the state
"panicked" of `TubSession`); the reader of an attempt that failed tears down the
session of the next (`client.go:427`); a request that waited for `opMu` goes out on
a session that has not logged in (`client.go:154`); a number taken before a
reconnect is given out again after it, so a late acknowledgement can be credited
to another write (`client.go:201`, excluded from `AckIsMine` by `crossed`); a stop
retried into another window cuts it (`sched.go:165`); with concurrent PUTs the file
may be torn (`sched.go:254`); a write that is answered 503 may have been taken, and
is not logged (`server.go:332-342`); `ParseFrames` drops the valid frames in front of
a bad one (`frame.go:89`); a stream that subscribes between a disconnect and the
closing of the channels is closed although a new session may be up
(`client.go:433`); a client that stays connected and does not read keeps its stream's
slot (`server.go:252`); a click that fails toggles its button back to what it was when
it was clicked, whatever has been rendered since (`index.html:531`), until the next push;
a failed `GET` of the schedules empties the editor, and a Save then empties the list
(`index.html:743`).

## 4. Proofs

Every theorem holds for all values of the constants that the assumption of its
module admits, and under the hypotheses in the table and no others. The assumptions
(`SessionAssumption`, `ExchangeAssumption`, `MessagesAssumption`, `PiecesAssumption`,
`StoreAssumption`, `DayAssumption`, `SchedulerAssumption`, `StreamsAssumption`, `PageAssumption`, `ApiSetAssumption`)
type the constants, keep the sets of actors finite where the code counts them and
disjoint where a name must tell who acts; `ApiSetAssumption` also says that the tub
begins in a state its attributes can hold, that its own panel changes it to such
states only, and that a JSON bool is 0 or 1. TLC evaluates each of them on its runs.

| module | theorem | property | hypothesis |
|---|---|---|---|
| `TubSession_proofs` | `TypeCorrect` | `TypeOK` | |
| | `NoSocketLeaks` | `NoLeakedSocket` | |
| | `StopClosesOnce` | `StopClosedOnce` | |
| | `SessionsAreAuthenticated` | `SessionAuthenticated` | |
| | `LiveSessionsBeat` | `LiveSessionBeats` | |
| | `PromiseKept` | `KeepsPromise` (refinement) | |
| `TubExchange_proofs` | `ExchangeTypes` | `TypeOK` | |
| | `FreshReads` | `ReadsAreFresh` | |
| | `AnswerNotStolen` | `ResponseNotStolen` | |
| | `AckAnswersThisWrite` | `AckIsMine` | |
| `FrameStream_proofs` | `FrameRoundTrip` | `ParseFrames` undoes `EncodeFrame` | a body of at most 32767 bytes |
| | `CutsDoNotMatter` | `ParseFrames` of two pieces is that of the one and then of its rest with the other | |
| | `CutsAreInvisible` | what was read in pieces since the last error is as if read at once (`OnePass`) | |
| | `FramesInOrder` | `DispatchedInOrder` | streams of such frames |
| | `LessThanAMessageIsKept` | `TypeOK` | streams of such frames |
| `ApiSet_proofs` | `StatusRoundTrip` | `ParseStatus` reads what the tub wrote | |
| | `WriteRoundTrip` | the tub reads what `EncodeControl` wrote | |
| | `SetTypes` | `TypeOK` | |
| | `WriteIsExact` | `WriteDoesAsAsked` | |
| | `AnswersShowTheWrite` | `AnswerShowsWrite` | |
| | `AuditIsTrue` | `LogIsTrue` | |
| | `VerdictsAreTrue` | `VerdictIsTrue` | |
| `SchedStore_proofs` | `StoreTypes` | `TypeOK` | |
| | `FileNeverTorn` | `NeverTorn` | `OneAtATime` |
| | `ForceIsDurable` | `MemoryIsDisk` | `OneAtATime` |
| | `StoreImplementsDurableList` | `ListIsDurable` (refinement) | `OneAtATime` |
| `Scheduler_proofs` | `WindowsPartTheDay` | `inDailyWindow` and its complement | |
| | `EdgesAtTheEnds` | `inDailyWindow` from one minute to the next | |
| | `SchedulerTypes` | `TypeOK` | |
| | `MembershipTracksTub` | `MembershipIsLit` | |
| | `ManualKept` | `ManualNotStomped` | |
| | `WindowIsHeated` | `HeatsInsideWindows` | `OneWindow`, `~LostAcks`, `~Manual` |
| | `NothingLeftOn` | `NoForgottenHeat` | |
| `EventStreams_proofs` | `StreamTypes` | `TypeOK` | |
| | `OneCloseEach` | `ChannelsClosedOnce` | |
| | `SlotsCounted` | `SlotsAreExact` | |
| | `NewestIsShown` | `StreamShowsNewest` | |
| `WebPage_proofs` | `PageTypes` | `TypeOK` | |
| | `InflightIsOut` | `OneAtATime` | |

### Why there are hypotheses

Each is a case in which the code does something else, and TLC shows it.

* `OneAtATime`: concurrent PUTs write one temporary file (section 3).
* `OneWindow` (no list has two enabled windows): `AdjacentWindowCut` is what happens
  otherwise. `~Manual`: a user may turn the heater off inside the window, as the
  scheduler means to allow. `~LostAcks`: a lost answer to a stop makes the tick
  believe that its window is still lit.
* Streams of such frames: the tub sends what `EncodeFrame` can build with a length that
  fits its two bytes (`Payloads`; neither side ever sends more), nothing else, in any
  number and order. Before a frame that is too short the code drops frames that had
  arrived whole (`frame.go:89`), and behind it the tail of one; `since` and `kept` describe
  that, and TLC checks it. `CutsAreInvisible` needs no such hypothesis: it covers every
  stream, errors included.

### The arguments

None of the properties but the types is inductive. In each module the types are
proved first, with one step per action, and the rest rests on them.

`TubSession`, in two layers.

1. `Inv`: the holder of `connectMu` found the client logged out and works on the
   last connection dialled (`DialInv`); `conn` and `stopHB` are set and cleared
   together, to that connection (`ConnInv`); a reader reads from its own
   connection or a later one (`ReaderInv`). With these, an action that fails or
   tears down closes the one connection that could leak.
2. `AuthAndBeat`, which assumes `Inv`: an accepted login, wherever it is on its way
   (link, hand of a reader, `loginDone`), comes from a connection on which the tub
   accepted one (`AuthInv`); since the reader of attempt *n* cannot read from
   an earlier connection, and attempt *n* is the last one while it waits, the
   session it opens is authenticated. A connection in use is open, so its stop
   channel is too (`OpenInv`), and the heartbeat of a session waits on that
   channel (`BeatInv`).

`PromiseKept` is the refinement, from the same two layers and one more fact: the
tub is asked only on connections that were dialled (`SentInv`), so that what it
accepts is an attempt that exists. `Phase` is the state a client's state stands
for; `TearDownMaps` and `GiveUpMaps` say that the two ways to close are a `Leave` or
nothing, and `StepMaps` has one step per action. `AuthInv` is what makes `Finish` an
`Enter`: the attempt under way is one whose login was accepted.

`TubExchange`. A number fits its width because every write still queued is counted
(`CountInv`, with the cardinality of the writers that have no number yet). Between
`Lock` and `Unlock` a caller owns `opMu` (`CallInv`), and nothing on the wire belongs
to a call that was not sent (`KnownInv`).

* `FreshReads`: versions do not decrease from `readCh` through the reader's hand and
  the link to the tub (`OrderInv`), and once a `Read` has drained the channel nothing
  in front of its floor is left in it (`FloorInv`). The eviction of `client.go:319`
  takes the oldest, so both survive it.
* `AnswerNotStolen`: with `LinkInv` (a link that is down is empty, no call used a
  session to come) the only steps that take from `readCh` are the owner of `opMu`,
  who is the `Read` in question, and an eviction that puts a newer one in.
* `AckAnswersThisWrite`: an acknowledgement is of a write that was applied
  (`AppliedInv`); who is registered under a number waits for it (`WriterInv`); and
  unless a number crossed a reconnect, frames under one number are of one call
  (`NumberInv`).

`FrameStream`. `ParseFrames` is a function on offsets in which each is determined by later
ones. `EveryNat` and `FromTheEnd` are the induction that fits it, stated over a *set* of
numbers and proved from `WFMin`, because a theorem over an operator could not be used.
From them: at every offset it returns frames and a rest that is a tail of the buffer
(`ParseResult`); what it returns from an offset depends only on the bytes behind it
(`ParseRest`); more bytes change nothing of what fewer had settled (`Resumed`).
`CutsDoNotMatter` puts these together, and `OnePass` is then inductive over reads
(`PieceInv`, with what is left over as a tail of what was read since the last error,
which empties the buffer and begins anew). For whole frames,
`FrameRoundTrip` is the arithmetic of the two length bytes and of the command,
`PartOfFrame` says that less than a frame is kept, and two inductions over the
messages follow: whole frames parse to those frames, and what has arrived is some whole
frames and less than one more. `FramedInv` adds that no error has happened.

`ApiSet`. `StatusRoundTrip` and `WriteRoundTrip` are facts about the operators of
`Control`: an attribute is found at its id (`Ids`), a bit is read where it was set
(`BitsBack`, by arithmetic on the fourteen weights), a word is its two bytes
(`WordBack`), and what the checks let through fits its width (`ValidIsAsked`,
`CommandIsAsked`, `EdgesAreAsked`). So a `Read` is the tub's state to the number, and
`WriteIsExact` follows for the one step that writes. For the answer, the log and
the verdict, `TruthInv` says of a writer that waits to read again (`Settled`): an
attribute nobody else has touched is in the tub, and in an answer still to come if
there is one, what its write made it; and `changed` is the difference to what it had
read. An acknowledged write has drained what came late before it, which is where
this begins; `OthersTrue` says that somebody else's step keeps it, because what he
changes becomes touched; and `Answered` and `Judged`, the properties of one writer, follow
when it reads. `SamePrinted` is the comparison of the command line: what is
printed alike is the same number, for switches and numbers alike.

`SchedStore`. Of the files, for any PUTs at once: a name or a descriptor refers to a
file that was created, and each PUT creates at most one, so a fresh one is left
(`FilesInv`, by counting). One at a time, `SerialInv`: at most one PUT is inside
(`OneBusy`); the file it writes is the one of the temporary name, empty until written
(`ProgressInv`), so what a rename makes durable is whole (`DurableInv`), and the list
in force is the durable one except between the rename and the install
(`InForceInv`). `StoreImplementsDurableList` maps each system call to a step of
`DurableList` or to none.

`Scheduler`. `MembershipInv`: a tick works on a copy of its own generation of IDs
(`CopyInv`); an edge is written on the right side of its window, and at the commit the
tub has acknowledged it (`EdgeInv`); a tick whose list was replaced finds nothing
committed (`StaleInv`), which is why it cannot disturb the new list. For `ManualKept`,
while manual heat is on no stop is about to be written (`FreeInv`). For the other two,
a tick that has passed a schedule without a failure has its membership right for the
minute of that tick (`PastInv`), and what is lit is a window of the list
(`LitListed`); then with one window at a time what is lit is on (`LitIsOn`), and what
the scheduler turned on is lit or forgotten (`OnIsLit`): a start is forgotten when its
answer is lost with nothing else lit or when its list was replaced meanwhile, and all
heat is when a list change or a restart empties the map.

`EventStreams`. A broadcast holds `subMu`, is the only one, and serves registered
streams (`CastInv`); a channel is registered from `Subscribe` until somebody closes it
(`SubsInv`), so whoever closes it finds it open; the counter is a cardinality
(`SlotsAreExact`, with one lemma for each way to come or go), and who holds
`connectMu` is in `Connect` (`DialInv`). `NewestIsShown`: a channel found full has
room again when the reader comes back to it (`RoomInv`), and each stream shows the
newest status, or one is on its way to it (`NewsInv`).

`WebPage`. What was not clicked has no request (`AskInv`), and `OneAtATime` is then
inductive: a request goes out only when `inflight` is clear, or as the one
continuation of the request it waited for, which has just cleared it.

### Model-checked only

* The liveness properties: `ConnectReturns`, `ReplacedReaderEnds`, `CallsReturn`,
  `EdgesRetried`, `StreamsEnd`, `PageConverges`, `ClicksEnd`. TLAPS does not do
  fairness with `ENABLED`.
* `TypeOK`, `DispatchedInOrder` and `NothingInvented` of `FrameStream` on streams that
  also hold noise or frames too short to be valid. After an error the parser may begin
  inside a frame, and takes a payload that holds a preamble for another one, so there
  these properties depend on the payloads, and are checked for those of the run.
  `OnePass` is proved for all streams.

## 5. Not modelled

* The stateless request checks of `guardWrite`, tokens and headers: one refusal in
  `ApiSet`.
* `handleState`, `handleConfig`, `handleHealth`, `handleGetSchedules`: they change
  nothing and only report.
* Of the command line: `state` and `watch` read and print, in sequence (`watch` never
  reconnects); `config` edits a file of settings; `main` and `serve` wire the parts
  modelled here and end them together.
* Of the web page: drawing; the dial, whose drag is a form until it calls `setAttrs`;
  the header switches, which call it as a toggle does; the schedule editor, a form
  whose Save is one PUT of `SchedStore`.
* `parseHHMM`, JSON, the log's wording.
* What a machine crash leaves of a file that was never synced.

## 6. Plan

Done: all modules of section 2, their runs, and the theorems of section 4, which state
every safety property of the runs and both refinements.

Left, in this order:

1. What the theorems with hypotheses say without them: for `SchedStore`, what survives
   concurrent PUTs (which files may be torn, and whose list is loaded); for
   `Scheduler`, heat with several windows that do not touch.
2. For `FrameStream`, streams with noise between the frames, for payloads in which no
   preamble occurs.
