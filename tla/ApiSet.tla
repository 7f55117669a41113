-------------------------------- MODULE ApiSet --------------------------------
(***************************************************************************)
(* Everybody in the repository who writes to the tub: handleSet of         *)
(* internal/web/server.go (POST /api/set), apply of internal/sched/sched.go *)
(* (the edge of a schedule) and runSet of cmd/tubctl/set.go (the command   *)
(* line).  Each reads the tub's state and writes its updates over it; the  *)
(* first and the last wait, read again and compare.                        *)
(*                                                                         *)
(* A Read or a Write of a client is one step: TubExchange shows that opMu  *)
(* makes it so.  The server's requests and its scheduler share a client,   *)
(* in which a Read may time out and its answer still come and be taken by  *)
(* the next; an acknowledgement comes behind it on the same connection, so *)
(* the Read after a Write has drained it.  A command has a client of its   *)
(* own and ends with the first call that fails.                            *)
(***************************************************************************)
EXTENDS Control

CONSTANTS
    Posts,     \* the requests
    Bodies,    \* the updates they may carry
    Edges,     \* the edges of schedules
    Commands,  \* the runs of `tubctl set`
    Arguments, \* what they may be given: a word for each key
    States,    \* the states the tub may be in at the beginning
    HandUses,  \* the updates somebody may make at the tub's panel
    MaxHand,   \* bound on their number
    MaxWriters \* bound on the writers that begin in one behaviour

NoStatus == << >>
Writers == Posts \cup Edges \cup Commands

ASSUME ApiSetAssumption ==
    /\ Posts \cap Edges = {} /\ (Posts \cup Edges) \cap Commands = {}
    /\ \A s \in States : IsStatus(s)
    /\ \A u \in HandUses : ValidateUpdates(u)
    /\ \A u \in Bodies \cup HandUses : \A a \in DOMAIN u :
          u[a].type = "bool" => u[a].n \in 0 .. 1
    /\ MaxHand \in Nat /\ MaxWriters \in Nat

VARIABLES
    dev,       \* the tub's attributes
    takesAll,  \* whether its firmware takes all values of a write
    late,      \* the answer to a Read that timed out, still to come
    hand,      \* how often the panel was used
    body,      \* the updates of each writer
    pc,        \* where it is
    before, after,  \* its two readings
    result,    \* how it ended
    logged,    \* the attributes a request logged as changed
    honoured,  \* whether the tub took its write
    exact,     \* whether "before" was the tub's state when it wrote
    changed,   \* the attributes its write changed
    touched    \* the attributes that changed between its write and "after"

requestVars == <<body, pc, before, after, result, logged>>
ghostVars == <<honoured, exact, changed, touched>>
vars == <<dev, takesAll, late, hand, requestVars, ghostVars>>

TypeOK ==
    /\ IsStatus(dev)
    /\ late = NoStatus \/ IsStatus(late)
    /\ takesAll \in BOOLEAN /\ hand \in 0 .. MaxHand
    /\ pc \in [Writers -> {"new", "read", "write", "settle", "end"}]
    /\ \A r \in Writers : /\ before[r] = NoStatus \/ IsStatus(before[r])
                          /\ after[r] = NoStatus \/ IsStatus(after[r])
    /\ result \in [Writers -> {"none", "refused", "bad", "down", "unmet",
                               "ok"}]
    /\ \A S \in {logged, changed, touched} : S \in [Writers -> SUBSET Attrs]
    /\ {honoured, exact} \subseteq [Writers -> BOOLEAN]

Init ==
    /\ dev \in States /\ takesAll \in BOOLEAN
    /\ late = NoStatus /\ hand = 0
    /\ body = [r \in Writers |-> << >>]
    /\ pc = [r \in Writers |-> "new"]
    /\ before = [r \in Writers |-> NoStatus] /\ after = before
    /\ result = [r \in Writers |-> "none"]
    /\ logged = [r \in Writers |-> {}] /\ changed = logged /\ touched = logged
    /\ honoured = [r \in Writers |-> FALSE] /\ exact = honoured

With(u) == [a \in Attrs |-> IF a \in DOMAIN u THEN u[a].n ELSE dev[a]]
Differ(s, t) == {a \in Attrs : s[a] # t[a]}

\* What a step of somebody other than r does to the attributes r has written.
Touches(others) ==
    touched' = [r \in Writers |->
                   IF r \in others /\ pc[r] = "settle"
                   THEN touched[r] \cup Differ(dev, dev') ELSE touched[r]]

-----------------------------------------------------------------------------
(* The writers.                                                            *)

Goto(r, where) == pc' = [pc EXCEPT ![r] = where]
Answer(r, code) ==
    /\ Goto(r, "end")
    /\ result' = [result EXCEPT ![r] = code]

\* A writer begins with its updates, of which none is sent before the check.
Free(r) ==
    pc[r] = "new" /\ Cardinality({w \in Writers : pc[w] # "new"}) < MaxWriters
Starts(r, u) ==
    /\ body' = [body EXCEPT ![r] = u]
    /\ Goto(r, "read")
    /\ UNCHANGED <<dev, takesAll, late, hand, before, after, result, logged,
                   ghostVars>>
Rejects(r, code) ==
    /\ Answer(r, code)
    /\ UNCHANGED <<dev, takesAll, late, hand, body, before, after, logged,
                   ghostVars>>

\* handleSet: guardWrite, and the checks of its body.
Check(r) ==
    /\ Free(r)
    /\ \/ Rejects(r, "refused")
       \/ \E u \in Bodies : IF u # << >> /\ ValidateUpdates(u)
                            THEN Starts(r, u) ELSE Rejects(r, "bad")

\* applyOn and applyOff, the latter for either mode.
ApplyOn == [a \in {"heat_power", "filter_power", "heat_appm_min",
                   "heat_timer_min", "filter_appm_min", "filter_timer_min"}
              |-> Num(IF a \in Switches THEN 1 ELSE 0)]
ApplyOff(filter) == [a \in {"heat_power", "filter_power"} |->
                        Num(IF a = "heat_power" THEN 0 ELSE filter)]
Apply(r) ==
    /\ Free(r)
    /\ \E u \in {ApplyOn, ApplyOff(0), ApplyOff(1)} : Starts(r, u)

\* parseSetArgs: for a switch whatever is not 1, true, on or yes is a 0, and
\* only what Atoi takes and the width holds is a number.
ParseBool(v) == IF v \in {Num(1), Yes} THEN 1 ELSE 0
Readable(args) ==
    args # << >> /\ \A a \in DOMAIN args :
        /\ a \in Attrs
        /\ a \in Switches
              \/ (args[a].type = "number" /\ args[a].n \in ValuesOf(a))
ParseSetArgs(args) ==
    [a \in DOMAIN args |->
        IF a \in Switches THEN Num(ParseBool(args[a])) ELSE args[a]]
Command(r) ==
    /\ Free(r)
    /\ \E args \in Arguments : IF Readable(args)
                               THEN Starts(r, ParseSetArgs(args))
                               ELSE Rejects(r, "bad")

\* What a Read returns: the tub's state as ParseStatus decodes it, or the
\* answer that an earlier Read did not wait for; its own is then late in turn.
\* A Read that gets its own answer, and an acknowledged Write, come after every
\* late one: those are in the channel, and the next Read drains it.
Now == ParseStatus(DevStatus(3, dev))
Readings(r) == {Now} \cup (IF r \in Commands THEN {} ELSE {late} \ {NoStatus})
KeepQueued(r) == UNCHANGED late  \* variant: Read does not drain the queue
Drained(r) == late' = IF r \in Commands THEN late ELSE NoStatus
Took(r, s) == \/ s = Now /\ Drained(r)
              \/ r \notin Commands /\ s = late /\ late' = Now

ReadBefore(r) ==
    /\ pc[r] = "read"
    /\ \E s \in Readings(r) :
          before' = [before EXCEPT ![r] = s] /\ Took(r, s)
    /\ Goto(r, "write")
    /\ UNCHANGED <<dev, takesAll, hand, body, after, result, logged,
                   ghostVars>>

\* stateDiff; and the variant that believes the request.
AskedDiff(s, t, u) == {a \in DOMAIN u : s[a] # u[a].n}
StateDiff(s, t, u) == DOMAIN u \cap Differ(s, t)

ReadAfter(r) ==
    /\ pc[r] = "settle" /\ r \in Posts
    /\ \E s \in Readings(r) :
          /\ after' = [after EXCEPT ![r] = s]
          /\ logged' = [logged EXCEPT ![r] = StateDiff(before[r], s, body[r])]
          /\ Took(r, s)
    /\ Answer(r, "ok")
    /\ UNCHANGED <<dev, takesAll, hand, body, before, ghostVars>>

\* The verdict of a command: what it finds is what it asked for, switches but
\* for the enum compared as bools; and the variant that compares what it sent.
\* What is compared is printed: its type shows.
IsBool(a) == a \in Switches \ {"temp_set_unit"}
Number(n) == <<"number", n>>
Got(a, n) == IF IsBool(a) THEN <<"bool", n = 1>> ELSE Number(n)
AsSent(a, n) == Number(n)
Normalize(a, n) == IF IsBool(a) THEN <<"bool", n # 0>> ELSE Number(n)
Verify(r) ==
    /\ pc[r] = "settle" /\ r \in Commands
    /\ after' = [after EXCEPT ![r] = Now]
    /\ Answer(r, IF \A a \in DOMAIN body[r] :
                       Got(a, Now[a]) = Normalize(a, body[r][a].n)
                 THEN "ok" ELSE "unmet")
    /\ UNCHANGED <<dev, takesAll, late, hand, body, before, logged,
                   ghostVars>>

\* No connection, or no answer in time.
ReadFails(r) ==
    /\ pc[r] \in {"read", "settle"}
    /\ late' \in IF r \in Commands THEN {late} ELSE {late, Now}
    /\ Answer(r, "down")
    /\ UNCHANGED <<dev, takesAll, hand, body, before, after, logged,
                   ghostVars>>

\* The tub takes the write or, though it may acknowledge it, does not.  A
\* write it takes after its time is taken before any later Read is answered.
Write(r) ==
    /\ pc[r] = "write"
    /\ \E takes \in BOOLEAN :
          /\ dev' = IF takes
                    THEN Applied(EncodeControl(body[r], before[r]), dev,
                                 takesAll)
                    ELSE dev
          /\ honoured' = [honoured EXCEPT ![r] = takes]
    /\ exact' = [exact EXCEPT ![r] = before[r] = dev]
    /\ changed' = [changed EXCEPT ![r] = Differ(dev, dev')]
    /\ Touches(Writers \ {r})
    /\ \/ /\ IF r \in Edges THEN Answer(r, "ok")
             ELSE Goto(r, "settle") /\ UNCHANGED result
          /\ Drained(r)
       \/ /\ Answer(r, "down")
          /\ UNCHANGED late
    /\ UNCHANGED <<takesAll, hand, body, before, after, logged>>

-----------------------------------------------------------------------------
UsePanel ==
    /\ hand < MaxHand
    /\ hand' = hand + 1
    /\ \E u \in HandUses : dev' = With(u)
    /\ Touches(Writers)
    /\ UNCHANGED <<takesAll, late, requestVars, honoured, exact, changed>>

Writes(r) == ReadBefore(r) \/ Write(r) \/ ReadFails(r)
HandleSet(r) == Check(r) \/ Writes(r) \/ ReadAfter(r)
RunSet(r) == Command(r) \/ Writes(r) \/ Verify(r)
Next ==
    \/ UsePanel
    \/ \E r \in Posts : HandleSet(r)
    \/ \E r \in Edges : Apply(r) \/ Writes(r)
    \/ \E r \in Commands : RunSet(r)
Spec == Init /\ [][Next]_vars

-----------------------------------------------------------------------------
(* Properties.                                                             *)

\* A write that the tub takes sets what its writer asked for, to the very
\* numbers it gave.  What nobody asked for stays as it is; a tub that takes
\* every value of a write gets back what the writer had read, over what others
\* have changed since, and nothing else (encode.go:119-120, server.go:326-332).
WriteDoesAsAsked ==
    [][\A r \in Writers :
          (pc[r] = "write" /\ pc'[r] # "write" /\ honoured'[r]) =>
              \A a \in Attrs :
                  IF a \in DOMAIN body[r] THEN dev'[a] = body[r][a].n
                  ELSE \/ dev'[a] = dev[a]
                       \/ takesAll /\ dev'[a] = before[r][a]]_vars

\* A request that succeeds answers with the values it asked for, unless they
\* have changed since: never with a reading from before its write.
AnswerShowsWrite ==
    \A r \in Posts : (result[r] = "ok" /\ honoured[r]) =>
        \A a \in DOMAIN body[r] \ touched[r] : after[r][a] = body[r][a].n

\* The log, kept as an audit trail (server.go:418-419), names every requested
\* attribute the write changed, and none when the tub ignored it.
LogIsTrue ==
    \A r \in Posts :
        (result[r] = "ok" /\ exact[r] /\ touched[r] = {}) =>
            logged[r] = changed[r] \cap DOMAIN body[r]

\* `tubctl set` ends with 0 if the tub took its write, and if it did not,
\* exactly when the tub was as asked before: never because what it sent and
\* what it finds are written differently (set.go:59-75, 118-119).
VerdictIsTrue ==
    \A r \in Commands :
        LET asked == DOMAIN body[r] IN
        (result[r] \in {"ok", "unmet"} /\ asked \cap touched[r] = {}) =>
            /\ honoured[r] => result[r] = "ok"
            /\ (~honoured[r] /\ exact[r]) =>
                  (result[r] = "ok" <=>
                      \A a \in asked : before[r][a] = body[r][a].n)
=============================================================================
