------------------------------- MODULE Scheduler ------------------------------
(***************************************************************************)
(* internal/sched/sched.go: the goroutine that turns the tub's heater and  *)
(* filter on at the start of each daily window and off at its end, beside  *)
(* the handler that replaces the list (Replace) and restarts of the        *)
(* server.  A tick copies the list, and then, per schedule, reads its      *)
(* membership, writes to the tub without holding the lock, and commits.    *)
(*                                                                         *)
(* The tub is its heat and filter power.  apply (Connect, Read, Write) is  *)
(* one step that fails, succeeds, or takes effect without the caller       *)
(* learning it; TubSession and TubExchange show how.  Schedule IDs are     *)
(* pairs of the Replace that made them and an index.                       *)
(***************************************************************************)
EXTENDS DailyWindow, Sequences, FiniteSets

CONSTANTS
    Lists,     \* the lists a file or a PUT may hold, all of them valid
    MaxLen,    \* bound on their lengths, maxSchedules in the code
    MaxEdits,  \* bound on the Replace calls of one behaviour
    Failures,  \* TRUE: apply may fail
    LostAcks,  \* TRUE: apply may fail although the tub obeyed
    Restarts,  \* TRUE: the server may restart
    Manual,    \* TRUE: somebody may use the tub's own controls
    Punctual   \* TRUE: every minute sees a whole tick

Schedule == [start : Minutes, stop : Minutes, mode : {"heat", "all"},
             enabled : BOOLEAN]

ASSUME SchedulerAssumption ==
    /\ MaxLen \in Nat /\ MaxEdits \in Nat
    /\ \A l \in Lists : l \in Seq(Schedule) /\ Len(l) <= MaxLen
    /\ {Failures, LostAcks, Restarts, Manual, Punctual} \subseteq BOOLEAN

Gens == 0 .. MaxEdits
Ids == Gens \X (1 .. MaxLen)

VARIABLES
    now,       \* the minute of the day
    ticked,    \* whether a tick has ended in this minute
    schedules, \* s.schedules
    gen,       \* the Replace that made them: the prefix of their IDs
    inWindow,  \* s.inWindow; "unseen" where the map has no entry
    tpc,       \* where tick is
    tlist, tgen, tnow,   \* its copy of the list and of the time
    ti,        \* the index it is at
    tedge,     \* the write it has decided on for that schedule
    tickOk,    \* whether all writes of the last tick were acknowledged
    heat, filter,        \* the tub's heat_power and filter_power
    who,       \* who last wrote the heat power: "user" or "sched"
    lit,       \* the IDs whose start edge the tub acknowledged and whose stop
               \* edge it has not, since a start or a change of the list
    free,      \* the heat was turned on by hand, outside every window, after
               \* every stop edge was acknowledged
    forgot     \* the scheduler turned the heat on and has no record of it: the
               \* answer was lost, or the map was emptied since

listVars == <<schedules, gen>>
tickVars == <<tlist, tgen, tnow>>
tubVars == <<heat, filter, who, lit, free, forgot>>
vars == <<now, ticked, listVars, inWindow, tpc, tickVars, ti, tedge, tickOk,
          tubVars>>

Unseen == [id \in Ids |-> "unseen"]

TypeOK ==
    /\ now \in Minutes /\ tnow \in Minutes
    /\ ticked \in BOOLEAN /\ tickOk \in BOOLEAN
    /\ schedules \in Lists /\ tlist \in Lists
    /\ gen \in Gens /\ tgen \in Gens
    /\ inWindow \in [Ids -> {"unseen", "out", "in"}]
    /\ tpc \in {"idle", "eval", "apply", "commit"}
    /\ ti \in 1 .. MaxLen + 1
    /\ tedge \in {"none", "on", "off"}
    /\ {heat, filter, free, forgot} \subseteq BOOLEAN
    /\ who \in {"user", "sched"}
    /\ lit \subseteq Ids

Init ==
    /\ now \in Minutes /\ tnow = now
    /\ ticked = FALSE /\ tickOk = FALSE
    /\ schedules \in Lists /\ tlist = schedules
    /\ gen = 0 /\ tgen = 0
    /\ inWindow = Unseen
    /\ tpc = "idle" /\ ti = 1 /\ tedge = "none"
    /\ heat = FALSE /\ filter = FALSE /\ who = "user"
    /\ lit = {} /\ free = FALSE /\ forgot = FALSE

-----------------------------------------------------------------------------
(* Windows.                                                                *)

Covers(sc, t) == sc.enabled /\ inDailyWindow(t, sc.start, sc.stop)
InSomeWindow(list, t) == \E i \in 1 .. Len(list) : Covers(list[i], t)

-----------------------------------------------------------------------------
(* tick.                                                                   *)

sc == tlist[ti]
SharedId == <<tgen, 1>>  \* variant: all schedules of a list have one ID
id == <<tgen, ti>>

TickStart ==
    /\ tpc = "idle"
    /\ tlist' = schedules /\ tgen' = gen /\ tnow' = now
    /\ ti' = 1 /\ tpc' = "eval" /\ tickOk' = TRUE
    /\ UNCHANGED <<now, ticked, listVars, inWindow, tedge, tubVars>>

\* Variants of EdgeFor: a first evaluation outside the window forces the tub
\* off; a first evaluation inside it does nothing.
EdgeForcingOff(prev, cur) ==
    IF cur /\ prev # "in" THEN "on"
    ELSE IF ~cur /\ prev # "out" THEN "off"
    ELSE "none"
EdgeIfSeen(prev, cur) ==
    IF cur /\ prev = "out" THEN "on"
    ELSE IF ~cur /\ prev = "in" THEN "off"
    ELSE "none"

\* The switch of the code: which edge a membership and its last committed
\* value call for.
EdgeFor(prev, cur) ==
    IF cur /\ prev # "in" THEN "on"
    ELSE IF ~cur /\ prev = "in" THEN "off"
    ELSE "none"

Skip ==
    /\ ti' = ti + 1
    /\ tpc' = "eval"

TickEval ==
    /\ tpc = "eval" /\ ti <= Len(tlist)
    /\ \/ /\ ~sc.enabled
          /\ Skip
          /\ UNCHANGED tedge
       \/ /\ sc.enabled
          /\ tedge' = EdgeFor(inWindow[id],
                              inDailyWindow(tnow, sc.start, sc.stop))
          /\ tpc' = IF tedge' = "none" THEN "commit" ELSE "apply"
          /\ UNCHANGED ti
    /\ UNCHANGED <<now, ticked, listVars, inWindow, tickVars, tickOk, tubVars>>

\* applyOn and applyOff: what reaches the tub.
Obey ==
    /\ heat' = (tedge = "on")
    /\ filter' = (tedge = "on" \/ sc.mode = "heat")
    /\ who' = "sched" /\ free' = FALSE
Acknowledge ==
    /\ lit' = IF tgen # gen THEN lit
              ELSE IF tedge = "on" THEN lit \cup {id} ELSE lit \ {id}
    /\ forgot' = (tedge = "on" /\ tgen # gen)
NoAnswer ==
    /\ lit' = lit
    /\ forgot' = (tedge = "on" /\ lit = {})

\* The edge is left uncommitted; and the variant that commits it all the same.
CommitAnyway ==
    /\ ti' = ti
    /\ tpc' = "commit"
AfterFailure == Skip

TickApply ==
    /\ tpc = "apply"
    /\ \/ /\ Obey /\ Acknowledge
          /\ tpc' = "commit"
          /\ UNCHANGED <<ti, tickOk>>
       \/ /\ Failures
          /\ AfterFailure
          /\ tickOk' = FALSE
          /\ UNCHANGED tubVars
       \/ /\ LostAcks
          /\ Obey /\ NoAnswer
          /\ AfterFailure
          /\ tickOk' = FALSE
    /\ UNCHANGED <<now, ticked, listVars, inWindow, tickVars, tedge>>

TickCommit ==
    /\ tpc = "commit"
    /\ inWindow' = [inWindow EXCEPT ![id] =
            IF inDailyWindow(tnow, sc.start, sc.stop) THEN "in" ELSE "out"]
    /\ Skip
    /\ UNCHANGED <<now, ticked, listVars, tickVars, tedge, tickOk, tubVars>>

TickEnd ==
    /\ tpc = "eval" /\ ti > Len(tlist)
    /\ tpc' = "idle" /\ ti' = 1 /\ tedge' = "none"
    /\ ticked' = TRUE
    /\ UNCHANGED <<now, listVars, inWindow, tickVars, tickOk, tubVars>>

-----------------------------------------------------------------------------
(* The other actors.                                                       *)

\* An empty map: nothing tells any more whose heat is on.
ForgetMembership ==
    /\ inWindow' = Unseen
    /\ lit' = {}
    /\ forgot' = (heat /\ who = "sched")

\* Replace after a successful save (SchedStore): fresh IDs, an empty map.
Replace ==
    /\ gen < MaxEdits
    /\ gen' = gen + 1
    /\ schedules' \in Lists
    /\ ForgetMembership
    /\ UNCHANGED <<now, ticked, tpc, tickVars, ti, tedge, tickOk, heat,
                   filter, who, free>>

\* The process ends at any point and starts again on the list it saved.
Restart ==
    /\ Restarts
    /\ ForgetMembership
    /\ tpc' = "idle" /\ ti' = 1 /\ tedge' = "none" /\ tickOk' = FALSE
    /\ UNCHANGED <<now, ticked, listVars, tickVars, heat, filter, who, free>>

\* The tub's panel, the app, or another request of the web interface.
UserSetsHeat ==
    /\ Manual
    /\ heat' = ~heat
    /\ who' = "user" /\ forgot' = FALSE
    /\ free' = (heat' /\ tpc = "idle" /\ lit = {}
                  /\ ~InSomeWindow(schedules, now))
    /\ UNCHANGED <<now, ticked, listVars, inWindow, tpc, tickVars, ti, tedge,
                   tickOk, filter, lit>>

NoMidnight == now + 1  \* variant: minutes since some midnight
NextMinute == (now + 1) % Day

MinutePasses ==
    /\ Punctual => ticked /\ tpc = "idle"
    /\ now' = NextMinute
    /\ ticked' = FALSE
    /\ UNCHANGED <<listVars, inWindow, tpc, tickVars, ti, tedge, tickOk,
                   tubVars>>

-----------------------------------------------------------------------------
Tick == TickStart \/ TickEval \/ TickApply \/ TickCommit \/ TickEnd
Next == Tick \/ Replace \/ Restart \/ UserSetsHeat \/ MinutePasses

Spec == Init /\ [][Next]_vars

\* The ticker keeps ticking and the goroutine runs; a tub asked again and
\* again in the end obeys and answers.  The clock may stand still, so that
\* the retries have to do it within the same part of the day.
Fairness == WF_vars(Tick) /\ SF_vars(TickApply /\ tpc' = "commit")
FairSpec == Spec /\ Fairness

-----------------------------------------------------------------------------
(* Properties.                                                             *)

\* The committed membership of a schedule is what the tub acknowledged: it is
\* "in" exactly from the start edge to the stop edge, across failures, lost
\* answers, list changes and restarts (sched.go:165-167, 181-185).
MembershipIsLit ==
    \A i \in 1 .. MaxLen :
        \/ tpc = "commit" /\ id = <<gen, i>>
        \/ (inWindow[<<gen, i>>] = "in" <=> <<gen, i>> \in lit)

\* A session somebody starts by hand outside the windows, once the stop edge
\* is done, is not stopped by the scheduler (sched.go:172-173).
ManualNotStomped == [][(free /\ ~heat') => who' = "user"]_vars

Settled == tpc = "idle" /\ ticked /\ tickOk /\ tgen = gen

\* After a tick whose writes all landed the heater is on if any window covers
\* the time of the tick (README.md:122-124).
HeatsInsideWindows == Settled /\ InSomeWindow(tlist, tnow) => heat

\* After such a tick outside every window, heat the scheduler turned on is
\* off again, whatever failed, got lost, was edited or restarted before, and
\* however these follow on one another.  It stays on in two ways only: its
\* start was not committed, as its answer was lost or its list replaced
\* meanwhile (sched.go:181, 183), or the map was emptied since (sched.go:119).
NoForgottenHeat ==
    Settled /\ heat /\ who = "sched" /\ ~forgot => InSomeWindow(tlist, tnow)

\* The heater the scheduler left on past a window is turned off within the
\* same part of the day, and a window that has begun gets its heat, however
\* often the writes fail (sched.go:165-167).
EdgesRetried ==
    LET inside == InSomeWindow(schedules, now) IN
    /\ (heat /\ who = "sched" /\ ~inside) ~> (~heat \/ inside)
    /\ (~heat /\ inside) ~> (heat \/ ~inside)
=============================================================================
