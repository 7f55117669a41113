---------------------------- MODULE Scheduler_proofs --------------------------
(***************************************************************************)
(* Proofs about DailyWindow and Scheduler, for a day of any length, any    *)
(* lists of schedules and any number of edits.                             *)
(*                                                                         *)
(* A membership is committed in a step of its own, after the write it      *)
(* calls for and with the list and the time that the tick copied, so the   *)
(* invariants say what is known of the schedule the tick is at, of those   *)
(* it is past, and of a tick whose list was replaced meanwhile.            *)
(***************************************************************************)
EXTENDS Scheduler, TLAPS

\* The tick is at a schedule of its list.
AtSchedule == tpc \in {"apply", "commit"} => ti <= Len(tlist)
TypeInv == TypeOK /\ AtSchedule

\* Its list has the IDs of its generation: another list has others.
CopyInv == tgen <= gen /\ (tgen = gen => tlist = schedules)

Inside == inDailyWindow(tnow, sc.start, sc.stop)

\* A start edge is written inside the window and a stop edge outside it, and
\* when the write is done the tub has acknowledged what is to be committed.
EdgeInv ==
    /\ tpc \in {"apply", "commit"} => sc.enabled
    /\ tpc = "apply" => tedge = IF Inside THEN "on" ELSE "off"
    /\ tpc = "commit" /\ tgen = gen => (Inside <=> id \in lit)

\* A tick whose list was replaced finds the map emptied for what is left of it.
StaleInv ==
    tpc # "idle" /\ tgen # gen =>
        /\ lit = {}
        /\ \A i \in 1 .. MaxLen : i >= ti => inWindow[<<tgen, i>>] # "in"

MembershipInv == TypeInv /\ CopyInv /\ EdgeInv /\ StaleInv /\ MembershipIsLit

\* Heat that somebody turned on by hand is not about to be turned off.
FreeInv ==
    free => /\ heat /\ who = "user" /\ lit = {}
            /\ tpc = "apply" => tedge = "on"

\* Every schedule that the tick is past was committed as of the tick's time,
\* if no write of it failed.
Past(i) == i < ti \/ (tpc = "idle" /\ ticked)
PastInv ==
    tickOk /\ tgen = gen =>
        \A i \in 1 .. Len(tlist) :
            Past(i) /\ tlist[i].enabled =>
                (inWindow[<<gen, i>>] = "in" <=> Covers(tlist[i], tnow))

\* What is lit is a window of the list that is in use.
LitListed ==
    \A x \in lit : \E i \in 1 .. Len(schedules) :
        x = <<gen, i>> /\ schedules[i].enabled

\* With one window at a time, what is lit is on.
OneWindow == \A l \in Lists : \A i, j \in 1 .. Len(l) :
                l[i].enabled /\ l[j].enabled => i = j
LitIsOn == lit # {} => heat

\* What the scheduler turned on is lit, or forgotten.
OnIsLit == heat /\ who = "sched" /\ ~forgot => lit # {}

-----------------------------------------------------------------------------
(* Windows.                                                                *)

\* A window and the one from its end to its start part the day between them,
\* each begins in the window and ends outside it, and no minute lies in a
\* window whose ends are equal (sched.go:270-282).
THEOREM WindowsPartTheDay ==
  ASSUME NEW s \in Minutes, NEW e \in Minutes, NEW t \in Minutes
  PROVE  /\ s # e => (inDailyWindow(t, s, e) <=> ~inDailyWindow(t, e, s))
         /\ s # e => inDailyWindow(s, s, e) /\ ~inDailyWindow(e, s, e)
         /\ ~inDailyWindow(t, s, s)
BY DayAssumption DEF inDailyWindow, Minutes

\* From one minute to the next, midnight or not, a window is entered only at
\* its start and left only at its end: a tick in every minute sees each edge
\* in the minute the user set (sched.go:270-282).
THEOREM EdgesAtTheEnds ==
  ASSUME NEW s \in Minutes, NEW e \in Minutes, NEW t \in Minutes
  PROVE  LET next == (t + 1) % Day IN
         /\ ~inDailyWindow(t, s, e) /\ inDailyWindow(next, s, e) => next = s
         /\ inDailyWindow(t, s, e) /\ ~inDailyWindow(next, s, e) => next = e
<1>1. Day \in Nat /\ Day > 0
  BY DayAssumption
<1>2. CASE t = Day - 1
  <2>1. (t + 1) % Day = 0
    BY <1>1, <1>2
  <2> QED
    BY <1>1, <1>2, <2>1 DEF inDailyWindow, Minutes
<1>3. CASE t # Day - 1
  <2>1. (t + 1) % Day = t + 1
    BY <1>1, <1>3 DEF Minutes
  <2> QED
    BY <1>1, <1>3, <2>1 DEF inDailyWindow, Minutes
<1> QED
  BY <1>2, <1>3

-----------------------------------------------------------------------------
(* Types.                                                                  *)

LEMMA ScheduleTypes ==
  ASSUME TypeInv
  PROVE  /\ MaxLen \in Nat /\ MaxEdits \in Nat
         /\ tlist \in Seq(Schedule) /\ Len(tlist) \in Nat /\ Len(tlist) <= MaxLen
         /\ \A i \in 1 .. Len(tlist) : tlist[i] \in Schedule
         /\ ti <= Len(tlist) => sc \in Schedule /\ id \in Ids /\ id = <<tgen, ti>>
<1>1. /\ MaxLen \in Nat /\ MaxEdits \in Nat
      /\ tlist \in Seq(Schedule) /\ Len(tlist) <= MaxLen
  BY SchedulerAssumption DEF SchedulerAssumption, TypeInv, TypeOK
<1>2. ti \in 1 .. MaxLen + 1 /\ tgen \in Gens
  BY DEF TypeInv, TypeOK
<1>3. ti <= Len(tlist) => ti \in 1 .. Len(tlist) /\ ti \in 1 .. MaxLen
  BY <1>1, <1>2
<1> QED
  BY <1>1, <1>2, <1>3 DEF sc, id, Ids

LEMMA StepTypeInv == TypeInv /\ [Next]_vars => TypeInv'
<1> SUFFICES ASSUME TypeInv, [Next]_vars PROVE TypeInv'
  OBVIOUS
<1> USE DEF listVars, tickVars, tubVars
<1>0. TypeOK /\ AtSchedule /\ Unseen \in [Ids -> {"unseen", "out", "in"}]
  BY DEF TypeInv, Unseen
<1>1. CASE TickStart
  BY <1>0, <1>1, SchedulerAssumption
     DEF TickStart, TypeInv, TypeOK, AtSchedule, SchedulerAssumption
<1>2. ASSUME ti <= Len(tlist), Skip
      PROVE  ti' \in 1 .. MaxLen + 1 /\ tpc' = "eval"
  BY <1>0, <1>2, ScheduleTypes DEF Skip, TypeOK
<1>3. CASE TickEval
  <2>1. EdgeFor(inWindow[id], inDailyWindow(tnow, sc.start, sc.stop))
          \in {"none", "on", "off"}
    BY DEF EdgeFor
  <2>2. /\ ti' \in 1 .. MaxLen + 1 /\ tedge' \in {"none", "on", "off"}
        /\ tpc' \in {"eval", "apply", "commit"}
        /\ tpc' \in {"apply", "commit"} => ti' = ti /\ ti <= Len(tlist)
    BY <1>0, <1>2, <1>3, <2>1 DEF TickEval, TypeOK
  <2>3. TypeOK'
    BY <1>0, <1>3, <2>2 DEF TickEval, TypeOK
  <2> QED
    BY <1>3, <2>2, <2>3 DEF TickEval, TypeInv, AtSchedule
<1>4. CASE TickApply
  <2>1. ti <= Len(tlist)
    BY <1>0, <1>4 DEF TickApply, AtSchedule
  <2>2. /\ ti' \in 1 .. MaxLen + 1 /\ tickOk' \in BOOLEAN
        /\ tpc' = "eval" \/ (tpc' = "commit" /\ ti' = ti)
    BY <1>0, <1>2, <1>4, <2>1 DEF TickApply, AfterFailure, TypeOK
  <2>3. /\ heat' \in BOOLEAN /\ filter' \in BOOLEAN /\ free' \in BOOLEAN
        /\ forgot' \in BOOLEAN /\ who' \in {"user", "sched"}
    BY <1>0, <1>4 DEF TickApply, Obey, Acknowledge, NoAnswer, TypeOK
  <2>4. lit' \subseteq Ids
    BY <1>0, <1>4, <2>1, ScheduleTypes
       DEF TickApply, Acknowledge, NoAnswer, TypeOK
  <2>5. TypeOK'
    BY <1>0, <1>4, <2>2, <2>3, <2>4 DEF TickApply, TypeOK
  <2> QED
    BY <1>4, <2>1, <2>2, <2>5 DEF TickApply, TypeInv, AtSchedule
<1>5. CASE TickCommit
  <2>1. ti' \in 1 .. MaxLen + 1 /\ tpc' = "eval"
    BY <1>0, <1>2, <1>5 DEF TickCommit, AtSchedule
  <2>2. inWindow' \in [Ids -> {"unseen", "out", "in"}]
    BY <1>0, <1>5 DEF TickCommit, TypeOK
  <2> QED
    BY <1>0, <1>5, <2>1, <2>2 DEF TickCommit, TypeInv, TypeOK, AtSchedule
<1>6. CASE TickEnd
  BY <1>0, <1>6, SchedulerAssumption
     DEF TickEnd, TypeInv, TypeOK, AtSchedule, SchedulerAssumption
<1>7. CASE Replace
  <2>1. gen' \in Gens
    BY <1>0, <1>7, SchedulerAssumption
       DEF Replace, TypeOK, Gens, SchedulerAssumption
  <2> QED
    BY <1>0, <1>7, <2>1
       DEF Replace, ForgetMembership, TypeInv, TypeOK, AtSchedule
<1>8. CASE Restart
  <2>1. 1 \in 1 .. MaxLen + 1
    BY SchedulerAssumption DEF SchedulerAssumption
  <2>2. /\ inWindow' \in [Ids -> {"unseen", "out", "in"}]
        /\ lit' \subseteq Ids
    BY <1>0, <1>8 DEF Restart, ForgetMembership
  <2> QED
    BY <1>0, <1>8, <2>1, <2>2
       DEF Restart, ForgetMembership, TypeInv, TypeOK, AtSchedule
<1>9. CASE UserSetsHeat
  <2>1. free' \in BOOLEAN /\ heat' \in BOOLEAN
    BY <1>0, <1>9 DEF UserSetsHeat, TypeOK
  <2> QED
    BY <1>0, <1>9, <2>1 DEF UserSetsHeat, TypeInv, TypeOK, AtSchedule
<1>10. CASE MinutePasses
  <2>1. now' \in Minutes
    BY <1>0, <1>10, DayAssumption
       DEF MinutePasses, NextMinute, TypeOK, Minutes
  <2> QED
    BY <1>0, <1>10, <2>1 DEF MinutePasses, TypeInv, TypeOK, AtSchedule
<1>11. CASE UNCHANGED vars
  BY <1>0, <1>11 DEF vars, TypeInv, TypeOK, AtSchedule
<1> QED
  BY <1>1, <1>3, <1>4, <1>5, <1>6, <1>7, <1>8, <1>9, <1>10, <1>11
     DEF Next, Tick

LEMMA InitTypeInv == Init => TypeInv
<1> SUFFICES ASSUME Init PROVE TypeInv
  OBVIOUS
<1>1. MaxLen \in Nat /\ MaxEdits \in Nat
  BY SchedulerAssumption DEF SchedulerAssumption
<1>2. Unseen \in [Ids -> {"unseen", "out", "in"}]
  BY DEF Unseen
<1>3. gen \in Gens /\ tgen \in Gens /\ ti \in 1 .. MaxLen + 1
  BY <1>1 DEF Init, Gens
<1>4. inWindow \in [Ids -> {"unseen", "out", "in"}] /\ lit \subseteq Ids
  BY <1>2 DEF Init
<1> QED
  BY <1>3, <1>4 DEF Init, TypeInv, TypeOK, AtSchedule

\* The types hold, whatever edits, failures, restarts and manual changes come
\* between the steps of a tick (sched.go:131-190); in particular the tick is
\* never past the end of the list it copied when it writes or commits.
THEOREM SchedulerTypes == Spec => []TypeOK
<1>1. TypeInv => TypeOK
  BY DEF TypeInv
<1>2. QED
  BY <1>1, InitTypeInv, StepTypeInv, PTL DEF Spec

-----------------------------------------------------------------------------
(* Membership.                                                             *)

\* What a stale or a current tick leaves of the lists.
LEMMA StepCopyInv == TypeInv /\ CopyInv /\ [Next]_vars => CopyInv'
<1> SUFFICES ASSUME TypeInv, CopyInv, [Next]_vars PROVE CopyInv'
  OBVIOUS
<1>1. gen \in Nat /\ tgen \in Nat
  BY SchedulerAssumption DEF TypeInv, TypeOK, Gens, SchedulerAssumption
<1>2. CASE Replace
  BY <1>1, <1>2 DEF Replace, CopyInv, tickVars
<1>3. CASE TickStart
  BY <1>1, <1>3 DEF TickStart, CopyInv, listVars
<1>4. CASE UNCHANGED <<listVars, tickVars>>
  BY <1>4 DEF CopyInv, listVars, tickVars
<1>5. CASE TickEval \/ TickApply \/ TickCommit \/ TickEnd \/ Restart
           \/ UserSetsHeat \/ MinutePasses \/ UNCHANGED vars
  BY <1>4, <1>5 DEF TickEval, TickApply, TickCommit, TickEnd, Restart,
                    UserSetsHeat, MinutePasses, vars
<1> QED
  BY <1>2, <1>3, <1>5 DEF Next, Tick

\* What a step may do to the membership of one schedule of one list.
LEMMA InWindowEffect ==
  ASSUME TypeInv, [Next]_vars, NEW x \in Ids
  PROVE  \/ inWindow'[x] = inWindow[x]
         \/ inWindow'[x] = "unseen"
         \/ TickCommit /\ x = id
<1>1. CASE TickCommit
  BY <1>1 DEF TickCommit, TypeInv, TypeOK
<1>2. CASE Replace \/ Restart
  BY <1>2 DEF Replace, ForgetMembership, Restart, Unseen
<1>3. CASE TickStart \/ TickEval \/ TickApply \/ TickEnd \/ UserSetsHeat
           \/ MinutePasses \/ UNCHANGED vars
  BY <1>3 DEF TickStart, TickEval, TickApply, TickEnd, UserSetsHeat,
              MinutePasses, vars
<1> QED
  BY <1>1, <1>2, <1>3 DEF Next, Tick

\* And to what is lit.
LEMMA LitEffect ==
  ASSUME [Next]_vars
  PROVE  \/ lit' = lit /\ (gen' = gen)
         \/ lit' = {}
         \/ /\ TickApply /\ tgen = gen /\ tpc' = "commit"
            /\ lit' = IF tedge = "on" THEN lit \cup {id} ELSE lit \ {id}
BY DEF Next, Tick, TickStart, TickEval, TickApply, Acknowledge, NoAnswer,
       TickCommit, TickEnd, Replace, Restart, ForgetMembership,
       UserSetsHeat, MinutePasses, vars, tubVars, listVars

LEMMA StepStaleInv ==
  TypeInv /\ CopyInv /\ StaleInv /\ TypeInv' /\ [Next]_vars => StaleInv'
<1> SUFFICES ASSUME TypeInv, CopyInv, StaleInv, TypeInv', [Next]_vars,
                    tpc' # "idle", tgen' # gen'
             PROVE  /\ lit' = {}
                    /\ \A i \in 1 .. MaxLen :
                          i >= ti' => inWindow'[<<tgen', i>>] # "in"
  BY DEF StaleInv
<1>1. CASE Replace
  <2>1. tgen' \in Gens
    BY DEF TypeInv, TypeOK
  <2>2. \A i \in 1 .. MaxLen : <<tgen', i>> \in Ids
    BY <2>1 DEF Ids
  <2> QED
    BY <1>1, <2>2 DEF Replace, ForgetMembership, Unseen
<1>2. CASE ~Replace
  <2>1. tpc # "idle" /\ UNCHANGED <<tgen, gen>> /\ ti <= ti'
    <3>1. ti \in Nat
      BY DEF TypeInv, TypeOK
    <3>2. CASE TickStart \/ TickEnd \/ Restart
      BY <3>2 DEF TickStart, TickEnd, Restart, listVars
    <3>3. CASE TickEval
      BY <3>1, <3>3 DEF TickEval, Skip, listVars, tickVars
    <3>4. CASE TickApply
      BY <3>1, <3>4 DEF TickApply, AfterFailure, Skip, listVars, tickVars
    <3>5. CASE TickCommit
      BY <3>1, <3>5 DEF TickCommit, Skip, listVars, tickVars
    <3>6. CASE UserSetsHeat \/ MinutePasses \/ UNCHANGED vars
      BY <3>1, <3>6 DEF UserSetsHeat, MinutePasses, vars, listVars, tickVars
    <3> QED
      BY <1>2, <3>2, <3>3, <3>4, <3>5, <3>6 DEF Next, Tick
  <2>2. lit' = {}
    BY <2>1, LitEffect DEF StaleInv
  <2>3. ASSUME NEW i \in 1 .. MaxLen, i >= ti'
        PROVE  inWindow'[<<tgen', i>>] # "in"
    <3>1. <<tgen, i>> \in Ids /\ tgen' = tgen
      BY <2>1 DEF Ids, TypeInv, TypeOK
    <3>2. inWindow[<<tgen, i>>] # "in"
      BY <2>1, <2>3 DEF StaleInv, TypeInv, TypeOK
    <3>3. ~(TickCommit /\ <<tgen, i>> = id)
      BY <2>3 DEF TickCommit, Skip, id, TypeInv, TypeOK
    <3> QED
      BY <3>1, <3>2, <3>3, InWindowEffect
  <2> QED
    BY <2>2, <2>3
<1> QED
  BY <1>1, <1>2

\* The same schedule, time and list before and after a step of the tick at it.
LEMMA SameSchedule ==
  ASSUME UNCHANGED <<tickVars, ti>>
  PROVE  UNCHANGED <<sc, id, Inside>>
BY DEF tickVars, sc, id, Inside

LEMMA StepEdgeInv ==
  MembershipInv /\ TypeInv' /\ [Next]_vars => EdgeInv'
<1> SUFFICES ASSUME MembershipInv, TypeInv', [Next]_vars PROVE EdgeInv'
  OBVIOUS
<1> USE DEF MembershipInv
<1>1. CASE TickEval
  <2>1. CASE tpc' = "eval"
    BY <2>1 DEF EdgeInv
  <2>2. CASE tpc' # "eval"
    <3>1. /\ sc.enabled /\ tedge' = EdgeFor(inWindow[id], Inside)
          /\ tpc' = IF tedge' = "none" THEN "commit" ELSE "apply"
          /\ UNCHANGED <<tickVars, ti, gen, lit>> /\ ti <= Len(tlist)
      BY <1>1, <2>2 DEF TickEval, Skip, Inside, listVars, tubVars
    <3>2. UNCHANGED <<sc, id, Inside, tgen>>
      BY <3>1, SameSchedule DEF tickVars
    <3>3. tpc' = "apply" => tedge' = IF Inside THEN "on" ELSE "off"
      BY <3>1 DEF EdgeFor
    <3>4. ASSUME tpc' = "commit", tgen = gen PROVE Inside <=> id \in lit
      <4>1. Inside <=> inWindow[id] = "in"
        BY <3>1, <3>4 DEF EdgeFor
      <4>2. id = <<gen, ti>> /\ ti \in 1 .. MaxLen /\ tpc # "commit"
        BY <1>1, <3>1, <3>4, ScheduleTypes DEF TickEval, TypeInv, TypeOK
      <4> QED
        BY <4>1, <4>2 DEF MembershipIsLit
    <3> QED
      BY <3>1, <3>2, <3>3, <3>4 DEF EdgeInv
  <2> QED
    BY <2>1, <2>2
<1>2. CASE TickApply
  <2>1. CASE tpc' = "eval"
    BY <2>1 DEF EdgeInv
  <2>2. CASE tpc' # "eval"
    <3>1. /\ Acknowledge /\ tpc' = "commit" /\ tpc = "apply"
          /\ UNCHANGED <<tickVars, ti, gen>>
      BY <1>2, <2>2 DEF TickApply, AfterFailure, Skip, listVars
    <3>2. UNCHANGED <<sc, id, Inside, tgen>>
      BY <3>1, SameSchedule DEF tickVars
    <3>3. sc.enabled /\ tedge = IF Inside THEN "on" ELSE "off"
      BY <3>1 DEF EdgeInv
    <3>4. tgen = gen => (Inside <=> id \in lit')
      BY <3>1, <3>3 DEF Acknowledge
    <3> QED
      BY <3>1, <3>2, <3>3, <3>4 DEF EdgeInv
  <2> QED
    BY <2>1, <2>2
<1>3. CASE Replace
  <2>1. /\ UNCHANGED <<tpc, tickVars, ti, tedge, tgen>> /\ gen' = gen + 1
        /\ tgen <= gen
    BY <1>3 DEF Replace, CopyInv, tickVars
  <2>2. UNCHANGED <<sc, id, Inside>>
    BY <2>1, SameSchedule
  <2>3. tgen' # gen'
    BY <2>1, SchedulerAssumption
       DEF TypeInv, TypeOK, Gens, SchedulerAssumption
  <2> QED
    BY <2>1, <2>2, <2>3 DEF EdgeInv
<1>4. CASE TickStart \/ TickCommit \/ TickEnd \/ Restart
  <2>1. tpc' \in {"eval", "idle"}
    BY <1>4 DEF TickStart, TickCommit, Skip, TickEnd, Restart
  <2> QED
    BY <2>1 DEF EdgeInv
<1>5. CASE UserSetsHeat \/ MinutePasses \/ UNCHANGED vars
  <2>1. UNCHANGED <<tpc, tickVars, ti, tedge, gen, lit>>
    BY <1>5 DEF UserSetsHeat, MinutePasses, vars, listVars, tubVars
  <2>2. UNCHANGED <<sc, id, Inside, tgen>>
    BY <2>1, SameSchedule DEF tickVars
  <2> QED
    BY <2>1, <2>2 DEF EdgeInv
<1> QED
  BY <1>1, <1>2, <1>3, <1>4, <1>5 DEF Next, Tick

LEMMA StepMembership ==
  MembershipInv /\ TypeInv' /\ [Next]_vars => MembershipIsLit'
<1> SUFFICES ASSUME MembershipInv, TypeInv', [Next]_vars, NEW i \in 1 .. MaxLen
             PROVE  \/ tpc' = "commit" /\ id' = <<gen', i>>
                    \/ (inWindow'[<<gen', i>>] = "in" <=> <<gen', i>> \in lit')
  BY DEF MembershipIsLit
<1> USE DEF MembershipInv
<1> DEFINE x == <<gen, i>>
<1>1. x \in Ids /\ <<gen', i>> \in Ids
  BY DEF TypeInv, TypeOK, Ids
<1>2. (tpc = "commit" /\ id = x) \/ (inWindow[x] = "in" <=> x \in lit)
  BY DEF MembershipIsLit
<1>3. CASE Replace \/ Restart
  BY <1>1, <1>3 DEF Replace, ForgetMembership, Restart, Unseen
<1>4. CASE TickApply
  <2>1. tpc = "apply" /\ inWindow' = inWindow /\ UNCHANGED <<gen, tickVars>>
    BY <1>4 DEF TickApply, listVars
  <2>2. CASE lit' = lit
    BY <1>2, <2>1, <2>2
  <2>3. CASE lit' # lit
    <3>1. tpc' = "commit" /\ ti' = ti
      BY <1>4, <2>3 DEF TickApply, NoAnswer, tubVars
    <3>2. id' = id
      BY <2>1, <3>1, SameSchedule
    <3>3. lit' = IF tedge = "on" THEN lit \cup {id} ELSE lit \ {id}
      BY <1>4, <2>1, <2>3 DEF TickApply, Acknowledge, NoAnswer, tubVars
    <3> QED
      BY <1>2, <2>1, <3>1, <3>2, <3>3
  <2> QED
    BY <2>2, <2>3
<1>5. CASE TickCommit
  <2>1. tpc = "commit" /\ UNCHANGED <<gen, lit>>
    BY <1>5 DEF TickCommit, listVars, tubVars
  <2>2. inWindow'[x] = IF x = id THEN IF Inside THEN "in" ELSE "out"
                       ELSE inWindow[x]
    BY <1>1, <1>5 DEF TickCommit, TypeInv, TypeOK, Inside
  <2>3. x = id => tgen = gen
    BY DEF id
  <2> QED
    BY <1>2, <2>1, <2>2, <2>3 DEF EdgeInv
<1>6. CASE TickStart \/ TickEval \/ TickEnd
  <2>1. tpc # "commit" /\ UNCHANGED <<gen, lit, inWindow>>
    BY <1>6 DEF TickStart, TickEval, TickEnd, listVars, tubVars
  <2> QED
    BY <1>2, <2>1
<1>7. CASE UserSetsHeat \/ MinutePasses \/ UNCHANGED vars
  <2>1. UNCHANGED <<gen, lit, inWindow, tpc, ti, tickVars>>
    BY <1>7 DEF UserSetsHeat, MinutePasses, vars, listVars, tubVars
  <2> QED
    BY <1>2, <2>1, SameSchedule
<1> QED
  BY <1>3, <1>4, <1>5, <1>6, <1>7 DEF Next, Tick

LEMMA StepMembershipInv == MembershipInv /\ [Next]_vars => MembershipInv'
BY StepTypeInv, StepCopyInv, StepEdgeInv, StepStaleInv, StepMembership
   DEF MembershipInv

LEMMA InitMembershipInv == Init => MembershipInv
<1> SUFFICES ASSUME Init PROVE MembershipInv
  OBVIOUS
<1>1. TypeInv /\ gen = 0 /\ tgen = 0 /\ tlist = schedules /\ tpc = "idle"
  BY InitTypeInv DEF Init
<1>2. CopyInv /\ EdgeInv /\ StaleInv
  BY <1>1 DEF CopyInv, EdgeInv, StaleInv
<1>3. MembershipIsLit
  <2>1. \A i \in 1 .. MaxLen : <<gen, i>> \in Ids
    BY <1>1 DEF Ids, TypeInv, TypeOK
  <2> QED
    BY <2>1 DEF Init, Unseen, MembershipIsLit
<1> QED
  BY <1>1, <1>2, <1>3 DEF MembershipInv

\* A schedule's committed membership is what the tub acknowledged: "in"
\* exactly between its start edge and its stop edge, whatever fails, is
\* replaced or restarts while tick waits for the tub (sched.go:165-167,
\* 181-185).
THEOREM MembershipTracksTub == Spec => []MembershipIsLit
<1>1. MembershipInv => MembershipIsLit
  BY DEF MembershipInv
<1>2. QED
  BY <1>1, InitMembershipInv, StepMembershipInv, PTL DEF Spec

-----------------------------------------------------------------------------
(* Manual control.                                                         *)

LEMMA StepFreeInv ==
  MembershipInv /\ FreeInv /\ [Next]_vars => FreeInv'
<1> SUFFICES ASSUME MembershipInv, FreeInv, [Next]_vars, free'
             PROVE  /\ heat' /\ who' = "user" /\ lit' = {}
                    /\ tpc' = "apply" => tedge' = "on"
  BY DEF FreeInv
<1> USE DEF MembershipInv
<1>1. CASE UserSetsHeat
  BY <1>1 DEF UserSetsHeat
<1>2. CASE TickEval
  <2>1. UNCHANGED <<heat, who, lit, free>> /\ lit = {}
    BY <1>2 DEF TickEval, tubVars, FreeInv
  <2>2. ASSUME tpc' = "apply" PROVE tedge' = "on"
    <3>1. /\ tedge' = EdgeFor(inWindow[id], Inside) /\ tedge' # "none"
          /\ tpc = "eval" /\ ti <= Len(tlist)
      BY <1>2, <2>2 DEF TickEval, Skip, Inside
    <3>2. id = <<tgen, ti>> /\ ti \in 1 .. MaxLen
      BY <3>1, ScheduleTypes DEF TypeInv, TypeOK
    <3>3. inWindow[id] # "in"
      <4>1. CASE tgen = gen
        BY <2>1, <3>1, <3>2, <4>1 DEF MembershipIsLit
      <4>2. CASE tgen # gen
        BY <3>1, <3>2, <4>2 DEF StaleInv
      <4> QED
        BY <4>1, <4>2
    <3> QED
      BY <3>1, <3>3 DEF EdgeFor
  <2> QED
    BY <1>2, <2>1, <2>2 DEF FreeInv
<1>3. CASE TickApply
  <2>1. free /\ UNCHANGED <<heat, who>> /\ tpc' # "apply"
    BY <1>3 DEF TickApply, Obey, AfterFailure, Skip, tubVars
  <2>2. lit' = lit
    BY <1>3 DEF TickApply, Obey, AfterFailure, Skip, tubVars
  <2> QED
    BY <2>1, <2>2 DEF FreeInv
<1>4. CASE TickStart \/ TickCommit \/ TickEnd
  <2>1. UNCHANGED <<heat, who, lit, free>> /\ tpc' # "apply"
    BY <1>4 DEF TickStart, TickCommit, Skip, TickEnd, tubVars
  <2> QED
    BY <2>1 DEF FreeInv
<1>5. CASE Replace \/ Restart
  BY <1>5 DEF Replace, Restart, ForgetMembership, FreeInv
<1>6. CASE MinutePasses \/ UNCHANGED vars
  <2>1. UNCHANGED <<heat, who, lit, free, tpc, tedge>>
    BY <1>6 DEF MinutePasses, vars, tubVars
  <2> QED
    BY <2>1 DEF FreeInv
<1> QED
  BY <1>1, <1>2, <1>3, <1>4, <1>5, <1>6 DEF Next, Tick

\* Heat that somebody turns on by hand outside the windows, once the stop
\* edges are done, is turned off by nobody but a user: no later tick, retry,
\* edit or restart makes the scheduler write the off edge again
\* (sched.go:172-173).
THEOREM ManualKept == Spec => ManualNotStomped
<1>1. Init => FreeInv
  BY DEF Init, FreeInv
<1>2. ASSUME MembershipInv, FreeInv, [Next]_vars, free, ~heat'
      PROVE  who' = "user"
  <2>1. heat /\ who = "user" /\ (tpc = "apply" => tedge = "on")
    BY <1>2 DEF FreeInv
  <2>2. CASE UserSetsHeat
    BY <2>2 DEF UserSetsHeat
  <2>3. CASE TickApply
    BY <1>2, <2>1, <2>3 DEF TickApply, Obey, tubVars
  <2>4. CASE TickStart \/ TickEval \/ TickCommit \/ TickEnd \/ Replace
             \/ Restart \/ MinutePasses \/ UNCHANGED vars
    BY <2>1, <2>4 DEF TickStart, TickEval, TickCommit, TickEnd, Replace,
                      Restart, MinutePasses, vars, tubVars
  <2> QED
    BY <1>2, <2>2, <2>3, <2>4 DEF Next, Tick
<1>3. MembershipInv /\ FreeInv /\ [Next]_vars
        => [(free /\ ~heat') => who' = "user"]_vars
  BY <1>2
<1>4. QED
  BY <1>1, <1>3, InitMembershipInv, StepMembershipInv, StepFreeInv, PTL
     DEF Spec, ManualNotStomped

-----------------------------------------------------------------------------
(* What a tick whose writes all landed leaves behind.                      *)

LEMMA StepPastInv ==
  MembershipInv /\ PastInv /\ MembershipInv' /\ [Next]_vars => PastInv'
<1> SUFFICES ASSUME MembershipInv, PastInv, MembershipInv', [Next]_vars,
                    tickOk', tgen' = gen',
                    NEW i \in 1 .. Len(tlist'), Past(i)', tlist'[i].enabled
             PROVE  inWindow'[<<gen', i>>] = "in" <=> Covers(tlist'[i], tnow')
  BY DEF PastInv, Past
<1>1. ti \in Nat /\ i \in Nat /\ i >= 1
  BY DEF MembershipInv, TypeInv, TypeOK
<1>2. ~Replace
  <2>1. gen \in Nat /\ tgen \in Nat /\ tgen <= gen
    BY SchedulerAssumption
       DEF MembershipInv, CopyInv, TypeInv, TypeOK, Gens, SchedulerAssumption
  <2>2. Replace => tgen' = tgen /\ gen' = gen + 1
    BY DEF Replace, tickVars
  <2>3. tgen' = gen'
    OBVIOUS
  <2> QED
    BY <2>1, <2>2, <2>3
<1>3. ~TickStart /\ ~Restart
  BY <1>1 DEF TickStart, Restart, Past
<1>4. UNCHANGED <<tickVars, gen>>
  BY <1>2, <1>3 DEF Next, Tick, TickEval, TickApply, TickCommit, TickEnd,
                    UserSetsHeat, MinutePasses, vars, listVars, tickVars
<1>5. ASSUME UNCHANGED inWindow, tickOk, Past(i)
      PROVE  inWindow'[<<gen', i>>] = "in" <=> Covers(tlist'[i], tnow')
  BY <1>4, <1>5 DEF PastInv, Covers, tickVars
<1>6. CASE TickEval
  <2>1. UNCHANGED <<inWindow, tickOk>> /\ tpc' # "idle"
    BY <1>6 DEF TickEval, Skip, EdgeFor
  <2>2. i < ti'
    BY <2>1 DEF Past
  <2>3. i # ti \/ ti' = ti
    BY <1>4, <1>6 DEF TickEval, sc, tickVars
  <2>4. Past(i)
    BY <1>1, <1>6, <2>2, <2>3 DEF TickEval, Skip, Past
  <2> QED
    BY <1>5, <2>1, <2>4
<1>7. CASE TickApply
  <2>1. UNCHANGED <<inWindow, tickOk, ti>> /\ tpc' = "commit"
    BY <1>7 DEF TickApply
  <2> QED
    BY <1>5, <2>1 DEF Past
<1>8. CASE TickCommit
  <2>1. i <= ti
    <3>1. ti' = ti + 1 /\ tpc' = "eval"
      BY <1>8 DEF TickCommit, Skip
    <3>2. i < ti'
      BY <3>1 DEF Past
    <3> QED
      BY <1>1, <3>1, <3>2
  <2>2. CASE i = ti
    <3>1. id = <<gen, i>> /\ id \in Ids
      BY <1>4, <1>8, <2>2, ScheduleTypes
         DEF TickCommit, MembershipInv, TypeInv, AtSchedule, tickVars
    <3>2. inWindow'[id] = IF Inside THEN "in" ELSE "out"
      BY <1>8, <3>1 DEF TickCommit, MembershipInv, TypeInv, TypeOK, Inside
    <3> QED
      BY <1>4, <2>2, <3>1, <3>2 DEF Covers, Inside, sc, tickVars
  <2>3. CASE i # ti
    <3>1. <<gen, i>> \in Ids
      BY <1>4, ScheduleTypes
         DEF MembershipInv, TypeInv, TypeOK, Ids, tickVars
    <3>2. inWindow'[<<gen, i>>] = inWindow[<<gen, i>>]
      BY <1>8, <2>3, <3>1 DEF TickCommit, id, MembershipInv, TypeInv, TypeOK
    <3>3. Past(i)
      BY <1>1, <2>1, <2>3 DEF Past
    <3>4. tickOk /\ tgen = gen
      <4>1. tickOk' = tickOk
        BY <1>8 DEF TickCommit
      <4>2. tgen' = tgen /\ gen' = gen
        BY <1>4 DEF tickVars
      <4> QED
        BY <4>1, <4>2
    <3> QED
      BY <1>4, <3>2, <3>3, <3>4 DEF PastInv, Covers, tickVars
  <2> QED
    BY <2>2, <2>3
<1>9. CASE TickEnd
  <2>1. UNCHANGED <<inWindow, tickOk>> /\ ti > Len(tlist)
    BY <1>9 DEF TickEnd
  <2>2. i <= Len(tlist) /\ Len(tlist) \in Nat
    BY <1>4, ScheduleTypes DEF MembershipInv, tickVars
  <2> QED
    BY <1>1, <1>5, <2>1, <2>2 DEF Past
<1>10. CASE UserSetsHeat \/ MinutePasses \/ UNCHANGED vars
  <2>1. UNCHANGED <<inWindow, tickOk, ti, tpc>>
    BY <1>10 DEF UserSetsHeat, MinutePasses, vars
  <2>2. ticked' => ticked
    BY <1>10 DEF UserSetsHeat, MinutePasses, vars
  <2> QED
    BY <1>5, <2>1, <2>2 DEF Past
<1> QED
  BY <1>2, <1>3, <1>6, <1>7, <1>8, <1>9, <1>10 DEF Next, Tick

LEMMA InitPastInv == Init => PastInv
BY DEF Init, PastInv, Past

LEMMA SettledMembership ==
  ASSUME MembershipInv, PastInv, Settled,
         NEW i \in 1 .. Len(tlist), tlist[i].enabled
  PROVE  <<gen, i>> \in lit <=> Covers(tlist[i], tnow)
<1>1. inWindow[<<gen, i>>] = "in" <=> Covers(tlist[i], tnow)
  BY DEF PastInv, Past, Settled
<1>2. i \in 1 .. MaxLen /\ tpc # "commit"
  BY ScheduleTypes DEF MembershipInv, Settled
<1> QED
  BY <1>1, <1>2 DEF MembershipInv, MembershipIsLit

\* What a write to the tub does when it is not lost.
LEMMA ApplyEffect ==
  ASSUME ~LostAcks, MembershipInv, TickApply
  PROVE  /\ UNCHANGED listVars
         /\ \/ UNCHANGED tubVars
            \/ /\ Acknowledge /\ who' = "sched" /\ heat' = (tedge = "on")
               /\ tedge \in {"on", "off"}
<1>1. UNCHANGED listVars /\ tpc = "apply"
  BY DEF TickApply
<1>2. tedge \in {"on", "off"}
  BY <1>1 DEF MembershipInv, EdgeInv
<1> QED
  BY <1>1, <1>2 DEF TickApply, Obey

LEMMA StepLitListed ==
  ASSUME MembershipInv, LitListed, [Next]_vars
  PROVE  LitListed'
<1>1. CASE lit' = {}
  BY <1>1 DEF LitListed
<1>2. CASE UNCHANGED <<lit, gen>> /\ ~Replace
  <2>1. schedules' = schedules
    BY <1>2 DEF Next, Tick, TickStart, TickEval, TickApply, TickCommit,
                TickEnd, Restart, UserSetsHeat, MinutePasses, vars, listVars
  <2> QED
    BY <1>2, <2>1 DEF LitListed
<1>3. CASE TickApply /\ tgen = gen /\ lit' \subseteq lit \cup {id}
  <2>1. UNCHANGED listVars /\ tpc = "apply" /\ tlist = schedules
    BY <1>3 DEF TickApply, MembershipInv, CopyInv
  <2>2. id = <<gen, ti>> /\ ti \in 1 .. Len(schedules) /\ schedules[ti].enabled
    BY <1>3, <2>1 DEF MembershipInv, EdgeInv, TypeInv, TypeOK, AtSchedule, id, sc
  <2> QED
    BY <1>3, <2>1, <2>2 DEF LitListed, listVars
<1>4. Replace => lit' = {}
  BY DEF Replace, ForgetMembership
<1> QED
  BY <1>1, <1>2, <1>3, <1>4, LitEffect

LEMMA StepLitIsOn ==
  ASSUME OneWindow, ~LostAcks, ~Manual,
         MembershipInv, LitListed, LitListed', LitIsOn, [Next]_vars
  PROVE  LitIsOn'
<1>1. CASE TickApply
  <2>1. CASE UNCHANGED tubVars
    BY <2>1 DEF LitIsOn, tubVars
  <2>2. CASE Acknowledge /\ heat' = (tedge = "on")
    <3>1. CASE tedge = "on"
      BY <2>2, <3>1 DEF LitIsOn
    <3>2. CASE tedge # "on"
      <4>1. CASE tgen = gen
        <5>1. tlist = schedules /\ tpc = "apply" /\ schedules \in Lists
          BY <1>1, <4>1 DEF TickApply, MembershipInv, CopyInv, TypeInv, TypeOK
        <5>2. /\ id = <<gen, ti>> /\ ti \in 1 .. Len(schedules)
              /\ schedules[ti].enabled
          BY <4>1, <5>1 DEF MembershipInv, EdgeInv, TypeInv, TypeOK,
                            AtSchedule, id, sc
        <5>3. \A x \in lit : x = id
          BY <5>1, <5>2 DEF LitListed, OneWindow
        <5> QED
          BY <2>2, <3>2, <4>1, <5>3 DEF Acknowledge, LitIsOn
      <4>2. CASE tgen # gen
        BY <1>1, <2>2, <4>2
           DEF Acknowledge, TickApply, MembershipInv, StaleInv, LitIsOn
      <4> QED
        BY <4>1, <4>2
    <3> QED
      BY <3>1, <3>2
  <2> QED
    BY <1>1, <2>1, <2>2, ApplyEffect
<1>2. CASE ~TickApply
  <2>1. lit' = lit \/ lit' = {}
    BY <1>2, LitEffect
  <2>2. UNCHANGED heat
    BY <1>2 DEF Next, Tick, TickStart, TickEval, TickCommit, TickEnd, Replace,
                Restart, UserSetsHeat, MinutePasses, vars, tubVars
  <2> QED
    BY <2>1, <2>2 DEF LitIsOn
<1> QED
  BY <1>1, <1>2

\* With one enabled window in the list, no lost answer and nobody at the
\* controls, a tick inside that window leaves the heater on once its writes
\* have landed, whatever failed, was edited or restarted before
\* (README.md:122-124).
THEOREM WindowIsHeated ==
  ASSUME OneWindow, ~LostAcks, ~Manual
  PROVE  Spec => []HeatsInsideWindows
<1>1. Init => LitListed /\ LitIsOn
  BY DEF Init, LitListed, LitIsOn
<1>2. MembershipInv /\ LitListed /\ LitIsOn /\ [Next]_vars
        => LitListed' /\ LitIsOn'
  BY StepLitListed, StepLitIsOn
<1>3. MembershipInv /\ PastInv /\ LitIsOn => HeatsInsideWindows
  <2> SUFFICES ASSUME MembershipInv, PastInv, LitIsOn, Settled,
                      NEW i \in 1 .. Len(tlist), Covers(tlist[i], tnow)
               PROVE  heat
    BY DEF HeatsInsideWindows, InSomeWindow
  <2>1. <<gen, i>> \in lit
    BY SettledMembership DEF Covers
  <2> QED
    BY <2>1 DEF LitIsOn
<1>4. QED
  BY <1>1, <1>2, <1>3, InitMembershipInv, InitPastInv, StepMembershipInv,
     StepPastInv, PTL DEF Spec

LEMMA StepOnIsLit ==
  ASSUME MembershipInv, OnIsLit, [Next]_vars
  PROVE  OnIsLit'
<1>1. CASE TickApply
  <2>1. CASE UNCHANGED tubVars
    BY <2>1 DEF OnIsLit, tubVars
  <2>2. CASE Obey /\ Acknowledge
    BY <2>2 DEF Obey, Acknowledge, OnIsLit
  <2>3. CASE Obey /\ NoAnswer
    BY <2>3 DEF Obey, NoAnswer, OnIsLit
  <2> QED
    BY <1>1, <2>1, <2>2, <2>3 DEF TickApply
<1>2. CASE Replace \/ Restart
  BY <1>2 DEF Replace, Restart, ForgetMembership, OnIsLit
<1>3. CASE UserSetsHeat
  BY <1>3 DEF UserSetsHeat, OnIsLit
<1>4. CASE TickStart \/ TickEval \/ TickCommit \/ TickEnd \/ MinutePasses
           \/ UNCHANGED vars
  <2>1. UNCHANGED <<heat, who, lit, forgot>>
    BY <1>4 DEF TickStart, TickEval, TickCommit, TickEnd, MinutePasses, vars,
                tubVars
  <2> QED
    BY <2>1 DEF OnIsLit
<1> QED
  BY <1>1, <1>2, <1>3, <1>4 DEF Next, Tick

\* With any schedules, and with any failures, lost answers, edits, restarts
\* and use of the tub's own controls: a tick outside every window leaves off
\* what the scheduler turned on, once its writes have landed, unless a start
\* whose answer was lost or a map emptied inside a window made the scheduler
\* forget that the heat is its own (README.md:125, sched.go:119, 165-185).
THEOREM NothingLeftOn == Spec => []NoForgottenHeat
<1>1. Init => LitListed /\ OnIsLit
  BY DEF Init, LitListed, OnIsLit
<1>2. MembershipInv /\ LitListed /\ OnIsLit /\ [Next]_vars
        => LitListed' /\ OnIsLit'
  BY StepLitListed, StepOnIsLit
<1>3. MembershipInv /\ PastInv /\ LitListed /\ OnIsLit => NoForgottenHeat
  <2> SUFFICES ASSUME MembershipInv, PastInv, LitListed, OnIsLit, Settled,
                      heat, who = "sched", ~forgot
               PROVE  InSomeWindow(tlist, tnow)
    BY DEF NoForgottenHeat
  <2>1. PICK x \in lit : TRUE
    BY DEF OnIsLit
  <2>2. PICK i \in 1 .. Len(schedules) : x = <<gen, i>> /\ schedules[i].enabled
    BY <2>1 DEF LitListed
  <2>3. tlist = schedules
    BY DEF MembershipInv, CopyInv, Settled
  <2>4. Covers(tlist[i], tnow)
    BY <2>1, <2>2, <2>3, SettledMembership
  <2> QED
    BY <2>2, <2>3, <2>4 DEF InSomeWindow
<1>4. QED
  BY <1>1, <1>2, <1>3, InitMembershipInv, InitPastInv, StepMembershipInv,
     StepPastInv, PTL DEF Spec

=============================================================================
