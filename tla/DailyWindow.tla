------------------------------ MODULE DailyWindow -----------------------------
(***************************************************************************)
(* The pure part of internal/sched/sched.go: when a minute of the day lies *)
(* in a daily window.                                                      *)
(***************************************************************************)
EXTENDS Integers

CONSTANT Day  \* minutes in a day, 1440 in the code

ASSUME DayAssumption == Day \in Nat \ {0}

Minutes == 0 .. Day - 1

\* Half open, and across midnight when start > stop; never if they are equal.
inDailyWindow(nowMin, start, stop) ==
    \/ start < stop /\ nowMin >= start /\ nowMin < stop
    \/ start > stop /\ (nowMin >= start \/ nowMin < stop)
=============================================================================
