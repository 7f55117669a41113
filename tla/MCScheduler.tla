----------------------------- MODULE MCScheduler -----------------------------
(* Scheduler for TLC: a day of a few minutes.                               *)
EXTENDS Scheduler

Win(s, t, m) == [start |-> s, stop |-> t, mode |-> m, enabled |-> TRUE]

\* Every window of the day, on its own, the empty and the midnight ones too.
EachWindow == {<<Win(s, t, m)>> : s \in Minutes, t \in Minutes,
                                  m \in {"heat", "all"}}

\* Two windows with a gap on either side, one of them alone, and none, each
\* of which may be edited into another; one window is switched off.
Morning == Win(1, 2, "heat")
Night == Win(4, 0, "all")
EditedLists == {<<Morning, Night>>, <<Night>>, << >>,
                <<[Morning EXCEPT !.enabled = FALSE], Night>>}

\* Two windows that follow on from one another, the later listed first.
AdjacentWindows == {<<Win(2, 4, "heat"), Win(1, 2, "heat")>>}
=============================================================================
