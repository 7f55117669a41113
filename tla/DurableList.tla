----------------------------- MODULE DurableList -----------------------------
(***************************************************************************)
(* What internal/sched/sched.go promises of its list of schedules when     *)
(* requests come one after another (SchedStore): a new list is durable     *)
(* before it is in force, nothing but a new list replaces the durable one, *)
(* and a crash, wherever it comes, puts the durable one in force.          *)
(***************************************************************************)
CONSTANT NoList

VARIABLES
    inForce,  \* the list the scheduler runs
    durable,  \* the list a restart loads
    fresh     \* the lists that may still be saved

listVars == <<inForce, durable, fresh>>

ListInit == inForce = NoList /\ durable = NoList

Save(p) ==
    /\ p \in fresh /\ inForce = durable
    /\ durable' = p
    /\ fresh' = fresh \ {p}
    /\ UNCHANGED inForce
Drop(p) ==
    /\ p \in fresh
    /\ fresh' = fresh \ {p}
    /\ UNCHANGED <<inForce, durable>>
\* Install what was saved or, in a restart that drops a request, load it.
Load ==
    /\ inForce' = durable
    /\ fresh' \subseteq fresh
    /\ UNCHANGED durable

ListNext == Load \/ \E p \in fresh : Save(p) \/ Drop(p)
ListSpec == ListInit /\ [][ListNext]_listVars
=============================================================================
