---------------------------- MODULE SessionPromise ----------------------------
(***************************************************************************)
(* What internal/tub/client.go promises of its sessions, whatever its      *)
(* goroutines, its tub and its callers do (TubSession): there is one       *)
(* attempt at a time and each is a new one; a session begins only out of   *)
(* the attempt under way and only if the tub accepted that one's login;    *)
(* one that has ended never comes back.                                    *)
(***************************************************************************)
EXTENDS Naturals

VARIABLES
    phase,    \* "idle", "trying" or "in" a session
    attempt,  \* the number of attempts, and the name of the last
    accepted  \* those the tub has accepted the login of

promiseVars == <<phase, attempt, accepted>>

PromiseInit == phase = "idle" /\ attempt = 0 /\ accepted = {}

Try ==
    /\ phase = "idle" /\ phase' = "trying"
    /\ attempt' = attempt + 1
    /\ UNCHANGED accepted
Accept ==
    /\ \E n \in 1 .. attempt : accepted' = accepted \cup {n}
    /\ UNCHANGED <<phase, attempt>>
Enter ==
    /\ phase = "trying" /\ phase' = "in"
    /\ attempt \in accepted
    /\ UNCHANGED <<attempt, accepted>>
Leave ==
    /\ phase \in {"trying", "in"} /\ phase' = "idle"
    /\ UNCHANGED <<attempt, accepted>>

PromiseNext == Try \/ Accept \/ Enter \/ Leave
PromiseSpec == PromiseInit /\ [][PromiseNext]_promiseVars
=============================================================================
