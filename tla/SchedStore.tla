------------------------------ MODULE SchedStore ------------------------------
(***************************************************************************)
(* How internal/sched/sched.go keeps schedules.json: each PUT runs Replace *)
(* in a goroutine of its own, which writes a temporary file, renames it    *)
(* over the real one and only then installs the list; New loads the file   *)
(* when the server starts.                                                 *)
(*                                                                         *)
(* The two names and the file each refers to are kept apart, because a     *)
(* goroutine writes to the file it opened, whatever its name has become.   *)
(* A list is named by the PUT that sent it.  The crashes are those of the  *)
(* process: what it has written stays written.                             *)
(***************************************************************************)
EXTENDS Naturals, FiniteSets

CONSTANTS
    Puts,        \* the requests, each with a list of its own
    Size,        \* how long each list is in JSON
    NoList,      \* the empty list, in force when no file can be loaded
    MaxCrashes,  \* bound on the restarts of one behaviour
    OneAtATime   \* TRUE: a PUT is sent after the last one was answered

Garbage == {"empty", "torn"}     \* contents that do not parse

ASSUME StoreAssumption ==
    /\ IsFiniteSet(Puts)
    /\ Size \in [Puts -> Nat]
    /\ NoList \notin Puts
    /\ (Puts \cup {NoList}) \cap Garbage = {}
    /\ MaxCrashes \in Nat /\ OneAtATime \in BOOLEAN

Files == 0 .. Cardinality(Puts)  \* enough for a fresh one each
Absent == Cardinality(Puts) + 1  \* a name with no file

VARIABLES
    schedules,  \* s.schedules, the list in force
    path, tmp,  \* the files the two names refer to
    content,    \* what each file holds
    pc,         \* where each PUT is in Replace
    fd,         \* the file each PUT has open
    result,     \* what each PUT was answered
    created,    \* how many files were created
    crashes

diskVars == <<path, tmp, content, created>>
putVars == <<pc, fd, result>>
vars == <<schedules, diskVars, putVars, crashes>>

Contents == Puts \cup {NoList} \cup Garbage

TypeOK ==
    /\ schedules \in Puts \cup {NoList}
    /\ path \in Files \cup {Absent} /\ tmp \in Files \cup {Absent}
    /\ content \in [Files -> Contents]
    /\ pc \in [Puts -> {"new", "open", "write", "rename", "install", "end"}]
    /\ fd \in [Puts -> Files \cup {Absent}]
    /\ result \in [Puts -> {"none", "ok", "err"}]
    /\ path = tmp => path = Absent  \* the two names never share a file
    /\ created \in Files \cup {Absent} /\ crashes \in 0 .. MaxCrashes

Init ==
    /\ schedules = NoList
    /\ path = Absent /\ tmp = Absent
    /\ content = [f \in Files |-> "empty"]
    /\ pc = [p \in Puts |-> "new"]
    /\ fd = [p \in Puts |-> Absent]
    /\ result = [p \in Puts |-> "none"]
    /\ created = 0 /\ crashes = 0

Busy(p) == pc[p] \notin {"new", "end"}
Quiet == \A p \in Puts : ~Busy(p)
OnDisk == IF path = Absent THEN NoList ELSE content[path]

-----------------------------------------------------------------------------
(* Replace.                                                                *)

Goto(p, where) == pc' = [pc EXCEPT ![p] = where]
Answer(p, r) ==
    /\ Goto(p, "end")
    /\ result' = [result EXCEPT ![p] = r]

\* Validation, and MkdirAll; and the variant that installs the list first.
InstallFirst(p) ==
    /\ pc[p] = "new"
    /\ OneAtATime => Quiet
    /\ schedules' = p
    /\ Goto(p, "open")
    /\ UNCHANGED <<diskVars, fd, result, crashes>>
Begin(p) ==
    /\ pc[p] = "new"
    /\ OneAtATime => Quiet
    /\ Goto(p, "open")
    /\ UNCHANGED <<schedules, diskVars, fd, result, crashes>>
Reject(p) ==
    /\ pc[p] = "new"
    /\ Answer(p, "err")
    /\ UNCHANGED <<schedules, diskVars, fd, crashes>>

\* Variant: the real file is written in place, without a temporary one.
OpenInPlace(p) ==
    /\ pc[p] = "open"
    /\ LET f == IF path = Absent THEN created ELSE path IN
       /\ path' = f
       /\ fd' = [fd EXCEPT ![p] = f]
       /\ content' = [content EXCEPT ![f] = "empty"]
       /\ created' = IF path = Absent THEN created + 1 ELSE created
    /\ Goto(p, "write")
    /\ UNCHANGED <<schedules, tmp, result, crashes>>

\* os.WriteFile opens the temporary name, creating or truncating its file.
OpenTrunc(p) ==
    /\ pc[p] = "open"
    /\ LET f == IF tmp = Absent THEN created ELSE tmp IN
       /\ tmp' = f
       /\ fd' = [fd EXCEPT ![p] = f]
       /\ content' = [content EXCEPT ![f] = "empty"]
       /\ created' = IF tmp = Absent THEN created + 1 ELSE created
    /\ Goto(p, "write")
    /\ UNCHANGED <<schedules, path, result, crashes>>

\* Written from offset 0: a longer content already there keeps its tail.
Overwrite(old, p) ==
    IF old = "torn" \/ (old \in Puts /\ Size[old] > Size[p]) THEN "torn" ELSE p

WriteData(p) ==
    /\ pc[p] = "write"
    /\ content' = [content EXCEPT ![fd[p]] = Overwrite(@, p)]
    /\ Goto(p, "rename")
    /\ UNCHANGED <<schedules, path, tmp, created, fd, result, crashes>>

\* A full disk: part of the list is in the file.
WriteFails(p) ==
    /\ pc[p] = "write"
    /\ content' = [content EXCEPT ![fd[p]] = "torn"]
    /\ Answer(p, "err")
    /\ UNCHANGED <<schedules, path, tmp, created, fd, crashes>>

TmpStays == tmp' = tmp  \* variant: a link, not a rename
TmpGoes == tmp' = Absent

\* The rename finds nothing if another PUT has renamed the file away.
Rename(p) ==
    /\ pc[p] = "rename"
    /\ tmp # Absent
    /\ path' = tmp /\ TmpGoes
    /\ Goto(p, "install")
    /\ UNCHANGED <<schedules, content, created, fd, result, crashes>>
SaveFails(p) ==
    /\ pc[p] \in {"open", "rename"}
    /\ Answer(p, "err")
    /\ UNCHANGED <<schedules, diskVars, fd, crashes>>

Install(p) ==
    /\ pc[p] = "install"
    /\ schedules' = p
    /\ Answer(p, "ok")
    /\ UNCHANGED <<diskVars, fd, crashes>>

-----------------------------------------------------------------------------
\* The process ends, its requests unanswered, and New loads the file.
StartEmpty == schedules' = NoList  \* variant: the file is not loaded
Load == schedules' = IF OnDisk \in Garbage THEN NoList ELSE OnDisk
CrashAndLoad ==
    /\ crashes < MaxCrashes
    /\ crashes' = crashes + 1
    /\ Load
    /\ pc' = [p \in Puts |-> IF Busy(p) THEN "end" ELSE pc[p]]
    /\ UNCHANGED <<diskVars, fd, result>>

Put(p) ==
    \/ Begin(p) \/ Reject(p) \/ OpenTrunc(p) \/ WriteData(p) \/ WriteFails(p)
    \/ Rename(p) \/ SaveFails(p) \/ Install(p)

Next == CrashAndLoad \/ \E p \in Puts : Put(p)

Spec == Init /\ [][Next]_vars

-----------------------------------------------------------------------------
(* Properties.                                                             *)

\* Whatever fails or stops half way, the file under its real name always
\* parses (sched.go:253).
NeverTorn == OnDisk \notin Garbage

\* Between requests the list in force is the one a restart would load.
MemoryIsDisk == Quiet => schedules = OnDisk

\* With one request at a time the store keeps what DurableList says: a list
\* is saved before it is in force, an error changes neither, and no crash
\* brings an older list back, nor none at all (sched.go:101-102, 110-111).
Durable == INSTANCE DurableList WITH
    inForce <- schedules,
    durable <- OnDisk,
    fresh <- {p \in Puts : pc[p] \in {"new", "open", "write", "rename"}}
ListIsDurable == Durable!ListSpec
=============================================================================
