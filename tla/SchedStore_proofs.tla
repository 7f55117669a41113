--------------------------- MODULE SchedStore_proofs --------------------------
(***************************************************************************)
(* Proofs about SchedStore, for any number of requests, lists of any       *)
(* lengths and any number of crashes: its types whatever requests come at  *)
(* once, and, when one comes after another, that the file is never torn,   *)
(* agrees with the list in force, and is kept as DurableList promises.     *)
(*                                                                         *)
(* The types need a count: a file is created by a PUT that had none open,  *)
(* so there are never more of them than PUTs.  The rest needs to know what *)
(* the one PUT under way has done: which file it has open, what that file  *)
(* holds, and that the list in force is the durable one until the rename.  *)
(***************************************************************************)
EXTENDS SchedStore, FiniteSetTheorems, TLAPS

\* The PUTs that have opened a file.
Opened == {p \in Puts : fd[p] # Absent}

\* A name refers to a file that was created, as does a descriptor, and each
\* PUT creates at most one.
FilesInv ==
    /\ created \in Nat /\ created <= Cardinality(Opened)
    /\ path # Absent => path < created
    /\ tmp # Absent => tmp < created
    /\ \A p \in Puts : /\ fd[p] # Absent => fd[p] < created
                       /\ pc[p] \in {"new", "open"} => fd[p] = Absent
                       /\ pc[p] = "write" => fd[p] # Absent

TypeInv == TypeOK /\ FilesInv

-----------------------------------------------------------------------------
(* Counting.                                                               *)

LEMMA PutsCount ==
  /\ Cardinality(Puts) \in Nat
  /\ Files = 0 .. Cardinality(Puts)
  /\ Absent \in Nat /\ Absent > Cardinality(Puts)
BY StoreAssumption, FS_CardinalityType DEF StoreAssumption, Files, Absent

LEMMA OpenedCount ==
  /\ IsFiniteSet(Opened) /\ Cardinality(Opened) \in Nat
  /\ Cardinality(Opened) <= Cardinality(Puts)
<1>1. IsFiniteSet(Puts) /\ Opened \in SUBSET Puts
  BY StoreAssumption DEF StoreAssumption, Opened
<1>2. QED
  BY <1>1, FS_Subset, FS_CardinalityType

\* A PUT that has not opened a file leaves room for one more.
LEMMA RoomToOpen ==
  ASSUME NEW p \in Puts, p \notin Opened
  PROVE  /\ Cardinality(Opened) < Cardinality(Puts)
         /\ Cardinality(Opened \cup {p}) = Cardinality(Opened) + 1
<1>1. /\ IsFiniteSet(Opened) /\ IsFiniteSet(Puts)
      /\ Opened \in SUBSET Puts /\ Opened # Puts
  BY OpenedCount, StoreAssumption DEF StoreAssumption, Opened
<1>2. Cardinality(Opened) # Cardinality(Puts)
  BY <1>1, FS_Subset
<1>3. Cardinality(Opened \cup {p}) = Cardinality(Opened) + 1
  BY <1>1, FS_AddElement
<1>4. QED
  BY <1>2, <1>3, OpenedCount, PutsCount

\* The names and the files of a state come from those of the one before.
LEMMA OpenKeepsType ==
  ASSUME TypeInv, NEW p \in Puts, OpenTrunc(p)
  PROVE  TypeInv'
<1>1. fd[p] = Absent /\ pc[p] = "open" /\ p \notin Opened
  BY DEF OpenTrunc, TypeInv, FilesInv, Opened
<1>2. Absent' = Absent /\ Files' = Files
  BY DEF Absent, Files
<1> DEFINE f == IF tmp = Absent THEN created ELSE tmp
<1>3. /\ fd' = [fd EXCEPT ![p] = f] /\ tmp' = f
      /\ content' = [content EXCEPT ![f] = "empty"]
      /\ created' = IF tmp = Absent THEN created + 1 ELSE created
      /\ pc' = [pc EXCEPT ![p] = "write"]
      /\ UNCHANGED <<schedules, path, result, crashes>>
  BY DEF OpenTrunc, Goto
<1>4. created \in Nat /\ created < Cardinality(Puts)
  <2>1. created \in Nat /\ created <= Cardinality(Opened)
    BY DEF TypeInv, FilesInv
  <2>2. Cardinality(Opened) < Cardinality(Puts)
    BY <1>1, RoomToOpen
  <2> QED
    BY <2>1, <2>2, OpenedCount, PutsCount
<1>5. f \in Files /\ f # Absent /\ f < created' /\ created' \in Nat
  BY <1>3, <1>4, PutsCount DEF TypeInv, TypeOK, FilesInv
<1>6. Opened' = Opened \cup {p}
  BY <1>3, <1>5, <1>2 DEF Opened, TypeInv, TypeOK
<1>7. created' <= Cardinality(Opened')
  BY <1>1, <1>3, <1>6, RoomToOpen, OpenedCount DEF TypeInv, FilesInv
<1>8. created' \in Files
  BY <1>3, <1>4, PutsCount DEF TypeInv, TypeOK, FilesInv
<1>9. path # f
  BY <1>3, <1>5, PutsCount DEF TypeInv, TypeOK, FilesInv
<1>10. TypeOK'
  BY <1>2, <1>3, <1>5, <1>8, <1>9
     DEF TypeInv, TypeOK, Contents, Garbage
<1>11. FilesInv'
  <2>1. path' # Absent' => path' < created'
    BY <1>2, <1>3, <1>4, PutsCount DEF TypeInv, TypeOK, FilesInv
  <2>2. tmp' # Absent' => tmp' < created'
    BY <1>2, <1>3, <1>5
  <2>3. ASSUME NEW q \in Puts
        PROVE  /\ fd'[q] # Absent' => fd'[q] < created'
               /\ pc'[q] \in {"new", "open"} => fd'[q] = Absent'
               /\ pc'[q] = "write" => fd'[q] # Absent'
    <3>1. CASE q = p
      BY <3>1, <1>2, <1>3, <1>5 DEF TypeInv, TypeOK
    <3>2. CASE q # p
      <4>1. fd'[q] = fd[q] /\ pc'[q] = pc[q]
        BY <3>2, <1>3 DEF TypeInv, TypeOK
      <4>2. fd[q] # Absent => fd[q] < created'
        BY <1>3, <1>4, PutsCount DEF TypeInv, TypeOK, FilesInv
      <4> QED
        BY <4>1, <4>2, <1>2 DEF TypeInv, FilesInv
    <3> QED
      BY <3>1, <3>2
  <2> QED
    BY <1>5, <1>7, <2>1, <2>2, <2>3 DEF FilesInv
<1> QED
  BY <1>10, <1>11 DEF TypeInv

\* A step that opens no file leaves the count of those opened alone.
LEMMA NoFileOpened ==
  ASSUME TypeInv, TypeOK', UNCHANGED <<created, fd>>,
         {path', tmp'} \subseteq {path, tmp, Absent},
         \A p \in Puts : /\ pc'[p] \in {"new", "open"} => pc[p] \in {"new", "open"}
                         /\ pc'[p] = "write" => pc[p] = "write"
  PROVE  TypeInv'
<1>1. Absent' = Absent /\ Opened' = Opened
  BY DEF Absent, Opened
<1>2. FilesInv'
  BY <1>1 DEF TypeInv, FilesInv
<1> QED
  BY <1>2 DEF TypeInv

LEMMA InitTypeInv == Init => TypeInv
<1> SUFFICES ASSUME Init PROVE TypeInv
  OBVIOUS
<1>1. TypeOK
  BY PutsCount, StoreAssumption
     DEF Init, TypeOK, StoreAssumption, Contents, Garbage
<1>2. Opened = {}
  BY DEF Init, Opened
<1>3. FilesInv
  BY <1>2, FS_EmptySet DEF Init, FilesInv
<1> QED
  BY <1>1, <1>3 DEF TypeInv

LEMMA StepTypeInv == TypeInv /\ [Next]_vars => TypeInv'
<1> SUFFICES ASSUME TypeInv, [Next]_vars PROVE TypeInv'
  OBVIOUS
<1>1. Absent' = Absent /\ Files' = Files
  BY DEF Absent, Files
<1>2. ASSUME NEW p \in Puts, Begin(p) PROVE TypeInv'
  <2>1. TypeOK'
    BY <1>1, <1>2 DEF Begin, Goto, diskVars, TypeInv, TypeOK
  <2> QED
    BY <1>2, <2>1, NoFileOpened DEF Begin, Goto, diskVars, TypeInv, TypeOK
<1>3. ASSUME NEW p \in Puts, Reject(p) PROVE TypeInv'
  <2>1. TypeOK'
    BY <1>1, <1>3 DEF Reject, Answer, Goto, diskVars, TypeInv, TypeOK
  <2> QED
    BY <1>3, <2>1, NoFileOpened
       DEF Reject, Answer, Goto, diskVars, TypeInv, TypeOK
<1>4. ASSUME NEW p \in Puts, OpenTrunc(p) PROVE TypeInv'
  BY <1>4, OpenKeepsType
<1>5. ASSUME NEW p \in Puts, WriteData(p) PROVE TypeInv'
  <2>1. Overwrite(content[fd[p]], p) \in Contents
    BY DEF Overwrite, Contents, Garbage
  <2>2. fd[p] \in Files
    BY <1>5 DEF WriteData, TypeInv, TypeOK, FilesInv
  <2>3. TypeOK'
    BY <1>1, <1>5, <2>1, <2>2 DEF WriteData, Goto, TypeInv, TypeOK
  <2> QED
    BY <1>5, <2>3, NoFileOpened DEF WriteData, Goto, TypeInv, TypeOK
<1>6. ASSUME NEW p \in Puts, WriteFails(p) PROVE TypeInv'
  <2>1. fd[p] \in Files
    BY <1>6 DEF WriteFails, TypeInv, TypeOK, FilesInv
  <2>2. TypeOK'
    BY <1>1, <1>6, <2>1
       DEF WriteFails, Answer, Goto, TypeInv, TypeOK, Contents, Garbage
  <2> QED
    BY <1>6, <2>2, NoFileOpened DEF WriteFails, Answer, Goto, TypeInv, TypeOK
<1>7. ASSUME NEW p \in Puts, Rename(p) PROVE TypeInv'
  <2>1. TypeOK'
    BY <1>1, <1>7 DEF Rename, TmpGoes, Goto, TypeInv, TypeOK
  <2> QED
    BY <1>7, <2>1, NoFileOpened DEF Rename, TmpGoes, Goto, TypeInv, TypeOK
<1>8. ASSUME NEW p \in Puts, SaveFails(p) PROVE TypeInv'
  <2>1. TypeOK'
    BY <1>1, <1>8 DEF SaveFails, Answer, Goto, diskVars, TypeInv, TypeOK
  <2> QED
    BY <1>8, <2>1, NoFileOpened
       DEF SaveFails, Answer, Goto, diskVars, TypeInv, TypeOK
<1>9. ASSUME NEW p \in Puts, Install(p) PROVE TypeInv'
  <2>1. TypeOK'
    BY <1>1, <1>9 DEF Install, Answer, Goto, diskVars, TypeInv, TypeOK
  <2> QED
    BY <1>9, <2>1, NoFileOpened
       DEF Install, Answer, Goto, diskVars, TypeInv, TypeOK
<1>10. CASE CrashAndLoad
  <2>1. schedules' \in Puts \cup {NoList}
    BY <1>10 DEF CrashAndLoad, Load, OnDisk, TypeInv, TypeOK, Contents
  <2>2. crashes' \in 0 .. MaxCrashes
    BY <1>10, StoreAssumption
       DEF CrashAndLoad, TypeInv, TypeOK, StoreAssumption
  <2>3. /\ pc' = [p \in Puts |-> IF Busy(p) THEN "end" ELSE pc[p]]
        /\ UNCHANGED <<diskVars, fd, result>>
    BY <1>10 DEF CrashAndLoad
  <2>4. TypeOK'
    BY <1>1, <2>1, <2>2, <2>3 DEF diskVars, TypeInv, TypeOK
  <2> QED
    BY <2>3, <2>4, NoFileOpened DEF diskVars
<1>11. CASE UNCHANGED vars
  <2>1. TypeOK'
    BY <1>1, <1>11 DEF vars, diskVars, putVars, TypeInv, TypeOK
  <2> QED
    BY <1>11, <2>1, NoFileOpened DEF vars, diskVars, putVars
<1> QED
  BY <1>2, <1>3, <1>4, <1>5, <1>6, <1>7, <1>8, <1>9, <1>10, <1>11
     DEF Next, Put

LEMMA TypeInvariance == Spec => []TypeInv
BY InitTypeInv, StepTypeInv, PTL DEF Spec

\* The types hold of any requests at once (Replace of sched.go:87-122 and the
\* system calls of save): in particular the temporary name and the real one
\* never refer to one file, however renames and truncations interleave.
THEOREM StoreTypes == Spec => []TypeOK
<1>1. TypeInv => TypeOK
  BY DEF TypeInv
<1>2. QED
  BY <1>1, TypeInvariance, PTL

-----------------------------------------------------------------------------
(* One request at a time.                                                  *)

\* The PUT under way writes to the file of the temporary name, which is empty
\* until it has, and which the rename makes the durable one.
ProgressInv ==
    \A p \in Puts :
        /\ pc[p] = "write" =>
              fd[p] = tmp /\ tmp # Absent /\ content[tmp] = "empty"
        /\ pc[p] = "rename" => tmp # Absent /\ content[tmp] = p
        /\ pc[p] = "install" => path # Absent /\ content[path] = p
OneBusy == \A p, q \in Puts : Busy(p) /\ Busy(q) => p = q
DurableInv == path # Absent => content[path] \in Puts
InForceInv == (\A p \in Puts : pc[p] # "install") => schedules = OnDisk

SerialInv == OneBusy /\ ProgressInv /\ DurableInv /\ InForceInv

SerialTypes == TypeInv /\ SerialInv

LEMMA InitSerialInv == Init => SerialInv
BY DEF Init, SerialInv, OneBusy, ProgressInv, DurableInv, InForceInv, Busy,
       OnDisk

\* A PUT under way is the only one, so a step of its moves no other, and all
\* that is to be known of the others is that they are not under way.
LEMMA OthersRest ==
  ASSUME SerialTypes, NEW p \in Puts, Busy(p), NEW where, Goto(p, where)
  PROVE  /\ pc'[p] = where
         /\ \A q \in Puts \ {p} : pc'[q] = pc[q] /\ pc[q] \in {"new", "end"}
BY DEF SerialTypes, SerialInv, OneBusy, Busy, Goto, TypeInv, TypeOK

LEMMA OneStaysBusy ==
  ASSUME NEW p \in Puts,
         \A q \in Puts \ {p} : pc'[q] \in {"new", "end"}
  PROVE  OneBusy'
BY DEF OneBusy, Busy

\* The PUT that ends without a rename leaves the durable list in force.
LEMMA EndKeepsSerial ==
  ASSUME SerialTypes, NEW p \in Puts, Goto(p, "end"),
         pc[p] \in {"new", "open", "write", "rename"},
         UNCHANGED <<schedules, path>>,
         path # Absent => content'[path] = content[path],
         pc[p] = "new" => UNCHANGED <<content, tmp, fd>>
  PROVE  SerialInv'
<1>1. Absent' = Absent
  BY DEF Absent
<1>2. /\ pc' = [pc EXCEPT ![p] = "end"] /\ pc'[p] = "end"
      /\ \A q \in Puts : q # p => pc'[q] = pc[q]
  BY DEF Goto, SerialTypes, TypeInv, TypeOK
<1>3. OneBusy'
  BY <1>2 DEF SerialTypes, SerialInv, OneBusy, Busy
<1>4. DurableInv' /\ OnDisk' = OnDisk
  BY <1>1 DEF SerialTypes, SerialInv, DurableInv, OnDisk
<1>5. InForceInv'
  BY <1>2, <1>4 DEF SerialTypes, SerialInv, InForceInv
<1>6. ProgressInv'
  <2>1. CASE pc[p] = "new"
    BY <2>1, <1>1, <1>2 DEF SerialTypes, SerialInv, ProgressInv
  <2>2. CASE pc[p] # "new"
    <3>1. \A q \in Puts : pc'[q] \in {"new", "end"}
      BY <2>2, <1>2, OthersRest DEF Busy, SerialTypes, TypeInv, TypeOK
    <3> QED
      BY <3>1 DEF ProgressInv
  <2> QED
    BY <2>1, <2>2
<1> QED
  BY <1>3, <1>4, <1>5, <1>6 DEF SerialInv

\* Whatever is done to the temporary file, the durable one keeps its content.
LEMMA DurableKept ==
  ASSUME SerialTypes, TypeInv', NEW p \in Puts,
         OpenTrunc(p) \/ WriteData(p) \/ WriteFails(p)
  PROVE  /\ path' = path
         /\ path # Absent => content'[path] = content[path]
         /\ OnDisk' = OnDisk
<1>1. PICK f, c : content' = [content EXCEPT ![f] = c] /\ path # f
  <2>1. CASE OpenTrunc(p)
    <3> DEFINE f == IF tmp = Absent THEN created ELSE tmp
    <3>1. content' = [content EXCEPT ![f] = "empty"] /\ tmp' = f /\ path' = path
      BY <2>1 DEF OpenTrunc
    <3>2. fd'[p] = f /\ pc'[p] = "write" /\ Absent' = Absent
      BY <2>1 DEF OpenTrunc, Goto, SerialTypes, TypeInv, TypeOK, Absent
    <3>3. path # f
      BY <3>1, <3>2 DEF TypeInv, TypeOK, FilesInv
    <3> QED
      BY <3>1, <3>3
  <2>2. CASE WriteData(p) \/ WriteFails(p)
    <3>1. fd[p] = tmp /\ tmp # Absent
      BY <2>2 DEF WriteData, WriteFails, SerialTypes, SerialInv, ProgressInv
    <3>2. path # tmp
      BY <3>1 DEF SerialTypes, TypeInv, TypeOK
    <3> QED
      BY <2>2, <3>1, <3>2 DEF WriteData, WriteFails
  <2> QED
    BY <2>1, <2>2
<1>2. path' = path /\ Absent' = Absent
  BY DEF OpenTrunc, WriteData, WriteFails, Absent
<1>3. path # Absent => content'[path] = content[path]
  BY <1>1 DEF SerialTypes, TypeInv, TypeOK
<1> QED
  BY <1>2, <1>3 DEF OnDisk

LEMMA StepSerialInv ==
  ASSUME OneAtATime, SerialTypes, TypeInv', [Next]_vars
  PROVE  SerialInv'
<1>1. Absent' = Absent
  BY DEF Absent
<1> USE <1>1
<1>2. ASSUME NEW p \in Puts, Begin(p) PROVE SerialInv'
  <2>1. \A q \in Puts : pc[q] \in {"new", "end"}
    BY <1>2 DEF Begin, Quiet, Busy
  <2>2. pc' = [pc EXCEPT ![p] = "open"] /\ UNCHANGED <<schedules, diskVars>>
    BY <1>2 DEF Begin, Goto
  <2>3. pc'[p] = "open" /\ \A q \in Puts \ {p} : pc'[q] = pc[q]
    BY <2>2 DEF SerialTypes, TypeInv, TypeOK
  <2>4. OneBusy' /\ ProgressInv'
    BY <2>1, <2>3, OneStaysBusy DEF ProgressInv
  <2>5. DurableInv' /\ InForceInv'
    BY <2>1, <2>2
       DEF diskVars, SerialTypes, SerialInv, DurableInv, InForceInv, OnDisk
  <2> QED
    BY <2>4, <2>5 DEF SerialInv
<1>3. ASSUME NEW p \in Puts, Reject(p) PROVE SerialInv'
  BY <1>3, EndKeepsSerial DEF Reject, Answer, diskVars
<1>4. ASSUME NEW p \in Puts, OpenTrunc(p) PROVE SerialInv'
  <2> DEFINE f == IF tmp = Absent THEN created ELSE tmp
  <2>1. /\ pc[p] = "open" /\ Goto(p, "write") /\ tmp' = f
        /\ fd' = [fd EXCEPT ![p] = f]
        /\ content' = [content EXCEPT ![f] = "empty"]
        /\ UNCHANGED <<schedules, path>>
    BY <1>4 DEF OpenTrunc
  <2>2. f # Absent /\ f \in Files
    <3>1. fd'[p] = f /\ pc'[p] = "write"
      BY <2>1 DEF Goto, SerialTypes, TypeInv, TypeOK
    <3>2. f # Absent
      BY <3>1 DEF TypeInv, FilesInv
    <3>3. f \in Files \cup {Absent}
      BY DEF SerialTypes, TypeInv, TypeOK
    <3> QED
      BY <3>2, <3>3
  <2>3. OnDisk' = OnDisk /\ (path # Absent => content'[path] = content[path])
    BY <1>4, DurableKept
  <2>4. /\ pc'[p] = "write"
        /\ \A q \in Puts \ {p} : pc'[q] = pc[q] /\ pc[q] \in {"new", "end"}
    BY <2>1, OthersRest DEF Busy
  <2>5. fd'[p] = f /\ content'[f] = "empty"
    BY <2>1, <2>2 DEF SerialTypes, TypeInv, TypeOK
  <2>6. OneBusy' /\ ProgressInv'
    BY <2>1, <2>2, <2>4, <2>5, OneStaysBusy DEF ProgressInv
  <2>7. DurableInv'
    BY <2>1, <2>3 DEF SerialTypes, SerialInv, DurableInv
  <2>8. \A q \in Puts : pc[q] # "install"
    BY <2>1, <2>4
  <2>9. InForceInv'
    BY <2>1, <2>3, <2>8 DEF SerialTypes, SerialInv, InForceInv
  <2> QED
    BY <2>6, <2>7, <2>9 DEF SerialInv
<1>5. ASSUME NEW p \in Puts, WriteData(p) PROVE SerialInv'
  <2>1. /\ pc[p] = "write" /\ Goto(p, "rename")
        /\ fd[p] = tmp /\ tmp # Absent /\ content[tmp] = "empty"
        /\ content' = [content EXCEPT ![fd[p]] = Overwrite(@, p)]
        /\ UNCHANGED <<schedules, path, tmp>>
    BY <1>5 DEF WriteData, SerialTypes, SerialInv, ProgressInv
  <2>2. OnDisk' = OnDisk /\ (path # Absent => content'[path] = content[path])
    BY <1>5, DurableKept
  <2>3. Overwrite("empty", p) = p
    BY StoreAssumption DEF Overwrite, StoreAssumption, Garbage
  <2>4. content'[tmp] = p
    BY <2>1, <2>3 DEF SerialTypes, TypeInv, TypeOK
  <2>5. /\ pc'[p] = "rename"
        /\ \A q \in Puts \ {p} : pc'[q] = pc[q] /\ pc[q] \in {"new", "end"}
    BY <2>1, OthersRest DEF Busy
  <2>6. OneBusy' /\ ProgressInv'
    BY <2>1, <2>4, <2>5, OneStaysBusy DEF ProgressInv
  <2>7. DurableInv'
    BY <2>1, <2>2 DEF SerialTypes, SerialInv, DurableInv
  <2>8. \A q \in Puts : pc[q] # "install"
    BY <2>1, <2>5
  <2>9. InForceInv'
    BY <2>1, <2>2, <2>8 DEF SerialTypes, SerialInv, InForceInv
  <2> QED
    BY <2>6, <2>7, <2>9 DEF SerialInv
<1>6. ASSUME NEW p \in Puts, WriteFails(p) PROVE SerialInv'
  BY <1>6, DurableKept, EndKeepsSerial DEF WriteFails, Answer
<1>7. ASSUME NEW p \in Puts, Rename(p) PROVE SerialInv'
  <2>1. /\ pc[p] = "rename" /\ Goto(p, "install")
        /\ tmp # Absent /\ content[tmp] = p
        /\ path' = tmp /\ UNCHANGED <<schedules, content>>
    BY <1>7 DEF Rename, SerialTypes, SerialInv, ProgressInv
  <2>2. /\ pc'[p] = "install"
        /\ \A q \in Puts \ {p} : pc'[q] = pc[q] /\ pc[q] \in {"new", "end"}
    BY <2>1, OthersRest DEF Busy
  <2>3. OneBusy' /\ ProgressInv'
    BY <2>1, <2>2, OneStaysBusy DEF ProgressInv
  <2>4. DurableInv' /\ InForceInv'
    BY <2>1, <2>2 DEF DurableInv, InForceInv
  <2> QED
    BY <2>3, <2>4 DEF SerialInv
<1>8. ASSUME NEW p \in Puts, SaveFails(p) PROVE SerialInv'
  BY <1>8, EndKeepsSerial DEF SaveFails, Answer, diskVars
<1>9. ASSUME NEW p \in Puts, Install(p) PROVE SerialInv'
  <2>1. /\ pc[p] = "install" /\ Goto(p, "end") /\ schedules' = p
        /\ path # Absent /\ content[path] = p
        /\ UNCHANGED diskVars
    BY <1>9 DEF Install, Answer, SerialTypes, SerialInv, ProgressInv
  <2>2. /\ pc'[p] = "end"
        /\ \A q \in Puts \ {p} : pc'[q] = pc[q] /\ pc[q] \in {"new", "end"}
    BY <2>1, OthersRest DEF Busy
  <2>3. OneBusy' /\ ProgressInv'
    BY <2>2, OneStaysBusy DEF ProgressInv
  <2>4. DurableInv' /\ InForceInv'
    BY <2>1 DEF diskVars, SerialTypes, SerialInv, DurableInv, InForceInv, OnDisk
  <2> QED
    BY <2>3, <2>4 DEF SerialInv
<1>10. CASE CrashAndLoad
  <2>1. UNCHANGED diskVars /\ Load
    BY <1>10 DEF CrashAndLoad
  <2>2. \A q \in Puts : pc'[q] \in {"new", "end"}
    BY <1>10 DEF CrashAndLoad, Busy, SerialTypes, TypeInv, TypeOK
  <2>3. OneBusy' /\ ProgressInv'
    BY <2>2 DEF OneBusy, Busy, ProgressInv
  <2>4. OnDisk \notin Garbage
    BY StoreAssumption
       DEF StoreAssumption, SerialTypes, SerialInv, DurableInv, OnDisk
  <2>5. DurableInv' /\ InForceInv'
    BY <2>1, <2>4
       DEF diskVars, Load, SerialTypes, SerialInv, DurableInv, InForceInv, OnDisk
  <2> QED
    BY <2>3, <2>5 DEF SerialInv
<1>11. CASE UNCHANGED vars
  BY <1>11 DEF vars, diskVars, putVars, SerialTypes, SerialInv, OneBusy,
               ProgressInv, DurableInv, InForceInv, Busy, OnDisk
<1> QED
  BY <1>2, <1>3, <1>4, <1>5, <1>6, <1>7, <1>8, <1>9, <1>10, <1>11
     DEF Next, Put

LEMMA SerialInvariance == OneAtATime => (Spec => [](TypeInv /\ SerialInv))
<1> SUFFICES ASSUME OneAtATime PROVE Spec => [](TypeInv /\ SerialInv)
  OBVIOUS
<1>1. TypeInv /\ SerialInv /\ [Next]_vars => TypeInv' /\ SerialInv'
  BY StepTypeInv, StepSerialInv DEF SerialTypes
<1>2. QED
  BY <1>1, InitTypeInv, InitSerialInv, PTL DEF Spec

\* When requests come one after another, whatever fails or stops half way the
\* file under its real name parses: save writes a temporary file and renames
\* it only when it is complete (sched.go:253-268).  Two requests at once may
\* break it, so the hypothesis is needed.
THEOREM FileNeverTorn == OneAtATime => (Spec => []NeverTorn)
<1>1. TypeInv /\ SerialInv => NeverTorn
  BY StoreAssumption
     DEF StoreAssumption, SerialInv, DurableInv, NeverTorn, OnDisk
<1>2. QED
  BY <1>1, SerialInvariance, PTL

\* Between requests the list the loop runs is the one a restart would load,
\* after any sequence of saves that succeed or fail half way and of crashes:
\* Replace installs the list only once save has returned (sched.go:101-111).
THEOREM ForceIsDurable == OneAtATime => (Spec => []MemoryIsDisk)
<1>1. TypeInv /\ SerialInv => MemoryIsDisk
  BY DEF SerialInv, InForceInv, MemoryIsDisk, Quiet, Busy
<1>2. QED
  BY <1>1, SerialInvariance, PTL

-----------------------------------------------------------------------------
(* The store implements DurableList.                                       *)

Fresh == {p \in Puts : pc[p] \in {"new", "open", "write", "rename"}}

\* A PUT that goes nowhere near the rename changes nothing of the promise.
LEMMA UnderWay ==
  ASSUME TypeInv, NEW p \in Puts, pc[p] \in {"new", "open", "write"},
         NEW where \in {"open", "write", "rename"}, Goto(p, where)
  PROVE  Fresh' = Fresh
BY DEF Fresh, Goto, TypeInv, TypeOK

LEMMA PastRename ==
  ASSUME TypeInv, NEW p \in Puts,
         NEW where \in {"install", "end"}, Goto(p, where)
  PROVE  Fresh' = Fresh \ {p}
BY DEF Fresh, Goto, TypeInv, TypeOK

\* What Durable says of a step, with its variables and Save, Drop and Load
\* expanded.
LEMMA StepImplements ==
  ASSUME OneAtATime, TypeInv, SerialInv, TypeInv', [Next]_vars
  PROVE  [Durable!ListNext]_<<schedules, OnDisk, Fresh>>
<1> DEFINE Stutter == UNCHANGED <<schedules, OnDisk, Fresh>>
<1>1. Absent' = Absent /\ SerialTypes
  BY DEF Absent, SerialTypes
<1>2. ASSUME NEW p \in Puts, Begin(p) PROVE Stutter
  BY <1>1, <1>2, UnderWay DEF Begin, diskVars, OnDisk
<1>3. ASSUME NEW p \in Puts, OpenTrunc(p) PROVE Stutter
  <2>1. UNCHANGED <<schedules, OnDisk>>
    BY <1>1, <1>3, DurableKept DEF OpenTrunc
  <2> QED
    BY <1>3, <2>1, UnderWay DEF OpenTrunc
<1>4. ASSUME NEW p \in Puts, WriteData(p) PROVE Stutter
  <2>1. UNCHANGED <<schedules, OnDisk>>
    BY <1>1, <1>4, DurableKept DEF WriteData
  <2> QED
    BY <1>4, <2>1, UnderWay DEF WriteData
<1>5. ASSUME NEW p \in Puts, Reject(p) \/ WriteFails(p) \/ SaveFails(p)
      PROVE  Durable!Drop(p)
  <2>1. p \in Fresh /\ Fresh' = Fresh \ {p}
    BY <1>5, PastRename DEF Reject, WriteFails, SaveFails, Answer, Fresh
  <2>2. UNCHANGED <<schedules, OnDisk>>
    BY <1>1, <1>5, DurableKept
       DEF Reject, WriteFails, SaveFails, diskVars, OnDisk
  <2> QED
    BY <2>1, <2>2 DEF Durable!Drop, Fresh
<1>6. ASSUME NEW p \in Puts, Rename(p) PROVE Durable!Save(p)
  <2>1. p \in Fresh /\ Fresh' = Fresh \ {p}
    BY <1>6, PastRename DEF Rename, Fresh
  <2>2. UNCHANGED schedules /\ OnDisk' = p
    BY <1>1, <1>6 DEF Rename, SerialInv, ProgressInv, OnDisk
  <2>3. schedules = OnDisk
    <3>1. \A q \in Puts : pc[q] # "install"
      BY <1>6 DEF Rename, SerialInv, OneBusy, Busy
    <3> QED
      BY <3>1 DEF SerialInv, InForceInv
  <2> QED
    BY <2>1, <2>2, <2>3 DEF Durable!Save, Fresh
<1>7. ASSUME NEW p \in Puts, Install(p) PROVE Durable!Load
  <2>1. Fresh' = Fresh \ {p}
    BY <1>7, PastRename DEF Install, Answer
  <2>2. schedules' = OnDisk /\ OnDisk' = OnDisk
    BY <1>1, <1>7 DEF Install, diskVars, SerialInv, ProgressInv, OnDisk
  <2> QED
    BY <2>1, <2>2 DEF Durable!Load, Fresh
<1>8. ASSUME CrashAndLoad PROVE Durable!Load
  <2>1. Fresh' \subseteq Fresh
    BY <1>8 DEF CrashAndLoad, Fresh, Busy, TypeInv, TypeOK
  <2>2. OnDisk \notin Garbage
    BY StoreAssumption DEF StoreAssumption, SerialInv, DurableInv, OnDisk
  <2>3. schedules' = OnDisk /\ OnDisk' = OnDisk
    BY <1>1, <1>8, <2>2 DEF CrashAndLoad, Load, diskVars, OnDisk
  <2> QED
    BY <2>1, <2>3 DEF Durable!Load, Fresh
<1>9. CASE UNCHANGED vars
  BY <1>1, <1>9 DEF vars, diskVars, putVars, OnDisk, Fresh
<1> QED
  <2>1. ASSUME NEW p \in Puts, Durable!Save(p) \/ Durable!Drop(p)
        PROVE  Durable!ListNext
    BY <2>1 DEF Durable!ListNext, Durable!Save, Durable!Drop
  <2>2. Durable!Load => Durable!ListNext
    BY DEF Durable!ListNext
  <2> QED
    BY <1>2, <1>3, <1>4, <1>5, <1>6, <1>7, <1>8, <1>9, <2>1, <2>2
       DEF Next, Put

\* With one request at a time SchedStore implements DurableList: a list is
\* saved before it is in force, an error changes neither, and no crash brings
\* back an older list than the last one renamed into place (sched.go:87-122,
\* 229-268), for any number of requests and of crashes.
THEOREM StoreImplementsDurableList == OneAtATime => (Spec => ListIsDurable)
<1> SUFFICES ASSUME OneAtATime PROVE Spec => ListIsDurable
  OBVIOUS
<1>1. Init => Durable!ListInit
  BY DEF Init, Durable!ListInit, OnDisk
<1>2. TypeInv /\ SerialInv /\ TypeInv' /\ [Next]_vars
      => [Durable!ListNext]_Durable!listVars
  BY StepImplements DEF Durable!listVars, Fresh
<1>3. QED
  BY <1>1, <1>2, SerialInvariance, PTL
     DEF Spec, ListIsDurable, Durable!ListSpec

=============================================================================
