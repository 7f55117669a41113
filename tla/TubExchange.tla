------------------------------ MODULE TubExchange -----------------------------
(***************************************************************************)
(* Request and response over a session in internal/tub/client.go: callers  *)
(* of Read and Write take opMu, the reader goroutine dispatches what the   *)
(* tub sends, and readCh, writeSeq and writeCh carry the answers back.     *)
(*                                                                         *)
(* Sessions are numbered.  A session ends at any time between two frames,  *)
(* and its reader is gone when the next one begins.  Left out are readers  *)
(* left over from failed attempts, which TubSession has: markDisconnected  *)
(* of such a one closes whatever connection is current (client.go:427),    *)
(* and may do so while the session's own reader is in dispatch.  A request *)
(* or an answer that is lost on the way, or a status that ParseStatus      *)
(* rejects, is one the tub ignores.  A status is the version of the tub's  *)
(* state it shows.                                                         *)
(***************************************************************************)
EXTENDS Naturals, Sequences, FiniteSets

CONSTANTS
    Callers,      \* goroutines that call Read and Write
    Nobody,       \* no caller
    ReadCap,      \* capacity of readCh, 8 in the code
    MaxSessions,  \* bound on the sessions of one behaviour
    MaxOps,       \* bound on the calls of one behaviour
    MaxVer        \* bound on the changes of the tub's state

ASSUME ExchangeAssumption ==
    /\ IsFiniteSet(Callers) /\ Nobody \notin Callers
    /\ ReadCap \in Nat \ {0}
    /\ MaxSessions \in Nat /\ MaxOps \in Nat /\ MaxVer \in Nat

Nil == 0
Sessions == 1 .. MaxSessions
Ops == 1 .. MaxOps
Versions == 0 .. MaxVer

\* A frame names the call it belongs to; the program sees only the kind, the
\* version of a status and the sequence number of a write.
ReadReq(op) == [kind |-> "read", seq |-> 0, op |-> op]
WriteReq(op, s) == [kind |-> "write", seq |-> s, op |-> op]
StatusFrame(v, op) == [kind |-> "status", ver |-> v, seq |-> 0, op |-> op]
AckFrame(s, op) == [kind |-> "ack", ver |-> 0, seq |-> s, op |-> op]

VARIABLES
    conn,       \* c.conn, as the number of its session
    sessions,   \* how many sessions were dialled
    loggedIn,   \* c.loggedIn
    opMu,       \* the caller that holds opMu
    pc,         \* where each caller is
    req,        \* the call each caller is in, by number
    used,       \* the session each caller sent its request on
    wseq,       \* the sequence number each writer took
    floor,      \* the newest status received when each reader took opMu
    begun,      \* how many calls were begun
    readCh,     \* the versions queued in readCh
    writeSeq,   \* c.writeSeq
    writeCh,    \* the writer registered under each sequence number
    done,       \* the writers whose done channel holds a signal
    reader,     \* where the reader goroutine is
    rhand,      \* the status frame it is delivering
    seen,       \* the newest version the reader put into readCh
    answered,   \* the calls whose answer the reader dispatched
    applied,    \* the writes the tub processed
    crossed,    \* a session was installed while a number was held unsent
    devVer,     \* the version of the tub's state
    toDev, toApp

sessionVars == <<conn, sessions, loggedIn>>
callVars == <<pc, req, used, wseq, floor, begun>>
readerVars == <<reader, rhand, seen, answered>>
devVars == <<applied, devVer>>
vars == <<sessionVars, crossed, opMu, callVars, readCh, writeSeq, writeCh,
          done, readerVars, devVars, toDev, toApp>>

NoFrame == StatusFrame(0, 0)

TypeOK ==
    /\ conn \in Sessions \cup {Nil} /\ sessions \in 0 .. MaxSessions
    /\ loggedIn \in BOOLEAN /\ crossed \in BOOLEAN
    /\ opMu \in Callers \cup {Nobody}
    /\ pc \in [Callers -> {"idle", "readLock", "readSend", "readWait",
                           "writeLock", "writeSend", "writeWait"}]
    /\ req \in [Callers -> Ops \cup {0}]
    /\ used \in [Callers -> Sessions \cup {Nil}]
    /\ wseq \in [Callers -> 0 .. MaxOps]
    /\ floor \in [Callers -> Versions]
    /\ begun \in 0 .. MaxOps
    /\ readCh \in Seq(Versions) /\ Len(readCh) <= ReadCap
    /\ writeSeq \in 0 .. MaxOps
    /\ writeCh \in [Ops -> Callers \cup {Nobody}]
    /\ done \subseteq Callers
    /\ reader \in {"reading", "dropOldest", "push"}
    /\ seen \in Versions /\ devVer \in Versions
    /\ answered \subseteq Ops /\ applied \subseteq Ops

Init ==
    /\ conn = Nil /\ sessions = 0 /\ loggedIn = FALSE
    /\ opMu = Nobody
    /\ pc = [c \in Callers |-> "idle"]
    /\ req = [c \in Callers |-> 0]
    /\ used = [c \in Callers |-> Nil]
    /\ wseq = [c \in Callers |-> 0]
    /\ floor = [c \in Callers |-> 0]
    /\ begun = 0
    /\ readCh = << >> /\ writeSeq = 0
    /\ writeCh = [s \in Ops |-> Nobody] /\ done = {}
    /\ reader = "reading" /\ rhand = NoFrame /\ seen = 0
    /\ answered = {} /\ applied = {} /\ devVer = 0 /\ crossed = FALSE
    /\ toDev = << >> /\ toApp = << >>

-----------------------------------------------------------------------------
(* The session.                                                            *)

ResetSeq == writeSeq' = 0

Install ==
    /\ conn = Nil /\ ~loggedIn /\ sessions < MaxSessions
    /\ sessions' = sessions + 1
    /\ conn' = sessions + 1
    /\ ResetSeq
    /\ readCh' = << >>
    /\ crossed' = (crossed \/ \E c \in Callers : pc[c] = "writeSend")
    /\ UNCHANGED <<loggedIn, opMu, callVars, writeCh, done, readerVars,
                   devVars, toDev, toApp>>

Login ==
    /\ conn # Nil /\ ~loggedIn
    /\ loggedIn' = TRUE
    /\ UNCHANGED <<conn, sessions, crossed, opMu, callVars, readCh, writeSeq,
                   writeCh, done, readerVars, devVars, toDev, toApp>>

\* conn.Read fails in the reader: markDisconnected.
Disconnect ==
    /\ conn # Nil /\ reader = "reading"
    /\ conn' = Nil /\ loggedIn' = FALSE
    /\ toDev' = << >> /\ toApp' = << >>
    /\ UNCHANGED <<sessions, crossed, opMu, callVars, readCh, writeSeq,
                   writeCh, done, readerVars, devVars>>

-----------------------------------------------------------------------------
(* Callers.                                                                *)

\* The LoggedIn check of Read and Write, before opMu is taken.
Begin(c, where) ==
    /\ pc[c] = "idle" /\ loggedIn /\ begun < MaxOps
    /\ begun' = begun + 1
    /\ req' = [req EXCEPT ![c] = begun + 1]
    /\ pc' = [pc EXCEPT ![c] = where]
    /\ UNCHANGED <<sessionVars, crossed, opMu, used, wseq, floor, readCh,
                   writeSeq, writeCh, done, readerVars, devVars, toDev,
                   toApp>>
BeginRead(c) == Begin(c, "readLock")
BeginWrite(c) == Begin(c, "writeLock")

NoLock == TRUE               \* variant: no opMu
LockFree == opMu = Nobody
NoDrain == UNCHANGED readCh  \* variant: queued statuses are kept
DrainRead == readCh' = << >>

LockRead(c) ==
    /\ pc[c] = "readLock" /\ LockFree
    /\ opMu' = c
    /\ DrainRead
    /\ floor' = [floor EXCEPT ![c] = seen]
    /\ pc' = [pc EXCEPT ![c] = "readSend"]
    /\ UNCHANGED <<sessionVars, crossed, req, used, wseq, begun, writeSeq,
                   writeCh, done, readerVars, devVars, toDev, toApp>>

\* The deferred Unlock and the return; and the variant without the Unlock.
ReturnLocked(c) ==
    /\ pc' = [pc EXCEPT ![c] = "idle"]
    /\ UNCHANGED opMu
Return(c) ==
    /\ pc' = [pc EXCEPT ![c] = "idle"]
    /\ opMu' = Nobody

SendRead(c) ==
    /\ pc[c] = "readSend"
    /\ \/ /\ conn # Nil
          /\ used' = [used EXCEPT ![c] = conn]
          /\ toDev' = Append(toDev, ReadReq(req[c]))
          /\ pc' = [pc EXCEPT ![c] = "readWait"]
          /\ UNCHANGED opMu
       \/ /\ conn = Nil
          /\ Return(c)
          /\ UNCHANGED <<used, toDev>>
    /\ UNCHANGED <<sessionVars, crossed, req, wseq, floor, begun, readCh,
                   writeSeq, writeCh, done, readerVars, devVars, toApp>>

ReadReturns(c) ==
    /\ pc[c] = "readWait" /\ readCh # << >>
    /\ readCh' = Tail(readCh)
    /\ Return(c)
    /\ UNCHANGED <<sessionVars, crossed, req, used, wseq, floor, begun,
                   writeSeq, writeCh, done, readerVars, devVars, toDev,
                   toApp>>

\* ctx.Done or the 4 s timer.
ReadTimeout(c) ==
    /\ pc[c] = "readWait"
    /\ Return(c)
    /\ UNCHANGED <<sessionVars, crossed, req, used, wseq, floor, begun,
                   readCh, writeSeq, writeCh, done, readerVars, devVars,
                   toDev, toApp>>

SameSeq == 1  \* variant: every write has the same number
NextSeq == writeSeq + 1

\* EncodeControl may refuse the updates; otherwise the write takes a number.
LockWrite(c) ==
    /\ pc[c] = "writeLock" /\ LockFree
    /\ \/ /\ opMu' = c
          /\ writeSeq' = NextSeq
          /\ wseq' = [wseq EXCEPT ![c] = NextSeq]
          /\ pc' = [pc EXCEPT ![c] = "writeSend"]
       \/ /\ Return(c)
          /\ UNCHANGED <<writeSeq, wseq>>
    /\ UNCHANGED <<sessionVars, crossed, req, used, floor, begun, readCh,
                   writeCh, done, readerVars, devVars, toDev, toApp>>

SendWrite(c) ==
    /\ pc[c] = "writeSend"
    /\ done' = done \ {c}
    /\ \/ /\ conn # Nil
          /\ writeCh' = [writeCh EXCEPT ![wseq[c]] = c]
          /\ used' = [used EXCEPT ![c] = conn]
          /\ toDev' = Append(toDev, WriteReq(req[c], wseq[c]))
          /\ pc' = [pc EXCEPT ![c] = "writeWait"]
          /\ UNCHANGED opMu
       \/ /\ conn = Nil
          /\ Return(c)
          /\ UNCHANGED <<writeCh, used, toDev>>
    /\ UNCHANGED <<sessionVars, crossed, req, wseq, floor, begun, readCh,
                   writeSeq, readerVars, devVars, toApp>>

\* Write returns, with nil after a signal or with an error at any time; the
\* deferred delete runs before the deferred Unlock.
WriteReturns(c) ==
    /\ pc[c] = "writeWait"
    /\ writeCh' = [writeCh EXCEPT ![wseq[c]] = Nobody]
    /\ Return(c)
    /\ UNCHANGED <<sessionVars, crossed, req, used, wseq, floor, begun,
                   readCh, writeSeq, done, readerVars, devVars, toDev, toApp>>

-----------------------------------------------------------------------------
(* dispatch, in the reader goroutine.                                      *)

Deliver(f) ==
    /\ readCh' = Append(readCh, f.ver)
    /\ seen' = f.ver
    /\ answered' = answered \cup ({f.op} \ {0})
    /\ reader' = "reading"

AlmostFull == Len(readCh) > ReadCap  \* variant: one too many
Full == Len(readCh) >= ReadCap

DispatchStatus ==
    /\ reader = "reading" /\ toApp # << >> /\ Head(toApp).kind = "status"
    /\ toApp' = Tail(toApp)
    /\ \/ /\ ~Full
          /\ Deliver(Head(toApp))
          /\ UNCHANGED rhand
       \/ /\ Full
          /\ reader' = "dropOldest"
          /\ rhand' = Head(toApp)
          /\ UNCHANGED <<readCh, seen, answered>>
    /\ UNCHANGED <<sessionVars, crossed, opMu, callVars, writeSeq, writeCh,
                   done, devVars, toDev>>

\* The channel was full: a blocking receive, then a blocking send.
DropOldest ==
    /\ reader = "dropOldest" /\ readCh # << >>
    /\ readCh' = Tail(readCh)
    /\ reader' = "push"
    /\ UNCHANGED <<sessionVars, crossed, opMu, callVars, writeSeq, writeCh,
                   done, rhand, seen, answered, devVars, toDev, toApp>>
PushStatus ==
    /\ reader = "push" /\ ~Full
    /\ Deliver(rhand)
    /\ rhand' = NoFrame
    /\ UNCHANGED <<sessionVars, crossed, opMu, callVars, writeSeq, writeCh,
                   done, devVars, toDev, toApp>>

DispatchAck ==
    /\ reader = "reading" /\ toApp # << >> /\ Head(toApp).kind = "ack"
    /\ toApp' = Tail(toApp)
    /\ done' = done \cup ({writeCh[Head(toApp).seq]} \ {Nobody})
    /\ UNCHANGED <<sessionVars, crossed, opMu, callVars, readCh, writeSeq,
                   writeCh, readerVars, devVars, toDev>>

-----------------------------------------------------------------------------
(* The tub, external: it answers in order, or not at all, and it reports a *)
(* change of its state unasked.                                            *)

DevAnswer ==
    /\ toDev # << >>
    /\ toDev' = Tail(toDev)
    /\ LET m == Head(toDev) IN
       \/ /\ m.kind = "read"
          /\ toApp' = Append(toApp, StatusFrame(devVer, m.op))
          /\ UNCHANGED applied
       \/ /\ m.kind = "write"
          /\ applied' = applied \cup {m.op}
          /\ toApp' = Append(toApp, AckFrame(m.seq, m.op))
       \/ UNCHANGED <<toApp, applied>>
    /\ UNCHANGED <<sessionVars, crossed, opMu, callVars, readCh, writeSeq,
                   writeCh, done, readerVars, devVer>>

DevChange ==
    /\ devVer < MaxVer /\ conn # Nil
    /\ devVer' = devVer + 1
    /\ toApp' = Append(toApp, StatusFrame(devVer + 1, 0))
    /\ UNCHANGED <<sessionVars, crossed, opMu, callVars, readCh, writeSeq,
                   writeCh, done, readerVars, applied, toDev>>

-----------------------------------------------------------------------------
Session == Install \/ Login \/ Disconnect
Lock(c) == LockRead(c) \/ LockWrite(c)
Proceed(c) ==
    SendRead(c) \/ ReadReturns(c) \/ ReadTimeout(c)
        \/ SendWrite(c) \/ WriteReturns(c)
Caller(c) == BeginRead(c) \/ BeginWrite(c) \/ Lock(c) \/ Proceed(c)
Reader == DispatchStatus \/ DropOldest \/ PushStatus \/ DispatchAck
Device == DevAnswer \/ DevChange

Next == Session \/ Reader \/ Device \/ \E c \in Callers : Caller(c)

Spec == Init /\ [][Next]_vars

\* A running goroutine proceeds and timers fire; sync.Mutex hands itself to
\* a waiter that has starved.  Reader, tub and network promise nothing.
Fairness == \A c \in Callers : WF_vars(Proceed(c)) /\ SF_vars(Lock(c))
FairSpec == Spec /\ Fairness

-----------------------------------------------------------------------------
(* Properties.                                                             *)

\* A Read never returns a state older than one the client had already been
\* sent when the Read took opMu: the drain of client.go:159 with the order of
\* readCh, whatever is pushed, dropped or reconnected in between.
ReadsAreFresh ==
    \A c \in Callers :
        (pc[c] = "readWait" /\ readCh # << >>) => Head(readCh) >= floor[c]

\* The answer to a Read is there for the Read that asked (client.go:23-27):
\* once the reader goroutine has dispatched it, the caller does not time out
\* for want of it while its session lasts.
ResponseNotStolen ==
    \A c \in Callers :
        (pc[c] = "readWait" /\ req[c] \in answered /\ used[c] = conn)
            => readCh # << >> \/ reader = "push"

\* Write returns nil only when the tub answered this very write, not an
\* earlier one that timed out and was answered late.  The exception is known:
\* a write numbered before a reconnect and sent after it has a number that
\* the new session gives out again (client.go:30-31, 201).
AckIsMine ==
    \A c \in Callers :
        (pc[c] = "writeWait" /\ c \in done /\ ~crossed) => req[c] \in applied

\* Every Read and Write returns, even behind others on opMu, with a silent
\* tub, a full readCh or a lost session.
CallsReturn == \A c \in Callers : pc[c] # "idle" ~> pc[c] = "idle"

\* client.go:318 "channel full; drop the oldest and push": when the reader
\* comes to drop the oldest status there is one.
OldestThere == reader = "dropOldest" => readCh # << >>
=============================================================================
