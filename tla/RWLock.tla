------------------------------- MODULE RWLock -------------------------------
(***************************************************************************)
(* The reader-writer lock of the rollout worker (WriteEnforceRWLock in     *)
(* trainer/utils/aio_rwlock.py) and its two users: a call of generate      *)
(* reads, a call of async_receive writes.  A writer cancels the readers it *)
(* has to wait for; generate catches the cancellation and starts again.    *)
(*                                                                         *)
(* Everything runs in one event loop.  The inner asyncio.Lock is never     *)
(* held across a suspension (Condition.wait releases it), so a task's      *)
(* stretch from one suspension to the next is one action.                  *)
(***************************************************************************)
EXTENDS Integers, FiniteSets

CONSTANTS
    Readers,            \* calls of generate
    Writers,            \* calls that take the writer lock
    WritersCancelled    \* whether a waiting writer may be cancelled from outside

ASSUME TaskAssumption ==
    /\ IsFiniteSet(Readers) /\ IsFiniteSet(Writers)
    /\ Readers \cap Writers = {}
    /\ WritersCancelled \in BOOLEAN

VARIABLES
    readers,            \* _readers
    writerActive,       \* _writer_active
    waitingWriters,     \* _waiting_writers
    activeReaders,      \* _active_reader_tasks
    cancelled,          \* readers with a cancellation they have not handled yet
    pc                  \* where each task is

lockVars == <<readers, writerActive, waitingWriters, activeReaders, cancelled, pc>>

\* waiting: suspended in Condition.wait; woken: notified and about to look again.
Pc == {"new", "waiting", "woken", "held", "done"}

LockInit ==
    /\ readers = 0 /\ writerActive = FALSE /\ waitingWriters = 0
    /\ activeReaders = {} /\ cancelled = {}
    /\ pc = [t \in Readers \cup Writers |-> "new"]

\* The tasks as notify_all leaves them, with t moved to pc p.
NotifyAll(t, p) ==
    [u \in Readers \cup Writers |->
        IF u = t THEN p ELSE IF pc[u] = "waiting" THEN "woken" ELSE pc[u]]

\* Mutated form of AcquireReader: waiting writers do not hold a reader back.
AcquireReaderBarging(r) ==
    /\ pc[r] \in {"new", "woken"}
    /\ IF writerActive
       THEN /\ pc' = [pc EXCEPT ![r] = "waiting"]
            /\ UNCHANGED <<readers, activeReaders>>
       ELSE /\ pc' = [pc EXCEPT ![r] = "held"]
            /\ readers' = readers + 1
            /\ activeReaders' = activeReaders \cup {r}
    /\ UNCHANGED <<writerActive, waitingWriters, cancelled>>

AcquireReader(r) ==
    /\ pc[r] \in {"new", "woken"}
    /\ IF writerActive \/ waitingWriters > 0
       THEN /\ pc' = [pc EXCEPT ![r] = "waiting"]
            /\ UNCHANGED <<readers, activeReaders>>
       ELSE /\ pc' = [pc EXCEPT ![r] = "held"]
            /\ readers' = readers + 1
            /\ activeReaders' = activeReaders \cup {r}
    /\ UNCHANGED <<writerActive, waitingWriters, cancelled>>

\* Mutated form of ReleaseReader: the last reader wakes nobody.
ReleaseReaderSilent(r) ==
    /\ pc[r] = "held"
    /\ readers' = readers - 1
    /\ activeReaders' = activeReaders \ {r}
    /\ cancelled' = cancelled \ {r}
    /\ pc' = [pc EXCEPT ![r] = IF r \in cancelled THEN "new" ELSE "done"]
    /\ UNCHANGED <<writerActive, waitingWriters>>

\* The body ends, normally or by the cancellation; a cancelled generate starts
\* over.
ReleaseReader(r) ==
    LET next == IF r \in cancelled THEN "new" ELSE "done" IN
    /\ pc[r] = "held"
    /\ readers' = readers - 1
    /\ activeReaders' = activeReaders \ {r}
    /\ cancelled' = cancelled \ {r}
    /\ pc' = IF readers' = 0 THEN NotifyAll(r, next) ELSE [pc EXCEPT ![r] = next]
    /\ UNCHANGED <<writerActive, waitingWriters>>

\* Mutated form of AcquireWriter: only an active writer is waited for.
AcquireWriterEager(w) ==
    /\ pc[w] \in {"new", "woken"}
    /\ cancelled' = IF pc[w] = "new" THEN cancelled \cup activeReaders ELSE cancelled
    /\ IF writerActive
       THEN /\ pc' = [pc EXCEPT ![w] = "waiting"]
            /\ waitingWriters' = IF pc[w] = "new" THEN waitingWriters + 1
                                 ELSE waitingWriters
            /\ UNCHANGED writerActive
       ELSE /\ pc' = [pc EXCEPT ![w] = "held"]
            /\ writerActive' = TRUE
            /\ waitingWriters' = IF pc[w] = "new" THEN waitingWriters
                                 ELSE waitingWriters - 1
    /\ UNCHANGED <<readers, activeReaders>>

\* A writer announces itself and cancels the active readers once, then waits
\* until it is alone.  One that need not wait is counted and uncounted again.
AcquireWriter(w) ==
    /\ pc[w] \in {"new", "woken"}
    /\ cancelled' = IF pc[w] = "new" THEN cancelled \cup activeReaders ELSE cancelled
    /\ IF writerActive \/ readers > 0
       THEN /\ pc' = [pc EXCEPT ![w] = "waiting"]
            /\ waitingWriters' = IF pc[w] = "new" THEN waitingWriters + 1
                                 ELSE waitingWriters
            /\ UNCHANGED writerActive
       ELSE /\ pc' = [pc EXCEPT ![w] = "held"]
            /\ writerActive' = TRUE
            /\ waitingWriters' = IF pc[w] = "new" THEN waitingWriters
                                 ELSE waitingWriters - 1
    /\ UNCHANGED <<readers, activeReaders>>

ReleaseWriter(w) ==
    /\ pc[w] = "held"
    /\ writerActive' = FALSE
    /\ pc' = NotifyAll(w, "done")
    /\ UNCHANGED <<readers, waitingWriters, activeReaders, cancelled>>

\* The finally clause of acquire_writer when the waiting task is cancelled.  It
\* notifies nobody, but from Python 3.13 on Condition.wait wakes one other
\* waiter when it is left by an exception.
CancelWriter(w) ==
    /\ WritersCancelled
    /\ pc[w] \in {"waiting", "woken"}
    /\ waitingWriters' = waitingWriters - 1
    /\ \/ pc' = [pc EXCEPT ![w] = "done"]
       \/ \E t \in (Readers \cup Writers) \ {w} :
              /\ pc[t] = "waiting"
              /\ pc' = [pc EXCEPT ![w] = "done", ![t] = "woken"]
    /\ UNCHANGED <<readers, writerActive, activeReaders, cancelled>>

LockNext ==
    \/ \E r \in Readers : AcquireReader(r) \/ ReleaseReader(r)
    \/ \E w \in Writers : AcquireWriter(w) \/ ReleaseWriter(w) \/ CancelWriter(w)

LockSpec == LockInit /\ [][LockNext]_lockVars

-----------------------------------------------------------------------------
(* Properties.                                                             *)

\* The types; above all, no counter of the lock (aio_rwlock.py:13, :19) ever
\* goes below zero.
LockTypeOK ==
    /\ readers \in Nat /\ writerActive \in BOOLEAN /\ waitingWriters \in Nat
    /\ activeReaders \subseteq Readers /\ cancelled \subseteq Readers
    /\ pc \in [Readers \cup Writers -> Pc]

Held(T) == {t \in T : pc[t] = "held"}
Queued(T) == {t \in T : pc[t] \in {"waiting", "woken"}}

\* The counters of the lock (aio_rwlock.py:13-21) agree with where the tasks
\* are: no path, cancelled or not, takes a reader or a waiting writer off twice
\* or forgets it.
CountsAgree ==
    /\ activeReaders = Held(Readers) /\ cancelled \subseteq activeReaders
    /\ readers = Cardinality(Held(Readers))
    /\ waitingWriters = Cardinality(Queued(Writers))
    /\ writerActive <=> Held(Writers) # {}

\* While a writer holds the lock no reader and no other writer does
\* (aio_rwlock.py:73-75).
Exclusion ==
    \A w \in Held(Writers) : Held(Readers \cup Writers) = {w}

\* Nobody sleeps while nobody is there to wake him: some task holds the lock,
\* or a writer has been woken and will take it (aio_rwlock.py:60, :84).  This is
\* so as long as no waiting writer is cancelled, which wakes nobody (:78).
NoStrandedWaiter ==
    (\E t \in Readers \cup Writers : pc[t] = "waiting") =>
        Held(Readers \cup Writers) # {} \/ \E w \in Writers : pc[w] = "woken"
=============================================================================
