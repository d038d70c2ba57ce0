--------------------------- MODULE TrainingProofs ---------------------------
(***************************************************************************)
(* Proofs about the lock of the rollout worker (RWLock), for any number of *)
(* readers and writers, and about Training and the transfer of weights in  *)
(* it, for any number of generations, transfers, parameters, ranks, steps  *)
(* and processes.                                                          *)
(*                                                                         *)
(* The inductive invariant of the lock is LockInv: the counters have to    *)
(* agree with the tasks for exclusion to follow from what acquire_writer   *)
(* tests, and exclusion is what makes release_writer keep the counters     *)
(* right.  The transfers use the lock as RWLock says, so that LockInv      *)
(* holds in Training too; SyncInv adds where the buckets of each transfer  *)
(* are.                                                                    *)
(***************************************************************************)
EXTENDS Training, FiniteSetTheorems, SequenceTheorems, TLAPS

LockInv == LockTypeOK /\ CountsAgree /\ Exclusion

\* What each step leaves of Held and Queued when it moves one task: the sets of
\* the others do not change.
LEMMA MoveOne ==
    ASSUME LockTypeOK, NEW t \in Readers \cup Writers, NEW p \in Pc,
           pc' = [pc EXCEPT ![t] = p]
    PROVE  /\ pc' \in [Readers \cup Writers -> Pc]
           /\ pc'[t] = p
           /\ \A u \in Readers \cup Writers : u # t => pc'[u] = pc[u]
BY DEF LockTypeOK

\* notify_all moves waiting tasks only, and only to woken.
LEMMA MoveAll ==
    ASSUME LockTypeOK, NEW t \in Readers \cup Writers, NEW p \in Pc,
           pc' = NotifyAll(t, p)
    PROVE  /\ pc' \in [Readers \cup Writers -> Pc]
           /\ pc'[t] = p
           /\ \A u \in Readers \cup Writers : u # t =>
                 /\ (pc'[u] = "held") = (pc[u] = "held")
                 /\ (pc'[u] \in {"waiting", "woken"}) = (pc[u] \in {"waiting", "woken"})
                 /\ pc'[u] # "waiting"
BY DEF LockTypeOK, NotifyAll, Pc

\* The sets of tasks are finite, so that their cardinalities can be reckoned.
LEMMA FiniteTasks ==
    ASSUME NEW S \in SUBSET (Readers \cup Writers)
    PROVE  IsFiniteSet(S) /\ Cardinality(S) \in Nat /\ (Cardinality(S) = 0 <=> S = {})
<1>1. IsFiniteSet(Readers \cup Writers)
  BY TaskAssumption, FS_Union
<1>2. IsFiniteSet(S)
  BY <1>1, FS_Subset
<1> QED
  BY <1>2, FS_EmptySet, FS_CardinalityType

\* One more and one less.
LEMMA OneMore ==
    ASSUME NEW S \in SUBSET (Readers \cup Writers), NEW t \in Readers \cup Writers
    PROVE  /\ t \notin S => Cardinality(S \cup {t}) = Cardinality(S) + 1
           /\ t \in S => Cardinality(S \ {t}) = Cardinality(S) - 1
BY FiniteTasks, FS_AddElement, FS_RemoveElement

-----------------------------------------------------------------------------

\* A new lock (aio_rwlock.py:5-21) satisfies the invariant.
LEMMA InitInv == LockInit => LockInv
<1> SUFFICES ASSUME LockInit PROVE LockInv
  OBVIOUS
<1>1. LockTypeOK
  BY DEF LockInit, LockTypeOK, Pc
<1>2. Held(Readers) = {} /\ Held(Writers) = {} /\ Queued(Writers) = {}
  BY DEF LockInit, Held, Queued
<1>3. CountsAgree
  BY <1>2, FS_EmptySet DEF LockInit, CountsAgree
<1> QED
  BY <1>1, <1>2, <1>3 DEF LockInv, Exclusion

\* acquire_reader.
LEMMA AcquireReaderInv ==
    ASSUME LockInv, NEW r \in Readers, AcquireReader(r)
    PROVE  LockInv'
<1>0. r \notin Writers /\ r \notin Held(Readers) /\ pc[r] # "held"
  BY TaskAssumption DEF AcquireReader, Held
<1>1. CASE writerActive \/ waitingWriters > 0
  <2>1. pc' = [pc EXCEPT ![r] = "waiting"] /\ UNCHANGED <<readers, activeReaders>>
    BY <1>1 DEF AcquireReader
  <2>2. /\ pc' \in [Readers \cup Writers -> Pc]
        /\ pc'[r] = "waiting"
        /\ \A u \in Readers \cup Writers : u # r => pc'[u] = pc[u]
    BY <2>1, MoveOne DEF LockInv, Pc
  <2>3. Held(Readers)' = Held(Readers) /\ Held(Writers)' = Held(Writers)
        /\ Queued(Writers)' = Queued(Writers)
        /\ Held(Readers \cup Writers)' = Held(Readers \cup Writers)
    BY <1>0, <2>2 DEF Held, Queued
  <2> QED
    BY <2>1, <2>2, <2>3 DEF LockInv, LockTypeOK, CountsAgree, Exclusion, AcquireReader
<1>2. CASE ~(writerActive \/ waitingWriters > 0)
  <2>1. /\ pc' = [pc EXCEPT ![r] = "held"]
        /\ readers' = readers + 1 /\ activeReaders' = activeReaders \cup {r}
    BY <1>2 DEF AcquireReader
  <2>2. /\ pc' \in [Readers \cup Writers -> Pc]
        /\ pc'[r] = "held"
        /\ \A u \in Readers \cup Writers : u # r => pc'[u] = pc[u]
    BY <2>1, MoveOne DEF LockInv, Pc
  <2>3. Held(Readers)' = Held(Readers) \cup {r} /\ Held(Writers)' = Held(Writers)
        /\ Queued(Writers)' = Queued(Writers)
    BY <1>0, <2>2 DEF Held, Queued
  <2>4. Held(Writers) = {}
    BY <1>2 DEF LockInv, CountsAgree
  <2>5. Cardinality(Held(Readers)') = Cardinality(Held(Readers)) + 1
    BY <1>0, <2>3, OneMore DEF Held
  <2> QED
    BY <2>1, <2>2, <2>3, <2>4, <2>5 DEF LockInv, LockTypeOK, CountsAgree, Exclusion, AcquireReader
<1> QED
  BY <1>1, <1>2

\* release_reader, with and without notify_all.
LEMMA ReleaseReaderInv ==
    ASSUME LockInv, NEW r \in Readers, ReleaseReader(r)
    PROVE  LockInv'
<1> PICK next \in {"new", "done"} : next = IF r \in cancelled THEN "new" ELSE "done"
  OBVIOUS
<1>0. /\ r \notin Writers /\ r \in Held(Readers) /\ pc[r] = "held"
      /\ next \in Pc \ {"held", "waiting", "woken"}
  BY TaskAssumption DEF ReleaseReader, Held, Pc
<1>1. /\ readers' = readers - 1 /\ activeReaders' = activeReaders \ {r}
      /\ cancelled' = cancelled \ {r}
      /\ UNCHANGED <<writerActive, waitingWriters>>
      /\ pc' = NotifyAll(r, next) \/ pc' = [pc EXCEPT ![r] = next]
  BY DEF ReleaseReader
<1>2. /\ pc' \in [Readers \cup Writers -> Pc]
      /\ pc'[r] = next
      /\ \A u \in Readers \cup Writers : u # r =>
            /\ (pc'[u] = "held") = (pc[u] = "held")
            /\ (pc'[u] \in {"waiting", "woken"}) = (pc[u] \in {"waiting", "woken"})
  <2>1. CASE pc' = NotifyAll(r, next)
    BY <1>0, <2>1, MoveAll DEF LockInv
  <2>2. CASE pc' = [pc EXCEPT ![r] = next]
    BY <1>0, <2>2, MoveOne DEF LockInv
  <2> QED
    BY <1>1, <2>1, <2>2
<1>3. /\ Held(Readers)' = Held(Readers) \ {r} /\ Held(Writers)' = Held(Writers)
      /\ Queued(Writers)' = Queued(Writers)
  BY <1>0, <1>2 DEF Held, Queued
<1>4. Held(Writers) = {}
  BY <1>0 DEF LockInv, Exclusion, Held
<1>5. Cardinality(Held(Readers)') = Cardinality(Held(Readers)) - 1
  BY <1>0, <1>3, OneMore DEF Held
<1>6. readers' \in Nat
  <2>1. Cardinality(Held(Readers)) # 0
    BY <1>0, FiniteTasks DEF Held
  <2> QED
    BY <1>1, <2>1 DEF LockInv, LockTypeOK, CountsAgree
<1>7. LockTypeOK'
  BY <1>1, <1>2, <1>6 DEF LockInv, LockTypeOK
<1>8. CountsAgree'
  BY <1>1, <1>3, <1>5 DEF LockInv, CountsAgree
<1>9. Exclusion'
  BY <1>3, <1>4 DEF Exclusion
<1> QED
  BY <1>7, <1>8, <1>9 DEF LockInv

\* acquire_writer, at the first look and after each wake-up.
LEMMA AcquireWriterInv ==
    ASSUME LockInv, NEW w \in Writers, AcquireWriter(w)
    PROVE  LockInv'
<1>0. /\ w \notin Readers /\ pc[w] \in {"new", "woken"} /\ w \notin Held(Writers)
      /\ pc[w] = "woken" <=> w \in Queued(Writers)
  BY TaskAssumption DEF AcquireWriter, Held, Queued
<1>1. UNCHANGED <<readers, activeReaders>> /\ cancelled' \subseteq cancelled \cup activeReaders
  BY DEF AcquireWriter
<1>2. CASE writerActive \/ readers > 0
  <2>1. /\ pc' = [pc EXCEPT ![w] = "waiting"] /\ writerActive' = writerActive
        /\ waitingWriters' = IF pc[w] = "new" THEN waitingWriters + 1 ELSE waitingWriters
    BY <1>2 DEF AcquireWriter
  <2>2. /\ pc' \in [Readers \cup Writers -> Pc]
        /\ pc'[w] = "waiting"
        /\ \A u \in Readers \cup Writers : u # w => pc'[u] = pc[u]
    BY <2>1, MoveOne DEF LockInv, Pc
  <2>3. /\ Held(Readers)' = Held(Readers) /\ Held(Writers)' = Held(Writers)
        /\ Held(Readers \cup Writers)' = Held(Readers \cup Writers)
        /\ Queued(Writers)' = Queued(Writers) \cup {w}
    BY <1>0, <2>2 DEF Held, Queued
  <2>4. waitingWriters' = Cardinality(Queued(Writers)')
    <3>1. CASE pc[w] = "new"
      BY <1>0, <2>1, <2>3, <3>1, OneMore DEF LockInv, CountsAgree, Queued
    <3>2. CASE pc[w] = "woken"
      <4>1. Queued(Writers)' = Queued(Writers)
        BY <1>0, <2>3, <3>2
      <4> QED
        BY <2>1, <3>2, <4>1 DEF LockInv, CountsAgree
    <3> QED
      BY <1>0, <3>1, <3>2
  <2>5. LockTypeOK'
    BY <1>1, <2>1, <2>2 DEF LockInv, LockTypeOK
  <2>6. CountsAgree'
    BY <1>1, <2>1, <2>3, <2>4 DEF LockInv, CountsAgree
  <2>7. Exclusion'
    BY <2>3 DEF LockInv, Exclusion
  <2> QED
    BY <2>5, <2>6, <2>7 DEF LockInv
<1>3. CASE ~(writerActive \/ readers > 0)
  <2>1. /\ pc' = [pc EXCEPT ![w] = "held"] /\ writerActive' = TRUE
        /\ waitingWriters' = IF pc[w] = "new" THEN waitingWriters ELSE waitingWriters - 1
    BY <1>3 DEF AcquireWriter
  <2>2. /\ pc' \in [Readers \cup Writers -> Pc]
        /\ pc'[w] = "held"
        /\ \A u \in Readers \cup Writers : u # w => pc'[u] = pc[u]
    BY <2>1, MoveOne DEF LockInv, Pc
  <2>3. Held(Readers) = {} /\ Held(Writers) = {}
    <3>1. readers = 0
      BY <1>3 DEF LockInv, LockTypeOK
    <3> QED
      BY <1>3, <3>1, FiniteTasks DEF LockInv, CountsAgree, Held
  <2>4. /\ Held(Readers)' = {} /\ Held(Writers)' = {w}
        /\ Held(Readers \cup Writers)' = {w}
        /\ Queued(Writers)' = Queued(Writers) \ {w}
    BY <1>0, <2>2, <2>3 DEF Held, Queued
  <2>5. waitingWriters' \in Nat /\ waitingWriters' = Cardinality(Queued(Writers)')
    <3>1. CASE pc[w] = "new"
      <4>1. Queued(Writers)' = Queued(Writers)
        BY <1>0, <2>4, <3>1
      <4> QED
        BY <2>1, <3>1, <4>1 DEF LockInv, CountsAgree, LockTypeOK
    <3>2. CASE pc[w] = "woken"
      <4>1. Cardinality(Queued(Writers)') = Cardinality(Queued(Writers)) - 1
        BY <1>0, <2>4, <3>2, OneMore DEF Queued
      <4>2. Cardinality(Queued(Writers)) # 0
        BY <1>0, <3>2, FiniteTasks DEF Queued
      <4> QED
        BY <2>1, <3>2, <4>1, <4>2 DEF LockInv, CountsAgree, LockTypeOK
    <3> QED
      BY <1>0, <3>1, <3>2
  <2>6. LockTypeOK'
    BY <1>1, <2>1, <2>2, <2>5 DEF LockInv, LockTypeOK
  <2>7. CountsAgree'
    BY <1>1, <2>1, <2>3, <2>4, <2>5 DEF LockInv, CountsAgree
  <2>8. Exclusion'
    BY <2>4 DEF Exclusion
  <2> QED
    BY <2>6, <2>7, <2>8 DEF LockInv
<1> QED
  BY <1>2, <1>3

\* release_writer.
LEMMA ReleaseWriterInv ==
    ASSUME LockInv, NEW w \in Writers, ReleaseWriter(w)
    PROVE  LockInv'
<1>0. w \notin Readers /\ pc[w] = "held"
  BY TaskAssumption DEF ReleaseWriter
<1>1. /\ pc' \in [Readers \cup Writers -> Pc]
      /\ pc'[w] = "done"
      /\ \A u \in Readers \cup Writers : u # w =>
            /\ (pc'[u] = "held") = (pc[u] = "held")
            /\ (pc'[u] \in {"waiting", "woken"}) = (pc[u] \in {"waiting", "woken"})
  BY MoveAll DEF LockInv, ReleaseWriter, Pc
<1>2. Held(Readers \cup Writers) = {w}
  BY <1>0 DEF LockInv, Exclusion, Held
<1>3. /\ Held(Readers)' = Held(Readers) /\ Held(Writers)' = {}
      /\ Queued(Writers)' = Queued(Writers)
  BY <1>0, <1>1, <1>2 DEF Held, Queued
<1>4. LockTypeOK'
  BY <1>1 DEF LockInv, LockTypeOK, ReleaseWriter
<1>5. CountsAgree'
  BY <1>3 DEF LockInv, CountsAgree, ReleaseWriter
<1>6. Exclusion'
  BY <1>3 DEF Exclusion
<1> QED
  BY <1>4, <1>5, <1>6 DEF LockInv

\* The finally clause of acquire_writer.
LEMMA CancelWriterInv ==
    ASSUME LockInv, NEW w \in Writers, CancelWriter(w)
    PROVE  LockInv'
<1>0. w \notin Readers /\ w \in Queued(Writers) /\ w \notin Held(Writers)
  BY TaskAssumption DEF CancelWriter, Queued, Held
<1>1. /\ pc' \in [Readers \cup Writers -> Pc]
      /\ pc'[w] = "done"
      /\ \A u \in Readers \cup Writers : u # w =>
            /\ (pc'[u] = "held") = (pc[u] = "held")
            /\ (pc'[u] \in {"waiting", "woken"}) = (pc[u] \in {"waiting", "woken"})
  <2>1. CASE pc' = [pc EXCEPT ![w] = "done"]
    BY <2>1, MoveOne DEF LockInv, Pc
  <2>2. CASE \E t \in (Readers \cup Writers) \ {w} :
                 /\ pc[t] = "waiting"
                 /\ pc' = [pc EXCEPT ![w] = "done", ![t] = "woken"]
    BY <2>2 DEF LockInv, LockTypeOK, Pc
  <2> QED
    BY <2>1, <2>2 DEF CancelWriter
<1>2. /\ Held(Readers)' = Held(Readers) /\ Held(Writers)' = Held(Writers)
      /\ Held(Readers \cup Writers)' = Held(Readers \cup Writers)
      /\ Queued(Writers)' = Queued(Writers) \ {w}
  BY <1>0, <1>1 DEF Held, Queued
<1>3. Cardinality(Queued(Writers)') = Cardinality(Queued(Writers)) - 1
  BY <1>0, <1>2, OneMore DEF Queued
<1>4. Cardinality(Queued(Writers)) # 0
  BY <1>0, FiniteTasks DEF Queued
<1>5. LockTypeOK'
  BY <1>1, <1>3, <1>4 DEF LockInv, LockTypeOK, CountsAgree, CancelWriter
<1>6. CountsAgree'
  BY <1>2, <1>3 DEF LockInv, CountsAgree, CancelWriter
<1>7. Exclusion'
  BY <1>2 DEF LockInv, Exclusion
<1> QED
  BY <1>5, <1>6, <1>7 DEF LockInv

\* Every step of the tasks keeps the invariant.
LEMMA LockStep == LockInv /\ [LockNext]_lockVars => LockInv'
<1> SUFFICES ASSUME LockInv, [LockNext]_lockVars PROVE LockInv'
  OBVIOUS
<1>1. CASE UNCHANGED lockVars
  BY <1>1 DEF lockVars, LockInv, LockTypeOK, CountsAgree, Exclusion, Held, Queued
<1>2. ASSUME NEW r \in Readers, AcquireReader(r) \/ ReleaseReader(r) PROVE LockInv'
  BY <1>2, AcquireReaderInv, ReleaseReaderInv
<1>3. ASSUME NEW w \in Writers, AcquireWriter(w) \/ ReleaseWriter(w) \/ CancelWriter(w)
      PROVE  LockInv'
  BY <1>3, AcquireWriterInv, ReleaseWriterInv, CancelWriterInv
<1> QED
  BY <1>1, <1>2, <1>3 DEF LockNext

\* The lock excludes, and its counters stay exact whatever is cancelled and when
\* (aio_rwlock.py:45-84), for any number of generations and transfers.
THEOREM LockCorrect == LockSpec => [](LockTypeOK /\ CountsAgree /\ Exclusion)
<1>1. LockInit => LockInv
  BY InitInv
<1>2. LockInv /\ [LockNext]_lockVars => LockInv'
  BY LockStep
<1> QED
  BY <1>1, <1>2, PTL DEF LockSpec, LockInv

-----------------------------------------------------------------------------
(* Nobody is left asleep, as long as no writer is cancelled.               *)

\* A step that leaves some task inside, or nobody waiting.
LEMMA StrandedStep ==
    ASSUME ~WritersCancelled, LockInv, NoStrandedWaiter, [LockNext]_lockVars
    PROVE  NoStrandedWaiter'
<1> USE DEF LockInv
<1>1. CASE UNCHANGED lockVars
  BY <1>1 DEF lockVars, NoStrandedWaiter, Held
<1>2. ASSUME NEW r \in Readers, AcquireReader(r) PROVE NoStrandedWaiter'
  <2>0. pc[r] \in {"new", "woken"} /\ r \notin Writers
    BY <1>2, TaskAssumption DEF AcquireReader
  <2>1. CASE writerActive \/ waitingWriters > 0
    <3>1. pc' = [pc EXCEPT ![r] = "waiting"]
      BY <1>2, <2>1 DEF AcquireReader
    <3>2. \A u \in Readers \cup Writers : u # r => pc'[u] = pc[u]
      BY <3>1, MoveOne DEF Pc
    <3>3. Held(Readers \cup Writers) # {} \/ \E w \in Writers : pc[w] = "woken"
      <4>1. CASE writerActive
        BY <4>1 DEF CountsAgree, Held
      <4>2. CASE waitingWriters > 0
        <5>1. Queued(Writers) # {}
          BY <4>2, FS_EmptySet DEF CountsAgree
        <5> QED
          BY <5>1 DEF Queued, NoStrandedWaiter
      <4> QED
        BY <2>1, <4>1, <4>2
    <3> QED
      BY <2>0, <3>2, <3>3 DEF NoStrandedWaiter, Held
  <2>2. CASE ~(writerActive \/ waitingWriters > 0)
    <3>1. pc' = [pc EXCEPT ![r] = "held"]
      BY <1>2, <2>2 DEF AcquireReader
    <3> QED
      BY <3>1, MoveOne DEF NoStrandedWaiter, Held, Pc
  <2> QED
    BY <2>1, <2>2
<1>3. ASSUME NEW r \in Readers, ReleaseReader(r) PROVE NoStrandedWaiter'
  <2> PICK next \in {"new", "done"} : next = IF r \in cancelled THEN "new" ELSE "done"
    OBVIOUS
  <2>0. next \in Pc /\ readers' = readers - 1
    BY <1>3 DEF Pc, ReleaseReader
  <2>1. CASE readers' = 0
    <3>1. pc' = NotifyAll(r, next)
      BY <1>3, <2>1 DEF ReleaseReader
    <3>2. \A u \in Readers \cup Writers : pc'[u] # "waiting"
      BY <2>0, <3>1, MoveAll
    <3> QED
      BY <3>2 DEF NoStrandedWaiter
  <2>2. CASE readers' # 0
    <3>1. LockInv'
      BY <1>3, ReleaseReaderInv
    <3>2. Held(Readers)' # {}
      BY <2>2, <3>1, FS_EmptySet DEF CountsAgree
    <3> QED
      BY <3>2 DEF NoStrandedWaiter, Held
  <2> QED
    BY <2>1, <2>2
<1>4. ASSUME NEW w \in Writers, AcquireWriter(w) PROVE NoStrandedWaiter'
  <2>0. pc[w] \in {"new", "woken"}
    BY <1>4 DEF AcquireWriter
  <2>1. CASE writerActive \/ readers > 0
    <3>1. pc' = [pc EXCEPT ![w] = "waiting"]
      BY <1>4, <2>1 DEF AcquireWriter
    <3>2. \A u \in Readers \cup Writers : u # w => pc'[u] = pc[u]
      BY <3>1, MoveOne DEF Pc
    <3>3. Held(Readers) # {} \/ Held(Writers) # {}
      BY <2>1, FS_EmptySet DEF CountsAgree
    <3> QED
      BY <2>0, <3>2, <3>3 DEF NoStrandedWaiter, Held
  <2>2. CASE ~(writerActive \/ readers > 0)
    <3>1. pc' = [pc EXCEPT ![w] = "held"]
      BY <1>4, <2>2 DEF AcquireWriter
    <3> QED
      BY <3>1, MoveOne DEF NoStrandedWaiter, Held, Pc
  <2> QED
    BY <2>1, <2>2
<1>5. ASSUME NEW w \in Writers, ReleaseWriter(w) PROVE NoStrandedWaiter'
  <2>1. \A u \in Readers \cup Writers : pc'[u] # "waiting"
    BY <1>5, MoveAll DEF ReleaseWriter, Pc
  <2> QED
    BY <2>1 DEF NoStrandedWaiter
<1>6. ASSUME NEW w \in Writers, CancelWriter(w) PROVE FALSE
  BY <1>6 DEF CancelWriter
<1> QED
  BY <1>1, <1>2, <1>3, <1>4, <1>5, <1>6 DEF LockNext

\* Without cancelled writers a task never sleeps in Condition.wait while there is
\* nobody to wake it (aio_rwlock.py:60, :84).
THEOREM NobodyStranded ==
    ASSUME ~WritersCancelled
    PROVE  LockSpec => []NoStrandedWaiter
<1>1. LockInit => LockInv /\ NoStrandedWaiter
  BY InitInv DEF LockInit, NoStrandedWaiter
<1>2. LockInv /\ NoStrandedWaiter /\ [LockNext]_lockVars => (LockInv /\ NoStrandedWaiter)'
  BY LockStep, StrandedStep
<1> QED
  BY <1>1, <1>2, PTL DEF LockSpec

-----------------------------------------------------------------------------
(* What the lock does for its users.                                       *)

\* acquire_writer moves nobody else, and is entered only when nobody is inside.
LEMMA WriterEnters ==
    ASSUME LockInv, NEW w \in Writers, AcquireWriter(w)
    PROVE  /\ \A t \in Readers \cup Writers : t # w => pc'[t] = pc[t]
           /\ pc'[w] = "held" => \A t \in Readers \cup Writers : pc[t] # "held"
<1>1. CASE writerActive \/ readers > 0
  <2>1. pc' = [pc EXCEPT ![w] = "waiting"]
    BY <1>1 DEF AcquireWriter
  <2> QED
    BY <2>1, MoveOne DEF LockInv, Pc
<1>2. CASE ~(writerActive \/ readers > 0)
  <2>1. pc' = [pc EXCEPT ![w] = "held"]
    BY <1>2 DEF AcquireWriter
  <2>2. readers = 0
    BY <1>2 DEF LockInv, LockTypeOK
  <2>3. Held(Readers) = {} /\ Held(Writers) = {}
    BY <1>2, <2>2, FiniteTasks DEF LockInv, CountsAgree, Held
  <2> QED
    BY <2>1, <2>3, MoveOne DEF LockInv, Pc, Held
<1> QED
  BY <1>1, <1>2

\* release_writer takes the lock from nobody else.
LEMMA WriterLeaves ==
    ASSUME LockInv, NEW w \in Writers, ReleaseWriter(w)
    PROVE  \A t \in Readers \cup Writers : t # w => (pc'[t] = "held" <=> pc[t] = "held")
BY MoveAll DEF LockInv, ReleaseWriter, Pc

\* acquire_reader moves nobody else.
LEMMA ReaderEnters ==
    ASSUME LockInv, NEW r \in Readers, AcquireReader(r)
    PROVE  \A t \in Readers \cup Writers : t # r => pc'[t] = pc[t]
<1>1. pc' = [pc EXCEPT ![r] = "waiting"] \/ pc' = [pc EXCEPT ![r] = "held"]
  BY DEF AcquireReader
<1> QED
  BY <1>1, MoveOne DEF LockInv, Pc

\* release_reader takes the lock from nobody else.
LEMMA ReaderLeaves ==
    ASSUME LockInv, NEW r \in Readers, ReleaseReader(r)
    PROVE  /\ pc'[r] # "held"
           /\ \A t \in Readers \cup Writers : t # r => (pc'[t] = "held" <=> pc[t] = "held")
<1> PICK next \in {"new", "done"} : next = IF r \in cancelled THEN "new" ELSE "done"
  OBVIOUS
<1>1. pc' = NotifyAll(r, next) \/ pc' = [pc EXCEPT ![r] = next]
  BY DEF ReleaseReader
<1> QED
  BY <1>1, MoveAll, MoveOne DEF LockInv, Pc

\* Every step of a transfer or a generation is a step of the lock, or none.
LEMMA SyncUsesLock == SyncNext => [LockNext]_lockVars
BY DEF SyncNext, Receive, Send, ReceiveLock, FlushCache, ReceiveBuffer, StartUpdate,
       ReceiveFlag, ReceiveEnd, UpdateParams, SendParam, SendLast, GenerateStart,
       GenerateEnd, LockNext

\* So is every other step, unless the process ends.
LEMMA NextUsesLock == [Next]_vars => [LockNext]_lockVars \/ SyncReset
<1>1. Driver => UNCHANGED lockVars \/ SyncReset
  BY DEF Driver, Resume, FirstSync, Train, Sync, Synced, Save, OpenMarker, WriteMarker,
         Exit, Stop, StartRound, syncVars
<1>2. StepRanks \/ Saved \/ Restart => UNCHANGED lockVars
  BY DEF StepRanks, Saved, Restart, syncVars
<1>3. Crash => SyncReset
  BY DEF Crash, Stop
<1>4. ASSUME NEW r \in Ranks, RankStep(r) PROVE UNCHANGED lockVars
  BY <1>4 DEF RankStep, Load, Prepare, OpenShard, WriteShard, syncVars
<1>5. UNCHANGED vars => UNCHANGED lockVars
  BY DEF vars, syncVars
<1> QED
  BY <1>1, <1>2, <1>3, <1>4, <1>5, SyncUsesLock DEF Next

\* The lock is as good as new after the end of a process.
LEMMA ResetLock == SyncReset => LockInit'
BY DEF SyncReset, LockInit

\* A step of the training keeps the invariant of the lock.
LEMMA LockInvKept == LockInv /\ [Next]_vars => LockInv'
<1>1. LockInit' => LockInv'
  BY InitInv, PTL
<1> QED
  BY <1>1, NextUsesLock, ResetLock, LockStep

\* In the training, too, a transfer that writes the weights is alone, and neither a
\* generation nor a transfer sleeps with nobody to wake it: the transfers keep to the
\* protocol of the lock (nccl_tensor_comm.py:72-106, aio_rwlock.py:45-84).
THEOREM TrainingLock ==
    ASSUME ~WritersCancelled
    PROVE  Spec => []Exclusion /\ []NoStrandedWaiter
<1>1. LockInit => LockInv /\ NoStrandedWaiter
  BY InitInv DEF LockInit, NoStrandedWaiter
<1>2. LockInit' => (LockInv /\ NoStrandedWaiter)'
  BY <1>1, PTL
<1>3. LockInv /\ NoStrandedWaiter /\ [Next]_vars => (LockInv /\ NoStrandedWaiter)'
  BY <1>2, LockInvKept, NextUsesLock, ResetLock, LockStep, StrandedStep
<1>4. Init => LockInit
  BY DEF Init, SyncInit
<1> QED
  BY <1>1, <1>3, <1>4, PTL DEF Spec, LockInv

-----------------------------------------------------------------------------
(* The invariant of the transfers.                                         *)

SyncTypeOK ==
    /\ round \in 0..Rounds
    /\ sender \in [on : BOOLEAN, next : Nat, buffer : SUBSET Params, size : Nat]
    /\ chan \in Seq([keys : SUBSET Params, last : BOOLEAN])
    /\ sent \in [Writers -> SUBSET Params]
    /\ rpc \in [Writers -> RecvPc]
    /\ update \in [Writers -> [on : BOOLEAN, keys : SUBSET Params]]
    /\ weights \in [Params -> 0..Rounds]
    /\ seen \in [Readers -> [Params -> 0..Rounds]]

\* async_receive is between the taking of the lock and its release, and only then is
\* an update under way.
Inside(w) == rpc[w] \in {"flush", "buffer", "await", "flag", "final"}
Guarded ==
    \A w \in Writers : /\ Inside(w) => pc[w] = "held"
                       /\ update[w].on => rpc[w] \in {"buffer", "await", "flag", "final"}

\* The transfers take the lock one after the other, in the order they were begun.
Begun(w) == rpc[w] \notin {"off", "lock"}
InTurn == \A v, w \in Writers : v < w /\ Begun(w) => rpc[v] = "end"

\* Only the last transfer still has buckets to come.
Received(w) == rpc[w] \in {"final", "end"}
OneSends ==
    \A w \in Writers : /\ w < round => Received(w)
                       /\ w > round => rpc[w] = "off" /\ sent[w] = {}

\* A version in the engine is that of a transfer that has taken the lock.
Versions == \A p \in Params : weights[p] # 0 => Begun(weights[p])

\* The done flag is on the last bucket, and the receiver stops after it.
Channel ==
    /\ \A i \in DOMAIN chan : chan[i].last => i = Len(chan) /\ ~sender.on
    /\ sender.on \/ chan # <<>> => round \in Writers /\ ~Received(round)
    /\ round \in Writers /\ ~sender.on /\ ~Received(round) =>
           chan # <<>> /\ chan[Len(chan)].last
    /\ \A w \in Writers : rpc[w] \in {"await", "flag"} => chan # <<>>

\* A parameter that was put into a bucket is in the engine, in an update, or in a
\* bucket that is still to be received.
Arrived(w, p) == weights[p] >= w \/ (update[w].on /\ p \in update[w].keys)
Accounted ==
    \A w \in Writers : \A p \in sent[w] :
        Arrived(w, p) \/ (w = round /\ \E i \in DOMAIN chan : p \in chan[i].keys)
Taken == \A w \in Writers : rpc[w] = "flag" => \A p \in chan[1].keys : Arrived(w, p)

SyncInv ==
    /\ SyncTypeOK /\ Guarded /\ InTurn /\ OneSends /\ Versions /\ Channel
    /\ Accounted /\ Taken /\ NoTornGeneration /\ BucketsApplied

\* A worker that has just been built satisfies the invariant.
LEMMA SyncInitInv == SyncInit => SyncInv
<1> SUFFICES ASSUME SyncInit PROVE SyncInv
  OBVIOUS
<1> USE RoundAssumption DEF SyncInit
<1>1. SyncTypeOK
  BY DEF SyncTypeOK, Idle, NoUpdate, RecvPc
<1>2. Guarded /\ InTurn /\ OneSends /\ Versions
  BY DEF Guarded, Inside, InTurn, OneSends, Versions, NoUpdate, Begun, Received
<1>3. Channel
  BY DEF Channel, Idle
<1>4. Accounted /\ Taken /\ BucketsApplied
  BY DEF Accounted, Taken, BucketsApplied
<1>5. NoTornGeneration
  BY DEF LockInit, NoTornGeneration, Held
<1> QED
  BY <1>1, <1>2, <1>3, <1>4, <1>5 DEF SyncInv

\* The request of a transfer.
LEMMA StartRoundInv ==
    ASSUME SyncInv, NEW w \in Writers, StartRound(w)
    PROVE  SyncInv'
<1> USE RoundAssumption DEF SyncInv
<1>0. /\ rpc[w] = "off" /\ sent[w] = {}
      /\ \A v \in Writers : v < w => Received(v)
  BY DEF StartRound, OneSends, Channel, SyncTypeOK
<1>1. /\ round' = w
      /\ sender' = [on |-> TRUE, next |-> 1, buffer |-> {}, size |-> 0]
      /\ rpc' = [rpc EXCEPT ![w] = "lock"] /\ chan = <<>>
      /\ UNCHANGED <<lockVars, chan, sent, update, weights, seen>>
  BY DEF StartRound, Idle
<1>2. SyncTypeOK'
  <2>1. rpc' \in [Writers -> RecvPc]
    BY <1>1 DEF SyncTypeOK, RecvPc
  <2> QED
    BY <1>1, <2>1 DEF SyncTypeOK
<1>3. Guarded'
  BY <1>0, <1>1 DEF SyncTypeOK, Guarded, Inside, lockVars
<1>4. InTurn' /\ OneSends' /\ Versions'
  <2>1. rpc'[w] = "lock" /\ \A v \in Writers : v # w => rpc'[v] = rpc[v]
    BY <1>1 DEF SyncTypeOK
  <2>2. InTurn'
    BY <1>0, <2>1 DEF InTurn, Begun
  <2>3. OneSends'
    BY <1>0, <1>1, <2>1 DEF SyncTypeOK, StartRound, OneSends, Received
  <2>4. \A p \in Params : weights[p] # 0 => weights[p] \in Writers
    BY DEF SyncTypeOK
  <2>5. Versions'
    BY <1>0, <1>1, <2>1, <2>4 DEF Versions, Begun
  <2> QED
    BY <2>2, <2>3, <2>5
<1>5. Channel'
  BY <1>0, <1>1 DEF SyncTypeOK, Channel, Received
<1>6. Accounted' /\ Taken' /\ BucketsApplied'
  BY <1>0, <1>1 DEF SyncTypeOK, Accounted, Taken, BucketsApplied, Arrived
<1>7. NoTornGeneration'
  BY <1>1 DEF NoTornGeneration, Held, lockVars
<1> QED
  BY <1>2, <1>3, <1>4, <1>5, <1>6, <1>7

\* A broadcast, without a change of who sends.
LEMMA BroadcastInv ==
    ASSUME SyncInv, NEW last \in BOOLEAN, Broadcast(last), sender.on, sender'.on = ~last,
           sender' \in [on : BOOLEAN, next : Nat, buffer : SUBSET Params, size : Nat],
           UNCHANGED <<lockVars, round, recvVars, seen>>
    PROVE  SyncInv'
<1> USE RoundAssumption DEF SyncInv, Broadcast, recvVars
<1> DEFINE b == [keys |-> sender.buffer, last |-> last]
<1>0. /\ b \in [keys : SUBSET Params, last : BOOLEAN]
      /\ round \in Writers /\ ~Received(round)
  BY DEF SyncTypeOK, Channel
<1>1. /\ chan' \in Seq([keys : SUBSET Params, last : BOOLEAN])
      /\ Len(chan') = Len(chan) + 1 /\ Len(chan) \in Nat /\ chan' # <<>>
      /\ DOMAIN chan = 1..Len(chan) /\ DOMAIN chan' = 1..(Len(chan) + 1)
      /\ \A i \in 1..Len(chan) : chan'[i] = chan[i]
      /\ chan'[Len(chan) + 1] = b
  BY <1>0 DEF SyncTypeOK
<1>2. /\ sent' \in [Writers -> SUBSET Params]
      /\ sent'[round] = sent[round] \cup b.keys
      /\ \A w \in Writers : w # round => sent'[w] = sent[w]
  BY <1>0 DEF SyncTypeOK
<1>3. SyncTypeOK'
  BY <1>1, <1>2 DEF SyncTypeOK
<1>4. Guarded' /\ InTurn' /\ Versions'
  BY DEF Guarded, InTurn, Versions, Inside, Begun, lockVars
<1>5. OneSends'
  BY <1>0, <1>2 DEF OneSends, Received, SyncTypeOK
<1>6. Channel'
  BY <1>0, <1>1 DEF Channel, Received, SyncTypeOK
<1>7. Accounted'
  <2> SUFFICES ASSUME NEW w \in Writers, NEW p \in sent'[w]
               PROVE  \/ Arrived(w, p)
                      \/ w = round /\ \E i \in 1..(Len(chan) + 1) : p \in chan'[i].keys
    BY <1>1 DEF Accounted, Arrived
  <2>1. CASE p \in sent[w]
    <3>1. Arrived(w, p) \/ (w = round /\ \E i \in 1..Len(chan) : p \in chan[i].keys)
      BY <1>1, <2>1 DEF Accounted
    <3> QED
      BY <1>1, <3>1
  <2>2. CASE p \notin sent[w]
    <3>1. w = round /\ p \in b.keys
      BY <1>2, <2>2
    <3> QED
      BY <1>1, <3>1
  <2> QED
    BY <2>1, <2>2
<1>8. Taken'
  BY <1>1 DEF Taken, Arrived, Channel
<1>9. BucketsApplied' /\ NoTornGeneration'
  BY <1>0, <1>2 DEF BucketsApplied, NoTornGeneration, Held, lockVars, Received
<1> QED
  BY <1>3, <1>4, <1>5, <1>6, <1>7, <1>8, <1>9

\* NCCLTensorSender.send.
LEMMA SendInv ==
    ASSUME SyncInv, Send
    PROVE  SyncInv'
<1> USE RoundAssumption DEF SyncInv
<1>1. CASE SendLast
  BY <1>1, BroadcastInv DEF SendLast, Idle, SyncTypeOK
<1>2. CASE SendParam
  <2>0. /\ sender.on /\ sender.next \in Params /\ Size[sender.next] \in Nat
        /\ sender.next + 1 \in Nat /\ sender.size + Size[sender.next] \in Nat
        /\ UNCHANGED <<lockVars, round, recvVars, seen>>
    BY <1>2 DEF SendParam, Params, SyncTypeOK
  <2>1. CASE sender.size + Size[sender.next] >= BucketSize
    <3>1. Broadcast(FALSE)
      BY <1>2, <2>1 DEF SendParam
    <3>2. sender' = [on |-> TRUE, next |-> sender.next + 1, buffer |-> {}, size |-> 0]
      BY <1>2, <2>1 DEF SendParam, Idle
    <3> QED
      BY <2>0, <3>1, <3>2, BroadcastInv
  <2>2. CASE ~(sender.size + Size[sender.next] >= BucketSize)
    <3>0. /\ sender' = [on |-> TRUE, next |-> sender.next + 1,
                        buffer |-> sender.buffer \cup {sender.next},
                        size |-> sender.size + Size[sender.next]]
          /\ UNCHANGED <<chan, sent>>
      BY <1>2, <2>2 DEF SendParam
    <3>1. /\ sender' \in [on : BOOLEAN, next : Nat, buffer : SUBSET Params, size : Nat]
          /\ sender'.on /\ UNCHANGED <<chan, sent>>
      BY <2>0, <3>0 DEF SyncTypeOK
    <3> USE <2>0, <3>1 DEF recvVars
    <3>2. SyncTypeOK' /\ Guarded' /\ InTurn' /\ OneSends' /\ Versions'
      BY DEF SyncTypeOK, Guarded, InTurn, OneSends, Versions, Inside, Begun, Received, lockVars
    <3>3. Channel'
      BY DEF Channel, Received
    <3>4. Accounted' /\ Taken' /\ NoTornGeneration' /\ BucketsApplied'
      BY DEF Accounted, Taken, Arrived, NoTornGeneration, BucketsApplied, Held, lockVars
    <3> QED
      BY <3>2, <3>3, <3>4
  <2> QED
    BY <2>1, <2>2
<1> QED
  BY <1>1, <1>2 DEF Send

\* generate takes and leaves the lock.
LEMMA GenerateInv ==
    ASSUME LockInv, SyncInv, NEW r \in Readers, GenerateStart(r) \/ GenerateEnd(r)
    PROVE  SyncInv'
<1> USE DEF SyncInv, sendVars, recvVars
<1>0. UNCHANGED <<sendVars, recvVars>>
  BY DEF GenerateStart, GenerateEnd
<1>1. /\ r \notin Writers
      /\ \A t \in Readers \cup Writers : t # r => (pc'[t] = "held" <=> pc[t] = "held")
  BY ReaderEnters, ReaderLeaves, TaskAssumption DEF GenerateStart, GenerateEnd
<1>2. /\ seen' \in [Readers -> [Params -> 0..Rounds]]
      /\ \A t \in Readers : t # r => seen'[t] = seen[t]
      /\ pc'[r] = "held" => seen'[r] = weights
  <2>1. CASE GenerateStart(r)
    BY <2>1 DEF GenerateStart, SyncTypeOK
  <2>2. CASE GenerateEnd(r)
    BY <2>2, ReaderLeaves DEF GenerateEnd, SyncTypeOK
  <2> QED
    BY <2>1, <2>2
<1>3. SyncTypeOK' /\ Guarded' /\ InTurn' /\ OneSends' /\ Versions' /\ Channel'
  BY <1>0, <1>1, <1>2 DEF SyncTypeOK, Guarded, InTurn, OneSends, Versions, Channel, Inside,
     Begun, Received
<1>4. Accounted' /\ Taken' /\ BucketsApplied'
  BY <1>0 DEF Accounted, Taken, Arrived, BucketsApplied
<1>5. NoTornGeneration'
  BY <1>0, <1>1, <1>2 DEF NoTornGeneration, Held
<1> QED
  BY <1>3, <1>4, <1>5

\* async_receive takes the lock: whoever had it before has finished.
LEMMA ReceiveLockInv ==
    ASSUME LockInv, SyncInv, NEW w \in Writers, ReceiveLock(w)
    PROVE  SyncInv'
<1> USE RoundAssumption DEF SyncInv, sendVars
<1>0. /\ rpc[w] = "lock" /\ AcquireWriter(w) /\ w \notin Readers
      /\ UNCHANGED <<sendVars, update, weights, seen>>
  BY TaskAssumption DEF ReceiveLock
<1>1. /\ \A t \in Readers \cup Writers : t # w => pc'[t] = pc[t]
      /\ pc'[w] = "held" => \A t \in Readers \cup Writers : pc[t] # "held"
  BY <1>0, WriterEnters
<1>2. /\ rpc' \in [Writers -> RecvPc]
      /\ \A v \in Writers : v # w => rpc'[v] = rpc[v]
      /\ rpc'[w] = IF pc'[w] = "held" THEN "flush" ELSE "lock"
  BY <1>0 DEF ReceiveLock, Goto, SyncTypeOK, RecvPc
<1>3. SyncTypeOK' /\ Guarded'
  BY <1>0, <1>1, <1>2 DEF SyncTypeOK, Guarded, Inside
<1>4. InTurn'
  <2>1. \A u \in Writers : w < u => ~Begun(u)
    BY <1>0 DEF InTurn
  <2>2. pc'[w] = "held" => \A v \in Writers : v < w => rpc[v] = "end"
    <3>1. \A v \in Writers : v < w => Received(v)
      BY <1>0 DEF OneSends, SyncTypeOK
    <3> QED
      BY <1>1, <3>1 DEF Received, Guarded, Inside
  <2> QED
    BY <1>2, <2>1, <2>2 DEF InTurn, Begun
<1>5. OneSends' /\ Channel'
  BY <1>0, <1>2 DEF OneSends, Channel, Received, SyncTypeOK
<1>6. Versions'
  <2>1. \A p \in Params : weights[p] # 0 => weights[p] \in Writers
    BY DEF SyncTypeOK
  <2> QED
    BY <1>0, <1>2, <2>1 DEF Versions, Begun
<1>7. Accounted' /\ Taken' /\ BucketsApplied'
  <2>1. \A v \in Writers : (rpc'[v] = "end" <=> rpc[v] = "end") /\ (rpc'[v] = "flag" <=> rpc[v] = "flag")
    BY <1>0, <1>2
  <2>2. \A v \in Writers, p \in Params : Arrived(v, p)' <=> Arrived(v, p)
    BY <1>0 DEF Arrived
  <2>3. Accounted'
    BY <1>0, <2>2 DEF Accounted, SyncTypeOK
  <2>4. Taken'
    BY <1>0, <2>1 DEF Taken, Arrived
  <2>5. BucketsApplied'
    BY <1>0, <2>1 DEF BucketsApplied
  <2> QED
    BY <2>3, <2>4, <2>5
<1>8. NoTornGeneration'
  BY <1>0, <1>1 DEF NoTornGeneration, Held
<1> QED
  BY <1>3, <1>4, <1>5, <1>6, <1>7, <1>8

\* flush_cache, and the receipt of the data of a bucket.
LEMMA ReceiveDataInv ==
    ASSUME SyncInv, NEW w \in Writers, FlushCache(w) \/ ReceiveBuffer(w)
    PROVE  SyncInv'
<1> USE RoundAssumption DEF SyncInv, sendVars
<1>0. /\ Inside(w) /\ ~Received(w)
      /\ UNCHANGED <<lockVars, sendVars, update, weights, seen>>
  BY DEF FlushCache, ReceiveBuffer, Inside, Received, Guarded
<1>1. /\ rpc' \in [Writers -> RecvPc]
      /\ \A v \in Writers : v # w => rpc'[v] = rpc[v]
      /\ \/ rpc[w] = "flush" /\ rpc'[w] = "buffer"
         \/ rpc[w] = "buffer" /\ rpc'[w] = "await" /\ chan # <<>>
  BY DEF FlushCache, ReceiveBuffer, Goto, SyncTypeOK, RecvPc
<1>2. SyncTypeOK' /\ Guarded'
  BY <1>0, <1>1 DEF SyncTypeOK, Guarded, Inside, lockVars
<1>3. InTurn' /\ OneSends' /\ Channel'
  <2>1. \A v \in Writers : (Begun(v)' <=> Begun(v)) /\ (Received(v)' <=> Received(v))
    BY <1>0, <1>1 DEF Begun, Received, Inside
  <2>2. \A v \in Writers : rpc'[v] = "end" <=> rpc[v] = "end"
    BY <1>1
  <2>3. \A v \in Writers : rpc[v] = "off" => rpc'[v] = "off"
    BY <1>1
  <2>4. InTurn'
    BY <2>1, <2>2 DEF InTurn
  <2>5. OneSends'
    BY <1>0, <2>1, <2>3 DEF OneSends
  <2>6. Channel'
    BY <1>0, <1>1, <2>1 DEF Channel
  <2> QED
    BY <2>4, <2>5, <2>6
<1>4. Versions'
  <2>1. \A p \in Params : weights[p] # 0 => weights[p] \in Writers
    BY DEF SyncTypeOK
  <2> QED
    BY <1>0, <1>1, <2>1 DEF Versions, Begun
<1>5. Accounted' /\ Taken' /\ BucketsApplied'
  BY <1>0, <1>1 DEF Accounted, Taken, Arrived, BucketsApplied
<1>6. NoTornGeneration'
  BY <1>0 DEF NoTornGeneration, Held, lockVars
<1> QED
  BY <1>2, <1>3, <1>4, <1>5, <1>6

\* The transfer that is told a bucket is the last one begun.
LEMMA ReceiverIsLast ==
    ASSUME SyncInv, NEW w \in Writers, rpc[w] \in {"lock", "flush", "buffer", "await", "flag"}
    PROVE  w = round
<1>1. w \in Int /\ round \in Int
  BY RoundAssumption DEF SyncInv, SyncTypeOK
<1>2. ~(w < round) /\ ~(w > round)
  BY DEF SyncInv, OneSends, Received
<1> QED
  BY <1>1, <1>2

\* The first broadcast that has not been taken, and those behind it.
LEMMA FirstBroadcast ==
    ASSUME SyncTypeOK, chan # <<>>
    PROVE  /\ Len(chan) \in Nat \ {0} /\ DOMAIN chan = 1..Len(chan)
           /\ Head(chan) = chan[1] /\ chan[1] \in [keys : SUBSET Params, last : BOOLEAN]
           /\ Tail(chan) \in Seq([keys : SUBSET Params, last : BOOLEAN])
           /\ Len(Tail(chan)) = Len(chan) - 1 /\ DOMAIN Tail(chan) = 1..(Len(chan) - 1)
           /\ \A i \in 1..(Len(chan) - 1) : Tail(chan)[i] = chan[i + 1]
<1> DEFINE Bucket == [keys : SUBSET Params, last : BOOLEAN]
<1>1. chan \in Seq(Bucket)
  BY DEF SyncTypeOK
<1> HIDE DEF Bucket
<1>2. Len(chan) \in Nat /\ DOMAIN chan = 1..Len(chan) /\ Len(chan) # 0
  BY <1>1
<1>3. Head(chan) = chan[1] /\ chan[1] \in Bucket
  BY <1>1, <1>2
<1>4. Tail(chan) \in Seq(Bucket) /\ Len(Tail(chan)) = Len(chan) - 1
  BY <1>1, <1>2
<1>5. /\ DOMAIN Tail(chan) = 1..(Len(chan) - 1)
      /\ \A i \in 1..(Len(chan) - 1) : Tail(chan)[i] = chan[i + 1]
  BY <1>1, <1>2, <1>4
<1> QED
  BY <1>2, <1>3, <1>4, <1>5 DEF Bucket

\* The start of an update, after the previous one.
LEMMA StartUpdateInv ==
    ASSUME SyncInv, NEW w \in Writers, StartUpdate(w)
    PROVE  SyncInv'
<1> USE RoundAssumption DEF SyncInv, sendVars
<1>0. /\ rpc[w] = "await" /\ ~update[w].on /\ w = round
      /\ UNCHANGED <<lockVars, sendVars, weights, seen>>
  BY ReceiverIsLast DEF StartUpdate
<1>1. chan # <<>> /\ chan[1] = Head(chan) /\ chan[1].keys \in SUBSET Params
  BY <1>0, FirstBroadcast DEF Channel
<1>2. /\ rpc' \in [Writers -> RecvPc]
      /\ \A v \in Writers : v # w => rpc'[v] = rpc[v]
      /\ rpc'[w] = "flag"
  BY DEF StartUpdate, Goto, SyncTypeOK, RecvPc
<1>3. /\ update' \in [Writers -> [on : BOOLEAN, keys : SUBSET Params]]
      /\ \A v \in Writers : v # w => update'[v] = update[v]
      /\ update'[w] = [on |-> TRUE, keys |-> chan[1].keys]
  BY <1>1 DEF StartUpdate, SyncTypeOK
<1>4. SyncTypeOK' /\ Guarded'
  BY <1>0, <1>2, <1>3 DEF SyncTypeOK, Guarded, Inside, lockVars
<1>5. InTurn' /\ OneSends' /\ Channel'
  <2>1. \A v \in Writers : (Begun(v)' <=> Begun(v)) /\ (Received(v)' <=> Received(v))
    BY <1>0, <1>2 DEF Begun, Received
  <2>2. \A v \in Writers : rpc'[v] = "end" <=> rpc[v] = "end"
    BY <1>0, <1>2
  <2>3. \A v \in Writers : rpc[v] = "off" => rpc'[v] = "off"
    BY <1>0, <1>2
  <2>4. InTurn'
    BY <2>1, <2>2 DEF InTurn
  <2>5. OneSends'
    BY <1>0, <2>1, <2>3 DEF OneSends
  <2>6. Channel'
    BY <1>0, <1>1, <2>1 DEF Channel
  <2> QED
    BY <2>4, <2>5, <2>6
<1>6. Versions'
  <2>1. \A p \in Params : weights[p] # 0 => weights[p] \in Writers
    BY DEF SyncTypeOK
  <2> QED
    BY <1>0, <1>2, <2>1 DEF Versions, Begun
<1>7. \A v \in Writers, p \in Params : Arrived(v, p) => Arrived(v, p)'
  BY <1>0, <1>3 DEF Arrived
<1>8. Accounted' /\ BucketsApplied'
  BY <1>0, <1>2, <1>7 DEF Accounted, BucketsApplied, SyncTypeOK
<1>9. Taken'
  <2>1. \A v \in Writers : rpc'[v] = "flag" => v = w
    BY <1>0, <1>2, ReceiverIsLast
  <2> QED
    BY <1>0, <1>3, <2>1 DEF Taken, Arrived
<1>10. NoTornGeneration'
  BY <1>0 DEF NoTornGeneration, Held, lockVars
<1> QED
  BY <1>4, <1>5, <1>6, <1>8, <1>9, <1>10

\* update_params: nobody generates meanwhile, and no later transfer is overwritten.
LEMMA UpdateParamsInv ==
    ASSUME LockInv, SyncInv, NEW w \in Writers, UpdateParams(w)
    PROVE  SyncInv'
<1> USE RoundAssumption DEF SyncInv, sendVars
<1>0. /\ update[w].on /\ pc[w] = "held" /\ Begun(w) /\ rpc[w] # "end"
      /\ UNCHANGED <<lockVars, sendVars, rpc, seen>>
  BY DEF UpdateParams, Guarded, Inside, Begun
<1>1. /\ weights' \in [Params -> 0..Rounds]
      /\ \A p \in Params : weights'[p] = IF p \in update[w].keys THEN w ELSE weights[p]
  BY DEF UpdateParams, SyncTypeOK
<1>2. /\ update' \in [Writers -> [on : BOOLEAN, keys : SUBSET Params]]
      /\ \A v \in Writers : v # w => update'[v] = update[v]
      /\ update'[w] = [on |-> FALSE, keys |-> {}]
  BY DEF UpdateParams, SyncTypeOK, NoUpdate
<1>3. \A p \in Params : weights[p] <= w
  BY <1>0 DEF Versions, InTurn, SyncTypeOK
<1>4. \A v \in Writers, p \in Params : weights[p] >= v => weights'[p] >= v
  <2> TAKE v \in Writers, p \in Params
  <2>1. v \in Int /\ w \in Int /\ weights[p] \in Int
    BY DEF SyncTypeOK
  <2>2. weights'[p] = w \/ weights'[p] = weights[p]
    BY <1>1
  <2> QED
    BY <1>3, <2>1, <2>2
<1>5. \A v \in Writers, p \in Params : Arrived(v, p) => Arrived(v, p)'
  <2> SUFFICES ASSUME NEW v \in Writers, NEW p \in Params, Arrived(v, p)
               PROVE  Arrived(v, p)'
    OBVIOUS
  <2>1. CASE weights[p] >= v
    BY <1>4, <2>1 DEF Arrived
  <2>2. CASE update[v].on /\ p \in update[v].keys /\ v # w
    BY <1>2, <2>2 DEF Arrived
  <2>3. CASE p \in update[w].keys /\ v = w
    BY <1>1, <2>3 DEF Arrived
  <2> QED
    BY <2>1, <2>2, <2>3 DEF Arrived
<1>6. SyncTypeOK' /\ Guarded'
  BY <1>0, <1>1, <1>2 DEF SyncTypeOK, Guarded, Inside, lockVars
<1>7. InTurn' /\ OneSends' /\ Channel' /\ Versions'
  BY <1>0, <1>1 DEF InTurn, OneSends, Channel, Versions, Begun, Received, SyncTypeOK
<1>8. Accounted'
  BY <1>0, <1>5 DEF Accounted, SyncTypeOK
<1>9. Taken'
  <2> SUFFICES ASSUME NEW v \in Writers, rpc[v] = "flag", NEW p \in chan[1].keys
               PROVE  Arrived(v, p)'
    BY <1>0 DEF Taken
  <2>1. p \in Params
    BY FirstBroadcast DEF Channel
  <2> QED
    BY <1>5, <2>1 DEF Taken
<1>10. BucketsApplied'
  BY <1>0, <1>4 DEF BucketsApplied, SyncTypeOK
<1>11. NoTornGeneration'
  BY <1>0, TaskAssumption DEF NoTornGeneration, Held, lockVars, LockInv, Exclusion
<1> QED
  BY <1>6, <1>7, <1>8, <1>9, <1>10, <1>11

\* The done flag: the bucket it comes with is in an update by now.
LEMMA ReceiveFlagInv ==
    ASSUME SyncInv, NEW w \in Writers, ReceiveFlag(w)
    PROVE  SyncInv'
<1> USE RoundAssumption DEF SyncInv
<1>0. /\ rpc[w] = "flag" /\ w = round /\ chan # <<>>
      /\ UNCHANGED <<lockVars, round, sender, sent, update, weights, seen>>
  BY ReceiverIsLast DEF ReceiveFlag, Channel
<1>1. /\ Len(chan) \in Nat \ {0} /\ DOMAIN chan = 1..Len(chan)
      /\ chan' \in Seq([keys : SUBSET Params, last : BOOLEAN])
      /\ Len(chan') = Len(chan) - 1 /\ DOMAIN chan' = 1..(Len(chan) - 1)
      /\ \A i \in 1..(Len(chan) - 1) : chan'[i] = chan[i + 1]
  BY <1>0, FirstBroadcast DEF ReceiveFlag
<1>2. /\ rpc' \in [Writers -> RecvPc]
      /\ \A v \in Writers : v # w => rpc'[v] = rpc[v]
      /\ rpc'[w] = IF chan[1].last THEN "final" ELSE "buffer"
  BY <1>0, FirstBroadcast DEF ReceiveFlag, Goto, SyncTypeOK, RecvPc
<1>3. SyncTypeOK' /\ Guarded'
  BY <1>0, <1>1, <1>2 DEF SyncTypeOK, Guarded, Inside, lockVars
<1>4. InTurn' /\ OneSends'
  BY <1>0, <1>2 DEF InTurn, OneSends, Begun, Received, SyncTypeOK
<1>5. Versions'
  <2>1. \A p \in Params : weights[p] # 0 => weights[p] \in Writers
    BY DEF SyncTypeOK
  <2> QED
    BY <1>0, <1>2, <2>1 DEF Versions, Begun
<1>6. Channel'
  <2>1. CASE chan[1].last
    <3>1. Len(chan) = 1 /\ ~sender.on
      BY <1>1, <2>1 DEF Channel
    <3>2. chan' = <<>>
      BY <1>1, <3>1
    <3>3. \A v \in Writers : rpc'[v] \notin {"await", "flag"}
      BY <1>0, <1>2, <2>1, ReceiverIsLast
    <3> QED
      BY <1>0, <1>2, <2>1, <3>1, <3>2, <3>3 DEF Channel, Received
  <2>2. CASE ~chan[1].last
    <3>1. ~Received(round) /\ ~Received(round)'
      BY <1>0, <1>2, <2>2 DEF Received
    <3>2. ~sender.on => chan[Len(chan)].last
      BY <1>0, <3>1 DEF Channel
    <3>3. ~sender.on => Len(chan) - 1 \in 1..(Len(chan) - 1)
      BY <1>1, <2>2, <3>2
    <3>4. ~sender.on => chan' # <<>> /\ chan'[Len(chan')].last
      BY <1>1, <3>2, <3>3
    <3>5. \A v \in Writers : rpc'[v] \notin {"await", "flag"}
      BY <1>0, <1>2, <2>2, ReceiverIsLast
    <3>6. \A i \in DOMAIN chan' : chan'[i].last => i = Len(chan') /\ ~sender.on
      <4> TAKE i \in DOMAIN chan'
      <4>1. i \in Int /\ i + 1 \in 1..Len(chan) /\ chan'[i] = chan[i + 1]
        BY <1>1
      <4>2. chan[i + 1].last => i + 1 = Len(chan) /\ ~sender.on
        BY <1>1, <4>1 DEF Channel
      <4> QED
        BY <1>1, <4>1, <4>2
    <3> QED
      BY <1>0, <3>1, <3>4, <3>5, <3>6 DEF Channel
  <2> QED
    BY <2>1, <2>2
<1>7. Accounted'
  <2> SUFFICES ASSUME NEW v \in Writers, NEW p \in sent[v], ~Arrived(v, p)
               PROVE  v = round /\ \E i \in DOMAIN chan' : p \in chan'[i].keys
    BY <1>0 DEF Accounted, Arrived
  <2>1. v = round
    BY DEF Accounted
  <2>2. PICK i \in 1..Len(chan) : p \in chan[i].keys
    BY <1>1 DEF Accounted
  <2>3. i # 1
    BY <1>0, <2>1, <2>2 DEF Taken
  <2>4. i - 1 \in 1..(Len(chan) - 1) /\ chan'[i - 1] = chan[i]
    BY <1>1, <2>3
  <2> QED
    BY <1>1, <2>1, <2>2, <2>4
<1>8. Taken' /\ BucketsApplied'
  BY <1>0, <1>2, ReceiverIsLast DEF Taken, BucketsApplied
<1>9. NoTornGeneration'
  BY <1>0 DEF NoTornGeneration, Held, lockVars
<1> QED
  BY <1>3, <1>4, <1>5, <1>6, <1>7, <1>8, <1>9

\* The lock is released when the last update is through.
LEMMA ReceiveEndInv ==
    ASSUME LockInv, SyncInv, NEW w \in Writers, ReceiveEnd(w)
    PROVE  SyncInv'
<1> USE RoundAssumption DEF SyncInv, sendVars
<1>0. /\ rpc[w] = "final" /\ ~update[w].on /\ ReleaseWriter(w) /\ w \notin Readers
      /\ UNCHANGED <<sendVars, update, weights, seen>>
  BY TaskAssumption DEF ReceiveEnd
<1>1. \A t \in Readers \cup Writers : t # w => (pc'[t] = "held" <=> pc[t] = "held")
  BY <1>0, WriterLeaves
<1>2. /\ rpc' \in [Writers -> RecvPc]
      /\ \A v \in Writers : v # w => rpc'[v] = rpc[v]
      /\ rpc'[w] = "end"
  BY DEF ReceiveEnd, Goto, SyncTypeOK, RecvPc
<1>3. SyncTypeOK' /\ Guarded'
  BY <1>0, <1>1, <1>2 DEF SyncTypeOK, Guarded, Inside
<1>4. InTurn' /\ OneSends' /\ Channel'
  BY <1>0, <1>2 DEF InTurn, OneSends, Channel, Begun, Received, SyncTypeOK
<1>5. Versions'
  <2>1. \A p \in Params : weights[p] # 0 => weights[p] \in Writers
    BY DEF SyncTypeOK
  <2> QED
    BY <1>0, <1>2, <2>1 DEF Versions, Begun
<1>6. Accounted' /\ Taken'
  BY <1>0, <1>2 DEF Accounted, Taken, Arrived
<1>7. BucketsApplied'
  <2>1. \A p \in sent[w] : weights[p] >= w
    <3>1. ~(w = round /\ chan # <<>>)
      BY <1>0 DEF Channel, Received
    <3>2. DOMAIN chan # {} => chan # <<>>
      OBVIOUS
    <3> QED
      BY <1>0, <3>1, <3>2 DEF Accounted, Arrived
  <2> QED
    BY <1>0, <1>2, <2>1 DEF BucketsApplied
<1>8. NoTornGeneration'
  BY <1>0, <1>1 DEF NoTornGeneration, Held
<1> QED
  BY <1>3, <1>4, <1>5, <1>6, <1>7, <1>8

\* Steps of the transfers and the generations.
LEMMA SyncNextInv == LockInv /\ SyncInv /\ SyncNext => SyncInv'
BY GenerateInv, ReceiveLockInv, ReceiveDataInv, StartUpdateInv, UpdateParamsInv,
   ReceiveFlagInv, ReceiveEndInv, SendInv DEF SyncNext, Receive

\* Nothing of the worker is touched.
LEMMA SyncUnchanged == SyncInv /\ UNCHANGED syncVars => SyncInv'
<1> SUFFICES ASSUME SyncInv, UNCHANGED syncVars PROVE SyncInv'
  OBVIOUS
<1> USE DEF SyncInv, syncVars, sendVars, recvVars, lockVars
<1>1. SyncTypeOK' /\ Guarded' /\ InTurn' /\ OneSends' /\ Versions' /\ Channel'
  BY DEF SyncTypeOK, Guarded, InTurn, OneSends, Versions, Channel, Inside, Begun, Received
<1>2. Accounted' /\ Taken' /\ NoTornGeneration' /\ BucketsApplied'
  BY DEF Accounted, Taken, Arrived, NoTornGeneration, BucketsApplied, Held
<1> QED
  BY <1>1, <1>2

\* Every step of the training.
LEMMA SyncStep == LockInv /\ SyncInv /\ [Next]_vars => SyncInv'
<1> SUFFICES ASSUME LockInv, SyncInv, [Next]_vars PROVE SyncInv'
  OBVIOUS
<1>0. SyncInit' => SyncInv'
  BY SyncInitInv, PTL
<1>1. SyncReset => SyncInit'
  BY DEF SyncReset, SyncInit, LockInit
<1>2. ASSUME Driver PROVE SyncInv'
  <2>1. Driver => UNCHANGED syncVars \/ SyncReset \/ \E w \in Writers : StartRound(w)
    BY RoundAssumption DEF Driver, Resume, FirstSync, Train, Sync, Synced, Save, OpenMarker,
       WriteMarker, Exit, Stop
  <2> QED
    BY <1>0, <1>1, <1>2, <2>1, StartRoundInv, SyncUnchanged
<1>3. ASSUME StepRanks \/ Saved \/ Restart \/ \E r \in Ranks : RankStep(r)
      PROVE  SyncInv'
  BY <1>3, SyncUnchanged
     DEF StepRanks, Saved, Restart, RankStep, Load, Prepare, OpenShard, WriteShard
<1>4. ASSUME Crash PROVE SyncInv'
  BY <1>0, <1>1, <1>4 DEF Crash, Stop
<1>5. UNCHANGED vars => SyncInv'
  BY SyncUnchanged DEF vars
<1> QED
  BY <1>2, <1>3, <1>4, <1>5, SyncNextInv DEF Next

\* No generation sees weights of two transfers, and a transfer that is over has left
\* every parameter it put into a bucket in the engine (nccl_tensor_comm.py:72-106),
\* for any sizes of the parameters and of the bucket, and wherever processes end.
THEOREM WeightsArrive == Spec => [](NoTornGeneration /\ BucketsApplied)
<1>1. Init => LockInv /\ SyncInv
  BY InitInv, SyncInitInv DEF Init, SyncInit
<1>2. LockInv /\ SyncInv /\ [Next]_vars => (LockInv /\ SyncInv)'
  BY LockInvKept, SyncStep
<1>3. SyncInv => NoTornGeneration /\ BucketsApplied
  BY DEF SyncInv
<1> QED
  BY <1>1, <1>2, <1>3, PTL DEF Spec

-----------------------------------------------------------------------------
(* The invariant of the training loop and its checkpoints.                 *)

Off == {"start", "down"}
Ahead == {"sync", "transfer", "save", "open", "mark"}
DriverPc == Off \cup Ahead \cup {"barrier", "train", "step"}
Task(op, s) == [op |-> op, step |-> s]
AllTasks(q) == tasks = [r \in Ranks |-> q]

\* The last step the ranks have been trained with, if nothing was lost.
Cur == IF driver.pc \in Ahead THEN driver.step
       ELSE IF driver.pc \in Off THEN 0 ELSE driver.step - 1

TrainTypeOK ==
    /\ driver \in [pc : DriverPc, step : Nat \ {0}]
    /\ driver.step <= MaxSteps \/ driver.step = 1
    /\ driver.pc \in Ahead \cup {"step"} => driver.step < MaxSteps
    /\ saving \in [Ranks -> {"no", "ready", "writing", "written"}]
    /\ model \in [Ranks -> SUBSET (1..Cur)]
    /\ paths \in [Ranks -> Seq(Steps)]
    /\ disk \in [Steps -> [Ranks -> {NoFile} \cup SUBSET Nat]]
    /\ \A s \in Steps, r \in Ranks : disk[s][r] = NoFile \/ disk[s][r] \in SUBSET (1..s)
    /\ marker \in Steps \cup {0}
    /\ ever \in BOOLEAN /\ cut \in BOOLEAN /\ wiped \in BOOLEAN

\* The tasks of the ranks: the loop never runs further ahead than one save.
Queue ==
    /\ tasks \in [Ranks -> Seq([op : {"load", "save", "step"}, step : Nat])]
    /\ driver.pc \in Off \cup {"sync", "transfer", "save"} => AllTasks(<<>>)
    /\ driver.pc = "barrier" => \A r \in Ranks :
           tasks[r] = <<>> \/ (Cur > 0 /\ tasks[r] = <<Task("load", Cur)>> /\ model[r] = {})
    /\ driver.pc = "train" => \/ AllTasks(<<>>)
                              \/ Cur > 0 /\ AllTasks(<<Task("save", Cur)>>)
    /\ driver.pc = "step" =>
           \/ AllTasks(<<Task("step", driver.step)>>)
           \/ Cur > 0 /\ AllTasks(<<Task("save", Cur), Task("step", driver.step)>>)
    /\ driver.pc \in {"open", "mark"} => AllTasks(<<>>) \/ AllTasks(<<Task("save", Cur)>>)

\* A save is under way; it is one the marker names already.
Busy == \A r \in Ranks : Doing(r, "save")
Late == Busy /\ driver.pc \in {"train", "step"}

\* The barriers of save_checkpoint, and what has been written by then.
Saving ==
    /\ ~Busy => \A r \in Ranks : saving[r] = "no"
    /\ \A r, q \in Ranks : saving[r] \in {"writing", "written"} => saving[q] # "no"
    /\ Busy => \A r \in Ranks : saving[r] = "written" => disk[Cur][r] = model[r]

\* The marker is never ahead of the training.
Marker ==
    /\ driver.pc = "mark" => marker = 0
    /\ driver.pc \notin Off => marker <= Cur
    /\ driver.pc \in Ahead => marker < Cur
    /\ driver.pc = "barrier" \/ Late => marker = Cur

\* The checkpoints a rank knows of are older than the one it saves, and between two
\* saves none is younger than the one the marker names.
Settled == driver.pc = "open" /\ ~Busy
Paths ==
    \A r \in Ranks :
        /\ driver.pc \in Off \cup {"barrier"} => paths[r] = <<>>
        /\ \A i, j \in DOMAIN paths[r] : i < j => paths[r][i] < paths[r][j]
        /\ \A i \in DOMAIN paths[r] :
              /\ paths[r][i] <= Cur
              /\ Busy \/ driver.pc \in {"sync", "transfer", "save"} => paths[r][i] < Cur
              /\ marker # 0 /\ ~Settled => paths[r][i] <= marker

\* What is on disk is complete if the ranks lack no step.
Good == \A r \in Ranks : model[r] = 1..Cur
GoodSaves ==
    /\ \A r \in Ranks : \A i \in DOMAIN paths[r] : Complete(paths[r][i]) => Good
    /\ driver.pc \in {"open", "mark"} /\ ~Busy /\ Good => Complete(Cur)
    /\ driver.pc = "barrier" /\ marker # 0 =>
           \A r \in Ranks : model[r] = 1..marker => disk[marker][r] = 1..marker

TrainInv == TrainTypeOK /\ Queue /\ Saving /\ Marker /\ Paths /\ GoodSaves

\* For StepsKept: with no process cut off in a save, the marker names a complete
\* checkpoint, once the save that it may run ahead of is over.
Whole ==
    MaxKeep # 1 /\ ~cut =>
        /\ driver.pc # "barrier" => Good
        /\ driver.pc = "barrier" => \A r \in Ranks : tasks[r] = <<>> => model[r] = 1..Cur
        /\ marker # 0 /\ ~Late => Complete(marker)

\* For CheckpointKept: a complete checkpoint that neither the save under way nor the
\* next removal touches, and one that the next process will not write over.
Safe(s) ==
    /\ Complete(s)
    /\ \A r \in Ranks : \A i \in DOMAIN paths[r] : i < Len(paths[r]) => paths[r][i] # s
    /\ Busy => s < Cur
Bound == IF marker # 0 /\ ~Settled THEN marker ELSE Cur
Kept ==
    MaxKeep # 1 /\ ~wiped =>
        /\ ever => \E s \in Steps : s <= Bound /\ Safe(s)
        /\ ever /\ marker # 0 => \E s \in Steps : s <= marker /\ Complete(s)
        /\ ever /\ marker = 0 => driver.pc \in {"open", "mark"}
        /\ /\ ~ever /\ marker # 0 /\ driver.pc \notin Off \cup {"barrier"} /\ ~Late
           /\ Good
           => Complete(marker)

\* A call puts its task behind the one that is there.
LEMMA AppendOne ==
    ASSUME NEW S, NEW a \in S, NEW b \in S
    PROVE  Append(<<a>>, b) = <<a, b>>
<1>1. <<a>> \in Seq(S) /\ <<a, b>> \in Seq(S) /\ Append(<<a>>, b) \in Seq(S)
  OBVIOUS
<1>2. Len(<<a, b>>) = 2 /\ Len(Append(<<a>>, b)) = 2
  OBVIOUS
<1>3. \A i \in 1..2 : Append(<<a>>, b)[i] = <<a, b>>[i]
  OBVIOUS
<1> QED
  BY <1>1, <1>2, <1>3, SeqEqual

\* Where the loop is, from its number.
LEMMA CurFacts ==
    ASSUME TrainTypeOK
    PROVE  /\ driver.step \in Nat \ {0} /\ Cur \in Nat /\ marker \in Nat
           /\ driver.pc \in Ahead \cup {"step"} => driver.step \in Steps
           /\ driver.pc \in Ahead => Cur = driver.step
           /\ driver.pc \in {"barrier", "train", "step"} => Cur = driver.step - 1
           /\ driver.pc \in Off => Cur = 0
           /\ Cur # 0 => Cur \in Steps
           /\ marker # 0 => marker \in Steps
           /\ \A s \in Steps : s \in Nat /\ s # 0 /\ NoFile # 1..s
<1> USE TrainingAssumption DEF TrainTypeOK, Steps
<1>1. driver.step \in Nat \ {0} /\ Cur \in Nat /\ marker \in Nat
  BY DEF Cur, DriverPc
<1>2. driver.pc \in Ahead \cup {"step"} => driver.step \in Steps
  OBVIOUS
<1>3. /\ driver.pc \in Ahead => Cur = driver.step
      /\ driver.pc \in {"barrier", "train", "step"} => Cur = driver.step - 1
      /\ driver.pc \in Off => Cur = 0
  BY DEF Cur, Ahead, Off
<1>4. Cur # 0 => Cur \in Steps
  BY <1>1, <1>2, <1>3 DEF DriverPc
<1>5. \A s \in Steps : s \in Nat /\ s # 0 /\ NoFile # 1..s
  OBVIOUS
<1> QED
  BY <1>1, <1>2, <1>3, <1>4, <1>5

\* What a rank is doing tells where the loop is.
LEMMA QueueFacts ==
    ASSUME TrainTypeOK, Queue
    PROVE  /\ Busy => /\ driver.pc \in {"train", "step", "open", "mark"} /\ Cur \in Steps
                      /\ \A r \in Ranks : tasks[r] # <<>> /\ Head(tasks[r]) = Task("save", Cur)
           /\ \A r \in Ranks : Doing(r, "save") => Busy
           /\ \A r \in Ranks : Doing(r, "load") =>
                 /\ driver.pc = "barrier" /\ Cur \in Steps /\ tasks[r] = <<Task("load", Cur)>>
           /\ (\A r \in Ranks : Doing(r, "step")) =>
                 driver.pc = "step" /\ ~Busy /\ AllTasks(<<Task("step", driver.step)>>)
           /\ ~Busy => \A r \in Ranks : \A i \in DOMAIN tasks[r] : tasks[r][i].op # "save"
           /\ Busy => \E r \in Ranks : \E i \in DOMAIN tasks[r] : tasks[r][i].op = "save"
<1> USE DEF Task, Doing
<1>0. PICK q \in Ranks : TRUE
  BY TrainingAssumption
<1>1. CASE driver.pc = "barrier"
  <2>1. \A r \in Ranks : tasks[r] = <<>> \/ (Cur \in Steps /\ tasks[r] = <<Task("load", Cur)>>)
    BY <1>1, CurFacts DEF Queue
  <2> QED
    BY <1>0, <1>1, <2>1 DEF Busy
<1>2. CASE AllTasks(<<>>) /\ driver.pc # "barrier"
  BY <1>0, <1>2 DEF AllTasks, Busy
<1>3. CASE AllTasks(<<Task("save", Cur)>>) /\ driver.pc \in {"train", "open", "mark"} /\ Cur \in Steps
  BY <1>0, <1>3 DEF AllTasks, Busy
<1>4. CASE AllTasks(<<Task("step", driver.step)>>) /\ driver.pc = "step"
  BY <1>0, <1>4 DEF AllTasks, Busy
<1>5. CASE /\ AllTasks(<<Task("save", Cur), Task("step", driver.step)>>)
           /\ driver.pc = "step" /\ Cur \in Steps
  BY <1>0, <1>5 DEF AllTasks, Busy
<1>6. Cur > 0 \/ driver.pc \in {"open", "mark"} => Cur \in Steps
  BY CurFacts DEF Ahead
<1>7. driver.pc \in Off \cup Ahead \cup {"barrier", "train", "step"}
  BY DEF TrainTypeOK, DriverPc
<1> QED
  BY <1>1, <1>2, <1>3, <1>4, <1>5, <1>6, <1>7 DEF Queue, Ahead

\* Before the first process.
LEMMA TrainInit == Init => TrainInv /\ Whole /\ Kept
<1> SUFFICES ASSUME Init PROVE TrainInv /\ Whole /\ Kept
  OBVIOUS
<1> USE TrainingAssumption DEF Init
<1>1. Cur = 0 /\ driver.pc = "start" /\ 1..0 = {}
  BY DEF Cur, Off, Ahead
<1>2. TrainTypeOK
  <2>1. model \in [Ranks -> SUBSET (1..Cur)] /\ paths \in [Ranks -> Seq(Steps)]
    BY DEF Pretrained, NoPaths
  <2>2. /\ disk \in [Steps -> [Ranks -> {NoFile} \cup SUBSET Nat]]
        /\ \A s \in Steps, r \in Ranks : disk[s][r] = NoFile
    OBVIOUS
  <2>3. /\ driver \in [pc : DriverPc, step : Nat \ {0}] /\ driver.step = 1
        /\ driver.pc \notin Ahead \cup {"step"}
        /\ saving \in [Ranks -> {"no", "ready", "writing", "written"}]
    BY DEF DriverPc, Off, Ahead
  <2> QED
    BY <2>1, <2>2, <2>3 DEF TrainTypeOK
<1>3. Queue
  BY <1>1 DEF Queue, AllTasks, Off
<1>4. ~Busy
  BY DEF Busy, Doing
<1>5. Saving /\ Marker /\ Paths /\ GoodSaves
  BY <1>1, <1>4 DEF Saving, Marker, Paths, GoodSaves, Late, Off, Ahead, NoPaths
<1>6. Whole /\ Kept
  BY <1>1 DEF Whole, Kept, Good, Pretrained
<1> QED
  BY <1>2, <1>3, <1>5, <1>6 DEF TrainInv

TrainingInv == TrainInv /\ Whole /\ Kept

\* FirstSync, Sync and Synced: the loop moves on while the ranks have nothing to do.
LEMMA LoopMoves ==
    ASSUME TrainingInv, FirstSync \/ Sync \/ Synced
    PROVE  TrainingInv'
<1> USE TrainingAssumption DEF TrainingInv, TrainInv, actorVars, diskVars, history
<1>1. /\ UNCHANGED <<actorVars, diskVars, history>> /\ AllTasks(<<>>) /\ ~Busy
      /\ driver.pc \in {"barrier", "sync", "transfer"}
  <2>1. AllTasks(<<>>)
    BY DEF FirstSync, Sync, Synced, Queue, AllTasks
  <2>2. ~Busy
    BY <2>1 DEF AllTasks, Busy, Doing
  <2> QED
    BY <2>1, <2>2 DEF FirstSync, Sync, Synced
<1>2. /\ driver' \in [pc : DriverPc, step : Nat \ {0}]
      /\ driver'.step <= MaxSteps \/ driver'.step = 1
      /\ driver'.pc \in Ahead \cup {"step"} => driver'.step < MaxSteps
      /\ driver'.pc \in {"train", "transfer", "save"}
      /\ driver.pc = "barrier" => driver'.pc = "train"
      /\ Cur' = Cur
  <2>1. CASE driver' = [driver EXCEPT !.pc = "train"] /\ driver.pc = "barrier"
    BY <2>1 DEF TrainTypeOK, Cur, Ahead, Off, DriverPc
  <2>2. CASE driver' = [driver EXCEPT !.pc = "transfer"] /\ driver.pc = "sync"
    BY <2>2 DEF TrainTypeOK, Cur, Ahead, Off, DriverPc
  <2>3. CASE driver' = [driver EXCEPT !.pc = "save"] /\ driver.pc = "transfer"
    BY <2>3 DEF TrainTypeOK, Cur, Ahead, Off, DriverPc
  <2>4. CASE driver' = [pc |-> "train", step |-> driver.step + 1] /\ driver.pc = "transfer"
    BY <2>4 DEF TrainTypeOK, Cur, Ahead, Off, DriverPc
  <2> QED
    BY <2>1, <2>2, <2>3, <2>4 DEF FirstSync, Sync, Synced, Goes
<1>3. ~Busy' /\ ~Late /\ ~Late' /\ ~Settled /\ ~Settled' /\ Good' = Good
      /\ \A s : Complete(s)' = Complete(s)
  BY <1>1, <1>2 DEF Busy, Late, Settled, Doing, Good, Complete
<1>4. TrainTypeOK'
  BY <1>1, <1>2 DEF TrainTypeOK
<1>5. Queue'
  BY <1>1, <1>2 DEF Queue, AllTasks, Off
<1>6. Saving' /\ Marker'
  BY <1>1, <1>2, <1>3 DEF Saving, Marker, Off, Ahead
<1>7. Paths'
  BY <1>1, <1>2, <1>3, CurFacts DEF Paths, Off, Ahead, Marker
<1>8. GoodSaves'
  BY <1>1, <1>2, <1>3 DEF GoodSaves
<1>9. Whole'
  BY <1>1, <1>2, <1>3 DEF Whole, AllTasks, Good
<1>10. Kept'
  <2>1. Bound' = Bound
    BY <1>1, <1>2, <1>3 DEF Bound
  <2>2. \A s \in Steps : Safe(s) => Safe(s)'
    BY <1>1, <1>2, <1>3 DEF Safe
  <2>3. driver.pc = "barrier" /\ marker # 0 /\ Good => Complete(marker)
    BY DEF GoodSaves, Good, Marker, Complete
  <2> QED
    BY <1>1, <1>2, <1>3, <2>1, <2>2, <2>3 DEF Kept, Off, Ahead
<1> QED
  BY <1>4, <1>5, <1>6, <1>7, <1>8, <1>9, <1>10

\* Resume: the ranks are asked for the checkpoint the marker names.
LEMMA ResumeInv ==
    ASSUME TrainingInv, Resume
    PROVE  TrainingInv'
<1> USE TrainingAssumption DEF TrainingInv, TrainInv, diskVars, history
<1>1. /\ driver.pc = "start" /\ driver' = [pc |-> "barrier", step |-> marker + 1]
      /\ UNCHANGED <<saving, model, paths, diskVars, history>>
      /\ AllTasks(<<>>) /\ ~Busy /\ Cur = 0 /\ Cur' = marker
      /\ \A r \in Ranks : model[r] = {} /\ paths[r] = <<>>
  <2>1. AllTasks(<<>>) /\ driver.pc = "start"
    BY DEF Resume, Queue, Off
  <2>2. ~Busy /\ Cur = 0
    BY <2>1 DEF AllTasks, Busy, Doing, Cur, Off, Ahead
  <2>3. \A r \in Ranks : model[r] = {} /\ paths[r] = <<>>
    BY <2>1, <2>2 DEF TrainTypeOK, Paths, Off
  <2>4. driver' = [pc |-> "barrier", step |-> marker + 1]
    BY DEF Resume
  <2>5. Cur' = marker
    BY <2>4, CurFacts DEF Cur, Off, Ahead
  <2> QED
    BY <2>1, <2>2, <2>3, <2>4, <2>5 DEF Resume
<1>2. /\ tasks' \in [Ranks -> Seq([op : {"load", "save", "step"}, step : Nat])]
      /\ \A r \in Ranks : \/ tasks'[r] = <<>> /\ marker = 0
                          \/ marker > 0 /\ tasks'[r] = <<Task("load", marker)>>
  <2>1. CASE marker = 0
    BY <1>1, <2>1 DEF Resume, Queue, AllTasks
  <2>2. CASE marker # 0
    <3>1. tasks' = [r \in Ranks |-> <<Task("load", marker)>>]
      BY <1>1, <2>2 DEF Resume, Call, AllTasks, Task
    <3>2. Task("load", marker) \in [op : {"load", "save", "step"}, step : Nat]
      BY CurFacts DEF Task
    <3> QED
      BY <2>2, <3>1, <3>2, CurFacts
  <2> QED
    BY <2>1, <2>2
<1>3. ~Busy' /\ ~Late /\ ~Late' /\ ~Settled /\ ~Settled'
      /\ \A s : Complete(s)' = Complete(s)
  <2>1. PICK q \in Ranks : TRUE
    OBVIOUS
  <2>2. ~Doing(q, "save")'
    BY <1>2 DEF Doing, Task
  <2> QED
    BY <1>1, <2>2 DEF Busy, Late, Settled, Complete
<1>4. TrainTypeOK'
  <2>1. driver' \in [pc : DriverPc, step : Nat \ {0}] /\ driver'.pc = "barrier"
    BY <1>1, CurFacts DEF DriverPc
  <2>2. driver'.step <= MaxSteps \/ driver'.step = 1
    BY <1>1 DEF TrainTypeOK, Steps
  <2>3. model' \in [Ranks -> SUBSET (1..Cur')]
    BY <1>1 DEF TrainTypeOK
  <2> QED
    BY <1>1, <2>1, <2>2, <2>3 DEF TrainTypeOK, Ahead
<1>5. Queue'
  BY <1>1, <1>2 DEF Queue, Off
<1>6. Saving' /\ Marker'
  BY <1>1, <1>3, CurFacts DEF Saving, Marker, Ahead
<1>7. Paths' /\ GoodSaves'
  <2>1. marker # 0 => marker \in 1..marker
    BY CurFacts
  <2>2. \A r \in Ranks : DOMAIN paths'[r] = {}
    BY <1>1
  <2>3. Paths'
    BY <1>1, <2>2 DEF Paths
  <2> QED
    BY <1>1, <1>3, <2>1, <2>2, <2>3 DEF GoodSaves
<1>8. Whole'
  <2>1. 1..0 = {}
    OBVIOUS
  <2>2. \A r \in Ranks : tasks'[r] = <<>> => model'[r] = 1..Cur'
    <3>1. <<Task("load", marker)>> # <<>>
      OBVIOUS
    <3> QED
      BY <1>1, <1>2, <2>1, <3>1
  <2> QED
    BY <1>1, <1>3, <2>2 DEF Whole
<1>9. Kept'
  <2>1. marker # 0 => Bound' = Bound
    BY <1>1, <1>3 DEF Bound
  <2>2. \A s \in Steps : Safe(s) => Safe(s)'
    BY <1>1, <1>3 DEF Safe
  <2> QED
    BY <1>1, <1>3, <2>1, <2>2 DEF Kept, Off
<1> QED
  BY <1>4, <1>5, <1>6, <1>7, <1>8, <1>9

\* Train: a step is asked for, behind a save that may be under way.
LEMMA TrainStepInv ==
    ASSUME TrainingInv, Train
    PROVE  TrainingInv'
<1> USE TrainingAssumption DEF TrainingInv, TrainInv, diskVars, history
<1>1. /\ driver.pc = "train" /\ driver.step < MaxSteps
      /\ driver' = [driver EXCEPT !.pc = "step"]
      /\ UNCHANGED <<saving, model, paths, diskVars, history>>
  BY DEF Train, Goes
<1>2. /\ driver'.pc = "step" /\ driver'.step = driver.step /\ Cur' = Cur
      /\ driver' \in [pc : DriverPc, step : Nat \ {0}]
  BY <1>1 DEF TrainTypeOK, Cur, Ahead, Off, DriverPc
<1>3. /\ \/ Busy /\ Busy' /\ Cur > 0
            /\ AllTasks(<<Task("save", Cur), Task("step", driver.step)>>)'
         \/ ~Busy /\ ~Busy' /\ AllTasks(<<Task("step", driver.step)>>)'
      /\ tasks' \in [Ranks -> Seq([op : {"load", "save", "step"}, step : Nat])]
  <2>0. PICK q \in Ranks : TRUE
    OBVIOUS
  <2>1. Task("step", driver.step) \in [op : {"load", "save", "step"}, step : Nat]
    BY CurFacts DEF Task
  <2>2. CASE AllTasks(<<>>)
    <3>1. tasks' = [r \in Ranks |-> <<Task("step", driver.step)>>]
      BY <2>2 DEF Train, Call, AllTasks, Task
    <3> QED
      BY <2>0, <2>1, <2>2, <3>1, <1>2 DEF AllTasks, Busy, Doing, Task
  <2>3. CASE Cur > 0 /\ AllTasks(<<Task("save", Cur)>>)
    <3>1. Task("save", Cur) \in [op : {"load", "save", "step"}, step : Nat]
      BY CurFacts DEF Task
    <3>2. tasks' = [r \in Ranks |-> <<Task("save", Cur), Task("step", driver.step)>>]
      <4>1. tasks' = [r \in Ranks |-> Append(tasks[r], Task("step", driver.step))]
        BY DEF Train, Call, Task
      <4>2. \A r \in Ranks : tasks[r] = <<Task("save", Cur)>>
        BY <2>3 DEF AllTasks
      <4>3. Append(<<Task("save", Cur)>>, Task("step", driver.step))
                = <<Task("save", Cur), Task("step", driver.step)>>
        BY <2>1, <3>1, AppendOne
      <4> QED
        BY <4>1, <4>2, <4>3
    <3>3. Busy /\ Busy'
      BY <2>3, <3>2 DEF AllTasks, Busy, Doing, Task
    <3> QED
      BY <1>2, <2>1, <2>3, <3>1, <3>2, <3>3 DEF AllTasks
  <2> QED
    BY <1>1, <2>2, <2>3 DEF Queue
<1>4. /\ (Busy' <=> Busy) /\ (Late' <=> Late) /\ (Good' <=> Good) /\ ~Settled /\ ~Settled'
      /\ \A s : Complete(s)' <=> Complete(s)
  <2>1. Busy' <=> Busy
    BY <1>3
  <2> QED
    BY <1>1, <1>2, <2>1 DEF Late, Settled, Good, Complete
<1>5. TrainTypeOK'
  BY <1>1, <1>2 DEF TrainTypeOK
<1>6. Queue'
  BY <1>2, <1>3 DEF Queue, Off, AllTasks
<1>7. Saving' /\ Marker'
  BY <1>1, <1>2, <1>4 DEF Saving, Marker, Ahead, Off
<1>8. Paths' /\ GoodSaves'
  BY <1>1, <1>2, <1>4 DEF Paths, GoodSaves, Off
<1>9. Whole'
  BY <1>1, <1>2, <1>4 DEF Whole
<1>10. Kept'
  <2>1. Bound' = Bound
    BY <1>1, <1>2, <1>4 DEF Bound
  <2>2. \A s \in Steps : Safe(s) => Safe(s)'
    BY <1>1, <1>2, <1>4 DEF Safe
  <2> QED
    BY <1>1, <1>2, <1>4, <2>1, <2>2 DEF Kept, Off
<1> QED
  BY <1>5, <1>6, <1>7, <1>8, <1>9, <1>10

\* Save: the ranks are asked to save, and the loop goes on to the marker.
LEMMA SaveInv ==
    ASSUME TrainingInv, Save
    PROVE  TrainingInv'
<1> USE TrainingAssumption DEF TrainingInv, TrainInv, diskVars, history
<1>1. /\ driver.pc = "save" /\ driver' = [driver EXCEPT !.pc = "open"]
      /\ UNCHANGED <<saving, model, paths, diskVars, history>> /\ AllTasks(<<>>)
  BY DEF Save, Goes, Queue
<1>2. /\ driver'.pc = "open" /\ driver'.step = driver.step /\ Cur' = Cur
      /\ driver' \in [pc : DriverPc, step : Nat \ {0}] /\ Cur = driver.step /\ Cur \in Nat
  BY <1>1, CurFacts DEF TrainTypeOK, Cur, Ahead, Off, DriverPc
<1>3. /\ ~Busy /\ Busy' /\ AllTasks(<<Task("save", Cur)>>)'
      /\ tasks' \in [Ranks -> Seq([op : {"load", "save", "step"}, step : Nat])]
  <2>1. Task("save", Cur) \in [op : {"load", "save", "step"}, step : Nat]
    BY <1>2 DEF Task
  <2>2. tasks' = [r \in Ranks |-> <<Task("save", Cur)>>]
    BY <1>1, <1>2 DEF Save, Call, AllTasks, Task
  <2>3. ~Busy /\ Busy'
    BY <1>1, <2>2 DEF AllTasks, Busy, Doing, Task
  <2> QED
    BY <1>2, <2>1, <2>2, <2>3 DEF AllTasks
<1>4. /\ ~Late /\ ~Late' /\ (Good' <=> Good) /\ ~Settled /\ ~Settled'
      /\ \A s : Complete(s)' <=> Complete(s)
  BY <1>1, <1>2, <1>3 DEF Late, Settled, Good, Complete
<1>5. TrainTypeOK'
  BY <1>1, <1>2 DEF TrainTypeOK, Ahead
<1>6. Queue'
  BY <1>2, <1>3 DEF Queue, Off
<1>7. Saving' /\ Marker'
  BY <1>1, <1>2, <1>3, <1>4 DEF Saving, Marker, Ahead, Off
<1>8. Paths' /\ GoodSaves'
  BY <1>1, <1>2, <1>3, <1>4 DEF Paths, GoodSaves, Off
<1>9. Whole'
  BY <1>1, <1>2, <1>4 DEF Whole
<1>10. Kept'
  <2>1. Bound' = Bound
    BY <1>1, <1>2, <1>4 DEF Bound
  <2>2. \A s \in Steps : Safe(s) /\ s <= marker => Safe(s)'
    BY <1>1, <1>2, <1>4, CurFacts DEF Safe, Marker, Ahead
  <2>3. marker # 0 => Bound = marker
    BY <1>4 DEF Bound
  <2> QED
    BY <1>1, <1>2, <1>4, <2>1, <2>2, <2>3 DEF Kept, Off
<1> QED
  BY <1>5, <1>6, <1>7, <1>8, <1>9, <1>10

\* The marker file is emptied.
LEMMA OpenMarkerInv ==
    ASSUME TrainingInv, OpenMarker
    PROVE  TrainingInv'
<1> USE TrainingAssumption DEF TrainingInv, TrainInv, actorVars, history
<1>1. /\ driver.pc = "open" /\ driver' = [driver EXCEPT !.pc = "mark"] /\ marker' = 0
      /\ UNCHANGED <<actorVars, disk, history>>
  BY DEF OpenMarker, Goes
<1>2. /\ driver'.pc = "mark" /\ driver'.step = driver.step /\ Cur' = Cur
      /\ driver' \in [pc : DriverPc, step : Nat \ {0}] /\ Cur \in Steps
  BY <1>1, CurFacts DEF TrainTypeOK, Cur, Ahead, Off, DriverPc
<1>3. /\ ~Late /\ ~Late' /\ (Good' <=> Good) /\ ~Settled' /\ (Busy' <=> Busy)
      /\ \A s : Complete(s)' <=> Complete(s)
  BY <1>1, <1>2 DEF Late, Settled, Good, Complete, Busy, Doing
<1>4. TrainTypeOK'
  BY <1>1, <1>2 DEF TrainTypeOK, Ahead
<1>5. Queue'
  BY <1>1, <1>2 DEF Queue, Off, AllTasks
<1>6. Saving' /\ Marker'
  BY <1>1, <1>2, <1>3, CurFacts DEF Saving, Marker, Ahead, Off, Steps
<1>7. Paths' /\ GoodSaves'
  BY <1>1, <1>2, <1>3 DEF Paths, GoodSaves, Off
<1>8. Whole'
  BY <1>1, <1>2, <1>3 DEF Whole
<1>9. Kept'
  <2>1. Bound' = Cur /\ Bound <= Cur
    BY <1>1, <1>2, <1>3, CurFacts DEF Bound, Marker, Ahead, Off
  <2>2. \A s \in Steps : Safe(s) => Safe(s)'
    BY <1>1, <1>2, <1>3 DEF Safe
  <2>3. \A s \in Steps : s <= Bound => s <= Bound'
    BY <2>1, CurFacts DEF Bound, Steps
  <2> QED
    BY <1>1, <1>2, <1>3, <2>2, <2>3 DEF Kept, Off
<1> QED
  BY <1>4, <1>5, <1>6, <1>7, <1>8, <1>9

\* The marker is written: the save it names is over, or runs late.
LEMMA WriteMarkerInv ==
    ASSUME TrainingInv, WriteMarker
    PROVE  TrainingInv'
<1> USE TrainingAssumption DEF TrainingInv, TrainInv, actorVars, history
<1>1. /\ driver.pc = "mark" /\ driver' = [pc |-> "train", step |-> driver.step + 1]
      /\ marker' = driver.step /\ marker = 0 /\ UNCHANGED <<actorVars, disk, history>>
  BY DEF WriteMarker, Marker
<1>2. /\ driver'.pc = "train" /\ Cur' = Cur /\ marker' = Cur /\ Cur \in Steps
      /\ driver' \in [pc : DriverPc, step : Nat \ {0}] /\ Cur # 0 /\ Cur \in Nat
      /\ driver'.step <= MaxSteps
  BY <1>1, CurFacts DEF TrainTypeOK, Cur, Ahead, Off, DriverPc, Steps
<1>3. /\ ~Late /\ (Late' <=> Busy) /\ (Good' <=> Good) /\ ~Settled /\ ~Settled'
      /\ (Busy' <=> Busy) /\ \A s : Complete(s)' <=> Complete(s)
  BY <1>1, <1>2 DEF Late, Settled, Good, Complete, Busy, Doing
<1>4. TrainTypeOK'
  BY <1>1, <1>2 DEF TrainTypeOK, Ahead
<1>5. Queue'
  BY <1>1, <1>2 DEF Queue, Off, AllTasks
<1>6. Saving' /\ Marker'
  BY <1>1, <1>2, <1>3 DEF Saving, Marker, Ahead, Off
<1>7. Paths' /\ GoodSaves'
  BY <1>1, <1>2, <1>3 DEF Paths, GoodSaves, Off
<1>8. ~Busy /\ Good => Complete(marker)'
  BY <1>1, <1>2, <1>3 DEF GoodSaves
<1>9. Whole'
  BY <1>1, <1>2, <1>3, <1>8 DEF Whole
<1>10. Kept'
  <2>1. Bound' = Cur /\ Bound = Cur
    BY <1>1, <1>2, <1>3 DEF Bound
  <2>2. \A s \in Steps : Safe(s) => Safe(s)' /\ Complete(s)
    BY <1>1, <1>2, <1>3 DEF Safe
  <2> QED
    BY <1>1, <1>2, <1>3, <1>8, <2>1, <2>2 DEF Kept, Off
<1> QED
  BY <1>4, <1>5, <1>6, <1>7, <1>9, <1>10

\* load_checkpoint of one rank: it fails if the file is not there.
LEMMA LoadInv ==
    ASSUME TrainingInv, NEW r \in Ranks, Load(r)
    PROVE  TrainingInv'
<1> USE TrainingAssumption DEF TrainingInv, TrainInv, diskVars, history
<1>1. /\ driver.pc = "barrier" /\ Cur \in Steps /\ tasks[r] = <<Task("load", Cur)>>
      /\ marker = Cur /\ UNCHANGED <<driver, saving, paths, diskVars, history>>
      /\ model[r] = {} /\ ~Busy
  <2>1. Doing(r, "load") /\ ~Doing(r, "save")
    BY DEF Load, Doing
  <2>2. driver.pc = "barrier" /\ Cur \in Steps /\ tasks[r] = <<Task("load", Cur)>>
    BY <2>1, QueueFacts
  <2>3. <<Task("load", Cur)>> # <<>>
    OBVIOUS
  <2> QED
    BY <2>1, <2>2, <2>3 DEF Load, Queue, Marker, Busy
<1>2. /\ tasks' = [tasks EXCEPT ![r] = <<>>]
      /\ tasks' \in [Ranks -> Seq([op : {"load", "save", "step"}, step : Nat])]
  BY <1>1 DEF Load, Finished, Queue
<1>3. /\ model' = IF disk[Cur][r] = NoFile THEN model ELSE [model EXCEPT ![r] = disk[Cur][r]]
      /\ Cur' = Cur
  <2>1. Head(tasks[r]).step = Cur
    BY <1>1 DEF Task
  <2>2. Cur' = Cur
    BY <1>1 DEF Cur
  <2> QED
    BY <2>1, <2>2 DEF Load
<1>4. /\ \A q \in Ranks : q # r => model'[q] = model[q] /\ tasks'[q] = tasks[q]
      /\ tasks'[r] = <<>>
      /\ model' \in [Ranks -> SUBSET (1..Cur)]
      /\ model'[r] = {} \/ model'[r] = disk[Cur][r]
      /\ disk[Cur][r] # NoFile => model'[r] = disk[Cur][r]
  <2>1. disk[Cur][r] # NoFile => disk[Cur][r] \in SUBSET (1..Cur)
    BY <1>1 DEF TrainTypeOK
  <2>2. tasks \in [Ranks -> Seq([op : {"load", "save", "step"}, step : Nat])]
    BY DEF Queue
  <2> QED
    BY <1>1, <1>2, <1>3, <2>1, <2>2 DEF TrainTypeOK
<1>5. /\ ~Busy' /\ ~Late /\ ~Late' /\ ~Settled /\ ~Settled'
      /\ \A s : Complete(s)' <=> Complete(s)
  BY <1>1, <1>4 DEF Busy, Doing, Late, Settled, Complete
<1>6. TrainTypeOK'
  BY <1>1, <1>3, <1>4 DEF TrainTypeOK
<1>7. Queue'
  BY <1>1, <1>2, <1>3, <1>4 DEF Queue, Off
<1>8. Saving' /\ Marker'
  BY <1>1, <1>3, <1>5 DEF Saving, Marker
<1>9. Paths'
  BY <1>1, <1>3, <1>5 DEF Paths
<1>10. GoodSaves'
  <2>1. marker \in 1..marker
    BY <1>1, CurFacts
  <2>2. \A q \in Ranks : DOMAIN paths'[q] = {}
    BY <1>1 DEF Paths
  <2> QED
    BY <1>1, <1>3, <1>4, <1>5, <2>1, <2>2 DEF GoodSaves
<1>11. Whole'
  <2>1. Complete(Cur) => model'[r] = 1..Cur
    BY <1>1, <1>4, CurFacts DEF Complete
  <2>2. Cur # 0
    BY <1>1, CurFacts
  <2> QED
    BY <1>1, <1>3, <1>4, <1>5, <2>1, <2>2 DEF Whole
<1>12. Kept'
  <2>1. Bound' = Bound
    BY <1>1, <1>3, <1>5 DEF Bound
  <2>2. \A s \in Steps : Safe(s) => Safe(s)'
    BY <1>1, <1>3, <1>5 DEF Safe
  <2> QED
    BY <1>1, <1>5, <2>1, <2>2 DEF Kept
<1> QED
  BY <1>6, <1>7, <1>8, <1>9, <1>10, <1>11, <1>12

\* One more step is in the weights of every rank.
LEMMA StepRanksInv ==
    ASSUME TrainingInv, StepRanks
    PROVE  TrainingInv'
<1> USE TrainingAssumption DEF TrainingInv, TrainInv, diskVars, history
<1>1. /\ driver.pc = "step" /\ ~Busy /\ AllTasks(<<Task("step", driver.step)>>)
      /\ UNCHANGED <<saving, paths, diskVars, history>>
      /\ driver' = [driver EXCEPT !.pc = "sync"]
  BY QueueFacts DEF StepRanks, Goes
<1>2. /\ driver'.pc = "sync" /\ driver'.step = driver.step /\ Cur' = Cur + 1 /\ Cur \in Nat
      /\ driver' \in [pc : DriverPc, step : Nat \ {0}] /\ Cur + 1 = driver.step
  <2>1. Cur \in Nat /\ Cur = driver.step - 1 /\ driver.step \in Nat
    BY <1>1, CurFacts
  <2>2. /\ driver'.pc = "sync" /\ driver'.step = driver.step
        /\ driver' \in [pc : DriverPc, step : Nat \ {0}]
    BY <1>1 DEF TrainTypeOK, DriverPc, Ahead
  <2>3. Cur' = driver.step
    BY <2>2 DEF Cur, Ahead
  <2> QED
    BY <2>1, <2>2, <2>3
<1>3. AllTasks(<<>>)' /\ ~Busy'
  <2>1. \A r \in Ranks : tasks[r] = <<Task("step", driver.step)>>
    BY <1>1 DEF AllTasks
  <2>2. Tail(<<Task("step", driver.step)>>) = <<>>
    OBVIOUS
  <2>3. tasks' = [r \in Ranks |-> <<>>]
    BY <2>1, <2>2 DEF StepRanks, AllFinished
  <2> QED
    BY <2>3 DEF AllTasks, Busy, Doing
<1>4. /\ \A r \in Ranks : model'[r] = model[r] \cup {Cur + 1}
      /\ model' \in [Ranks -> SUBSET (1..(Cur + 1))]
  <2>1. \A r \in Ranks : Head(tasks[r]).step = Cur + 1
    BY <1>1, <1>2 DEF AllTasks, Task
  <2> QED
    BY <1>2, <2>1 DEF StepRanks, TrainTypeOK
<1>5. Good' <=> Good
  <2>1. \A r \in Ranks : model[r] \subseteq 1..Cur
    BY DEF TrainTypeOK
  <2>2. \A r \in Ranks : model[r] \cup {Cur + 1} = 1..(Cur + 1) <=> model[r] = 1..Cur
    <3>1. (1..Cur) \cup {Cur + 1} = 1..(Cur + 1) /\ Cur + 1 \notin 1..Cur
      BY <1>2
    <3> QED
      BY <2>1, <3>1
  <2> QED
    BY <1>2, <1>4, <2>2 DEF Good
<1>6. ~Late /\ ~Late' /\ ~Settled /\ ~Settled' /\ \A s : Complete(s)' <=> Complete(s)
  BY <1>1, <1>2 DEF Late, Settled, Complete
<1>7. TrainTypeOK'
  BY <1>1, <1>2, <1>4 DEF TrainTypeOK, Ahead
<1>8. Queue'
  BY <1>2, <1>3 DEF Queue, AllTasks, Off
<1>9. Saving' /\ Marker'
  BY <1>1, <1>2, <1>3, <1>6, CurFacts DEF Saving, Marker, Off, Ahead
<1>10. Paths'
  <2> SUFFICES ASSUME NEW r \in Ranks, NEW i \in DOMAIN paths[r]
               PROVE  paths[r][i] < Cur + 1 /\ paths[r][i] <= Cur + 1
    BY <1>1, <1>2, <1>6 DEF Paths, Off
  <2>1. paths[r][i] \in Nat
    BY CurFacts DEF TrainTypeOK
  <2> QED
    BY <1>2, <2>1 DEF Paths
<1>11. GoodSaves'
  BY <1>1, <1>2, <1>5, <1>6 DEF GoodSaves
<1>12. Whole'
  BY <1>1, <1>2, <1>5, <1>6 DEF Whole
<1>13. Kept'
  <2>1. marker # 0 => Bound' = Bound
    BY <1>1, <1>2, <1>6 DEF Bound
  <2>2. \A s \in Steps : Safe(s) => Safe(s)'
    BY <1>1, <1>3, <1>6 DEF Safe
  <2> QED
    BY <1>1, <1>2, <1>5, <1>6, <2>1, <2>2 DEF Kept, Off
<1> QED
  BY <1>7, <1>8, <1>9, <1>10, <1>11, <1>12, <1>13

\* The checkpoints that stay in previous_saved_paths when the first k are removed.
LEMMA Remaining ==
    ASSUME NEW S, NEW q \in Seq(S), NEW k \in 0..Len(q)
    PROVE  /\ SubSeq(q, k + 1, Len(q)) \in Seq(S)
           /\ Len(SubSeq(q, k + 1, Len(q))) = Len(q) - k
           /\ \A i \in 1..(Len(q) - k) :
                 i + k \in 1..Len(q) /\ SubSeq(q, k + 1, Len(q))[i] = q[i + k]
<1>1. Len(q) \in Nat /\ k \in Nat /\ k <= Len(q)
  OBVIOUS
<1>3. SubSeq(q, k + 1, Len(q)) \in Seq(S)
  <2>1. \A i \in (k + 1)..Len(q) : q[i] \in S
    BY <1>1
  <2> QED
    BY <1>1, <2>1
<1>4. Len(SubSeq(q, k + 1, Len(q))) = Len(q) - k
  BY <1>1
<1>5. \A i \in 1..(Len(q) - k) :
          i + k \in 1..Len(q) /\ SubSeq(q, k + 1, Len(q))[i] = q[i + k]
  BY <1>1
<1> QED
  BY <1>3, <1>4, <1>5

\* save_checkpoint makes room: never for want of the checkpoint that was saved last.
LEMMA PrepareInv ==
    ASSUME TrainingInv, NEW r \in Ranks, Prepare(r)
    PROVE  TrainingInv'
<1> USE TrainingAssumption DEF TrainingInv, TrainInv, history
<1> DEFINE n == Len(paths[r])
           k == IF MaxKeep > 0 /\ n >= MaxKeep THEN KeepStart(n) ELSE 0
           removed == {paths[r][i] : i \in 1..k}
<1>1. /\ UNCHANGED <<driver, tasks, model, marker, history>>
      /\ paths' = [paths EXCEPT ![r] = SubSeq(paths[r], k + 1, n)]
      /\ saving' = [saving EXCEPT ![r] = "ready"]
      /\ disk' = [s \in Steps |-> IF s \in removed THEN [q \in Ranks |-> NoFile] ELSE disk[s]]
      /\ saving[r] = "no" /\ Doing(r, "save")
  BY DEF Prepare, Remove
<1>2. /\ paths[r] \in Seq(Steps) /\ n \in Nat /\ k \in 0..n /\ (MaxKeep # 1 => k = 0 \/ k < n)
      /\ DOMAIN paths[r] = 1..n
  BY DEF TrainTypeOK, KeepStart
<1> HIDE DEF k, n
<1>3. /\ Busy /\ Busy' /\ Cur' = Cur /\ (Late' <=> Late) /\ (Good' <=> Good)
      /\ ~Settled /\ ~Settled' /\ Cur \in Steps
      /\ driver.pc \in {"train", "step", "open", "mark"}
  <2>1. Busy /\ Cur \in Steps /\ driver.pc \in {"train", "step", "open", "mark"}
    BY <1>1, QueueFacts
  <2> QED
    BY <1>1, <2>1 DEF Busy, Late, Settled, Good, Doing, Cur
<1>4. /\ paths' \in [Ranks -> Seq(Steps)]
      /\ \A q \in Ranks : q # r => paths'[q] = paths[q]
      /\ DOMAIN paths'[r] = 1..(n - k) /\ Len(paths'[r]) = n - k
      /\ \A i \in 1..(n - k) : i + k \in 1..n /\ paths'[r][i] = paths[r][i + k]
  <2> DEFINE rest == SubSeq(paths[r], k + 1, n)
  <2>1. /\ rest \in Seq(Steps) /\ Len(rest) = n - k
        /\ \A i \in 1..(n - k) : i + k \in 1..n /\ rest[i] = paths[r][i + k]
    BY <1>2, Remaining DEF n
  <2>2. DOMAIN rest = 1..(n - k)
    BY <2>1
  <2> HIDE DEF rest
  <2>3. paths' = [paths EXCEPT ![r] = rest]
    BY <1>1 DEF rest
  <2> QED
    BY <2>1, <2>2, <2>3 DEF TrainTypeOK
<1>5. /\ saving' \in [Ranks -> {"no", "ready", "writing", "written"}]
      /\ saving'[r] = "ready" /\ \A q \in Ranks : q # r => saving'[q] = saving[q]
  BY <1>1 DEF TrainTypeOK
<1>6. /\ disk' \in [Steps -> [Ranks -> {NoFile} \cup SUBSET Nat]]
      /\ \A s \in Steps, q \in Ranks :
            disk'[s][q] = IF s \in removed THEN NoFile ELSE disk[s][q]
  BY <1>1 DEF TrainTypeOK
<1>7. \A s \in Steps : /\ Complete(s)' => Complete(s)
                       /\ s \notin removed => (Complete(s) => Complete(s)')
  BY <1>6, CurFacts DEF Complete
<1>8. TrainTypeOK'
  BY <1>1, <1>3, <1>4, <1>5, <1>6 DEF TrainTypeOK
<1>9. Queue' /\ Marker'
  BY <1>1, <1>3 DEF Queue, Marker, AllTasks
<1>10. Saving'
  <2>1. \A q \in Ranks : saving[q] \notin {"writing", "written"}
    BY <1>1 DEF Saving
  <2> QED
    BY <1>3, <1>5, <2>1 DEF Saving
<1>11. Paths'
  <2> SUFFICES ASSUME NEW q \in Ranks
               PROVE  /\ \A i, j \in DOMAIN paths'[q] : i < j => paths'[q][i] < paths'[q][j]
                      /\ \A i \in DOMAIN paths'[q] :
                            /\ paths'[q][i] < Cur /\ paths'[q][i] <= Cur
                            /\ marker # 0 => paths'[q][i] <= marker
    BY <1>1, <1>3 DEF Paths, Off
  <2>1. CASE q # r
    BY <1>3, <1>4, <2>1 DEF Paths
  <2>2. CASE q = r
    <3>1. \A i, j \in 1..(n - k) : i < j => i + k < j + k
      BY <1>2
    <3>2. \A i, j \in 1..(n - k) : i < j => paths'[r][i] < paths'[r][j]
      BY <1>2, <1>4, <3>1 DEF Paths
    <3> QED
      BY <1>2, <1>3, <1>4, <2>2, <3>2 DEF Paths
  <2> QED
    BY <2>1, <2>2
<1>12. GoodSaves'
  <2>1. ASSUME NEW q \in Ranks, NEW i \in DOMAIN paths'[q],
               \A z \in Ranks : disk'[paths'[q][i]][z] = 1..paths'[q][i]
        PROVE  Good
    <3>1. PICK j \in DOMAIN paths[q] : paths'[q][i] = paths[q][j]
      BY <1>2, <1>4
    <3>2. PICK s \in Steps : s = paths[q][j]
      BY DEF TrainTypeOK
    <3>3. Complete(s)'
      BY <2>1, <3>1, <3>2 DEF Complete
    <3> QED
      BY <1>7, <3>2, <3>3 DEF GoodSaves
  <2> QED
    BY <1>1, <1>3, <2>1 DEF GoodSaves, Complete
<1>13. MaxKeep # 1 /\ marker # 0 => marker \notin removed
  <2> SUFFICES ASSUME MaxKeep # 1, marker # 0, NEW i \in 1..k, marker = paths[r][i]
               PROVE  FALSE
    OBVIOUS
  <2>1. i \in 1..n /\ n \in 1..n /\ i < n
    BY <1>2
  <2>2. paths[r][i] < paths[r][n] /\ paths[r][n] <= marker
    BY <1>2, <1>3, <2>1 DEF Paths
  <2>3. paths[r][n] \in Nat /\ marker \in Nat
    BY <1>2, <2>1, CurFacts
  <2> QED
    BY <2>2, <2>3
<1>14. Whole'
  BY <1>1, <1>3, <1>7, <1>13, CurFacts DEF Whole
<1>15. Kept'
  <2>1. Bound' = Bound
    BY <1>1, <1>3 DEF Bound
  <2>2. ASSUME MaxKeep # 1, NEW s \in Steps, Safe(s) PROVE Safe(s)'
    <3>1. s \notin removed
      BY <1>2, <2>2 DEF Safe, n
    <3>2. \A q \in Ranks : \A i \in DOMAIN paths'[q] : i < Len(paths'[q]) => paths'[q][i] # s
      <4> SUFFICES ASSUME NEW i \in 1..(n - k), i < n - k PROVE paths'[r][i] # s
        BY <1>4, <2>2 DEF Safe
      <4>1. i + k \in 1..n /\ i + k < n
        BY <1>2, <1>4
      <4> QED
        BY <1>2, <1>4, <2>2, <4>1 DEF Safe, n
    <3> QED
      BY <1>3, <1>7, <2>2, <3>1, <3>2 DEF Safe
  <2>3. marker # 0 => Bound = marker
    BY <1>3 DEF Bound
  <2>4. \A s \in Steps : Safe(s)' => Complete(s)'
    BY DEF Safe
  <2> QED
    BY <1>1, <1>3, <1>7, <1>13, <2>1, <2>2, <2>3, <2>4, CurFacts DEF Kept
<1> QED
  BY <1>8, <1>9, <1>10, <1>11, <1>12, <1>14, <1>15

\* One shard of the checkpoint that is being saved changes, and no other.
LEMMA ShardInv ==
    ASSUME TrainingInv, NEW r \in Ranks, Busy, \A q \in Ranks : saving[q] # "no",
           NEW v \in {NoFile} \cup SUBSET (1..Cur), NEW p \in {"writing", "written"},
           p = "written" => v = model[r],
           disk' = [disk EXCEPT ![Cur][r] = v], saving' = [saving EXCEPT ![r] = p],
           UNCHANGED <<driver, tasks, model, paths, marker, history>>
    PROVE  TrainingInv'
<1> USE TrainingAssumption DEF TrainingInv, TrainInv, history
<1>1. /\ Busy' /\ Cur' = Cur /\ (Late' <=> Late) /\ (Good' <=> Good)
      /\ ~Settled /\ ~Settled' /\ Cur \in Steps /\ Cur \in Nat
      /\ driver.pc \in {"train", "step", "open", "mark"}
  <2>1. Cur \in Steps /\ Cur \in Nat /\ driver.pc \in {"train", "step", "open", "mark"}
    BY QueueFacts, CurFacts
  <2> QED
    BY <2>1 DEF Busy, Late, Settled, Good, Doing, Cur
<1>2. /\ saving' \in [Ranks -> {"no", "ready", "writing", "written"}]
      /\ saving'[r] = p /\ \A q \in Ranks : q # r => saving'[q] = saving[q]
  BY DEF TrainTypeOK
<1>3. /\ disk' \in [Steps -> [Ranks -> {NoFile} \cup SUBSET Nat]]
      /\ disk'[Cur][r] = v
      /\ \A s \in Steps, q \in Ranks : s # Cur \/ q # r => disk'[s][q] = disk[s][q]
  <2>1. v \in {NoFile} \cup SUBSET Nat
    BY <1>1
  <2> QED
    BY <1>1, <2>1 DEF TrainTypeOK
<1>4. \A s \in Steps : s # Cur => (Complete(s)' <=> Complete(s))
  BY <1>3 DEF Complete
<1>5. TrainTypeOK'
  BY <1>1, <1>2, <1>3 DEF TrainTypeOK
<1>6. Queue' /\ Marker'
  BY <1>1 DEF Queue, Marker, AllTasks
<1>7. Saving'
  BY <1>1, <1>2, <1>3 DEF Saving
<1>8. Paths'
  BY <1>1 DEF Paths
<1>9. GoodSaves'
  <2>1. ASSUME NEW q \in Ranks, NEW i \in DOMAIN paths[q],
               \A z \in Ranks : disk'[paths[q][i]][z] = 1..paths[q][i]
        PROVE  Good
    <3>1. PICK s \in Steps : s = paths[q][i]
      BY DEF TrainTypeOK
    <3>2. s # Cur
      BY <1>1, <3>1 DEF Paths
    <3>3. Complete(s)
      BY <1>4, <2>1, <3>1, <3>2 DEF Complete
    <3> QED
      BY <3>1, <3>3 DEF GoodSaves
  <2> QED
    BY <1>1, <2>1 DEF GoodSaves, Complete
<1>10. driver.pc = "open" => marker < Cur /\ marker # Cur
  BY <1>1, CurFacts DEF Marker, Ahead
<1>11. driver.pc = "mark" => marker = 0
  BY DEF Marker
<1>12. ~Late => driver.pc \in {"open", "mark"}
  BY <1>1 DEF Late
<1>13. Whole'
  BY <1>1, <1>4, <1>10, <1>11, <1>12, CurFacts DEF Whole
<1>14. Kept'
  <2>1. Bound' = Bound
    BY <1>1 DEF Bound
  <2>2. \A s \in Steps : Safe(s) => Safe(s)' /\ Complete(s)'
    <3> SUFFICES ASSUME NEW s \in Steps, Safe(s) PROVE Safe(s)' /\ Complete(s)'
      OBVIOUS
    <3>1. s < Cur /\ s # Cur
      BY <1>1, CurFacts DEF Safe
    <3> QED
      BY <1>1, <1>4, <3>1 DEF Safe
  <2>3. marker # 0 => Bound = marker
    BY <1>1 DEF Bound
  <2> QED
    BY <1>1, <1>4, <1>10, <1>11, <1>12, <2>1, <2>2, <2>3, CurFacts DEF Kept
<1> QED
  BY <1>5, <1>6, <1>7, <1>8, <1>9, <1>13, <1>14

\* The files of a rank are opened, which empties them.
LEMMA OpenShardInv ==
    ASSUME TrainingInv, NEW r \in Ranks, OpenShard(r)
    PROVE  TrainingInv'
<1>1. Busy
  BY DEF OpenShard, TrainingInv, TrainInv, Saving
<1>2. Head(tasks[r]).step = Cur
  BY <1>1, QueueFacts DEF TrainingInv, TrainInv, Task
<1> QED
  BY <1>1, <1>2, ShardInv DEF OpenShard

\* The files of a rank are written with its weights.
LEMMA WriteShardInv ==
    ASSUME TrainingInv, NEW r \in Ranks, WriteShard(r)
    PROVE  TrainingInv'
<1>1. Busy /\ \A q \in Ranks : saving[q] # "no"
  BY DEF WriteShard, TrainingInv, TrainInv, Saving
<1>2. Head(tasks[r]).step = Cur
  BY <1>1, QueueFacts DEF TrainingInv, TrainInv, Task
<1>3. PICK v \in SUBSET (1..Cur) : v = model[r]
  BY DEF TrainingInv, TrainInv, TrainTypeOK
<1> QED
  BY <1>1, <1>2, <1>3, ShardInv DEF WriteShard

\* The last barrier of save_checkpoint: the new checkpoint takes the place of the last
\* one as the one that must stay.
LEMMA SavedInv ==
    ASSUME TrainingInv, Saved
    PROVE  TrainingInv'
<1> USE TrainingAssumption DEF TrainingInv, TrainInv, diskVars
<1>0. PICK z \in Ranks : TRUE
  OBVIOUS
<1>1. /\ \A r \in Ranks : saving[r] = "written"
      /\ saving' = [r \in Ranks |-> "no"]
      /\ UNCHANGED <<driver, model, diskVars, cut, wiped>>
  BY DEF Saved
<1>2. /\ Busy /\ Cur \in Steps /\ Cur \in Nat /\ Cur # 0 /\ Cur' = Cur
      /\ driver.pc \in {"train", "step", "open", "mark"} /\ ~Settled
      /\ \A r \in Ranks : tasks[r] # <<>> /\ Head(tasks[r]) = Task("save", Cur)
  <2>1. Busy
    BY <1>0, <1>1 DEF Saving
  <2> QED
    BY <1>1, <2>1, QueueFacts, CurFacts DEF Cur, Settled
<1>3. /\ \/ driver.pc = "step" /\ AllTasks(<<Task("step", driver.step)>>)'
         \/ driver.pc # "step" /\ AllTasks(<<>>)'
      /\ tasks' \in [Ranks -> Seq([op : {"load", "save", "step"}, step : Nat])]
      /\ ~Busy'
  <2>0. Task("save", Cur) # Task("step", driver.step)
    BY DEF Task
  <2>1. Tail(<<Task("save", Cur)>>) = <<>>
        /\ Tail(<<Task("save", Cur), Task("step", driver.step)>>) = <<Task("step", driver.step)>>
    OBVIOUS
  <2>2. Task("step", driver.step) \in [op : {"load", "save", "step"}, step : Nat]
    BY CurFacts DEF Task
  <2>3. CASE AllTasks(<<Task("save", Cur)>>) /\ driver.pc # "step"
    <3>1. \A r \in Ranks : Tail(tasks[r]) = <<>>
      BY <2>1, <2>3 DEF AllTasks
    <3>2. tasks' = [r \in Ranks |-> <<>>]
      BY <3>1 DEF Saved, AllFinished
    <3> QED
      BY <1>0, <2>3, <3>2 DEF AllTasks, Busy, Doing
  <2>4. CASE /\ AllTasks(<<Task("save", Cur), Task("step", driver.step)>>)
             /\ driver.pc = "step"
    <3>1. \A r \in Ranks : Tail(tasks[r]) = <<Task("step", driver.step)>>
      BY <2>1, <2>4 DEF AllTasks
    <3>2. tasks' = [r \in Ranks |-> <<Task("step", driver.step)>>]
      BY <3>1 DEF Saved, AllFinished
    <3>3. UNCHANGED driver
      BY <1>1
    <3>4. ~Busy'
      BY <1>0, <3>2 DEF Busy, Doing, Task
    <3> QED
      BY <2>2, <2>4, <3>2, <3>3, <3>4 DEF AllTasks
  <2>5. CASE AllTasks(<<>>)
    BY <1>0, <1>2, <2>5 DEF AllTasks
  <2>6. CASE AllTasks(<<Task("step", driver.step)>>)
    BY <1>0, <1>2, <2>0, <2>6 DEF AllTasks
  <2> QED
    BY <1>2, <2>3, <2>4, <2>5, <2>6 DEF Queue
<1>4. /\ paths' \in [Ranks -> Seq(Steps)]
      /\ \A r \in Ranks :
            /\ Len(paths[r]) \in Nat /\ DOMAIN paths[r] = 1..Len(paths[r])
            /\ DOMAIN paths'[r] = 1..(Len(paths[r]) + 1)
            /\ Len(paths'[r]) = Len(paths[r]) + 1
            /\ paths'[r][Len(paths[r]) + 1] = Cur
            /\ \A i \in 1..Len(paths[r]) : /\ paths'[r][i] = paths[r][i]
                                           /\ paths[r][i] < Cur /\ paths[r][i] # Cur
                                           /\ paths[r][i] \in Nat
  <2>1. paths' = [r \in Ranks |-> Append(paths[r], Cur)]
    BY <1>2 DEF Saved, Task
  <2>2. \A r \in Ranks : /\ paths[r] \in Seq(Steps)
                         /\ Len(paths[r]) \in Nat /\ DOMAIN paths[r] = 1..Len(paths[r])
    BY DEF TrainTypeOK
  <2>3. \A r \in Ranks : \A i \in DOMAIN paths[r] :
            paths[r][i] < Cur /\ paths[r][i] \in Nat /\ paths[r][i] # Cur
    <3> SUFFICES ASSUME NEW r \in Ranks, NEW i \in DOMAIN paths[r]
                 PROVE  paths[r][i] < Cur /\ paths[r][i] \in Nat /\ paths[r][i] # Cur
      OBVIOUS
    <3>1. paths[r][i] \in Steps
      BY <2>2
    <3>2. paths[r][i] \in Nat
      BY <3>1, CurFacts
    <3>3. paths[r][i] < Cur
      BY <1>2 DEF Paths
    <3> QED
      BY <1>2, <3>2, <3>3
  <2> QED
    BY <1>2, <2>1, <2>2, <2>3
<1>14. \A r \in Ranks : \A i \in DOMAIN paths'[r] :
          /\ i \in Int
          /\ \/ i \in DOMAIN paths[r] /\ i <= Len(paths[r])
             \/ i = Len(paths[r]) + 1 /\ i \notin DOMAIN paths[r]
  BY <1>4
<1>5. /\ Good <=> Complete(Cur)
      /\ Good' <=> Good
      /\ \A s : Complete(s)' <=> Complete(s)
      /\ ever' <=> (ever \/ Complete(Cur))
      /\ ever' \in BOOLEAN
  <2>1. Good <=> Complete(Cur)
    BY <1>1, <1>2 DEF Saving, Good, Complete
  <2>2. (\A r \in Ranks : Complete(Head(tasks[r]).step)) <=> Complete(Cur)
    BY <1>0, <1>2 DEF Task
  <2>3. ever' = (ever \/ \A r \in Ranks : Complete(Head(tasks[r]).step))
    BY DEF Saved
  <2> QED
    BY <1>1, <1>2, <2>1, <2>2, <2>3 DEF Good, Complete, TrainTypeOK
<1>6. /\ ~Late' /\ (Settled' <=> driver.pc = "open")
      /\ Late \/ driver.pc \in {"open", "mark"}
      /\ (Late => marker = Cur) /\ (driver.pc = "mark" => marker = 0)
      /\ (driver.pc = "open" => marker < Cur)
  BY <1>1, <1>2, <1>3 DEF Late, Settled, Marker, Ahead
<1>7. TrainTypeOK'
  BY <1>1, <1>2, <1>4, <1>5 DEF TrainTypeOK
<1>8. Queue'
  BY <1>1, <1>2, <1>3 DEF Queue, Off, AllTasks
<1>9. Saving' /\ Marker'
  BY <1>1, <1>2, <1>3, <1>6 DEF Saving, Marker
<1>10. Paths'
  <2> SUFFICES ASSUME NEW r \in Ranks
               PROVE  /\ \A i, j \in DOMAIN paths'[r] : i < j => paths'[r][i] < paths'[r][j]
                      /\ \A i \in DOMAIN paths'[r] :
                            /\ paths'[r][i] <= Cur
                            /\ marker # 0 /\ ~Settled' => paths'[r][i] <= marker
    BY <1>1, <1>2, <1>3 DEF Paths, Off
  <2>1. \A i \in DOMAIN paths'[r] : paths'[r][i] <= Cur /\ paths'[r][i] \in Nat
    <3> SUFFICES ASSUME NEW i \in DOMAIN paths'[r]
                 PROVE  paths'[r][i] <= Cur /\ paths'[r][i] \in Nat
      OBVIOUS
    <3>0. Cur \in Nat
      BY <1>2
    <3>1. CASE i \in DOMAIN paths[r]
      <4>1. paths'[r][i] = paths[r][i]
        BY <1>4, <3>1
      <4>2. paths[r][i] < Cur /\ paths[r][i] \in Nat
        BY <1>4, <3>1
      <4> QED
        BY <3>0, <4>1, <4>2
    <3>2. CASE i = Len(paths[r]) + 1
      <4>1. paths'[r][i] = Cur
        BY <1>4, <3>2
      <4> QED
        BY <3>0, <4>1
    <3> QED
      BY <1>14, <3>1, <3>2
  <2>2. \A i, j \in DOMAIN paths'[r] : i < j => paths'[r][i] < paths'[r][j]
    <3> SUFFICES ASSUME NEW i \in DOMAIN paths'[r], NEW j \in DOMAIN paths'[r], i < j
                 PROVE  paths'[r][i] < paths'[r][j]
      OBVIOUS
    <3>1. i \in DOMAIN paths[r]
      BY <1>4, <1>14
    <3>2. CASE j \in DOMAIN paths[r]
      <4>1. paths[r][i] < paths[r][j]
        BY <3>1, <3>2 DEF Paths
      <4> QED
        BY <1>4, <3>1, <3>2, <4>1
    <3>3. CASE j = Len(paths[r]) + 1
      BY <1>4, <3>1, <3>3
    <3> QED
      BY <1>14, <3>2, <3>3
  <2>3. marker # 0 /\ ~Settled' => marker = Cur
    BY <1>1, <1>2, <1>6
  <2> QED
    BY <2>1, <2>2, <2>3
<1>11. GoodSaves'
  <2>1. ASSUME NEW q \in Ranks, NEW i \in DOMAIN paths'[q], Complete(paths'[q][i])
        PROVE  Good
    <3>1. CASE i \in DOMAIN paths[q]
      BY <1>4, <2>1, <3>1 DEF GoodSaves
    <3>2. CASE i \notin DOMAIN paths[q]
      BY <1>4, <1>5, <2>1, <3>2
    <3> QED
      BY <3>1, <3>2
  <2>2. ASSUME NEW q \in Ranks, NEW i \in DOMAIN paths'[q],
               \A y \in Ranks : disk'[paths'[q][i]][y] = 1..paths'[q][i]
        PROVE  Good
    BY <1>1, <2>1, <2>2 DEF Complete
  <2> QED
    BY <1>1, <1>2, <1>5, <2>2 DEF GoodSaves, Complete
<1>12. Whole'
  <2>1. marker # 0 /\ Late /\ Good => Complete(marker)
    BY <1>5, <1>6
  <2> QED
    BY <1>1, <1>2, <1>5, <2>1 DEF Whole
<1>13. Kept'
  <2> SUFFICES ASSUME MaxKeep # 1, ~wiped PROVE
        /\ ever' => \E s \in Steps : s <= Cur /\ Safe(s)'
        /\ ever' /\ marker # 0 => \E s \in Steps : s <= marker /\ Complete(s)
        /\ ever' /\ marker = 0 => driver.pc \in {"open", "mark"}
        /\ ~ever' /\ marker # 0 /\ Good => Complete(marker)
    <3>1. Bound' = Cur
      BY <1>1, <1>2, <1>3, <1>6 DEF Bound
    <3> QED
      BY <1>1, <1>5, <3>1 DEF Kept
  <2>0. PICK c \in Steps : c = Cur
    BY <1>2
  <2>1. Complete(Cur) => c <= Cur /\ Safe(c)'
    <3> SUFFICES ASSUME Complete(Cur) PROVE c <= Cur /\ Safe(c)'
      OBVIOUS
    <3>1. Complete(c)'
      BY <1>5, <2>0
    <3>2. \A r \in Ranks : \A i \in DOMAIN paths'[r] : i < Len(paths'[r]) => paths'[r][i] # c
      <4> SUFFICES ASSUME NEW r \in Ranks, NEW i \in DOMAIN paths'[r], i < Len(paths'[r])
                   PROVE  paths'[r][i] # c
        OBVIOUS
      <4>1. i \in DOMAIN paths[r]
        BY <1>4, <1>14
      <4> QED
        BY <1>4, <2>0, <4>1
    <3> QED
      BY <1>2, <1>3, <2>0, <3>1, <3>2 DEF Safe
  <2>2. ASSUME ever, ~Complete(Cur) PROVE \E s \in Steps : s <= Cur /\ Safe(s)'
    <3>1. PICK s \in Steps : Safe(s)
      BY <2>2 DEF Kept
    <3>2. s < Cur /\ s # Cur /\ s <= Cur
      <4>1. s < Cur
        BY <1>2, <3>1 DEF Safe
      <4> QED
        BY <1>2, <4>1, CurFacts
    <3>3. \A r \in Ranks : \A i \in DOMAIN paths[r] : paths[r][i] # s
      BY <1>5, <2>2, <3>1 DEF GoodSaves, Safe
    <3>4. \A r \in Ranks : \A i \in DOMAIN paths'[r] : paths'[r][i] # s
      <4> SUFFICES ASSUME NEW r \in Ranks, NEW i \in DOMAIN paths'[r]
                   PROVE  paths'[r][i] # s
        OBVIOUS
      <4>1. CASE i \in DOMAIN paths[r]
        BY <1>4, <3>3, <4>1
      <4>2. CASE i = Len(paths[r]) + 1
        BY <1>4, <3>2, <4>2
      <4> QED
        BY <1>14, <4>1, <4>2
    <3> QED
      BY <1>3, <1>5, <3>1, <3>2, <3>4 DEF Safe
  <2>3. ever' => \E s \in Steps : s <= Cur /\ Safe(s)'
    BY <1>5, <2>1, <2>2
  <2>4. ASSUME ~ever, Complete(Cur), marker # 0
        PROVE  \E s \in Steps : s <= marker /\ Complete(s)
    <3>1. Complete(marker)
      BY <1>2, <1>5, <1>6, <2>4 DEF Kept, Late, Off
    <3> QED
      BY <2>4, <3>1, CurFacts
  <2>5. ever' /\ marker # 0 => \E s \in Steps : s <= marker /\ Complete(s)
    BY <1>5, <2>4 DEF Kept
  <2>6. ever' /\ marker = 0 => driver.pc \in {"open", "mark"}
    BY <1>2, <1>6
  <2> QED
    BY <1>5, <2>3, <2>5, <2>6
<1> QED
  BY <1>7, <1>8, <1>9, <1>10, <1>11, <1>12, <1>13

\* The end of a process: a save that is cut off or a marker that is empty is recorded,
\* and otherwise the marker names what the next process starts from.
LEMMA StopInv ==
    ASSUME TrainingInv, Stop
    PROVE  TrainingInv'
<1> USE TrainingAssumption DEF TrainingInv, TrainInv, diskVars
<1>1. /\ driver' = [driver EXCEPT !.pc = "down"]
      /\ tasks' = [r \in Ranks |-> <<>>] /\ saving' = [r \in Ranks |-> "no"]
      /\ model' = [r \in Ranks |-> {}] /\ paths' = [r \in Ranks |-> <<>>]
      /\ UNCHANGED <<diskVars, ever>>
  BY DEF Stop, Goes, Pretrained, NoPaths
<1>2. /\ driver' \in [pc : DriverPc, step : Nat \ {0}] /\ driver'.pc = "down"
      /\ driver'.step = driver.step /\ driver'.pc \in Off /\ driver'.pc \notin Ahead
      /\ driver'.pc \notin {"barrier", "train", "step", "open", "mark", "sync", "transfer", "save"}
  BY <1>1 DEF TrainTypeOK, DriverPc, Off, Ahead
<1>3. Cur' = 0 /\ 1..0 = {}
  BY <1>2 DEF Cur
<1>4. PICK z \in Ranks : TRUE
  OBVIOUS
<1>5. ~Busy' /\ ~Late' /\ ~Settled'
  BY <1>1, <1>2, <1>4 DEF Busy, Doing, Late, Settled
<1>6. /\ \A s : Complete(s)' <=> Complete(s)
      /\ Good'
  BY <1>1, <1>3 DEF Complete, Good
<1>7. /\ cut' \in BOOLEAN /\ wiped' \in BOOLEAN
      /\ ~cut' => ~cut /\ ~Busy
      /\ ~wiped' => ~wiped /\ ~(ever /\ marker = 0)
  <2>1. cut' = (cut \/ \E r \in Ranks : \E i \in DOMAIN tasks[r] : tasks[r][i].op = "save")
    BY DEF Stop
  <2>2. wiped' = (wiped \/ (ever /\ marker = 0))
    BY DEF Stop
  <2>3. Busy => \E r \in Ranks : \E i \in DOMAIN tasks[r] : tasks[r][i].op = "save"
    BY QueueFacts
  <2> QED
    BY <2>1, <2>2, <2>3 DEF TrainTypeOK
<1>8. TrainTypeOK'
  <2>1. model' \in [Ranks -> SUBSET (1..Cur')] /\ paths' \in [Ranks -> Seq(Steps)]
    BY <1>1, <1>3
  <2>2. saving' \in [Ranks -> {"no", "ready", "writing", "written"}]
    BY <1>1
  <2> QED
    BY <1>1, <1>2, <1>7, <2>1, <2>2 DEF TrainTypeOK
<1>9. Queue'
  BY <1>1, <1>2 DEF Queue, AllTasks
<1>10. Saving' /\ Marker'
  BY <1>1, <1>2, <1>5 DEF Saving, Marker
<1>11. \A r \in Ranks : paths'[r] = <<>> /\ DOMAIN paths'[r] = {}
  BY <1>1
<1>12. Paths' /\ GoodSaves'
  BY <1>2, <1>11 DEF Paths, GoodSaves
<1>13. Whole'
  BY <1>1, <1>2, <1>6, <1>7 DEF Whole, Late
<1>14. Kept'
  <2> SUFFICES ASSUME MaxKeep # 1, ~wiped, ~(ever /\ marker = 0), ever
               PROVE  \E s \in Steps : s <= marker /\ Complete(s) /\ Safe(s)'
    <3>1. marker # 0 => Bound' = marker
      BY <1>1, <1>5 DEF Bound
    <3> QED
      BY <1>1, <1>2, <1>6, <1>7, <3>1 DEF Kept
  <2>1. PICK s \in Steps : s <= marker /\ Complete(s)
    BY DEF Kept
  <2> QED
    BY <1>5, <1>6, <1>11, <2>1 DEF Safe
<1> QED
  BY <1>8, <1>9, <1>10, <1>12, <1>13, <1>14

\* The next process has nothing yet, like the one that has ended.
LEMMA RestartInv ==
    ASSUME TrainingInv, Restart
    PROVE  TrainingInv'
<1> USE TrainingAssumption DEF TrainingInv, TrainInv, actorVars, diskVars
<1>1. /\ driver.pc = "down" /\ driver' = [pc |-> "start", step |-> 1]
      /\ UNCHANGED <<actorVars, diskVars, ever, cut, wiped>>
  BY DEF Restart
<1>2. /\ driver' \in [pc : DriverPc, step : Nat \ {0}] /\ driver'.pc = "start"
      /\ driver'.step = 1 /\ driver'.pc \in Off /\ driver'.pc \notin Ahead
      /\ driver.pc \in Off /\ driver.pc \notin Ahead
      /\ driver'.pc \notin {"barrier", "train", "step", "open", "mark", "sync", "transfer", "save"}
  BY <1>1 DEF TrainTypeOK, DriverPc, Off, Ahead
<1>3. Cur' = 0 /\ Cur = 0
  BY <1>2 DEF Cur
<1>4. /\ (Busy' <=> Busy) /\ ~Late' /\ ~Late /\ ~Settled' /\ ~Settled
      /\ (Good' <=> Good) /\ \A s : Complete(s)' <=> Complete(s)
  BY <1>1, <1>2, <1>3 DEF Busy, Doing, Late, Settled, Good, Complete
<1>5. TrainTypeOK'
  BY <1>1, <1>2, <1>3 DEF TrainTypeOK
<1>6. Queue'
  BY <1>1, <1>2 DEF Queue, AllTasks
<1>7. Saving' /\ Marker'
  BY <1>1, <1>2, <1>3, <1>4 DEF Saving, Marker
<1>8. \A r \in Ranks : paths'[r] = <<>> /\ DOMAIN paths'[r] = {}
  BY <1>1, <1>2 DEF Paths
<1>9. Paths' /\ GoodSaves'
  BY <1>2, <1>8 DEF Paths, GoodSaves
<1>10. Whole'
  BY <1>1, <1>2, <1>4 DEF Whole
<1>11. Kept'
  <2>1. Bound' = Bound
    BY <1>1, <1>3, <1>4 DEF Bound
  <2>2. \A s \in Steps : Safe(s) => Safe(s)'
    BY <1>1, <1>3, <1>4 DEF Safe
  <2> QED
    BY <1>1, <1>2, <1>4, <2>1, <2>2 DEF Kept
<1> QED
  BY <1>5, <1>6, <1>7, <1>9, <1>10, <1>11

\* The transfer of the weights touches neither the loop nor the checkpoints.
LEMMA BesideInv ==
    ASSUME TrainingInv, UNCHANGED <<driver, actorVars, diskVars, history>>
    PROVE  TrainingInv'
<1> USE DEF TrainingInv, TrainInv, actorVars, diskVars, history
<1>1. Cur' = Cur
  BY DEF Cur
<1>2. /\ (Busy' <=> Busy) /\ (Late' <=> Late) /\ (Settled' <=> Settled)
      /\ (Good' <=> Good) /\ \A s : Complete(s)' <=> Complete(s)
  BY <1>1 DEF Busy, Doing, Late, Settled, Good, Complete
<1>3. TrainTypeOK'
  BY <1>1 DEF TrainTypeOK
<1>4. Queue'
  BY <1>1 DEF Queue, AllTasks
<1>5. Saving' /\ Marker' /\ Paths'
  BY <1>1, <1>2 DEF Saving, Marker, Paths
<1>6. GoodSaves'
  BY <1>1, <1>2 DEF GoodSaves
<1>7. Whole'
  BY <1>1, <1>2 DEF Whole
<1>8. Kept'
  <2>1. Bound' = Bound
    BY <1>1, <1>2 DEF Bound
  <2>2. \A s \in Steps : Safe(s) => Safe(s)'
    BY <1>1, <1>2 DEF Safe
  <2> QED
    BY <1>1, <1>2, <2>1, <2>2 DEF Kept
<1> QED
  BY <1>3, <1>4, <1>5, <1>6, <1>7, <1>8

\* One step of the system.
LEMMA TrainingStep == TrainingInv /\ [Next]_vars => TrainingInv'
<1> SUFFICES ASSUME TrainingInv, [Next]_vars PROVE TrainingInv'
  OBVIOUS
<1>1. CASE Driver
  <2>1. CASE Exit
    BY <2>1, StopInv DEF Exit
  <2> QED
    BY <1>1, <2>1, ResumeInv, LoopMoves, TrainStepInv, SaveInv, OpenMarkerInv, WriteMarkerInv
       DEF Driver
<1>2. CASE StepRanks
  BY <1>2, StepRanksInv
<1>3. CASE Saved
  BY <1>3, SavedInv
<1>4. CASE Crash
  BY <1>4, StopInv DEF Crash
<1>5. CASE Restart
  BY <1>5, RestartInv
<1>6. ASSUME NEW r \in Ranks, RankStep(r) PROVE TrainingInv'
  BY <1>6, LoadInv, PrepareInv, OpenShardInv, WriteShardInv DEF RankStep
<1>7. CASE SyncNext /\ UNCHANGED <<driver, actorVars, diskVars, history>>
  BY <1>7, BesideInv
<1>8. CASE UNCHANGED vars
  BY <1>8, BesideInv DEF vars
<1> QED
  BY <1>1, <1>2, <1>3, <1>4, <1>5, <1>6, <1>7, <1>8 DEF Next

\* Whatever happens to the processes, the invariant of the checkpoints holds.
LEMMA TrainingAlways == Spec => []TrainingInv
<1>1. Init => TrainingInv
  BY TrainInit DEF TrainingInv
<1> QED
  BY <1>1, TrainingStep, PTL DEF Spec

\* No step is lost or done twice by a restart, for any number of ranks, steps and
\* processes and any interval of the saves, unless a process ended while its ranks were
\* saving or only one checkpoint is kept (async_trainer.py:147-160, :282-286).
THEOREM StepsNotLost == Spec => []StepsKept
<1>1. TrainingInv => StepsKept
  <2> SUFFICES ASSUME TrainingInv, driver.pc = "train", ~cut, MaxKeep # 1
               PROVE  \A r \in Ranks : model[r] = 1..(driver.step - 1)
    BY DEF StepsKept
  <2>1. Cur = driver.step - 1
    BY CurFacts DEF TrainingInv, TrainInv
  <2> QED
    BY <2>1 DEF TrainingInv, Whole, Good
<1> QED
  BY <1>1, TrainingAlways, PTL

\* Once a save has ended with a complete checkpoint there is one at any time, for any
\* number of checkpoints to keep but one, although former ones are removed before the
\* next is written (fsdp_checkpoint_manager.py:145-150).
THEOREM CheckpointStays == Spec => []CheckpointKept
<1>1. TrainingInv => CheckpointKept
  BY DEF TrainingInv, Kept, Safe, CheckpointKept
<1> QED
  BY <1>1, TrainingAlways, PTL
=============================================================================
