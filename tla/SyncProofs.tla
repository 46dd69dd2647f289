----------------------------- MODULE SyncProofs -----------------------------
(***************************************************************************)
(* Proofs about the two small protocols by which threads wait for each     *)
(* other: the reader-writer lock, for every finite set of threads and      *)
(* every retry limit, and the life of processes, for every set of          *)
(* processes and of exit codes.                                            *)
(***************************************************************************)
EXTENDS RWLock, Process, FiniteSetTheorems, TLAPS

-----------------------------------------------------------------------------
(***************************************************************************)
(* The reader-writer lock.                                                 *)
(***************************************************************************)
\* One disjunct of Next for each operation, with its thread: the case split
\* that every induction step below makes.
LEMMA NextCases ==
  ASSUME Next
  PROVE  \E t \in Threads :
           \/ r_try_lock_acquire(t) \/ r_lock_acquire(t) \/ r_lock_release(t)
           \/ r_lock_upgrade_to_w(t) \/ w_try_lock_acquire(t)
           \/ w_lock_acquire(t) \/ w_lock_release(t)
           \/ RetryRead(t) \/ RetryWrite(t) \/ RetryUpgrade(t) \/ RetryPanic(t)
BY DEF Next, Call, Upgrade, Release, Retry

-----------------------------------------------------------------------------
\* level is at least the number the fields claim: what makes level - 1 a
\* natural number when a reader gives its hold back.
LEMMA ReaderCounted ==
  ASSUME NEW t \in Threads, pc[t] = "reader", Exclusion
  PROVE  level \in Nat /\ level > 0 /\ w_holder = NoThread
<1>1. IsFiniteSet(Readers)
  BY FS_Subset, ThreadsAssumption DEF Readers
<1>2. t \in Readers
  BY DEF Readers
<1>3. Cardinality(Readers) \in Nat
  BY <1>1, FS_CardinalityType
<1>4. Cardinality(Readers) # 0
  BY <1>1, <1>2, FS_EmptySet
<1>5. level \in Nat /\ level > 0
  BY <1>3, <1>4 DEF Exclusion
<1>. QED BY <1>5 DEF Exclusion

\* The two ways a step changes the set of readers, and its size.
LEMMA ReadersGrow ==
  ASSUME NEW t \in Threads, pc \in [Threads -> PCs], pc[t] # "reader",
         pc' = [pc EXCEPT ![t] = "reader"]
  PROVE  Cardinality(Readers') = Cardinality(Readers) + 1
<1>1. IsFiniteSet(Readers) /\ t \notin Readers
  BY FS_Subset, ThreadsAssumption DEF Readers
<1>2. Readers' = Readers \cup {t}
  BY DEF Readers
<1>. QED BY <1>1, <1>2, FS_AddElement

LEMMA ReadersShrink ==
  ASSUME NEW t \in Threads, NEW l, pc \in [Threads -> PCs], pc[t] = "reader",
         l # "reader", pc' = [pc EXCEPT ![t] = l]
  PROVE  Cardinality(Readers') = Cardinality(Readers) - 1
<1>1. IsFiniteSet(Readers) /\ t \in Readers
  BY FS_Subset, ThreadsAssumption DEF Readers
<1>2. Readers' = Readers \ {t}
  BY DEF Readers
<1>. QED BY <1>1, <1>2, FS_RemoveElement

LEMMA ReadersSame ==
  ASSUME NEW t \in Threads, NEW l, pc \in [Threads -> PCs], pc[t] # "reader",
         l # "reader", pc' = [pc EXCEPT ![t] = l]
  PROVE  Readers' = Readers
BY DEF Readers

-----------------------------------------------------------------------------
\* What the type invariant and Exclusion say of the lock together: the part
\* of the induction that is about who holds the lock.  Typing needs Exclusion
\* (a reader counted in level makes level - 1 a natural number).
HolderInv == TypeOK /\ Exclusion

\* A wait loop either takes the lock or queues the thread; both keep
\* HolderInv, for any legal loop counter.
LEMMA ReadLoopHolder ==
  ASSUME HolderInv, NEW t \in Threads, NEW i \in 0 .. MaxRetries,
         pc[t] \in {"idle", "r_acquire"}, ReadLoop(t, i),
         waits_write' \in [Threads -> BOOLEAN], panic' \in Panics
  PROVE  HolderInv'
<1>. USE RetriesAssumption, ThreadsAssumption
<1>1. CASE w_holder = NoThread
  <2>1. Cardinality(Readers') = Cardinality(Readers) + 1
    BY <1>1, ReadersGrow DEF HolderInv, TypeOK, ReadLoop
  <2>2. TypeOK'
    <3>1. /\ level' = level + 1 /\ pc' = [pc EXCEPT ![t] = "reader"]
          /\ tries' = [tries EXCEPT ![t] = 0] /\ waiters' = waiters
          /\ w_holder' = w_holder
      BY <1>1 DEF ReadLoop
    <3>. QED BY <3>1 DEF HolderInv, TypeOK, PCs
  <2>3. Exclusion'
    BY <1>1, <2>1 DEF HolderInv, TypeOK, Exclusion, ReadLoop
  <2>. QED BY <2>2, <2>3 DEF HolderInv
<1>2. CASE w_holder # NoThread
  <2>1. Readers' = Readers
    BY <1>2, ReadersSame DEF HolderInv, TypeOK, ReadLoop
  <2>2. TypeOK'
    <3>1. /\ level' = level /\ pc' = [pc EXCEPT ![t] = "r_acquire"]
          /\ tries' = [tries EXCEPT ![t] = i] /\ waiters' = Append(waiters, t)
          /\ w_holder' = w_holder
      BY <1>2 DEF ReadLoop
    <3>. QED BY <3>1 DEF HolderInv, TypeOK, PCs, Waiting
  <2>3. Exclusion'
    BY <1>2, <2>1 DEF HolderInv, TypeOK, Exclusion, ReadLoop
  <2>. QED BY <2>2, <2>3 DEF HolderInv
<1>. QED BY <1>1, <1>2

LEMMA WriteLoopHolder ==
  ASSUME HolderInv, NEW t \in Threads, NEW i \in 0 .. MaxRetries,
         NEW label \in {"w_acquire", "upgrade"}, NEW held \in Nat,
         NEW queued \in Seq(Threads),
         \/ pc[t] \in {"idle", "w_acquire", "upgrade"} /\ held = level
         \/ pc[t] = "reader" /\ held = level - 1,
         WriteLoop(t, i, label, held, queued),
         waits_write' \in [Threads -> BOOLEAN], panic' \in Panics
  PROVE  HolderInv'
<1>. USE RetriesAssumption, ThreadsAssumption
<1>1. PICK l \in {"writer", label} : pc' = [pc EXCEPT ![t] = l]
  BY DEF WriteLoop
<1>2. Cardinality(Readers') = held
  <2>1. CASE pc[t] = "reader"
    BY <2>1, <1>1, ReadersShrink DEF HolderInv, TypeOK, Exclusion
  <2>2. CASE pc[t] # "reader"
    BY <2>2, <1>1, ReadersSame DEF HolderInv, TypeOK, Exclusion
  <2>. QED BY <2>1, <2>2
<1>3. TypeOK'
  <2>1. pc' \in [Threads -> PCs]
    BY <1>1 DEF HolderInv, TypeOK, PCs, Waiting
  <2>2. tries' \in [Threads -> 0 .. MaxRetries]
    <3>1. PICK k \in 0 .. MaxRetries : tries' = [tries EXCEPT ![t] = k]
      BY DEF WriteLoop
    <3>. QED BY <3>1 DEF HolderInv, TypeOK
  <2>3. w_holder' \in Threads \cup {NoThread} /\ waiters' \in Seq(Threads)
    BY DEF HolderInv, TypeOK, WriteLoop
  <2>4. level' \in Nat
    BY DEF WriteLoop
  <2>. QED BY <2>1, <2>2, <2>3, <2>4 DEF TypeOK
<1>4. Exclusion'
  <2>1. CASE w_holder = NoThread /\ held = 0
    BY <2>1, <1>2 DEF HolderInv, TypeOK, Exclusion, WriteLoop
  <2>2. CASE ~ (w_holder = NoThread /\ held = 0)
    <3>1. pc[t] = "reader" => w_holder = NoThread
      BY ReaderCounted DEF HolderInv
    <3>2. w_holder # NoThread => held = 0
      BY <3>1 DEF HolderInv, Exclusion
    <3>3. w_holder' = w_holder /\ level' = held /\ pc' = [pc EXCEPT ![t] = label]
      BY <2>2 DEF WriteLoop
    <3>4. w_holder # t
      BY DEF HolderInv, Exclusion
    <3>. QED BY <1>2, <3>2, <3>3, <3>4 DEF HolderInv, TypeOK, Exclusion
  <2>. QED BY <2>1, <2>2
<1>. QED BY <1>3, <1>4 DEF HolderInv

-----------------------------------------------------------------------------
LEMMA HolderInit == Init => HolderInv
<1>. SUFFICES ASSUME Init PROVE HolderInv
  OBVIOUS
<1>1. Readers = {}
  BY DEF Init, Readers
<1>2. TypeOK
  BY RetriesAssumption DEF Init, TypeOK, PCs, Panics
<1>3. Exclusion
  BY <1>1, FS_EmptySet, ThreadsAssumption DEF Init, Exclusion
<1>. QED BY <1>2, <1>3 DEF HolderInv

LEMMA HolderStep == HolderInv /\ [Next]_vars => HolderInv'
<1>. SUFFICES ASSUME HolderInv, [Next]_vars PROVE HolderInv'
  OBVIOUS
<1>. USE RetriesAssumption, ThreadsAssumption
<1>1. CASE UNCHANGED vars
  <2>1. Readers' = Readers
    BY <1>1 DEF vars, Readers
  <2>. QED BY <1>1, <2>1 DEF vars, HolderInv, TypeOK, Exclusion
<1>2. ASSUME NEW t \in Threads, r_try_lock_acquire(t) PROVE HolderInv'
  <2>1. CASE w_holder = NoThread
    <3>1. Cardinality(Readers') = Cardinality(Readers) + 1
      BY <1>2, <2>1, ReadersGrow DEF HolderInv, TypeOK, r_try_lock_acquire
    <3>2. TypeOK'
      BY <1>2, <2>1 DEF HolderInv, TypeOK, r_try_lock_acquire, PCs
    <3>3. Exclusion'
      BY <1>2, <2>1, <3>1 DEF HolderInv, TypeOK, Exclusion, r_try_lock_acquire
    <3>. QED BY <3>2, <3>3 DEF HolderInv
  <2>2. CASE w_holder # NoThread
    <3>1. pc' = pc /\ Readers' = Readers
      BY <1>2, <2>2 DEF r_try_lock_acquire, Readers
    <3>. QED
      BY <1>2, <2>2, <3>1 DEF HolderInv, TypeOK, Exclusion, r_try_lock_acquire
  <2>. QED BY <2>1, <2>2
<1>3. ASSUME NEW t \in Threads, r_lock_acquire(t) PROVE HolderInv'
  BY <1>3, ReadLoopHolder DEF r_lock_acquire, HolderInv, TypeOK
<1>4. ASSUME NEW t \in Threads, r_lock_release(t) PROVE HolderInv'
  <2>1. level \in Nat /\ level > 0 /\ w_holder = NoThread
    BY <1>4, ReaderCounted DEF r_lock_release, HolderInv
  <2>2. Cardinality(Readers') = Cardinality(Readers) - 1
    BY <1>4, ReadersShrink DEF r_lock_release, HolderInv, TypeOK
  <2>3. TypeOK'
    <3>1. waiters' \in Seq(Threads)
      <4>1. waiters \in Seq(Threads)
        BY DEF HolderInv, TypeOK
      <4>2. waiters # << >> => Tail(waiters) \in Seq(Threads)
        BY <4>1
      <4>. QED BY <1>4, <4>1, <4>2 DEF r_lock_release
    <3>2. panic' \in Panics
      BY <1>4 DEF r_lock_release, HolderInv, TypeOK, Panics
    <3>3. pc' \in [Threads -> PCs] /\ level' \in Nat
      BY <1>4, <2>1 DEF r_lock_release, HolderInv, TypeOK, PCs
    <3>. QED BY <1>4, <3>1, <3>2, <3>3 DEF r_lock_release, HolderInv, TypeOK
  <2>4. Exclusion'
    BY <1>4, <2>1, <2>2 DEF r_lock_release, HolderInv, TypeOK, Exclusion
  <2>. QED BY <2>3, <2>4 DEF HolderInv
<1>5. ASSUME NEW t \in Threads, r_lock_upgrade_to_w(t) PROVE HolderInv'
  <2>1. level \in Nat /\ level > 0
    BY <1>5, ReaderCounted DEF r_lock_upgrade_to_w, HolderInv
  <2>2. level - 1 \in Nat /\ <<t>> \o waiters \in Seq(Threads)
    BY <2>1 DEF HolderInv, TypeOK
  <2>3. /\ pc[t] = "reader" /\ panic' \in Panics
        /\ waits_write' \in [Threads -> BOOLEAN] /\ 0 \in 0 .. MaxRetries
        /\ WriteLoop(t, 0, "upgrade", level - 1, <<t>> \o waiters)
    BY <1>5 DEF r_lock_upgrade_to_w, HolderInv, TypeOK
  <2>. QED BY <2>2, <2>3, WriteLoopHolder
<1>6. ASSUME NEW t \in Threads, w_try_lock_acquire(t) PROVE HolderInv'
  <2>1. Readers' = Readers
    BY <1>6 DEF w_try_lock_acquire, Readers, HolderInv, TypeOK
  <2>2. TypeOK'
    BY <1>6 DEF w_try_lock_acquire, HolderInv, TypeOK, PCs
  <2>3. Exclusion'
    BY <1>6, <2>1 DEF w_try_lock_acquire, HolderInv, TypeOK, Exclusion, Free
  <2>. QED BY <2>2, <2>3 DEF HolderInv
<1>7. ASSUME NEW t \in Threads, w_lock_acquire(t) PROVE HolderInv'
  <2>1. Append(waiters, t) \in Seq(Threads) /\ level \in Nat
    BY DEF HolderInv, TypeOK
  <2>2. /\ pc[t] = "idle" /\ panic' \in Panics
        /\ waits_write' \in [Threads -> BOOLEAN] /\ 0 \in 0 .. MaxRetries
        /\ WriteLoop(t, 0, "w_acquire", level, Append(waiters, t))
    BY <1>7 DEF w_lock_acquire, HolderInv, TypeOK
  <2>. QED BY <2>1, <2>2, WriteLoopHolder
<1>8. ASSUME NEW t \in Threads, w_lock_release(t) PROVE HolderInv'
  <2>1. Readers' = Readers
    BY <1>8 DEF w_lock_release, Readers, HolderInv, TypeOK
  <2>2. waiters' \in Seq(Threads)
    <3>1. PICK n \in 0 .. Len(waiters) :
            waiters' = SubSeq(waiters, n + 1, Len(waiters))
      BY <1>8 DEF w_lock_release
    <3>. QED BY <3>1 DEF HolderInv, TypeOK
  <2>3. TypeOK'
    BY <1>8, <2>2 DEF w_lock_release, HolderInv, TypeOK, PCs
  <2>4. Exclusion'
    BY <1>8, <2>1 DEF w_lock_release, HolderInv, TypeOK, Exclusion
  <2>. QED BY <2>3, <2>4 DEF HolderInv
<1>9. ASSUME NEW t \in Threads, RetryRead(t) PROVE HolderInv'
  <2>1. tries[t] + 1 \in 0 .. MaxRetries
    BY <1>9 DEF RetryRead, HolderInv, TypeOK
  <2>. QED BY <1>9, <2>1, ReadLoopHolder DEF RetryRead, HolderInv, TypeOK
<1>10. ASSUME NEW t \in Threads, RetryWrite(t) PROVE HolderInv'
  <2>1. tries[t] + 1 \in 0 .. MaxRetries
    BY <1>10 DEF RetryWrite, HolderInv, TypeOK
  <2>2. Append(waiters, t) \in Seq(Threads) /\ level \in Nat
    BY DEF HolderInv, TypeOK
  <2>. QED BY <1>10, <2>1, <2>2, WriteLoopHolder DEF RetryWrite, HolderInv, TypeOK
<1>11. ASSUME NEW t \in Threads, RetryUpgrade(t) PROVE HolderInv'
  <2>1. tries[t] + 1 \in 0 .. MaxRetries
    BY <1>11 DEF RetryUpgrade, HolderInv, TypeOK
  <2>2. <<t>> \o waiters \in Seq(Threads) /\ level \in Nat
    BY DEF HolderInv, TypeOK
  <2>. QED BY <1>11, <2>1, <2>2, WriteLoopHolder DEF RetryUpgrade, HolderInv, TypeOK
<1>12. ASSUME NEW t \in Threads, RetryPanic(t) PROVE HolderInv'
  <2>1. Readers' = Readers
    BY <1>12 DEF RetryPanic, Readers
  <2>. QED BY <1>12, <2>1 DEF RetryPanic, HolderInv, TypeOK, Exclusion, Panics
<1>. QED
  BY <1>1, <1>2, <1>3, <1>4, <1>5, <1>6, <1>7, <1>8, <1>9, <1>10, <1>11, <1>12,
     NextCases

\* The type invariant holds in every reachable state.
THEOREM Typing == Spec => []TypeOK
<1>1. HolderInv => TypeOK
  BY DEF HolderInv
<1>. QED BY <1>1, HolderInit, HolderStep, PTL DEF Spec

\* Readers and a writer never hold the lock together, and w_holder and level
\* always say who does, whatever the order of wake-ups and barging.
THEOREM ExclusionHolds == Spec => []Exclusion
<1>1. HolderInv => Exclusion
  BY DEF HolderInv
<1>. QED BY <1>1, HolderInit, HolderStep, PTL DEF Spec

-----------------------------------------------------------------------------
(***************************************************************************)
(* No lost wake-up.  The invariant needs that the wait list holds no       *)
(* thread twice: a release takes a thread off the list, and only then is   *)
(* it sure that this thread is woken.                                      *)
(***************************************************************************)

\* waits_write tells readers from writers for woken threads, too: they may
\* queue up again without setting it.
WaitsWriteOK ==
  \A t \in Threads : pc[t] \in Waiting => (waits_write[t] <=> pc[t] # "r_acquire")

WakeInv == HolderInv /\ QueueOK /\ WaitsWriteOK /\ NoLostWakeup

\* The list after a push at either end, and after the removal of a prefix.
LEMMA QueuedPush ==
  ASSUME NEW q \in Seq(Threads), NEW t \in Threads, NEW p,
         p = Append(q, t) \/ p = <<t>> \o q,
         \A i \in DOMAIN q : q[i] # t,
         \A i, j \in DOMAIN q : q[i] = q[j] => i = j
  PROVE  /\ {p[i] : i \in DOMAIN p} = {q[i] : i \in DOMAIN q} \cup {t}
         /\ \A i, j \in DOMAIN p : p[i] = p[j] => i = j
         /\ p \in Seq(Threads)
<1>1. CASE p = Append(q, t)
  <2>1. /\ DOMAIN p = 1 .. (Len(q) + 1) /\ DOMAIN q = 1 .. Len(q) /\ Len(q) \in Nat
        /\ \A i \in 1 .. Len(q) : p[i] = q[i]
        /\ p[Len(q) + 1] = t
    BY <1>1
  <2>2. {p[i] : i \in DOMAIN p} = {q[i] : i \in DOMAIN q} \cup {t}
    <3>1. \A i \in DOMAIN p : p[i] \in {q[k] : k \in DOMAIN q} \cup {t}
      BY <2>1
    <3>2. \A i \in DOMAIN q : i \in DOMAIN p /\ q[i] = p[i]
      BY <2>1
    <3>3. Len(q) + 1 \in DOMAIN p
      BY <2>1
    <3>. QED BY <2>1, <3>1, <3>2, <3>3
  <2>3. \A i, j \in DOMAIN p : p[i] = p[j] => i = j
    BY <2>1
  <2>. QED BY <1>1, <2>2, <2>3
<1>2. CASE p = <<t>> \o q
  <2>1. /\ DOMAIN p = 1 .. (Len(q) + 1) /\ DOMAIN q = 1 .. Len(q) /\ Len(q) \in Nat
        /\ \A i \in 1 .. Len(q) : p[i + 1] = q[i]
        /\ p[1] = t
    BY <1>2
  <2>2. \A i \in DOMAIN p : i # 1 => i - 1 \in DOMAIN q /\ p[i] = q[i - 1]
    BY <2>1
  <2>3. {p[i] : i \in DOMAIN p} = {q[i] : i \in DOMAIN q} \cup {t}
    <3>1. \A i \in DOMAIN p : p[i] \in {q[k] : k \in DOMAIN q} \cup {t}
      BY <2>1, <2>2
    <3>2. \A i \in DOMAIN q : i + 1 \in DOMAIN p /\ q[i] = p[i + 1]
      BY <2>1
    <3>3. 1 \in DOMAIN p /\ p[1] = t
      BY <2>1
    <3>4. \A i \in DOMAIN q : q[i] \in {p[k] : k \in DOMAIN p}
      BY <3>2
    <3>. QED BY <3>1, <3>3, <3>4
  <2>4. \A i, j \in DOMAIN p : p[i] = p[j] => i = j
    BY <2>1, <2>2
  <2>5. p \in Seq(Threads)
    BY <1>2
  <2>. QED BY <2>3, <2>4, <2>5
<1>. QED BY <1>1, <1>2

LEMMA QueuedDrop ==
  ASSUME NEW q \in Seq(Threads), NEW n \in 0 .. Len(q), NEW p,
         p = SubSeq(q, n + 1, Len(q)),
         \A i, j \in DOMAIN q : q[i] = q[j] => i = j
  PROVE  /\ {p[i] : i \in DOMAIN p} \subseteq {q[i] : i \in DOMAIN q}
         /\ \A i \in 1 .. n : q[i] \in Threads /\ q[i] \notin {p[k] : k \in DOMAIN p}
         /\ \A i, j \in DOMAIN p : p[i] = p[j] => i = j
         /\ p \in Seq(Threads)
<1>1. /\ DOMAIN p = 1 .. (Len(q) - n) /\ DOMAIN q = 1 .. Len(q) /\ Len(q) \in Nat
      /\ \A i \in DOMAIN p : p[i] = q[n + i]
      /\ p \in Seq(Threads)
  OBVIOUS
<1>2. \A i \in DOMAIN p : n + i \in DOMAIN q /\ n + i > n
  BY <1>1
<1>3. {p[i] : i \in DOMAIN p} \subseteq {q[i] : i \in DOMAIN q}
  BY <1>1, <1>2
<1>4. ASSUME NEW i \in 1 .. n
      PROVE  q[i] \in Threads /\ q[i] \notin {p[k] : k \in DOMAIN p}
  <2>1. i \in DOMAIN q /\ q[i] \in Threads
    BY <1>1
  <2>2. \A k \in DOMAIN p : q[n + k] # q[i]
    BY <1>1, <1>2, <2>1
  <2>. QED BY <1>1, <2>1, <2>2
<1>5. \A i, j \in DOMAIN p : p[i] = p[j] => i = j
  BY <1>1, <1>2
<1>. QED BY <1>1, <1>3, <1>4, <1>5

-----------------------------------------------------------------------------
\* The part of WakeInv that is about the wait list.
ListInv == QueueOK /\ WaitsWriteOK

LEMMA NotQueued ==
  ASSUME QueueOK, NEW t \in Threads, pc[t] \notin Waiting
  PROVE  t \notin Queued
BY DEF QueueOK

\* A step that leaves the list alone and ends outside the wait loops.
LEMMA ListKept ==
  ASSUME WakeInv, NEW t \in Threads, NEW l \in {"idle", "reader", "writer"},
         t \notin Queued, waiters' = waiters, pc' = [pc EXCEPT ![t] = l],
         \A u \in Threads \ {t} : waits_write'[u] = waits_write[u]
  PROVE  ListInv'
<1>1. Queued' = Queued /\ Queued \subseteq Threads
  BY DEF Queued, WakeInv, HolderInv, TypeOK
<1>2. pc'[t] \notin Waiting /\ \A u \in Threads \ {t} : pc'[u] = pc[u]
  BY DEF WakeInv, HolderInv, TypeOK, Waiting
<1>3. QueueOK'
  BY <1>1, <1>2 DEF QueueOK, WakeInv
<1>4. WaitsWriteOK'
  BY <1>2 DEF WaitsWriteOK, WakeInv
<1>. QED BY <1>3, <1>4 DEF ListInv

\* A step that queues its thread, at either end.
LEMMA ListPushed ==
  ASSUME WakeInv, NEW t \in Threads, NEW l \in Waiting,
         t \notin Queued, waiters' = Append(waiters, t) \/ waiters' = <<t>> \o waiters,
         pc' = [pc EXCEPT ![t] = l],
         \A u \in Threads \ {t} : waits_write'[u] = waits_write[u],
         waits_write'[t] <=> l # "r_acquire"
  PROVE  ListInv'
<1>1. waiters \in Seq(Threads) /\ Queued \subseteq Threads
  BY DEF WakeInv, HolderInv, TypeOK, Queued
<1>2. \A i \in DOMAIN waiters : waiters[i] # t
  BY DEF Queued
<1>3. /\ Queued' = Queued \cup {t}
      /\ \A i, j \in DOMAIN waiters' : waiters'[i] = waiters'[j] => i = j
  <2>1. \A i, j \in DOMAIN waiters : waiters[i] = waiters[j] => i = j
    BY DEF WakeInv, QueueOK
  <2>2. /\ {waiters'[i] : i \in DOMAIN waiters'}
             = {waiters[i] : i \in DOMAIN waiters} \cup {t}
        /\ \A i, j \in DOMAIN waiters' : waiters'[i] = waiters'[j] => i = j
    BY <1>1, <1>2, <2>1, QueuedPush
  <2>. QED BY <2>2 DEF Queued
<1>4. pc'[t] = l /\ \A u \in Threads \ {t} : pc'[u] = pc[u]
  BY DEF WakeInv, HolderInv, TypeOK
<1>5. WaitsWriteOK'
  BY <1>4 DEF WaitsWriteOK, WakeInv
<1>6. QueueOK'
  BY <1>1, <1>3, <1>4 DEF QueueOK, WakeInv
<1>. QED BY <1>5, <1>6 DEF ListInv

\* A step that ends a hold and takes the first n threads off the list.
LEMMA ListDropped ==
  ASSUME WakeInv, NEW t \in Threads, pc[t] \notin Waiting,
         NEW n \in 0 .. Len(waiters), waiters' = SubSeq(waiters, n + 1, Len(waiters)),
         pc' = [pc EXCEPT ![t] = "idle"], waits_write' = waits_write
  PROVE  /\ ListInv'
         /\ n > 0 => Woken' # {}
<1>1. waiters \in Seq(Threads) /\ Queued \subseteq Threads
  BY DEF WakeInv, HolderInv, TypeOK, Queued
<1>2. /\ Queued' \subseteq Queued
      /\ \A i \in 1 .. n : waiters[i] \in Threads /\ waiters[i] \notin Queued'
      /\ \A i, j \in DOMAIN waiters' : waiters'[i] = waiters'[j] => i = j
  BY <1>1, QueuedDrop DEF WakeInv, QueueOK, Queued
<1>3. pc'[t] \notin Waiting /\ \A u \in Threads \ {t} : pc'[u] = pc[u]
  BY DEF WakeInv, HolderInv, TypeOK, Waiting
<1>4. WaitsWriteOK'
  BY <1>3 DEF WaitsWriteOK, WakeInv
<1>5. t \notin Queued
  BY NotQueued DEF WakeInv
<1>6. QueueOK'
  BY <1>1, <1>2, <1>3, <1>5 DEF QueueOK, WakeInv
<1>7. ASSUME n > 0 PROVE Woken' # {}
  <2>1. 1 \in 1 .. n /\ 1 \in DOMAIN waiters
    BY <1>1, <1>7
  <2>2. waiters[1] \in Queued
    BY <2>1 DEF Queued
  <2>3. waiters[1] # t /\ pc[waiters[1]] \in Waiting
    BY <2>2, <1>5 DEF WakeInv, QueueOK
  <2>4. waiters[1] \in Threads /\ waiters[1] \notin Queued'
    BY <2>1, <1>2
  <2>5. waiters[1] \in Woken'
    BY <2>3, <2>4, <1>3 DEF Woken
  <2>. QED BY <2>5
<1>. QED BY <1>4, <1>6, <1>7 DEF ListInv

-----------------------------------------------------------------------------
\* The wait loops keep the list in order, and the lock is held afterwards.
LEMMA ReadLoopWake ==
  ASSUME WakeInv, HolderInv', NEW t \in Threads, NEW i, t \notin Queued,
         ReadLoop(t, i),
         \A u \in Threads \ {t} : waits_write'[u] = waits_write[u],
         ~ waits_write'[t]
  PROVE  ListInv' /\ ~ Free'
<1>1. CASE w_holder = NoThread
  <2>1. waiters' = waiters /\ pc' = [pc EXCEPT ![t] = "reader"] /\ level' = level + 1
    BY <1>1 DEF ReadLoop
  <2>2. ListInv'
    BY <2>1, ListKept
  <2>3. ~ Free'
    BY <2>1 DEF Free, WakeInv, HolderInv, TypeOK
  <2>. QED BY <2>2, <2>3
<1>2. CASE w_holder # NoThread
  <2>1. /\ waiters' = Append(waiters, t) /\ pc' = [pc EXCEPT ![t] = "r_acquire"]
        /\ w_holder' = w_holder
    BY <1>2 DEF ReadLoop
  <2>2. ListInv'
    BY <2>1, ListPushed DEF Waiting
  <2>. QED BY <1>2, <2>1, <2>2 DEF Free
<1>. QED BY <1>1, <1>2

LEMMA WriteLoopWake ==
  ASSUME WakeInv, NEW t \in Threads, NEW i, NEW label \in {"w_acquire", "upgrade"},
         NEW held, NEW queued, t \notin Queued,
         queued = Append(waiters, t) \/ queued = <<t>> \o waiters,
         WriteLoop(t, i, label, held, queued),
         \A u \in Threads \ {t} : waits_write'[u] = waits_write[u],
         waits_write'[t]
  PROVE  ListInv' /\ ~ Free'
<1>1. CASE w_holder = NoThread /\ held = 0
  <2>1. waiters' = waiters /\ pc' = [pc EXCEPT ![t] = "writer"] /\ w_holder' = t
    BY <1>1 DEF WriteLoop
  <2>2. ListInv'
    BY <2>1, ListKept
  <2>. QED BY <2>1, <2>2, ThreadsAssumption DEF Free
<1>2. CASE ~ (w_holder = NoThread /\ held = 0)
  <2>1. /\ waiters' = queued /\ pc' = [pc EXCEPT ![t] = label]
        /\ w_holder' = w_holder /\ level' = held
    BY <1>2 DEF WriteLoop
  <2>2. ListInv'
    BY <2>1, ListPushed DEF Waiting
  <2>. QED BY <1>2, <2>1, <2>2 DEF Free
<1>. QED BY <1>1, <1>2

-----------------------------------------------------------------------------
LEMMA WakeInit == Init => WakeInv
<1>. SUFFICES ASSUME Init PROVE WakeInv
  OBVIOUS
<1>1. HolderInv
  BY HolderInit
<1>2. QueueOK /\ WaitsWriteOK /\ NoLostWakeup
  BY DEF Init, QueueOK, Queued, WaitsWriteOK, Waiting, NoLostWakeup
<1>. QED BY <1>1, <1>2 DEF WakeInv

LEMMA WakeStep == WakeInv /\ [Next]_vars => WakeInv'
<1>. SUFFICES ASSUME WakeInv, [Next]_vars PROVE ListInv' /\ NoLostWakeup'
  BY HolderStep DEF WakeInv, ListInv
<1>. USE ThreadsAssumption
<1>h. HolderInv'
  BY HolderStep DEF WakeInv
<1>t. /\ waits_write \in [Threads -> BOOLEAN] /\ pc \in [Threads -> PCs]
      /\ waiters \in Seq(Threads) /\ level \in Nat
  BY DEF WakeInv, HolderInv, TypeOK
<1>1. CASE UNCHANGED vars
  BY <1>1 DEF vars, WakeInv, ListInv, QueueOK, Queued, WaitsWriteOK,
              NoLostWakeup, Free, Woken
<1>2. ASSUME NEW t \in Threads, r_try_lock_acquire(t) PROVE ListInv' /\ NoLostWakeup'
  <2>1. t \notin Queued
    BY <1>2, NotQueued DEF r_try_lock_acquire, WakeInv, Waiting
  <2>2. PICK l \in {"idle", "reader"} : pc' = [pc EXCEPT ![t] = l]
    BY <1>2, <1>t DEF r_try_lock_acquire
  <2>3. ListInv'
    BY <1>2, <2>1, <2>2, <1>t, ListKept DEF r_try_lock_acquire
  <2>4. CASE w_holder = NoThread
    BY <1>2, <2>3, <2>4, <1>t DEF r_try_lock_acquire, NoLostWakeup, Free
  <2>5. CASE w_holder # NoThread
    BY <1>2, <2>3, <2>5 DEF r_try_lock_acquire, NoLostWakeup, Free
  <2>. QED BY <2>4, <2>5
<1>3. ASSUME NEW t \in Threads, r_lock_acquire(t) PROVE ListInv' /\ NoLostWakeup'
  <2>1. t \notin Queued
    BY <1>3, NotQueued DEF r_lock_acquire, WakeInv, Waiting
  <2>2. ~ waits_write'[t] /\ \A u \in Threads \ {t} : waits_write'[u] = waits_write[u]
    BY <1>3, <1>t DEF r_lock_acquire
  <2>3. ReadLoop(t, 0)
    BY <1>3 DEF r_lock_acquire
  <2>. QED BY <1>h, <2>1, <2>2, <2>3, ReadLoopWake DEF NoLostWakeup
<1>4. ASSUME NEW t \in Threads, r_lock_release(t) PROVE ListInv' /\ NoLostWakeup'
  <2>1. CASE level' = 0 /\ waiters # << >>
    <3>1. waiters' = SubSeq(waiters, 1 + 1, Len(waiters)) /\ 1 \in 0 .. Len(waiters)
      BY <1>4, <2>1, <1>t DEF r_lock_release
    <3>2. ListInv' /\ Woken' # {}
      <4>1. /\ pc[t] \notin Waiting /\ pc' = [pc EXCEPT ![t] = "idle"]
            /\ waits_write' = waits_write /\ 1 > 0
        BY <1>4 DEF r_lock_release, Waiting
      <4>2. ListInv' /\ (1 > 0 => Woken' # {})
        BY <3>1, <4>1, ListDropped
      <4>. QED BY <4>1, <4>2
    <3>. QED BY <3>2 DEF NoLostWakeup
  <2>2. CASE ~ (level' = 0 /\ waiters # << >>)
    <3>1. waiters' = waiters /\ t \notin Queued /\ pc' = [pc EXCEPT ![t] = "idle"]
      BY <1>4, <2>2, NotQueued DEF r_lock_release, WakeInv, Waiting
    <3>2. ListInv'
      BY <1>4, <3>1, ListKept DEF r_lock_release
    <3>. QED BY <2>2, <3>1, <3>2 DEF NoLostWakeup, Free
  <2>. QED BY <2>1, <2>2
<1>5. ASSUME NEW t \in Threads, r_lock_upgrade_to_w(t) PROVE ListInv' /\ NoLostWakeup'
  <2>1. t \notin Queued
    BY <1>5, NotQueued DEF r_lock_upgrade_to_w, WakeInv, Waiting
  <2>2. waits_write'[t] /\ \A u \in Threads \ {t} : waits_write'[u] = waits_write[u]
    BY <1>5, <1>t DEF r_lock_upgrade_to_w
  <2>3. WriteLoop(t, 0, "upgrade", level - 1, <<t>> \o waiters)
    BY <1>5 DEF r_lock_upgrade_to_w
  <2>. QED BY <2>1, <2>2, <2>3, WriteLoopWake DEF NoLostWakeup
<1>6. ASSUME NEW t \in Threads, w_try_lock_acquire(t) PROVE ListInv' /\ NoLostWakeup'
  <2>1. t \notin Queued
    BY <1>6, NotQueued DEF w_try_lock_acquire, WakeInv, Waiting
  <2>2. PICK l \in {"idle", "writer"} : pc' = [pc EXCEPT ![t] = l]
    BY <1>6, <1>t DEF w_try_lock_acquire
  <2>3. ListInv'
    BY <1>6, <2>1, <2>2, <1>t, ListKept DEF w_try_lock_acquire
  <2>. QED BY <1>6, <2>3 DEF w_try_lock_acquire, NoLostWakeup, Free
<1>7. ASSUME NEW t \in Threads, w_lock_acquire(t) PROVE ListInv' /\ NoLostWakeup'
  <2>1. t \notin Queued
    BY <1>7, NotQueued DEF w_lock_acquire, WakeInv, Waiting
  <2>2. waits_write'[t] /\ \A u \in Threads \ {t} : waits_write'[u] = waits_write[u]
    BY <1>7, <1>t DEF w_lock_acquire
  <2>3. WriteLoop(t, 0, "w_acquire", level, Append(waiters, t))
    BY <1>7 DEF w_lock_acquire
  <2>. QED BY <2>1, <2>2, <2>3, WriteLoopWake DEF NoLostWakeup
<1>8. ASSUME NEW t \in Threads, w_lock_release(t) PROVE ListInv' /\ NoLostWakeup'
  <2>1. PICK n \in 0 .. Len(waiters) :
          Wakes(n) /\ waiters' = SubSeq(waiters, n + 1, Len(waiters))
    BY <1>8 DEF w_lock_release
  <2>2. ListInv' /\ (n > 0 => Woken' # {})
    BY <1>8, <2>1, ListDropped DEF w_lock_release, Waiting
  <2>3. waiters # << >> => n > 0
    BY <2>1, <1>t DEF Wakes
  <2>4. waiters = << >> => waiters' = << >>
    BY <2>1
  <2>. QED BY <2>2, <2>3, <2>4 DEF NoLostWakeup
<1>9. ASSUME NEW t \in Threads, RetryRead(t) PROVE ListInv' /\ NoLostWakeup'
  <2>1. /\ t \notin Queued /\ ~ waits_write'[t]
        /\ \A u \in Threads \ {t} : waits_write'[u] = waits_write[u]
    BY <1>9 DEF RetryRead, Woken, WakeInv, WaitsWriteOK
  <2>2. ReadLoop(t, tries[t] + 1)
    BY <1>9 DEF RetryRead
  <2>. QED BY <1>h, <2>1, <2>2, ReadLoopWake DEF NoLostWakeup
<1>10. ASSUME NEW t \in Threads, RetryWrite(t) PROVE ListInv' /\ NoLostWakeup'
  <2>1. /\ t \notin Queued /\ waits_write'[t]
        /\ \A u \in Threads \ {t} : waits_write'[u] = waits_write[u]
    BY <1>10 DEF RetryWrite, Woken, WakeInv, WaitsWriteOK
  <2>2. WriteLoop(t, tries[t] + 1, "w_acquire", level, Append(waiters, t))
    BY <1>10 DEF RetryWrite
  <2>. QED BY <2>1, <2>2, WriteLoopWake DEF NoLostWakeup
<1>11. ASSUME NEW t \in Threads, RetryUpgrade(t) PROVE ListInv' /\ NoLostWakeup'
  <2>1. /\ t \notin Queued /\ waits_write'[t]
        /\ \A u \in Threads \ {t} : waits_write'[u] = waits_write[u]
    BY <1>11 DEF RetryUpgrade, Woken, WakeInv, WaitsWriteOK
  <2>2. WriteLoop(t, tries[t] + 1, "upgrade", level, <<t>> \o waiters)
    BY <1>11 DEF RetryUpgrade
  <2>. QED BY <2>1, <2>2, WriteLoopWake DEF NoLostWakeup
<1>12. ASSUME NEW t \in Threads, RetryPanic(t) PROVE ListInv' /\ NoLostWakeup'
  BY <1>12 DEF RetryPanic, WakeInv, ListInv, QueueOK, Queued, WaitsWriteOK, NoLostWakeup
<1>. QED
  BY <1>1, <1>2, <1>3, <1>4, <1>5, <1>6, <1>7, <1>8, <1>9, <1>10, <1>11, <1>12,
     NextCases

\* Whenever the lock is free and threads are queued, a woken thread is on its
\* way: w_lock_release and the last r_lock_release never forget the list.
THEOREM NoLostWakeupHolds == Spec => []NoLostWakeup
<1>1. WakeInv => NoLostWakeup
  BY DEF WakeInv
<1>. QED BY <1>1, WakeInit, WakeStep, PTL DEF Spec

\* The wait list holds each waiting thread at most once and waits_write tells
\* its readers from its writers.
THEOREM QueueOKHolds == Spec => []QueueOK
<1>1. WakeInv => QueueOK
  BY DEF WakeInv
<1>. QED BY <1>1, WakeInit, WakeStep, PTL DEF Spec

-----------------------------------------------------------------------------
(***************************************************************************)
(* The lock implements SharedLock: a step that moves one thread from one   *)
(* label to another is a step of SharedLock, or none.                      *)
(***************************************************************************)
Kind(l) == CASE l = "reader" -> "read" [] l = "writer" -> "write" [] OTHER -> "none"

LEMMA HoldMoves ==
  ASSUME NEW t \in Threads, NEW l, pc \in [Threads -> PCs], pc' = [pc EXCEPT ![t] = l]
  PROVE  hold' = [hold EXCEPT ![t] = Kind(l)]
<1>1. \A u \in Threads : hold'[u] = IF u = t THEN Kind(l) ELSE hold[u]
  BY DEF hold, Kind
<1>2. hold' = [u \in Threads |-> hold'[u]]
  BY DEF hold
<1>3. hold = [u \in Threads |-> hold[u]]
  BY DEF hold
<1>. QED BY <1>1, <1>2, <1>3

\* A thread that leaves a hold, or that held nothing and still does not.
LEMMA DropsOrStays ==
  ASSUME HolderInv, NEW t \in Threads, NEW l \in {"idle"} \cup Waiting,
         pc' = [pc EXCEPT ![t] = l]
  PROVE  [Shared!Next]_hold
<1>1. hold' = [hold EXCEPT ![t] = "none"]
  BY HoldMoves DEF Kind, Waiting, HolderInv, TypeOK
<1>2. CASE hold[t] = "none"
  BY <1>1, <1>2 DEF hold
<1>3. CASE hold[t] # "none"
  <2>1. Shared!Drop(t)
    BY <1>1, <1>3 DEF Shared!Drop
  <2>. QED BY <2>1 DEF Shared!Next
<1>. QED BY <1>2, <1>3

LEMMA TakesRead ==
  ASSUME HolderInv, NEW t \in Threads, pc[t] \notin {"reader", "writer"},
         w_holder = NoThread, pc' = [pc EXCEPT ![t] = "reader"]
  PROVE  [Shared!Next]_hold
<1>1. hold' = [hold EXCEPT ![t] = "read"]
  BY HoldMoves DEF Kind, HolderInv, TypeOK
<1>2. \A u \in Threads : hold[u] # "write"
  BY ThreadsAssumption DEF HolderInv, Exclusion, hold
<1>3. hold[t] = "none"
  BY DEF hold
<1>4. Shared!GetRead(t)
  BY <1>1, <1>2, <1>3 DEF Shared!GetRead
<1>. QED BY <1>4 DEF Shared!Next

LEMMA TakesWrite ==
  ASSUME HolderInv, HolderInv', NEW t \in Threads, pc[t] # "writer",
         w_holder = NoThread, level' = 0, pc' = [pc EXCEPT ![t] = "writer"]
  PROVE  [Shared!Next]_hold
<1>1. hold' = [hold EXCEPT ![t] = "write"]
  BY HoldMoves DEF Kind, HolderInv, TypeOK
<1>2. ASSUME NEW u \in Threads \ {t} PROVE hold[u] = "none"
  <2>1. pc[u] # "writer"
    BY ThreadsAssumption DEF HolderInv, Exclusion
  <2>2. IsFiniteSet(Readers')
    BY FS_Subset, ThreadsAssumption DEF Readers
  <2>3. Cardinality(Readers') = 0
    BY DEF HolderInv, Exclusion
  <2>4. Readers' = {}
    BY <2>2, <2>3, FS_EmptySet
  <2>5. pc'[u] # "reader"
    BY <2>4 DEF Readers
  <2>6. pc[u] # "reader"
    BY <2>5 DEF HolderInv, TypeOK
  <2>. QED BY <2>1, <2>6 DEF hold
<1>3. hold[t] # "write"
  BY DEF hold
<1>4. Shared!GetWrite(t)
  BY <1>1, <1>2, <1>3 DEF Shared!GetWrite
<1>. QED BY <1>4 DEF Shared!Next

LEMMA ReadLoopShared ==
  ASSUME HolderInv, NEW t \in Threads, NEW i, ReadLoop(t, i),
         pc[t] \notin {"reader", "writer"}
  PROVE  [Shared!Next]_hold
<1>1. CASE w_holder = NoThread
  BY <1>1, TakesRead DEF ReadLoop
<1>2. CASE w_holder # NoThread
  BY <1>2, DropsOrStays DEF ReadLoop, Waiting
<1>. QED BY <1>1, <1>2

LEMMA WriteLoopShared ==
  ASSUME HolderInv, HolderInv', NEW t \in Threads, NEW i,
         NEW label \in {"w_acquire", "upgrade"}, NEW held, NEW queued,
         WriteLoop(t, i, label, held, queued), pc[t] # "writer"
  PROVE  [Shared!Next]_hold
<1>1. CASE w_holder = NoThread /\ held = 0
  BY <1>1, TakesWrite DEF WriteLoop
<1>2. CASE ~ (w_holder = NoThread /\ held = 0)
  BY <1>2, DropsOrStays DEF WriteLoop, Waiting
<1>. QED BY <1>1, <1>2

LEMMA SharedStep == HolderInv /\ [Next]_vars => [Shared!Next]_hold
<1>. SUFFICES ASSUME HolderInv, [Next]_vars PROVE [Shared!Next]_hold
  OBVIOUS
<1>h. HolderInv'
  BY HolderStep
<1>t. pc \in [Threads -> PCs] /\ level \in Nat
  BY DEF HolderInv, TypeOK
<1>1. CASE UNCHANGED vars
  BY <1>1 DEF vars, hold
<1>2. ASSUME NEW t \in Threads, r_try_lock_acquire(t) PROVE [Shared!Next]_hold
  <2>1. CASE w_holder = NoThread
    BY <1>2, <2>1, TakesRead DEF r_try_lock_acquire
  <2>2. CASE w_holder # NoThread
    BY <1>2, <2>2 DEF r_try_lock_acquire, hold
  <2>. QED BY <2>1, <2>2
<1>3. ASSUME NEW t \in Threads, r_lock_acquire(t) PROVE [Shared!Next]_hold
  BY <1>3, ReadLoopShared DEF r_lock_acquire
<1>4. ASSUME NEW t \in Threads, r_lock_release(t) PROVE [Shared!Next]_hold
  BY <1>4, DropsOrStays DEF r_lock_release
<1>5. ASSUME NEW t \in Threads, r_lock_upgrade_to_w(t) PROVE [Shared!Next]_hold
  BY <1>5, <1>h, WriteLoopShared DEF r_lock_upgrade_to_w
<1>6. ASSUME NEW t \in Threads, w_try_lock_acquire(t) PROVE [Shared!Next]_hold
  <2>1. CASE Free
    BY <1>6, <2>1, <1>h, TakesWrite DEF w_try_lock_acquire, Free
  <2>2. CASE ~ Free
    BY <1>6, <2>2 DEF w_try_lock_acquire, hold
  <2>. QED BY <2>1, <2>2
<1>7. ASSUME NEW t \in Threads, w_lock_acquire(t) PROVE [Shared!Next]_hold
  BY <1>7, <1>h, WriteLoopShared DEF w_lock_acquire
<1>8. ASSUME NEW t \in Threads, w_lock_release(t) PROVE [Shared!Next]_hold
  BY <1>8, DropsOrStays DEF w_lock_release
<1>9. ASSUME NEW t \in Threads, RetryRead(t) PROVE [Shared!Next]_hold
  BY <1>9, ReadLoopShared DEF RetryRead
<1>10. ASSUME NEW t \in Threads, RetryWrite(t) PROVE [Shared!Next]_hold
  BY <1>10, <1>h, WriteLoopShared DEF RetryWrite
<1>11. ASSUME NEW t \in Threads, RetryUpgrade(t) PROVE [Shared!Next]_hold
  BY <1>11, <1>h, WriteLoopShared DEF RetryUpgrade
<1>12. ASSUME NEW t \in Threads, RetryPanic(t) PROVE [Shared!Next]_hold
  BY <1>12 DEF RetryPanic, hold
<1>. QED
  BY <1>1, <1>2, <1>3, <1>4, <1>5, <1>6, <1>7, <1>8, <1>9, <1>10, <1>11, <1>12,
     NextCases

\* The reader-writer lock implements the abstract lock that the models of its
\* callers use.
THEOREM LockImplements == Spec => ImplementsSharedLock
<1>1. Init => Shared!Init
  BY DEF Init, Shared!Init, hold
<1>. QED
  BY <1>1, HolderInit, HolderStep, SharedStep, PTL
     DEF Spec, ImplementsSharedLock, Shared!Spec

-----------------------------------------------------------------------------
(***************************************************************************)
(* The life of processes: what exec and wait answer is what the child has  *)
(* done, a status is collected once and nobody sleeps on a freed record.   *)
(*                                                                         *)
(* The argument follows a child from its creation to the moment its status *)
(* is collected.  Each part of the inductive invariant says what is known  *)
(* of a process in one stretch of that way.                                *)
(***************************************************************************)
\* Before the status can be there: a process that has not called exit.
Alive == {"unborn", "loading", "running", "exec", "wait"}

\* A process has a parent and a record from its creation on, and the first
\* process never has (thread_create).
BornOK ==
  \A c \in Procs :
    /\ at[c] = "unborn" => parent[c] = None
    /\ c = Root => parent[c] = None /\ at[c] \in {"running", "exec", "wait"}
    /\ parent[c] = None => record[c].state = "none"
    /\ c # Root /\ at[c] # "unborn" => parent[c] \in Procs

\* The status in the record is the argument of exit once the semaphore can be
\* raised; until exit the semaphore is down (exit, ExitSignal).
StatusOK ==
  \A c \in Procs :
    /\ at[c] \in Alive => exitCode[c] = -2 /\ record[c].sema = 0
    /\ at[c] = "signal" => record[c].sema = 0 /\ exitCode[c] # -2
                             /\ record[c].status = exitCode[c]
    /\ record[c].sema # 0 => exitCode[c] # -2 /\ record[c].status = exitCode[c]

\* Only a loaded program can run and exit (start_process).
LoadedOK ==
  \A c \in Procs :
    /\ c # Root /\ at[c] \in {"running", "exec", "wait", "signal"} => c \in loaded
    /\ exitCode[c] # -2 => c \in loaded

\* While a child loads, its caller waits for it with the semaphore down; the
\* semaphore comes up with the answer (process_execute, start_process).
HandshakeOK ==
  /\ \A c \in Procs : at[c] = "loading" =>
       /\ parent[c] \in Procs /\ at[parent[c]] = "exec" /\ callee[parent[c]] = c
       /\ execSema[parent[c]] = 0 /\ execStatus[parent[c]] = -2
  /\ \A p \in Procs : at[p] = "exec" /\ execSema[p] = 1 /\ execStatus[p] # -1 =>
       callee[p] \in loaded

\* A waiting process waits for its own child, whose record nobody else can
\* free: not another waiter, since the child has one parent, and not
\* thread_exit, which is the waiter's own (process_wait, thread_exit).
WaitersOK ==
  \A p \in Procs : at[p] = "wait" =>
    /\ callee[p] \in Procs /\ parent[callee[p]] = p
    /\ record[callee[p]].state = "linked"

\* A record that is on the list was not collected yet (WaitReturn).
CollectedOK ==
  \A c \in Procs :
    /\ collected[c] \in 0 .. 1
    /\ record[c].state # "freed" => collected[c] = 0

\* The last answer of exec or wait.
ResultsOK ==
  \A p \in Procs :
    /\ result[p].of # None => result[p].of \in loaded
    /\ result[p].waited =>
         LET c == result[p].of IN
         c \in Procs /\ parent[c] = p /\ exitCode[c] # -2 /\ result[p].value = exitCode[c]

IInv == /\ ProcessTypeOK /\ BornOK /\ StatusOK /\ LoadedOK /\ HandshakeOK /\ WaitersOK
        /\ CollectedOK /\ ResultsOK

-----------------------------------------------------------------------------
\* One lemma for each action: it keeps every part of the invariant.

\* The values of a status: codes of exit, -1, -2 and 0.
LEMMA StatusValues == /\ Codes \subseteq Status /\ -1 \in Status /\ -2 \in Status /\ 0 \in Status
                      /\ -2 \notin Codes /\ -1 # -2
BY ProcessAssumption DEF Status

\* process_execute with a new thread: the child and its record.
LEMMA CreateKeeps ==
  ASSUME IInv, NEW p \in Procs, NEW c \in Procs,
         at[p] = "running", at[c] = "unborn", thread_create(p, c),
         execSema' = [execSema EXCEPT ![p] = 0], execStatus' = [execStatus EXCEPT ![p] = -2],
         UNCHANGED <<result, exitCode, loaded, collected, corrupt>>
  PROVE  IInv'
<1>. USE ProcessAssumption DEF IInv, thread_create
<1>1. ProcessTypeOK'
  <2>1. at' \in [Procs -> Labels]
    BY StatusValues DEF ProcessTypeOK, Labels
  <2>2. parent' \in [Procs -> Procs \cup {None}]
    BY StatusValues DEF ProcessTypeOK, Labels
  <2>3. record' \in [Procs -> [state : {"none", "linked", "freed"}, status : Status, sema : 0 .. 1]]
    BY StatusValues DEF ProcessTypeOK, Labels
  <2>4. callee' \in [Procs -> Procs \cup {None}]
    BY StatusValues DEF ProcessTypeOK, Labels
  <2>5. execSema' \in [Procs -> 0 .. 1] /\ execStatus' \in [Procs -> {-1, -2}]
    BY StatusValues DEF ProcessTypeOK, Labels
  <2>6. result' \in [Procs -> [of : Procs \cup {None}, value : Status, waited : BOOLEAN]]
    BY StatusValues DEF ProcessTypeOK, Labels
  <2>7. exitCode' \in [Procs -> Status]
    BY StatusValues DEF ProcessTypeOK, Labels
  <2>8. loaded' \subseteq Procs /\ collected' \in [Procs -> 0 .. 2] /\ corrupt' \in BOOLEAN
    BY StatusValues DEF ProcessTypeOK, Labels
  <2>. QED BY <2>1, <2>2, <2>3, <2>4, <2>5, <2>6, <2>7, <2>8 DEF ProcessTypeOK
<1>2. BornOK' BY DEF ProcessTypeOK, BornOK, Labels, WaitersOK
<1>3. StatusOK' BY DEF ProcessTypeOK, BornOK, StatusOK, Alive, Status, WaitersOK
<1>4. LoadedOK' BY DEF ProcessTypeOK, BornOK, StatusOK, LoadedOK, Alive
<1>5. HandshakeOK' BY DEF ProcessTypeOK, BornOK, HandshakeOK, LoadedOK
<1>6. WaitersOK' BY DEF ProcessTypeOK, BornOK, WaitersOK
<1>7. CollectedOK' BY DEF ProcessTypeOK, BornOK, WaitersOK, CollectedOK
<1>8. ResultsOK' BY DEF ProcessTypeOK, BornOK, StatusOK, Alive, LoadedOK, HandshakeOK, WaitersOK, ResultsOK
<1>. QED BY <1>1, <1>2, <1>3, <1>4, <1>5, <1>6, <1>7, <1>8

\* process_execute when the thread could not be created.
LEMMA NoThreadKeeps ==
  ASSUME IInv, NEW p \in Procs, at[p] = "running", Goto(p, "exec"),
         callee' = [callee EXCEPT ![p] = None], execSema' = [execSema EXCEPT ![p] = 0],
         execStatus' = [execStatus EXCEPT ![p] = -2],
         UNCHANGED <<parent, record, result, exitCode, loaded, collected, corrupt>>
  PROVE  IInv'
<1>. USE ProcessAssumption DEF IInv, Goto
<1>1. ProcessTypeOK'
  <2>1. at' \in [Procs -> Labels]
    BY StatusValues DEF ProcessTypeOK, Labels
  <2>2. parent' \in [Procs -> Procs \cup {None}]
    BY StatusValues DEF ProcessTypeOK, Labels
  <2>3. record' \in [Procs -> [state : {"none", "linked", "freed"}, status : Status, sema : 0 .. 1]]
    BY StatusValues DEF ProcessTypeOK, Labels
  <2>4. callee' \in [Procs -> Procs \cup {None}]
    BY StatusValues DEF ProcessTypeOK, Labels
  <2>5. execSema' \in [Procs -> 0 .. 1] /\ execStatus' \in [Procs -> {-1, -2}]
    BY StatusValues DEF ProcessTypeOK, Labels
  <2>6. result' \in [Procs -> [of : Procs \cup {None}, value : Status, waited : BOOLEAN]]
    BY StatusValues DEF ProcessTypeOK, Labels
  <2>7. exitCode' \in [Procs -> Status]
    BY StatusValues DEF ProcessTypeOK, Labels
  <2>8. loaded' \subseteq Procs /\ collected' \in [Procs -> 0 .. 2] /\ corrupt' \in BOOLEAN
    BY StatusValues DEF ProcessTypeOK, Labels
  <2>. QED BY <2>1, <2>2, <2>3, <2>4, <2>5, <2>6, <2>7, <2>8 DEF ProcessTypeOK
<1>2. BornOK' BY DEF ProcessTypeOK, BornOK, Labels, WaitersOK
<1>3. StatusOK' BY DEF ProcessTypeOK, BornOK, StatusOK, Alive, Status, WaitersOK
<1>4. LoadedOK' BY DEF ProcessTypeOK, BornOK, StatusOK, LoadedOK, Alive
<1>5. HandshakeOK' BY DEF ProcessTypeOK, BornOK, HandshakeOK, LoadedOK
<1>6. WaitersOK' BY DEF ProcessTypeOK, BornOK, WaitersOK
<1>7. CollectedOK' BY DEF ProcessTypeOK, BornOK, WaitersOK, CollectedOK
<1>8. ResultsOK' BY DEF ProcessTypeOK, BornOK, StatusOK, Alive, LoadedOK, HandshakeOK, WaitersOK, ResultsOK
<1>. QED BY <1>1, <1>2, <1>3, <1>4, <1>5, <1>6, <1>7, <1>8

\* A call that fails at once.
LEMMA ErrorKeeps ==
  ASSUME IInv, NEW p \in Procs, Returns(p, None, -1, FALSE),
         UNCHANGED <<at, parent, record, callee, execSema, execStatus, exitCode, loaded,
                     collected, corrupt>>
  PROVE  IInv'
<1>. USE ProcessAssumption DEF IInv, Returns
<1>1. ProcessTypeOK'
  <2>1. at' \in [Procs -> Labels]
    BY StatusValues DEF ProcessTypeOK, Labels
  <2>2. parent' \in [Procs -> Procs \cup {None}]
    BY StatusValues DEF ProcessTypeOK, Labels
  <2>3. record' \in [Procs -> [state : {"none", "linked", "freed"}, status : Status, sema : 0 .. 1]]
    BY StatusValues DEF ProcessTypeOK, Labels
  <2>4. callee' \in [Procs -> Procs \cup {None}]
    BY StatusValues DEF ProcessTypeOK, Labels
  <2>5. execSema' \in [Procs -> 0 .. 1] /\ execStatus' \in [Procs -> {-1, -2}]
    BY StatusValues DEF ProcessTypeOK, Labels
  <2>6. result' \in [Procs -> [of : Procs \cup {None}, value : Status, waited : BOOLEAN]]
    BY StatusValues DEF ProcessTypeOK, Labels
  <2>7. exitCode' \in [Procs -> Status]
    BY StatusValues DEF ProcessTypeOK, Labels
  <2>8. loaded' \subseteq Procs /\ collected' \in [Procs -> 0 .. 2] /\ corrupt' \in BOOLEAN
    BY StatusValues DEF ProcessTypeOK, Labels
  <2>. QED BY <2>1, <2>2, <2>3, <2>4, <2>5, <2>6, <2>7, <2>8 DEF ProcessTypeOK
<1>2. BornOK' BY DEF ProcessTypeOK, BornOK, Labels, WaitersOK
<1>3. StatusOK' BY DEF ProcessTypeOK, BornOK, StatusOK, Alive, Status, WaitersOK
<1>4. LoadedOK' BY DEF ProcessTypeOK, BornOK, StatusOK, LoadedOK, Alive
<1>5. HandshakeOK' BY DEF ProcessTypeOK, BornOK, HandshakeOK, LoadedOK
<1>6. WaitersOK' BY DEF ProcessTypeOK, BornOK, WaitersOK
<1>7. CollectedOK' BY DEF ProcessTypeOK, BornOK, WaitersOK, CollectedOK
<1>8. ResultsOK' BY DEF ProcessTypeOK, BornOK, StatusOK, Alive, LoadedOK, HandshakeOK, WaitersOK, ResultsOK
<1>. QED BY <1>1, <1>2, <1>3, <1>4, <1>5, <1>6, <1>7, <1>8

\* process_execute, in each of its outcomes.
LEMMA ExecuteKeeps ==
  ASSUME IInv, NEW p \in Procs, process_execute(p)
  PROVE  IInv'
BY CreateKeeps, NoThreadKeeps, ErrorKeeps DEF process_execute

\* start_process: the answer to the caller that waits for the load.
LEMMA StartKeeps ==
  ASSUME IInv, NEW p \in Procs, start_process(p)
  PROVE  IInv'
<1>. USE ProcessAssumption DEF IInv, start_process, Goto
<1>1. ProcessTypeOK'
  <2>1. at' \in [Procs -> Labels]
    BY StatusValues DEF ProcessTypeOK, Labels
  <2>2. parent' \in [Procs -> Procs \cup {None}]
    BY StatusValues DEF ProcessTypeOK, Labels
  <2>3. record' \in [Procs -> [state : {"none", "linked", "freed"}, status : Status, sema : 0 .. 1]]
    BY StatusValues DEF ProcessTypeOK, Labels
  <2>4. callee' \in [Procs -> Procs \cup {None}]
    BY StatusValues DEF ProcessTypeOK, Labels
  <2>5. execSema' \in [Procs -> 0 .. 1] /\ execStatus' \in [Procs -> {-1, -2}]
    BY StatusValues DEF ProcessTypeOK, HandshakeOK
  <2>6. result' \in [Procs -> [of : Procs \cup {None}, value : Status, waited : BOOLEAN]]
    BY StatusValues DEF ProcessTypeOK, Labels
  <2>7. exitCode' \in [Procs -> Status]
    BY StatusValues DEF ProcessTypeOK, Labels
  <2>8. loaded' \subseteq Procs /\ collected' \in [Procs -> 0 .. 2] /\ corrupt' \in BOOLEAN
    BY StatusValues DEF ProcessTypeOK, Labels
  <2>. QED BY <2>1, <2>2, <2>3, <2>4, <2>5, <2>6, <2>7, <2>8 DEF ProcessTypeOK
<1>2. BornOK' BY DEF ProcessTypeOK, BornOK, Labels, WaitersOK
<1>3. StatusOK' BY DEF ProcessTypeOK, BornOK, StatusOK, Alive, Status, WaitersOK
<1>4. LoadedOK' BY DEF ProcessTypeOK, BornOK, StatusOK, LoadedOK, Alive
<1>5. HandshakeOK' BY DEF ProcessTypeOK, BornOK, HandshakeOK, LoadedOK
<1>6. WaitersOK' BY DEF ProcessTypeOK, BornOK, WaitersOK
<1>7. CollectedOK' BY DEF ProcessTypeOK, BornOK, WaitersOK, CollectedOK
<1>8. ResultsOK' BY DEF ProcessTypeOK, BornOK, StatusOK, Alive, LoadedOK, HandshakeOK, WaitersOK, ResultsOK
<1>. QED BY <1>1, <1>2, <1>3, <1>4, <1>5, <1>6, <1>7, <1>8

\* The end of process_execute.
LEMMA ExecReturnKeeps ==
  ASSUME IInv, NEW p \in Procs, ExecReturn(p)
  PROVE  IInv'
<1>. USE ProcessAssumption DEF IInv, ExecReturn, Returns, Goto
<1>1. ProcessTypeOK'
  <2>1. at' \in [Procs -> Labels]
    BY StatusValues DEF ProcessTypeOK, Labels
  <2>2. parent' \in [Procs -> Procs \cup {None}]
    BY StatusValues DEF ProcessTypeOK, Labels
  <2>3. record' \in [Procs -> [state : {"none", "linked", "freed"}, status : Status, sema : 0 .. 1]]
    BY StatusValues DEF ProcessTypeOK, Labels
  <2>4. callee' \in [Procs -> Procs \cup {None}]
    BY StatusValues DEF ProcessTypeOK, Labels
  <2>5. execSema' \in [Procs -> 0 .. 1] /\ execStatus' \in [Procs -> {-1, -2}]
    BY StatusValues DEF ProcessTypeOK, Labels
  <2>6. result' \in [Procs -> [of : Procs \cup {None}, value : Status, waited : BOOLEAN]]
    <3>1. PICK v \in Status, c \in Procs \cup {None} :
             result' = [result EXCEPT ![p] = [of |-> c, value |-> v, waited |-> FALSE]]
      BY StatusValues DEF ProcessTypeOK
    <3>. QED BY <3>1 DEF ProcessTypeOK
  <2>7. exitCode' \in [Procs -> Status]
    BY StatusValues DEF ProcessTypeOK, Labels
  <2>8. loaded' \subseteq Procs /\ collected' \in [Procs -> 0 .. 2] /\ corrupt' \in BOOLEAN
    BY StatusValues DEF ProcessTypeOK, Labels
  <2>. QED BY <2>1, <2>2, <2>3, <2>4, <2>5, <2>6, <2>7, <2>8 DEF ProcessTypeOK
<1>2. BornOK' BY DEF ProcessTypeOK, BornOK, Labels, WaitersOK
<1>3. StatusOK' BY DEF ProcessTypeOK, BornOK, StatusOK, Alive, Status, WaitersOK
<1>4. LoadedOK' BY DEF ProcessTypeOK, BornOK, StatusOK, LoadedOK, Alive
<1>5. HandshakeOK' BY DEF ProcessTypeOK, BornOK, HandshakeOK, LoadedOK
<1>6. WaitersOK' BY DEF ProcessTypeOK, BornOK, WaitersOK
<1>7. CollectedOK' BY DEF ProcessTypeOK, BornOK, WaitersOK, CollectedOK
<1>8. ResultsOK' BY DEF ProcessTypeOK, BornOK, StatusOK, Alive, LoadedOK, HandshakeOK, WaitersOK, ResultsOK
<1>. QED BY <1>1, <1>2, <1>3, <1>4, <1>5, <1>6, <1>7, <1>8

\* process_wait up to its sema_down.
LEMMA WaitBeginKeeps ==
  ASSUME IInv, NEW p \in Procs, NEW c \in Procs,
         at[p] = "running", parent[c] = p, record[c].state = "linked",
         callee' = [callee EXCEPT ![p] = c], Goto(p, "wait"),
         UNCHANGED <<parent, record, execSema, execStatus, result, exitCode, loaded, collected,
                     corrupt>>
  PROVE  IInv'
<1>. USE ProcessAssumption DEF IInv, Goto
<1>1. ProcessTypeOK'
  <2>1. at' \in [Procs -> Labels]
    BY StatusValues DEF ProcessTypeOK, Labels
  <2>2. parent' \in [Procs -> Procs \cup {None}]
    BY StatusValues DEF ProcessTypeOK, Labels
  <2>3. record' \in [Procs -> [state : {"none", "linked", "freed"}, status : Status, sema : 0 .. 1]]
    BY StatusValues DEF ProcessTypeOK, Labels
  <2>4. callee' \in [Procs -> Procs \cup {None}]
    BY StatusValues DEF ProcessTypeOK, Labels
  <2>5. execSema' \in [Procs -> 0 .. 1] /\ execStatus' \in [Procs -> {-1, -2}]
    BY StatusValues DEF ProcessTypeOK, Labels
  <2>6. result' \in [Procs -> [of : Procs \cup {None}, value : Status, waited : BOOLEAN]]
    BY StatusValues DEF ProcessTypeOK, Labels
  <2>7. exitCode' \in [Procs -> Status]
    BY StatusValues DEF ProcessTypeOK, Labels
  <2>8. loaded' \subseteq Procs /\ collected' \in [Procs -> 0 .. 2] /\ corrupt' \in BOOLEAN
    BY StatusValues DEF ProcessTypeOK, Labels
  <2>. QED BY <2>1, <2>2, <2>3, <2>4, <2>5, <2>6, <2>7, <2>8 DEF ProcessTypeOK
<1>2. BornOK' BY DEF ProcessTypeOK, BornOK, Labels, WaitersOK
<1>3. StatusOK' BY DEF ProcessTypeOK, BornOK, StatusOK, Alive, Status, WaitersOK
<1>4. LoadedOK' BY DEF ProcessTypeOK, BornOK, StatusOK, LoadedOK, Alive
<1>5. HandshakeOK' BY DEF ProcessTypeOK, BornOK, HandshakeOK, LoadedOK
<1>6. WaitersOK' BY DEF ProcessTypeOK, BornOK, WaitersOK
<1>7. CollectedOK' BY DEF ProcessTypeOK, BornOK, WaitersOK, CollectedOK
<1>8. ResultsOK' BY DEF ProcessTypeOK, BornOK, StatusOK, Alive, LoadedOK, HandshakeOK, WaitersOK, ResultsOK
<1>. QED BY <1>1, <1>2, <1>3, <1>4, <1>5, <1>6, <1>7, <1>8

\* process_wait, in each of its outcomes.
LEMMA WaitKeeps ==
  ASSUME IInv, NEW p \in Procs, NEW c \in Procs, process_wait(p, c)
  PROVE  IInv'
BY WaitBeginKeeps, ErrorKeeps DEF process_wait

\* The end of process_wait: the status is taken and the record freed.
LEMMA WaitReturnKeeps ==
  ASSUME IInv, NEW p \in Procs, WaitReturn(p)
  PROVE  IInv'
<1>. USE ProcessAssumption DEF IInv, WaitReturn, Returns, Goto
<1>1. ProcessTypeOK' BY SMTT(60) DEF ProcessTypeOK, Status, Labels, BornOK, StatusOK, CollectedOK, HandshakeOK, WaitersOK
<1>2. BornOK' BY DEF ProcessTypeOK, BornOK, Labels, WaitersOK
<1>3. StatusOK' BY DEF ProcessTypeOK, BornOK, StatusOK, Alive, Status, WaitersOK
<1>4. LoadedOK' BY DEF ProcessTypeOK, BornOK, StatusOK, LoadedOK, Alive
<1>5. HandshakeOK' BY DEF ProcessTypeOK, BornOK, HandshakeOK, LoadedOK
<1>6. WaitersOK' BY DEF ProcessTypeOK, BornOK, WaitersOK
<1>7. CollectedOK' BY DEF ProcessTypeOK, BornOK, WaitersOK, CollectedOK
<1>8. ResultsOK' BY DEF ProcessTypeOK, BornOK, StatusOK, Alive, LoadedOK, HandshakeOK, WaitersOK, ResultsOK
<1>. QED BY <1>1, <1>2, <1>3, <1>4, <1>5, <1>6, <1>7, <1>8

\* exit: the status is stored.
LEMMA ExitKeeps ==
  ASSUME IInv, NEW p \in Procs, NEW status \in Codes \cup {-1}, exit(p, status)
  PROVE  IInv'
<1>. USE ProcessAssumption DEF IInv, exit, MayEnd, Goto
<1>1. ProcessTypeOK' BY SMTT(60) DEF ProcessTypeOK, Status, Labels, BornOK, StatusOK, CollectedOK, HandshakeOK, WaitersOK
<1>2. BornOK' BY DEF ProcessTypeOK, BornOK, Labels, WaitersOK
<1>3. StatusOK' BY DEF ProcessTypeOK, BornOK, StatusOK, Alive, Status, WaitersOK
<1>4. LoadedOK' BY DEF ProcessTypeOK, BornOK, StatusOK, LoadedOK, Alive
<1>5. HandshakeOK' BY DEF ProcessTypeOK, BornOK, HandshakeOK, LoadedOK
<1>6. WaitersOK' BY DEF ProcessTypeOK, BornOK, WaitersOK
<1>7. CollectedOK' BY DEF ProcessTypeOK, BornOK, WaitersOK, CollectedOK
<1>8. ResultsOK' BY DEF ProcessTypeOK, BornOK, StatusOK, Alive, LoadedOK, HandshakeOK, WaitersOK, ResultsOK
<1>. QED BY <1>1, <1>2, <1>3, <1>4, <1>5, <1>6, <1>7, <1>8

\* exit: the semaphore is raised.
LEMMA SignalKeeps ==
  ASSUME IInv, NEW p \in Procs, ExitSignal(p)
  PROVE  IInv'
<1>. USE ProcessAssumption DEF IInv, ExitSignal, Goto
<1>1. ProcessTypeOK' BY SMTT(60) DEF ProcessTypeOK, Status, Labels, BornOK, StatusOK, CollectedOK, HandshakeOK, WaitersOK
<1>2. BornOK' BY DEF ProcessTypeOK, BornOK, Labels, WaitersOK
<1>3. StatusOK' BY DEF ProcessTypeOK, BornOK, StatusOK, Alive, Status, WaitersOK
<1>4. LoadedOK' BY DEF ProcessTypeOK, BornOK, StatusOK, LoadedOK, Alive
<1>5. HandshakeOK' BY DEF ProcessTypeOK, BornOK, HandshakeOK, LoadedOK
<1>6. WaitersOK' BY DEF ProcessTypeOK, BornOK, WaitersOK
<1>7. CollectedOK' BY DEF ProcessTypeOK, BornOK, WaitersOK, CollectedOK
<1>8. ResultsOK' BY DEF ProcessTypeOK, BornOK, StatusOK, Alive, LoadedOK, HandshakeOK, WaitersOK, ResultsOK
<1>. QED BY <1>1, <1>2, <1>3, <1>4, <1>5, <1>6, <1>7, <1>8

\* kill: the process ends without a status.
LEMMA KillKeeps ==
  ASSUME IInv, NEW p \in Procs, kill(p)
  PROVE  IInv'
<1>. USE ProcessAssumption DEF IInv, kill, MayEnd, Goto
<1>1. ProcessTypeOK' BY SMTT(60) DEF ProcessTypeOK, Status, Labels, BornOK, StatusOK, CollectedOK, HandshakeOK, WaitersOK
<1>2. BornOK' BY DEF ProcessTypeOK, BornOK, Labels, WaitersOK
<1>3. StatusOK' BY DEF ProcessTypeOK, BornOK, StatusOK, Alive, Status, WaitersOK
<1>4. LoadedOK' BY DEF ProcessTypeOK, BornOK, StatusOK, LoadedOK, Alive
<1>5. HandshakeOK' BY DEF ProcessTypeOK, BornOK, HandshakeOK, LoadedOK
<1>6. WaitersOK' BY DEF ProcessTypeOK, BornOK, WaitersOK
<1>7. CollectedOK' BY DEF ProcessTypeOK, BornOK, WaitersOK, CollectedOK
<1>8. ResultsOK' BY DEF ProcessTypeOK, BornOK, StatusOK, Alive, LoadedOK, HandshakeOK, WaitersOK, ResultsOK
<1>. QED BY <1>1, <1>2, <1>3, <1>4, <1>5, <1>6, <1>7, <1>8

\* thread_exit, first half.
LEMMA ReleaseKeeps ==
  ASSUME IInv, NEW p \in Procs, GiveBack(p)
  PROVE  IInv'
<1>. USE ProcessAssumption DEF IInv, GiveBack, Goto
<1>1. ProcessTypeOK' BY SMTT(60) DEF ProcessTypeOK, Status, Labels, BornOK, StatusOK, CollectedOK, HandshakeOK, WaitersOK
<1>2. BornOK' BY DEF ProcessTypeOK, BornOK, Labels, WaitersOK
<1>3. StatusOK' BY DEF ProcessTypeOK, BornOK, StatusOK, Alive, Status, WaitersOK
<1>4. LoadedOK' BY DEF ProcessTypeOK, BornOK, StatusOK, LoadedOK, Alive
<1>5. HandshakeOK' BY DEF ProcessTypeOK, BornOK, HandshakeOK, LoadedOK
<1>6. WaitersOK' BY DEF ProcessTypeOK, BornOK, WaitersOK
<1>7. CollectedOK' BY DEF ProcessTypeOK, BornOK, WaitersOK, CollectedOK
<1>8. ResultsOK' BY DEF ProcessTypeOK, BornOK, StatusOK, Alive, LoadedOK, HandshakeOK, WaitersOK, ResultsOK
<1>. QED BY <1>1, <1>2, <1>3, <1>4, <1>5, <1>6, <1>7, <1>8

\* thread_exit, second half: the records of the children are freed.
LEMMA FreeKeeps ==
  ASSUME IInv, NEW p \in Procs, thread_exit(p)
  PROVE  IInv'
<1>. USE ProcessAssumption DEF IInv, thread_exit, Goto
<1>1. ProcessTypeOK'
  <2>1. at' \in [Procs -> Labels]
    BY StatusValues DEF ProcessTypeOK, Labels
  <2>2. parent' \in [Procs -> Procs \cup {None}]
    BY StatusValues DEF ProcessTypeOK, Labels
  <2>3. record' \in [Procs -> [state : {"none", "linked", "freed"}, status : Status, sema : 0 .. 1]]
    BY StatusValues DEF ProcessTypeOK, Labels
  <2>4. callee' \in [Procs -> Procs \cup {None}]
    BY StatusValues DEF ProcessTypeOK, Labels
  <2>5. execSema' \in [Procs -> 0 .. 1] /\ execStatus' \in [Procs -> {-1, -2}]
    BY StatusValues DEF ProcessTypeOK, Labels
  <2>6. result' \in [Procs -> [of : Procs \cup {None}, value : Status, waited : BOOLEAN]]
    BY StatusValues DEF ProcessTypeOK, Labels
  <2>7. exitCode' \in [Procs -> Status]
    BY StatusValues DEF ProcessTypeOK, Labels
  <2>8. loaded' \subseteq Procs /\ collected' \in [Procs -> 0 .. 2] /\ corrupt' \in BOOLEAN
    BY StatusValues DEF ProcessTypeOK, Labels
  <2>. QED BY <2>1, <2>2, <2>3, <2>4, <2>5, <2>6, <2>7, <2>8 DEF ProcessTypeOK
<1>2. BornOK' BY DEF ProcessTypeOK, BornOK, Labels, WaitersOK
<1>3. StatusOK' BY DEF ProcessTypeOK, BornOK, StatusOK, Alive, Status, WaitersOK
<1>4. LoadedOK' BY DEF ProcessTypeOK, BornOK, StatusOK, LoadedOK, Alive
<1>5. HandshakeOK' BY DEF ProcessTypeOK, BornOK, HandshakeOK, LoadedOK
<1>6. WaitersOK' BY DEF ProcessTypeOK, BornOK, WaitersOK
<1>7. CollectedOK' BY DEF ProcessTypeOK, BornOK, WaitersOK, CollectedOK
<1>8. ResultsOK' BY DEF ProcessTypeOK, BornOK, StatusOK, Alive, LoadedOK, HandshakeOK, WaitersOK, ResultsOK
<1>. QED BY <1>1, <1>2, <1>3, <1>4, <1>5, <1>6, <1>7, <1>8

-----------------------------------------------------------------------------
\* The first process runs, alone.
LEMMA InitInv == ASSUME ProcessInit PROVE IInv
<1>. USE ProcessAssumption DEF ProcessInit
<1>1. ProcessTypeOK
  <2>1. at \in [Procs -> Labels] /\ parent \in [Procs -> Procs \cup {None}]
    BY DEF Labels
  <2>2. record \in [Procs -> [state : {"none", "linked", "freed"}, status : Status, sema : 0 .. 1]]
    BY StatusValues
  <2>3. /\ callee \in [Procs -> Procs \cup {None}] /\ execSema \in [Procs -> 0 .. 1]
        /\ execStatus \in [Procs -> {-1, -2}] /\ exitCode \in [Procs -> Status]
    BY StatusValues
  <2>4. result \in [Procs -> [of : Procs \cup {None}, value : Status, waited : BOOLEAN]]
    BY StatusValues
  <2>5. loaded \subseteq Procs /\ collected \in [Procs -> 0 .. 2]
    OBVIOUS
  <2>6. corrupt \in BOOLEAN
    OBVIOUS
  <2>. QED BY <2>1, <2>2, <2>3, <2>4, <2>5, <2>6 DEF ProcessTypeOK
<1>2. BornOK /\ StatusOK /\ LoadedOK BY DEF BornOK, StatusOK, LoadedOK, Alive
<1>3. HandshakeOK /\ WaitersOK BY DEF HandshakeOK, WaitersOK
<1>4. CollectedOK /\ ResultsOK BY DEF CollectedOK, ResultsOK
<1>. QED BY <1>1, <1>2, <1>3, <1>4 DEF IInv

\* Every step of every process keeps the invariant.
LEMMA NextInv == ASSUME IInv, [ProcessNext]_processVars PROVE IInv'
<1>1. CASE ProcessNext
  <2>1. PICK p \in Procs : Ask(p) \/ Run(p)
    BY <1>1 DEF ProcessNext
  <2>2. CASE Ask(p)
    BY <2>2, ExecuteKeeps, WaitKeeps, ExitKeeps, KillKeeps DEF Ask
  <2>3. CASE Run(p)
    BY <2>3, StartKeeps, ExecReturnKeeps, WaitReturnKeeps, SignalKeeps, ReleaseKeeps,
       FreeKeeps DEF Run
  <2>. QED BY <2>1, <2>2, <2>3
<1>2. CASE UNCHANGED processVars
  BY <1>2 DEF processVars, IInv, ProcessTypeOK, BornOK, StatusOK, LoadedOK, HandshakeOK, WaitersOK,
     CollectedOK, ResultsOK
<1>. QED BY <1>1, <1>2

\* The invariant holds always.
LEMMA Invariance == ProcessSpec => []IInv
<1>1. ProcessInit => IInv BY InitInv
<1>2. IInv /\ [ProcessNext]_processVars => IInv' BY NextInv
<1>. QED BY <1>1, <1>2, PTL DEF ProcessSpec

\* RecordsRight: the types hold, no status is handed out twice by wait, and
\* no process sleeps on the semaphore of a record that was freed, for every set of
\* processes that start, wait and end in any order (process_wait, thread_exit).
THEOREM RecordsRightHolds == ProcessSpec => []RecordsRight
<1>1. IInv => RecordsRight
  BY DEF IInv, RecordsRight, CollectedOK, CollectedOnce, WaitersOK, WaitersHaveRecords
<1>. QED BY <1>1, Invariance, PTL

\* StatusesArrive: wait returns the argument of its child's exit, and exec
\* the child exactly when its program was loaded (process_wait, exit,
\* process_execute, start_process).
THEOREM StatusesArriveHolds == ProcessSpec => []StatusesArrive
<1>1. IInv => StatusesArrive
  BY DEF IInv, StatusesArrive, ResultsOK, WaitReturnsExitStatus, ExecReportsLoad
<1>. QED BY <1>1, Invariance, PTL
=============================================================================
