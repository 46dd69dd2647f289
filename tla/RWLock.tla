------------------------------- MODULE RWLock -------------------------------
(***************************************************************************)
(* The reader-writer lock of the Pintos kernel (threads/gio_synch.c).      *)
(*                                                                         *)
(* Every operation runs with interrupts off, so it is one step from its    *)
(* call (or from the return of thread_block) to its return (or to the next *)
(* thread_block).  A thread that is woken is only put on the ready list:   *)
(* until the scheduler runs it, other threads may take the lock ("barge"), *)
(* and it has to queue up again.                                           *)
(*                                                                         *)
(* Callers use one lock the way inode.c, directory.c and cached_block.c    *)
(* do: a thread that holds nothing acquires, a reader releases or          *)
(* upgrades, a writer releases.  A failed ASSERT halts the kernel: it sets *)
(* panic, after which nothing happens any more.                            *)
(***************************************************************************)
EXTENDS Naturals, Sequences, FiniteSets

CONSTANTS Threads,      \* the kernel threads that share the lock
          NoThread,     \* the NULL of w_holder
          MaxRetries    \* the 100 of ASSERT (i < 100)

ASSUME ThreadsAssumption == IsFiniteSet(Threads) /\ NoThread \notin Threads
ASSUME RetriesAssumption == MaxRetries \in Nat

VARIABLES w_holder,     \* the writer that holds the lock, or NoThread
          level,        \* the number of read holds
          waiters,      \* the threads blocked on the lock, in list order
          waits_write,  \* thread.waits_write: the kind of the last request
          tries,        \* the loop counter i of a waiting operation
          pc,           \* what each thread is doing with the lock
          panic         \* the ASSERT that halted the kernel, or "none"

lockVars == <<w_holder, level, waiters, waits_write>>
vars == <<w_holder, level, waiters, waits_write, tries, pc, panic>>

\* "idle" holds nothing; the next three are inside the wait loop of the
\* function of that name, queued or just woken; the last two hold the lock.
Waiting == {"r_acquire", "w_acquire", "upgrade"}
PCs == {"idle", "reader", "writer"} \cup Waiting

Panics == {"none", "retries", "waits_write"}

Queued == {waiters[i] : i \in DOMAIN waiters}
Woken == {t \in Threads : pc[t] \in Waiting /\ t \notin Queued}
Readers == {t \in Threads : pc[t] = "reader"}
Free == w_holder = NoThread /\ level = 0

TypeOK ==
  /\ w_holder \in Threads \cup {NoThread}
  /\ level \in Nat
  /\ waiters \in Seq(Threads)
  /\ waits_write \in [Threads -> BOOLEAN]
  /\ tries \in [Threads -> 0 .. MaxRetries]
  /\ pc \in [Threads -> PCs]
  /\ panic \in Panics

Init ==
  /\ w_holder = NoThread
  /\ level = 0
  /\ waiters = << >>
  /\ waits_write = [t \in Threads |-> FALSE]
  /\ tries = [t \in Threads |-> 0]
  /\ pc = [t \in Threads |-> "idle"]
  /\ panic = "none"

-----------------------------------------------------------------------------
(***************************************************************************)
(* The wait loops.  Each takes the lock when the loop condition is false   *)
(* and otherwise queues the thread, which blocks; i is the loop counter.   *)
(***************************************************************************)
ReadLoop(t, i) ==
  /\ \/ /\ w_holder = NoThread
        /\ level' = level + 1
        /\ pc' = [pc EXCEPT ![t] = "reader"]
        /\ tries' = [tries EXCEPT ![t] = 0]
        /\ UNCHANGED waiters
     \/ /\ w_holder # NoThread
        /\ waiters' = Append(waiters, t)
        /\ pc' = [pc EXCEPT ![t] = "r_acquire"]
        /\ tries' = [tries EXCEPT ![t] = i]
        /\ UNCHANGED level
  /\ UNCHANGED w_holder

\* held is the level the loop condition reads: an upgrade has already given
\* its own read hold back.  queued is the list with the thread on it.
WriteLoop(t, i, label, held, queued) ==
  /\ \/ /\ w_holder = NoThread /\ held = 0
        /\ w_holder' = t
        /\ pc' = [pc EXCEPT ![t] = "writer"]
        /\ tries' = [tries EXCEPT ![t] = 0]
        /\ UNCHANGED waiters
     \/ /\ ~ (w_holder = NoThread /\ held = 0)
        /\ waiters' = queued
        /\ pc' = [pc EXCEPT ![t] = label]
        /\ tries' = [tries EXCEPT ![t] = i]
        /\ UNCHANGED w_holder
  /\ level' = held

-----------------------------------------------------------------------------
(***************************************************************************)
(* The operations.                                                         *)
(***************************************************************************)
r_try_lock_acquire(t) ==
  /\ pc[t] = "idle"
  /\ waits_write' = [waits_write EXCEPT ![t] = FALSE]
  /\ \/ /\ w_holder = NoThread
        /\ level' = level + 1
        /\ pc' = [pc EXCEPT ![t] = "reader"]
     \/ /\ w_holder # NoThread
        /\ UNCHANGED <<level, pc>>
  /\ UNCHANGED <<w_holder, waiters, tries, panic>>

\* Mutant: waits_write keeps the value of the thread's previous request.
r_lock_acquire_no_reset(t) ==
  /\ pc[t] = "idle"
  /\ ReadLoop(t, 0)
  /\ UNCHANGED <<waits_write, panic>>

r_lock_acquire(t) ==
  /\ pc[t] = "idle"
  /\ waits_write' = [waits_write EXCEPT ![t] = FALSE]
  /\ ReadLoop(t, 0)
  /\ UNCHANGED panic

\* Only the last reader wakes a waiter, and asserts that it is a writer.
r_lock_release(t) ==
  /\ pc[t] = "reader"
  /\ level' = level - 1
  /\ pc' = [pc EXCEPT ![t] = "idle"]
  /\ \/ /\ level' = 0 /\ waiters # << >>
        /\ waiters' = Tail(waiters)
        /\ panic' = IF waits_write[Head(waiters)] THEN "none" ELSE "waits_write"
     \/ /\ ~ (level' = 0 /\ waiters # << >>)
        /\ UNCHANGED <<waiters, panic>>
  /\ UNCHANGED <<w_holder, waits_write, tries>>

r_lock_upgrade_to_w(t) ==
  /\ pc[t] = "reader"
  /\ waits_write' = [waits_write EXCEPT ![t] = TRUE]
  /\ WriteLoop(t, 0, "upgrade", level - 1, <<t>> \o waiters)
  /\ UNCHANGED panic

\* Mutant: the level is not part of the test, a writer joins the readers.
w_try_lock_acquire_ignores_level(t) ==
  /\ pc[t] = "idle" /\ w_holder = NoThread
  /\ waits_write' = [waits_write EXCEPT ![t] = TRUE]
  /\ w_holder' = t
  /\ pc' = [pc EXCEPT ![t] = "writer"]
  /\ UNCHANGED <<level, waiters, tries, panic>>

w_try_lock_acquire(t) ==
  /\ pc[t] = "idle"
  /\ waits_write' = [waits_write EXCEPT ![t] = TRUE]
  /\ \/ /\ Free
        /\ w_holder' = t
        /\ pc' = [pc EXCEPT ![t] = "writer"]
     \/ /\ ~ Free
        /\ UNCHANGED <<w_holder, pc>>
  /\ UNCHANGED <<level, waiters, tries, panic>>

w_lock_acquire(t) ==
  /\ pc[t] = "idle"
  /\ waits_write' = [waits_write EXCEPT ![t] = TRUE]
  /\ WriteLoop(t, 0, "w_acquire", level, Append(waiters, t))
  /\ UNCHANGED panic

\* Mutant: the loop stops at a writer before it is woken.
Wakes_no_writer(n) ==
  /\ \A i \in 1 .. n : ~ waits_write[waiters[i]]
  /\ n < Len(waiters) => waits_write[waiters[n + 1]]

\* How many waiters w_lock_release wakes: a writer at the front alone, or
\* else all the readers in front of the first writer.
Wakes(n) ==
  IF waiters # << >> /\ waits_write[Head(waiters)]
  THEN n = 1
  ELSE /\ \A i \in 1 .. n : ~ waits_write[waiters[i]]
       /\ n < Len(waiters) => waits_write[waiters[n + 1]]

w_lock_release(t) ==
  /\ pc[t] = "writer"
  /\ w_holder' = NoThread
  /\ pc' = [pc EXCEPT ![t] = "idle"]
  /\ \E n \in 0 .. Len(waiters) :
       Wakes(n) /\ waiters' = SubSeq(waiters, n + 1, Len(waiters))
  /\ UNCHANGED <<level, waits_write, tries, panic>>

\* Mutant: ASSERT (i <= 100).
RetryRead_off_by_one(t) ==
  /\ t \in Woken /\ pc[t] = "r_acquire"
  /\ tries[t] <= MaxRetries
  /\ ReadLoop(t, tries[t] + 1)
  /\ UNCHANGED <<waits_write, panic>>

\* thread_block returns: ASSERT (i < 100), i++ and the loop condition again.
RetryRead(t) ==
  /\ t \in Woken /\ pc[t] = "r_acquire"
  /\ tries[t] < MaxRetries
  /\ ReadLoop(t, tries[t] + 1)
  /\ UNCHANGED <<waits_write, panic>>

RetryWrite(t) ==
  /\ t \in Woken /\ pc[t] = "w_acquire"
  /\ tries[t] < MaxRetries
  /\ WriteLoop(t, tries[t] + 1, "w_acquire", level, Append(waiters, t))
  /\ UNCHANGED <<waits_write, panic>>

RetryUpgrade(t) ==
  /\ t \in Woken /\ pc[t] = "upgrade"
  /\ tries[t] < MaxRetries
  /\ WriteLoop(t, tries[t] + 1, "upgrade", level, <<t>> \o waiters)
  /\ UNCHANGED <<waits_write, panic>>

RetryPanic(t) ==
  /\ t \in Woken
  /\ tries[t] >= MaxRetries
  /\ panic' = "retries"
  /\ UNCHANGED <<w_holder, level, waiters, waits_write, tries, pc>>

-----------------------------------------------------------------------------
\* A call from outside, the return of a hold, and the run of a woken thread.
Call(t) ==
  \/ r_try_lock_acquire(t) \/ r_lock_acquire(t)
  \/ w_try_lock_acquire(t) \/ w_lock_acquire(t)
Upgrade(t) == r_lock_upgrade_to_w(t)
Release(t) == r_lock_release(t) \/ w_lock_release(t)
Retry(t) == RetryRead(t) \/ RetryWrite(t) \/ RetryUpgrade(t) \/ RetryPanic(t)

Next ==
  /\ panic = "none"
  /\ \E t \in Threads : Call(t) \/ Upgrade(t) \/ Release(t) \/ Retry(t)

Spec == Init /\ [][Next]_vars

-----------------------------------------------------------------------------
(***************************************************************************)
(* Safety.                                                                 *)
(***************************************************************************)

\* Readers exclude a writer and writers exclude each other, and the two
\* fields of the lock say exactly who holds it: level counts the readers and
\* w_holder is the one writer, across every wake-up, upgrade and barging.
Exclusion ==
  /\ level = Cardinality(Readers)
  /\ \A t \in Threads : pc[t] = "writer" <=> w_holder = t
  /\ w_holder # NoThread => level = 0

\* The lock as its callers see it: a woken or queued thread holds nothing.
hold == [t \in Threads |-> CASE pc[t] = "reader" -> "read"
                             [] pc[t] = "writer" -> "write"
                             [] OTHER -> "none"]

Shared == INSTANCE SharedLock

\* Every step grants or gives back one hold, and grants it only when the
\* other holds allow it; barging, retries and upgrades included.
ImplementsSharedLock == Shared!Spec

\* No wake-up is lost: whenever the lock is free and threads are queued on
\* it, some woken thread is on its way to take the lock and to pass it on.
\* Releases wake only some waiters, and a woken thread may lose the lock to
\* another one, so this could fail in many ways.
NoLostWakeup == panic = "none" /\ Free /\ waiters # << >> => Woken # {}

\* A thread is queued at most once, only while it waits, and waits_write
\* tells the waking thread what it waits for (list_entry on thread.elem is
\* only sound for a thread that is in one list, once).
QueueOK ==
  /\ \A i, j \in DOMAIN waiters : waiters[i] = waiters[j] => i = j
  /\ \A t \in Queued :
       /\ pc[t] \in Waiting
       /\ waits_write[t] <=> pc[t] # "r_acquire"

\* The ASSERT of r_lock_release: the last reader only ever wakes a writer.
OnlyWritersBehindReaders == panic # "waits_write"

\* The ASSERT of the wait loops: a thread is woken in vain at most 100 times.
RetriesSuffice == panic # "retries"

\* The design document on fairness: while an upgrade waits for the readers
\* to leave, no other thread gets a read hold.
UpgradeBlocksReaders ==
  [][(\E u \in Threads : pc[u] = "upgrade" /\ pc'[u] = "upgrade")
       => Cardinality(Readers') <= Cardinality(Readers)]_vars
=============================================================================
