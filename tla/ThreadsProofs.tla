---------------------------- MODULE ThreadsProofs -----------------------------
(***************************************************************************)
(* Proofs about the threads of Project 1, for every number of threads,     *)
(* locks, semaphores and priorities: every thread is in the list its       *)
(* status and its priority say, a lock has one owner, no wake-up and no    *)
(* signal is lost, every tick wakes the sleepers that are due, and a       *)
(* donated priority lasts as long as the wait it is for.                   *)
(*                                                                         *)
(* The argument follows where a thread is in the code (Place).  A thread   *)
(* is queued at a semaphore only inside sema_down, and sleeps only outside *)
(* of all other code, so it is in one list at most (Waits); between the    *)
(* sema_down or sema_try_down of a lock and the moment its holder is       *)
(* stored, and between lock_release and its sema_up, the place of one      *)
(* thread is what keeps everybody else out (Owned).                        *)
(***************************************************************************)
EXTENDS Threads, WellFoundedInduction, FiniteSetTheorems, SequenceTheorems, TLAPS

\* Where thread_create goes on once it has, and has returned, the lock of
\* allocate_tid.
CreatePCs == {"number", "unblock"}
Creates(t) == pc[t] \in CreatePCs \/ loc[t].ret \in CreatePCs

\* What the place of a thread says of its locals and of propagate_priorities.
Place(t) ==
  /\ pc[t] = "donate" => cur = t /\ don # NoFrame
  /\ pc[t] = "donate" /\ don.then \in {"yield", "own"} =>
       loc[t].sema \in Locks /\ waiting_lock[t] = loc[t].sema
  /\ pc[t] = "donate" /\ don.then = "set" => loc[t].ret = "run"
  /\ pc[t] = "donate" /\ don.then = "up" => don.lock \in Locks /\ loc[t].ret # "number"
  /\ (pc[t] = "donate" /\ don.then \in {"yield", "own"}) \/ pc[t] = "down" =>
       (loc[t].ret = "number" => loc[t].sema = TidLock)
  /\ pc[t] = "down" =>
       /\ loc[t].sema \in Semaphores
       /\ loc[t].sema \in Locks => waiting_lock[t] = loc[t].sema
       /\ loc[t].sema \notin Locks => loc[t].ret = "run"
  /\ pc[t] = "tried" => loc[t].sema \in Locks
  /\ pc[t] \notin {"donate", "down"} => loc[t].ret = "run"
  /\ pc[t] = "number" => holder[TidLock] = t
  /\ loc[t].child # NoThread <=> Creates(t)
  /\ status[t] = "none" => pc[t] = "run"

Places ==
  /\ \A t \in Threads : Place(t)
  /\ don # NoFrame => cur \in Threads /\ pc[cur] = "donate" /\ don.then # "none"
  /\ in_external_intr => sleeping # << >> /\ don = NoFrame

\* The ready lists rd hold the ready threads, each in that of its priority.
Listed(rd, st, pr) ==
  \A p \in Priorities :
    /\ IsInjective(rd[p])
    /\ \A t \in Threads : t \in ToSet(rd[p]) <=> st[t] = "ready" /\ pr[t] = p

Scheduled ==
  /\ Listed(ready, status, priority)
  /\ \A t \in Threads : status[t] = "running" <=> t = cur

Queued(t) == \E s \in Semaphores : t \in ToSet(waiters[s])
Child(t) == \E u \in Threads : loc[u].child = t

\* A blocked thread sleeps, is queued at the semaphore it went to, or is being
\* created by somebody.
Waits ==
  /\ IsInjective(sleeping) /\ \A s \in Semaphores : IsInjective(waiters[s])
  /\ \A t \in Threads :
       /\ t \in ToSet(sleeping) => status[t] = "blocked" /\ pc[t] = "run"
       /\ \A s \in Semaphores : t \in ToSet(waiters[s]) =>
            status[t] = "blocked" /\ pc[t] = "down" /\ loc[t].sema = s
       /\ Child(t) => status[t] = "blocked" /\ pc[t] = "run" /\ t \notin ToSet(sleeping)
       /\ status[t] = "blocked" => t \in ToSet(sleeping) \/ Queued(t) \/ Child(t)
       /\ \A u \in Threads :
            loc[t].child = loc[u].child /\ loc[t].child # NoThread => t = u

\* Thread t has taken the semaphore of lock l and has not stored itself as its
\* holder yet; lock l has no holder any more and its semaphore is not up yet.
Takes(t, l) ==
  loc[t].sema = l /\ (pc[t] = "tried" \/ (pc[t] = "donate" /\ don.then = "own"))
GivesUp(l) == don.then = "up" /\ don.lock = l

Owned(l) ==
  /\ \A t \in Threads : Takes(t, l) =>
       /\ value[l] = 0 /\ holder[l] = NoThread /\ ~ GivesUp(l)
       /\ \A u \in Threads : Takes(u, l) => u = t
  /\ holder[l] # NoThread => value[l] = 0 /\ ~ GivesUp(l)
  /\ GivesUp(l) => value[l] = 0
  /\ \A t \in Threads : l \in acquired[t] => holder[l] = t

IInv == TypeOK /\ Places /\ Scheduled /\ Waits /\ \A l \in Locks : Owned(l)

\* Thread t is in cond_wait and has not come out of its sema_down.
InWait(t) == pc[t] = "cdown" \/ loc[t].sema = t \/ (pc[t] = "donate" /\ loc[t].ret = "cdown")

\* A thread waits at its own semaphore_elem only, and goes there from cond_wait
\* only, straight after lock_release.
WaitPlace(t) ==
  /\ loc[t].sema \in Threads => loc[t].sema = t /\ pc[t] = "down"
  /\ (pc[t] = "donate" /\ don.then # "up") \/ pc[t] = "down" => loc[t].ret # "cdown"

\* The signal of a waiting thread is its place in the list of the condition
\* or, once it is sent, the value of its semaphore.
SignalOf(t) ==
  /\ t \in ToSet(condition) => value[t] = 0 /\ InWait(t)
  /\ value[t] # 0 => value[t] = 1 /\ InWait(t)
  /\ InWait(t) => t \in ToSet(condition) \/ value[t] = 1
  /\ WaitPlace(t)
Signals == IsInjective(condition) /\ \A t \in Threads : SignalOf(t)

\* The threads that are on their way out of sema_down of s.
Coming(s) == {t \in Threads : loc[t].sema = s /\ pc[t] = "down" /\ status[t] # "blocked"}
Wakeups ==
  \A s \in Semaphores : waiters[s] # << >> => value[s] <= Cardinality(Coming(s))

\* sleeping_threads_list is in the order of the deadlines; the handler goes on
\* while its front is due.
Ordered ==
  /\ \A i, j \in DOMAIN sleeping : i <= j => loc[sleeping[i]].wake <= loc[sleeping[j]].wake
  /\ in_external_intr => Late(sleeping, ticks)
  /\ \A t \in ToSet(sleeping) : loc[t].wake <= MaxTicks
  /\ \A t \in Threads : pc[t] = "sleep" => loc[t].wake <= MaxTicks

\* What has been promised to the threads that wait.
Promises == Signals /\ Wakeups /\ Ordered

\* Nobody who is queued for a lock of t has more than t, but for those in missed;
\* t has more than its own priority only as long as somebody asks it for a lock
\* who has as much.
Asks(u, t) == waiting_lock[u] \in Held(t)
Served(t) == \A u \in Donors(t) \ missed : priority[u] <= priority[t]
Owed(t) ==
  priority[t] > old_priority[t] =>
    \E u \in Threads : Asks(u, t) /\ priority[t] <= priority[u]

\* Where a thread waits for a lock, and what becomes of its priority when it ends.
LockPlace(t) ==
  /\ waiting_lock[t] # NoLock =>
       \/ pc[t] = "down" /\ loc[t].sema \in Locks
       \/ pc[t] = "donate" /\ don.then \in {"yield", "own"}
  /\ status[t] = "none" => Held(t) = {} /\ priority[t] = 0

\* While propagate_priorities is under way the one thread whose priority may be
\* wrong is the one it comes to next.
Donations ==
  /\ \A t \in Threads : t # don.t => Served(t) /\ Owed(t)
  /\ don.t \in Threads /\ don.priority # -1 =>
       \E u \in Threads : Asks(u, don.t) /\ don.priority <= priority[u]
  /\ \A t \in Threads : LockPlace(t)

-----------------------------------------------------------------------------
\* Lemmas on the operators of the model.

\* Every set of natural numbers that is not empty has a least element, ...
LEMMA LeastElement ==
  ASSUME NEW S \in SUBSET Nat, S # {}
  PROVE  Min(S) \in S /\ \A y \in S : Min(S) <= y
<1>1. PICK x \in S : \A y \in S : ~ (<<y, x>> \in OpToRel(<, Nat))
  BY NatLessThanWellFounded, WFMin
<1>2. ASSUME NEW y \in S, y < x PROVE FALSE
  <2>1. <<y, x>> \in {ss \in Nat \X Nat : ss[1] < ss[2]}
    BY <1>2
  <2>. QED BY <1>1, <2>1 DEF OpToRel
<1>3. \A y \in S : x <= y
  BY <1>2
<1>. QED BY <1>3 DEF Min

\* ... and every set of integers with an upper bound a greatest one.
LEMMA GreatestElement ==
  ASSUME NEW b \in Int, NEW S \in SUBSET Int, S # {}, \A x \in S : x <= b
  PROVE  Max(S) \in S /\ \A y \in S : y <= Max(S)
<1>. DEFINE T == {n \in Nat : b - n \in S}
<1>1. PICK z \in S : TRUE
  OBVIOUS
<1>2. b - z \in Nat /\ b - (b - z) = z
  BY <1>1
<1>3. T \in SUBSET Nat /\ T # {}
  BY <1>1, <1>2
<1>4. PICK n \in T : \A m \in T : n <= m
  BY <1>3, LeastElement
<1>5. ASSUME NEW y \in S PROVE y <= b - n
  <2>1. b - y \in Nat /\ b - (b - y) = y BY <1>5
  <2>2. b - y \in T BY <1>5, <2>1
  <2>3. n <= b - y BY <1>4, <2>2
  <2>. HIDE DEF T
  <2>4. n \in Nat /\ y \in Int BY <1>3
  <2>. QED BY <2>3, <2>4
<1>6. b - n \in S
  BY <1>4
<1>7. \E x \in S : \A y \in S : x >= y
  BY <1>5, <1>6
<1>8. Max(S) \in S /\ \A y \in S : Max(S) >= y
  BY <1>7 DEF Max
<1>. QED BY <1>8

\* A sequence r that is q with one more element e, at place k.
OneMore(q, r, k, e) ==
  /\ k \in 1 .. Len(q) + 1 /\ Len(r) = Len(q) + 1
  /\ \A i \in 1 .. Len(q) + 1 :
       r[i] = IF i < k THEN q[i] ELSE IF i = k THEN e ELSE q[i - 1]

\* What is in it, and whether it has an element twice.
LEMMA OneMoreElement ==
  ASSUME NEW S, NEW q \in Seq(S), NEW r \in Seq(S), NEW k, NEW e, OneMore(q, r, k, e)
  PROVE  /\ ToSet(r) = ToSet(q) \cup {e}
         /\ IsInjective(r) <=> IsInjective(q) /\ e \notin ToSet(q)
<1>. DEFINE n == Len(q)
<1>1. n \in Nat /\ DOMAIN q = 1 .. n /\ DOMAIN r = 1 .. n + 1 /\ k \in 1 .. n + 1
  BY DEF OneMore
<1>2. \A i \in 1 .. n + 1 : r[i] = IF i < k THEN q[i] ELSE IF i = k THEN e ELSE q[i - 1]
  BY DEF OneMore
<1>. HIDE DEF n
<1>3. r[k] = e
  BY <1>1, <1>2
<1>4. ASSUME NEW i \in 1 .. n
      PROVE  \E j \in 1 .. n + 1 : j # k /\ r[j] = q[i] /\ j = IF i < k THEN i ELSE i + 1
  <2>1. CASE i < k BY <1>1, <1>2, <2>1
  <2>2. CASE ~ (i < k)
    <3>1. i + 1 \in 1 .. n + 1 /\ ~ (i + 1 < k) /\ i + 1 # k /\ (i + 1) - 1 = i
      BY <1>1, <2>2
    <3>. QED BY <1>2, <2>2, <3>1
  <2>. QED BY <2>1, <2>2
<1>5. ASSUME NEW j \in 1 .. n + 1, j # k
      PROVE  \E i \in 1 .. n : r[j] = q[i] /\ i = IF j < k THEN j ELSE j - 1
  <2>1. CASE j < k BY <1>1, <1>2, <2>1
  <2>2. CASE ~ (j < k)
    <3>1. j - 1 \in 1 .. n BY <1>1, <1>5, <2>2
    <3>. QED BY <1>2, <1>5, <2>2, <3>1
  <2>. QED BY <2>1, <2>2
<1>6. ToSet(r) = ToSet(q) \cup {e}
  <2>1. ASSUME NEW v \in ToSet(r), v # e PROVE v \in ToSet(q)
    <3>1. PICK j \in 1 .. n + 1 : v = r[j] BY <1>1 DEF ToSet
    <3>2. j # k BY <1>3, <2>1, <3>1
    <3>3. PICK i \in 1 .. n : r[j] = q[i] BY <1>5, <3>2
    <3>. QED BY <1>1, <3>1, <3>3 DEF ToSet
  <2>2. ASSUME NEW v \in ToSet(q) PROVE v \in ToSet(r)
    <3>1. PICK i \in 1 .. n : v = q[i] BY <1>1, <2>2 DEF ToSet
    <3>2. PICK j \in 1 .. n + 1 : r[j] = q[i] BY <1>4
    <3>. QED BY <1>1, <3>1, <3>2 DEF ToSet
  <2>3. e \in ToSet(r)
    BY <1>1, <1>3 DEF ToSet
  <2>. QED BY <2>1, <2>2, <2>3
<1>7. ASSUME IsInjective(r) PROVE IsInjective(q) /\ e \notin ToSet(q)
  <2>0. \A i, j \in 1 .. n + 1 : r[i] = r[j] => i = j
    BY <1>1, <1>7 DEF IsInjective
  <2>1. ASSUME NEW i \in 1 .. n, NEW j \in 1 .. n, q[i] = q[j] PROVE i = j
    <3>1. PICK a \in 1 .. n + 1 : r[a] = q[i] /\ a = IF i < k THEN i ELSE i + 1 BY <1>4
    <3>2. PICK b \in 1 .. n + 1 : r[b] = q[j] /\ b = IF j < k THEN j ELSE j + 1 BY <1>4
    <3>3. a = b BY <2>0, <2>1, <3>1, <3>2
    <3>. QED BY <1>1, <3>1, <3>2, <3>3
  <2>2. ASSUME NEW i \in 1 .. n, q[i] = e PROVE FALSE
    <3>1. PICK a \in 1 .. n + 1 : a # k /\ r[a] = q[i] BY <1>4
    <3>. QED BY <1>1, <1>3, <2>0, <2>2, <3>1
  <2>3. IsInjective(q) BY <1>1, <2>1 DEF IsInjective
  <2>4. e \notin ToSet(q) BY <1>1, <2>2 DEF ToSet
  <2>. QED BY <2>3, <2>4
<1>8. ASSUME IsInjective(q), e \notin ToSet(q) PROVE IsInjective(r)
  <2>0. \A i, j \in 1 .. n : q[i] = q[j] => i = j
    BY <1>1, <1>8 DEF IsInjective
  <2>1. \A i \in 1 .. n : q[i] # e
    BY <1>1, <1>8 DEF ToSet
  <2>2. ASSUME NEW i \in 1 .. n + 1, NEW j \in 1 .. n + 1, r[i] = r[j] PROVE i = j
    <3>1. CASE i = k \/ j = k
      BY <1>3, <1>5, <2>1, <2>2, <3>1
    <3>2. CASE i # k /\ j # k
      <4>1. PICK a \in 1 .. n : r[i] = q[a] /\ a = IF i < k THEN i ELSE i - 1
        BY <1>5, <3>2
      <4>2. PICK b \in 1 .. n : r[j] = q[b] /\ b = IF j < k THEN j ELSE j - 1
        BY <1>5, <3>2
      <4>3. a = b BY <2>0, <2>2, <4>1, <4>2
      <4>. QED BY <1>1, <3>2, <4>1, <4>2, <4>3
    <3>. QED BY <3>1, <3>2
  <2>. QED BY <1>1, <2>2 DEF IsInjective
<1>. QED BY <1>6, <1>7, <1>8

\* What an element at the end adds (list_push_back), ...
LEMMA AppendedList ==
  ASSUME NEW S, NEW q \in Seq(S), NEW e \in S
  PROVE  /\ Append(q, e) \in Seq(S) /\ ToSet(Append(q, e)) = ToSet(q) \cup {e}
         /\ IsInjective(Append(q, e)) <=> IsInjective(q) /\ e \notin ToSet(q)
         /\ OneMore(q, Append(q, e), Len(q) + 1, e)
<1>1. Append(q, e) \in Seq(S)
  OBVIOUS
<1>2. OneMore(q, Append(q, e), Len(q) + 1, e)
  BY DEF OneMore
<1>. QED BY <1>1, <1>2, OneMoreElement

\* ... what is left without the first one (list_pop_front), ...
LEMMA TailOfList ==
  ASSUME NEW S, NEW q \in Seq(S), q # << >>
  PROVE  /\ Tail(q) \in Seq(S) /\ Head(q) \in ToSet(q) /\ Head(q) \in S
         /\ ToSet(q) = ToSet(Tail(q)) \cup {Head(q)}
         /\ IsInjective(q) <=> IsInjective(Tail(q)) /\ Head(q) \notin ToSet(Tail(q))
<1>1. Tail(q) \in Seq(S) /\ Head(q) \in S
  OBVIOUS
<1>2. OneMore(Tail(q), q, 1, Head(q))
  BY DEF OneMore
<1>3. /\ ToSet(q) = ToSet(Tail(q)) \cup {Head(q)}
      /\ IsInjective(q) <=> IsInjective(Tail(q)) /\ Head(q) \notin ToSet(Tail(q))
  BY <1>1, <1>2, OneMoreElement
<1>. QED BY <1>1, <1>3

\* The parts of a sequence before and after a place.
LEMMA PartOfList ==
  ASSUME NEW S, NEW q \in Seq(S), NEW a \in 1 .. Len(q) + 1, NEW b \in 0 .. Len(q), a <= b + 1
  PROVE  /\ SubSeq(q, a, b) \in Seq(S) /\ Len(SubSeq(q, a, b)) = b - a + 1
         /\ \A i \in 1 .. b - a + 1 : SubSeq(q, a, b)[i] = q[a + i - 1]
<1>1. \A i \in a .. b : q[i] \in S
  OBVIOUS
<1>. DEFINE x == SubSeq(q, a, b)
<1>2. /\ x \in Seq(S) /\ Len(x) = IF a <= b THEN b - a + 1 ELSE 0
      /\ \A i \in 1 .. b - a + 1 : x[i] = q[a + i - 1]
  BY <1>1, SubSeqProperties
<1>. HIDE DEF x
<1>3. Len(x) = b - a + 1
  BY <1>2
<1>. QED BY <1>2, <1>3 DEF x

\* ... without the one at place k (list_remove) ...
LEMMA RemovedAt ==
  ASSUME NEW S, NEW q \in Seq(S), NEW k \in DOMAIN q
  PROVE  /\ RemoveAt(q, k) \in Seq(S) /\ q[k] \in ToSet(q) /\ q[k] \in S
         /\ ToSet(q) = ToSet(RemoveAt(q, k)) \cup {q[k]}
         /\ IsInjective(q) <=>
              IsInjective(RemoveAt(q, k)) /\ q[k] \notin ToSet(RemoveAt(q, k))
<1>. DEFINE n == Len(q)
            x == SubSeq(q, 1, k - 1)
            y == SubSeq(q, k + 1, n)
            r == RemoveAt(q, k)
<1>0. n \in Nat /\ k \in 1 .. n /\ q[k] \in S /\ q[k] \in ToSet(q)
  BY DEF ToSet
<1>1. x \in Seq(S) /\ Len(x) = k - 1 /\ \A i \in 1 .. k - 1 : x[i] = q[i]
  <2>1. 1 \in 1 .. n + 1 /\ k - 1 \in 0 .. n /\ 1 <= (k - 1) + 1
    BY <1>0
  <2>2. /\ x \in Seq(S) /\ Len(x) = (k - 1) - 1 + 1
        /\ \A i \in 1 .. (k - 1) - 1 + 1 : x[i] = q[1 + i - 1]
    BY <2>1, PartOfList
  <2>. HIDE DEF x, n
  <2>3. (k - 1) - 1 + 1 = k - 1 /\ \A i \in 1 .. k - 1 : 1 + i - 1 = i
    BY <1>0
  <2>. QED BY <2>2, <2>3
<1>2. y \in Seq(S) /\ Len(y) = n - k /\ \A i \in 1 .. n - k : y[i] = q[k + i]
  <2>1. k + 1 \in 1 .. n + 1 /\ n \in 0 .. n /\ k + 1 <= n + 1
    BY <1>0
  <2>2. /\ y \in Seq(S) /\ Len(y) = n - (k + 1) + 1
        /\ \A i \in 1 .. n - (k + 1) + 1 : y[i] = q[(k + 1) + i - 1]
    BY <2>1, PartOfList
  <2>. HIDE DEF y, n
  <2>3. n - (k + 1) + 1 = n - k /\ \A i \in 1 .. n - k : (k + 1) + i - 1 = k + i
    BY <1>0
  <2>. QED BY <2>2, <2>3
<1>3. r = x \o y
  BY DEF RemoveAt
<1>. HIDE DEF n, x, y, r
<1>4. r \in Seq(S) /\ Len(r) = n - 1 /\ \A i \in 1 .. n - 1 :
        r[i] = IF i <= k - 1 THEN x[i] ELSE y[i - (k - 1)]
  <2>1. /\ x \o y \in Seq(S) /\ Len(x \o y) = Len(x) + Len(y)
        /\ \A i \in 1 .. Len(x) + Len(y) :
             (x \o y)[i] = IF i <= Len(x) THEN x[i] ELSE y[i - Len(x)]
    BY <1>1, <1>2, ConcatProperties
  <2>2. Len(x) + Len(y) = n - 1
    BY <1>0, <1>1, <1>2
  <2>. QED BY <1>1, <1>3, <2>1, <2>2
<1>5. ASSUME NEW i \in 1 .. n
      PROVE  q[i] = IF i < k THEN r[i] ELSE IF i = k THEN q[k] ELSE r[i - 1]
  <2>1. CASE i < k
    <3>1. i \in 1 .. n - 1 /\ i \in 1 .. k - 1 /\ i <= k - 1 BY <1>0, <2>1
    <3>2. r[i] = x[i] BY <1>4, <3>1
    <3>. QED BY <1>1, <2>1, <3>1, <3>2
  <2>2. CASE i = k
    BY <1>0, <2>2
  <2>3. CASE i > k
    <3>1. /\ i - 1 \in 1 .. n - 1 /\ ~ (i - 1 <= k - 1) /\ (i - 1) - (k - 1) = i - k
          /\ i - k \in 1 .. n - k /\ k + (i - k) = i
      BY <1>0, <2>3
    <3>2. r[i - 1] = y[i - k] BY <1>4, <3>1
    <3>3. y[i - k] = q[i] BY <1>2, <3>1
    <3>. QED BY <1>0, <2>3, <3>2, <3>3
  <2>. QED BY <1>0, <2>1, <2>2, <2>3
<1>6. Len(r) + 1 = n
  BY <1>0, <1>4
<1>7. OneMore(r, q, k, q[k])
  BY <1>0, <1>5, <1>6 DEF OneMore, n
<1>8. /\ ToSet(q) = ToSet(r) \cup {q[k]}
      /\ IsInjective(q) <=> IsInjective(r) /\ q[k] \notin ToSet(r)
  BY <1>4, <1>7, OneMoreElement
<1>. QED BY <1>0, <1>4, <1>8 DEF r

\* ... or without a given one that is there (remove_ready_thread), ...
LEMMA RemovedFirst ==
  ASSUME NEW S, NEW q \in Seq(S), NEW e, IsInjective(q)
  PROVE  /\ RemoveFirst(q, e) \in Seq(S) /\ IsInjective(RemoveFirst(q, e))
         /\ ToSet(RemoveFirst(q, e)) = ToSet(q) \ {e}
<1>. DEFINE n == Len(q)
            I == {i \in 1 .. n : q[i] = e}
<1>1. n \in Nat /\ DOMAIN q = 1 .. n /\ I \in SUBSET Nat
  OBVIOUS
<1>2. CASE I = {}
  <2>1. RemoveFirst(q, e) = q BY <1>2 DEF RemoveFirst
  <2>2. e \notin ToSet(q) BY <1>1, <1>2 DEF ToSet
  <2>. QED BY <2>1, <2>2
<1>3. CASE I # {}
  <2>1. PICK k \in 1 .. n : q[k] = e /\ k = Min(I)
    BY <1>1, <1>3, LeastElement
  <2>2. SelectInSeq(q, LAMBDA v : v = e) = k
    BY <1>3, <2>1 DEF SelectInSeq
  <2>3. RemoveFirst(q, e) = RemoveAt(q, k)
    BY <2>1, <2>2 DEF RemoveFirst
  <2>4. k \in DOMAIN q
    BY <1>1, <2>1
  <2>. HIDE DEF n, I
  <2>. QED BY <2>1, <2>3, <2>4, RemovedAt
<1>. QED BY <1>2, <1>3

\* ... and with one more in the middle (list_insert_ordered).
LEMMA InsertedAt ==
  ASSUME NEW S, NEW q \in Seq(S), NEW k \in 1 .. Len(q) + 1, NEW e \in S
  PROVE  InsertAt(q, k, e) \in Seq(S) /\ OneMore(q, InsertAt(q, k, e), k, e)
<1>. DEFINE n == Len(q)
            x == SubSeq(q, 1, k - 1)
            y == SubSeq(q, k, n)
            z == x \o <<e>>
            r == InsertAt(q, k, e)
<1>0. n \in Nat /\ k \in 1 .. n + 1 /\ k \in Int
  OBVIOUS
<1>1. x \in Seq(S) /\ Len(x) = k - 1 /\ \A i \in 1 .. k - 1 : x[i] = q[i]
  <2>1. 1 \in 1 .. n + 1 /\ k - 1 \in 0 .. n /\ 1 <= (k - 1) + 1
    BY <1>0
  <2>2. /\ x \in Seq(S) /\ Len(x) = (k - 1) - 1 + 1
        /\ \A i \in 1 .. (k - 1) - 1 + 1 : x[i] = q[1 + i - 1]
    BY <2>1, PartOfList
  <2>. HIDE DEF x, n
  <2>3. (k - 1) - 1 + 1 = k - 1 /\ \A i \in 1 .. k - 1 : 1 + i - 1 = i
    BY <1>0
  <2>. QED BY <2>2, <2>3
<1>2. y \in Seq(S) /\ Len(y) = n - k + 1 /\ \A i \in 1 .. n - k + 1 : y[i] = q[k + i - 1]
  <2>1. n \in 0 .. n /\ k <= n + 1
    BY <1>0
  <2>. QED BY <2>1, PartOfList
<1>3. z \in Seq(S) /\ Len(z) = k /\ \A i \in 1 .. k : z[i] = IF i < k THEN x[i] ELSE e
  <2>. HIDE DEF x, y, n
  <2>1. <<e>> \in Seq(S) /\ Len(<<e>>) = 1 /\ <<e>>[1] = e
    OBVIOUS
  <2>2. /\ z \in Seq(S) /\ Len(z) = Len(x) + 1
        /\ \A i \in 1 .. Len(x) + 1 : z[i] = IF i <= Len(x) THEN x[i] ELSE <<e>>[i - Len(x)]
    BY <1>1, <2>1, ConcatProperties
  <2>. HIDE DEF z
  <2>3. Len(z) = k
    BY <1>0, <1>1, <2>2
  <2>4. ASSUME NEW i \in 1 .. k PROVE z[i] = IF i < k THEN x[i] ELSE e
    <3>1. z[i] = IF i <= k - 1 THEN x[i] ELSE <<e>>[i - (k - 1)]
      BY <1>0, <1>1, <2>2
    <3>2. CASE i < k BY <1>0, <3>1, <3>2
    <3>3. CASE i = k
      <4>1. ~ (i <= k - 1) /\ i - (k - 1) = 1 BY <1>0, <3>3
      <4>. QED BY <2>1, <3>1, <3>3, <4>1
    <3>. QED BY <1>0, <3>2, <3>3
  <2>. QED BY <2>2, <2>3, <2>4
<1>4. r = z \o y
  BY DEF InsertAt
<1>. HIDE DEF n, x, y, z, r
<1>5. r \in Seq(S) /\ Len(r) = n + 1 /\ \A i \in 1 .. n + 1 :
        r[i] = IF i <= k THEN z[i] ELSE y[i - k]
  <2>1. /\ z \o y \in Seq(S) /\ Len(z \o y) = Len(z) + Len(y)
        /\ \A i \in 1 .. Len(z) + Len(y) :
             (z \o y)[i] = IF i <= Len(z) THEN z[i] ELSE y[i - Len(z)]
    BY <1>2, <1>3, ConcatProperties
  <2>2. Len(z) + Len(y) = n + 1
    BY <1>0, <1>2, <1>3
  <2>. QED BY <1>3, <1>4, <2>1, <2>2
<1>6. ASSUME NEW i \in 1 .. n + 1
      PROVE  r[i] = IF i < k THEN q[i] ELSE IF i = k THEN e ELSE q[i - 1]
  <2>1. CASE i <= k
    BY <1>0, <1>1, <1>3, <1>5, <2>1
  <2>2. CASE i > k
    <3>1. i - k \in 1 .. n - k + 1 /\ k + (i - k) - 1 = i - 1 /\ ~ (i <= k)
      BY <1>0, <2>2
    <3>2. r[i] = y[i - k] BY <1>5, <3>1
    <3>3. y[i - k] = q[i - 1] BY <1>2, <3>1
    <3>. QED BY <1>0, <2>2, <3>2, <3>3
  <2>. QED BY <1>0, <2>1, <2>2
<1>7. OneMore(q, r, k, e)
  BY <1>0, <1>5, <1>6 DEF OneMore, n
<1>. QED BY <1>5, <1>7 DEF r
-----------------------------------------------------------------------------
\* The types of TypeOK, group by group.

Statuses == {"none", "blocked", "ready", "running"}
SchedTypes ==
  /\ cur \in Threads \cup {Idle} /\ status \in [Threads -> Statuses]
  /\ ready \in [Priorities -> Seq(Threads)] /\ thread_ticks \in 0 .. TimeSlice - 1
PrioTypes == priority \in [Threads -> Priorities] /\ old_priority \in [Threads -> Priorities]
SemaTypes ==
  /\ value \in [Semaphores -> Nat] /\ \A l \in Locks : value[l] <= 1
  /\ waiters \in [Semaphores -> Seq(Threads)]
LockTypes ==
  /\ holder \in [Locks -> Threads \cup {NoThread}]
  /\ waiting_lock \in [Threads -> Locks \cup {NoLock}]
  /\ acquired \in [Threads -> SUBSET Locks]
TimeTypes == sleeping \in Seq(Threads) /\ ticks \in 0 .. MaxTicks /\ in_external_intr \in BOOLEAN
CodeTypes ==
  /\ pc \in [Threads -> IntrOn \cup IntrOff] /\ loc \in [Threads -> Loc] /\ don \in Frame
RestTypes ==
  /\ condition \in Seq(Threads) /\ calls \in [DOMAIN Calls -> Nat] /\ panic \in BOOLEAN
  /\ missed \subseteq Threads

LEMMA TypeGroups ==
  TypeOK <=> /\ SchedTypes /\ PrioTypes /\ SemaTypes /\ LockTypes /\ TimeTypes
             /\ CodeTypes /\ RestTypes
BY DEF TypeOK, SchedTypes, Statuses, PrioTypes, SemaTypes, LockTypes, TimeTypes, CodeTypes, RestTypes

-----------------------------------------------------------------------------
\* Scheduling: the ready lists before and after a switch.

\* After a switch away from a state of affairs st, in which no thread runs.
Switches(st) ==
  /\ SchedTypes' /\ Scheduled'
  /\ \A u \in Threads : /\ status'[u] = "blocked" <=> st[u] = "blocked"
                        /\ status'[u] = "none" <=> st[u] = "none"

\* The lists of ready threads and the state of every thread.
Lists == [Priorities -> Seq(Threads)]
States == [Threads -> Statuses]

\* schedule takes the first thread of the fullest list that counts, if any.
LEMMA Schedules ==
  ASSUME NEW rd \in Lists, NEW st \in States, Listed(rd, st, priority'),
         \A u \in Threads : st[u] # "running", schedule(rd, st)
  PROVE  Switches(st)
<1>. DEFINE full == {p \in Priorities : rd[p] # << >>}
            m == Max(full)
            next == Head(rd[m])
<1>0. PriMax \in Nat /\ TimeSlice \in Nat \ {0} /\ Idle \notin Threads
  BY ThreadsAssumption
<1>t. thread_ticks' \in 0 .. TimeSlice - 1
  BY <1>0 DEF schedule
<1>1. CASE full = {}
  <2>1. cur' = Idle /\ ready' = rd /\ status' = st
    BY <1>1 DEF schedule
  <2>. QED BY <1>0, <1>t, <2>1 DEF Switches, SchedTypes, Scheduled, Listed, Lists, States
<1>2. CASE full # {}
  <2>1. m \in full /\ m \in Priorities /\ rd[m] # << >>
    <3>1. full \in SUBSET Int /\ PriMax \in Int /\ \A x \in full : x <= PriMax
      BY <1>0 DEF Priorities
    <3>2. m \in full BY <1>2, <3>1, GreatestElement
    <3>. QED BY <3>2
  <2>2. /\ cur' = next /\ ready' = [rd EXCEPT ![m] = Tail(@)]
        /\ status' = [st EXCEPT ![next] = "running"]
    BY <1>2 DEF schedule
  <2>. HIDE DEF full, m
  <2>3. /\ rd[m] \in Seq(Threads) /\ IsInjective(rd[m])
        /\ \A u \in Threads : u \in ToSet(rd[m]) <=> st[u] = "ready" /\ priority'[u] = m
    BY <2>1 DEF Listed, Lists
  <2>4. /\ Tail(rd[m]) \in Seq(Threads) /\ next \in ToSet(rd[m]) /\ next \in Threads
        /\ IsInjective(Tail(rd[m])) /\ ToSet(Tail(rd[m])) = ToSet(rd[m]) \ {next}
    BY <2>1, <2>3, TailOfList
  <2>5. st[next] = "ready" /\ priority'[next] = m
    BY <2>3, <2>4
  <2>. HIDE DEF next
  <2>6. /\ \A p \in Priorities : ready'[p] = IF p = m THEN Tail(rd[m]) ELSE rd[p]
        /\ \A u \in Threads : status'[u] = IF u = next THEN "running" ELSE st[u]
    BY <2>2 DEF Lists, States
  <2>7. SchedTypes'
    BY <1>t, <2>1, <2>2, <2>4 DEF SchedTypes, Lists, States, Statuses
  <2>8. Listed(ready', status', priority')
    <3>. SUFFICES ASSUME NEW p \in Priorities
                  PROVE  /\ IsInjective(ready'[p])
                         /\ \A u \in Threads :
                              u \in ToSet(ready'[p]) <=> status'[u] = "ready" /\ priority'[u] = p
      BY DEF Listed
    <3>1. CASE p = m
      BY <2>3, <2>4, <2>6, <3>1
    <3>2. CASE p # m
      <4>1. /\ IsInjective(rd[p])
            /\ \A u \in Threads : u \in ToSet(rd[p]) <=> st[u] = "ready" /\ priority'[u] = p
        BY DEF Listed
      <4>. QED BY <2>5, <2>6, <3>2, <4>1
    <3>. QED BY <3>1, <3>2
  <2>9. \A u \in Threads : status'[u] = "running" <=> u = cur'
    BY <2>2, <2>4, <2>6
  <2>10. \A u \in Threads : /\ status'[u] = "blocked" <=> st[u] = "blocked"
                            /\ status'[u] = "none" <=> st[u] = "none"
    BY <2>5, <2>6
  <2>. QED BY <2>7, <2>8, <2>9, <2>10 DEF Switches, Scheduled
<1>. QED BY <1>1, <1>2

\* A thread that was not ready enters the list of its priority ...
LEMMA Unblocks ==
  ASSUME NEW rd \in Lists, NEW st \in States, NEW pr \in [Threads -> Priorities],
         Listed(rd, st, pr), NEW c \in Threads, st[c] # "ready"
  PROVE  /\ add_ready_thread(rd, c, pr[c]) \in Lists
         /\ [st EXCEPT ![c] = "ready"] \in States
         /\ Listed(add_ready_thread(rd, c, pr[c]), [st EXCEPT ![c] = "ready"], pr)
<1>. DEFINE p == pr[c]
            r == add_ready_thread(rd, c, p)
            s == [st EXCEPT ![c] = "ready"]
<1>1. p \in Priorities /\ rd[p] \in Seq(Threads) /\ IsInjective(rd[p]) /\ c \notin ToSet(rd[p])
  BY DEF Lists, Listed
<1>2. /\ Append(rd[p], c) \in Seq(Threads) /\ ToSet(Append(rd[p], c)) = ToSet(rd[p]) \cup {c}
      /\ IsInjective(Append(rd[p], c))
  BY <1>1, AppendedList
<1>3. r \in Lists /\ s \in States
  BY <1>1, <1>2 DEF add_ready_thread, Lists, States, Statuses
<1>4. /\ \A x \in Priorities : r[x] = IF x = p THEN Append(rd[p], c) ELSE rd[x]
      /\ \A u \in Threads : s[u] = IF u = c THEN "ready" ELSE st[u]
  BY DEF add_ready_thread, Lists, States
<1>5. \A x \in Priorities :
        /\ IsInjective(rd[x])
        /\ \A u \in Threads : u \in ToSet(rd[x]) <=> st[u] = "ready" /\ pr[u] = x
  BY DEF Listed
<1>. HIDE DEF r, s
<1>6. ASSUME NEW x \in Priorities
      PROVE  /\ IsInjective(r[x])
             /\ \A u \in Threads : u \in ToSet(r[x]) <=> s[u] = "ready" /\ pr[u] = x
  <2>1. CASE x = p BY <1>1, <1>2, <1>4, <1>5, <2>1
  <2>2. CASE x # p BY <1>4, <1>5, <2>2
  <2>. QED BY <2>1, <2>2
<1>7. Listed(r, s, pr)
  BY <1>6 DEF Listed
<1>. QED BY <1>3, <1>7 DEF r, s

\* ... and one that was not ready may get any other state.
LEMMA StatusOnly ==
  ASSUME NEW rd \in Lists, NEW st \in States, NEW pr \in [Threads -> Priorities],
         NEW pr2 \in [Threads -> Priorities],
         Listed(rd, st, pr), NEW c \in Threads, st[c] # "ready", NEW x \in Statuses \ {"ready"},
         \A u \in Threads : u # c => pr2[u] = pr[u]
  PROVE  [st EXCEPT ![c] = x] \in States /\ Listed(rd, [st EXCEPT ![c] = x], pr2)
<1>1. [st EXCEPT ![c] = x] \in States
  BY DEF States
<1>2. \A u \in Threads : [st EXCEPT ![c] = x][u] = IF u = c THEN x ELSE st[u]
  BY DEF States
<1>. DEFINE s == [st EXCEPT ![c] = x]
<1>. HIDE DEF s
<1>3. \A u \in Threads : s[u] = IF u = c THEN x ELSE st[u]
  BY <1>2 DEF s
<1>4. Listed(rd, s, pr2)
  BY <1>3 DEF Listed
<1>. QED BY <1>1, <1>4 DEF s

\* What the running thread does to the lists: nothing, ...
LEMMA StaysOn ==
  ASSUME TypeOK, Scheduled, UNCHANGED sched_vars, priority' = priority
  PROVE  Switches(status)
<1>1. SchedTypes' BY TypeGroups DEF SchedTypes, sched_vars
<1>2. Scheduled' BY DEF Scheduled, Listed, sched_vars
<1>. QED BY <1>1, <1>2 DEF Switches, sched_vars

\* ... it yields ...
LEMMA Yields ==
  ASSUME PrioTypes, priority' = priority, NEW rd \in Lists, NEW st \in States,
         Listed(rd, st, priority), NEW t \in Threads, \A u \in Threads : st[u] = "running" <=> u = t,
         thread_yield(t, rd, st)
  PROVE  Switches(st)
<1>. DEFINE r == add_ready_thread(rd, t, priority[t])
            s == [st EXCEPT ![t] = "ready"]
<1>1. r \in Lists /\ s \in States /\ Listed(r, s, priority)
  BY Unblocks DEF PrioTypes
<1>2. \A u \in Threads : s[u] = IF u = t THEN "ready" ELSE st[u]
  BY DEF States
<1>3. schedule(r, s)
  BY DEF thread_yield
<1>. HIDE DEF r, s
<1>4. Switches(s)
  BY <1>1, <1>2, <1>3, Schedules
<1>. QED BY <1>2, <1>4 DEF Switches

\* ... or blocks.
LEMMA Blocks ==
  ASSUME TypeOK, Scheduled, priority' = priority, NEW t \in Threads, cur = t, thread_block(t)
  PROVE  Switches([status EXCEPT ![t] = "blocked"])
<1>. DEFINE s == [status EXCEPT ![t] = "blocked"]
<1>0. /\ ready \in Lists /\ status \in States /\ priority \in [Threads -> Priorities]
      /\ Listed(ready, status, priority) /\ status[t] = "running"
  BY TypeGroups DEF SchedTypes, PrioTypes, Lists, States, Scheduled
<1>1. s \in States /\ Listed(ready, s, priority)
  <2>1. "blocked" \in Statuses \ {"ready"} BY DEF Statuses
  <2>. QED BY <1>0, <2>1, StatusOnly
<1>2. \A u \in Threads : s[u] # "running"
  BY <1>0 DEF States, Scheduled
<1>3. schedule(ready, s)
  BY DEF thread_block
<1>. HIDE DEF s
<1>4. Switches(s)
  BY <1>0, <1>1, <1>2, <1>3, Schedules
<1>. QED BY <1>4 DEF s

\* The timer interrupt ends: the idle thread blocks, another may have to yield.
LEMMA Returns ==
  ASSUME TypeOK, priority' = priority, NEW rd \in Lists, NEW st \in States,
         Listed(rd, st, priority), \A u \in Threads : st[u] = "running" <=> u = cur,
         intr_return(rd, st)
  PROVE  Switches(st)
<1>0. PrioTypes /\ SchedTypes /\ Idle \notin Threads /\ TimeSlice \in Nat \ {0}
  BY TypeGroups, ThreadsAssumption
<1>1. CASE cur = Idle
  <2>1. schedule(rd, st) /\ \A u \in Threads : st[u] # "running"
    BY <1>0, <1>1 DEF intr_return, idle
  <2>. QED BY <2>1, Schedules
<1>2. CASE cur # Idle /\ thread_ticks + 1 >= TimeSlice
  <2>1. thread_yield(cur, rd, st) /\ cur \in Threads
    BY <1>0, <1>2 DEF intr_return, SchedTypes
  <2>. QED BY <1>0, <2>1, Yields
<1>3. CASE cur # Idle /\ ~ (thread_ticks + 1 >= TimeSlice)
  <2>1. thread_ticks' = thread_ticks + 1 /\ ready' = rd /\ status' = st /\ cur' = cur
    BY <1>3 DEF intr_return
  <2>2. thread_ticks' \in 0 .. TimeSlice - 1
    BY <1>0, <1>3, <2>1 DEF SchedTypes
  <2>3. SchedTypes'
    BY <1>0, <2>1, <2>2 DEF SchedTypes, Lists, States
  <2>. QED BY <2>1, <2>3 DEF Switches, Scheduled
<1>. QED BY <1>1, <1>2, <1>3
-----------------------------------------------------------------------------
\* Priorities.

\* list_max finds a thread in every list that is not empty: one of the highest
\* priority there, and the first of those.
LEMMA ListMax ==
  ASSUME PrioTypes, NEW q \in Seq(Threads), q # << >>
  PROVE  list_max(q) \in DOMAIN q /\ q[list_max(q)] \in Threads
<1>. DEFINE P(i) == priority[q[i]]
            S == {P(i) : i \in DOMAIN q}
            m == Max(S)
            I == {i \in DOMAIN q : P(i) = m}
            k == Min(I)
<1>1. DOMAIN q = 1 .. Len(q) /\ Len(q) \in Nat \ {0} /\ PriMax \in Nat
  BY ThreadsAssumption
<1>2. \A i \in DOMAIN q : q[i] \in Threads /\ P(i) \in Priorities
  BY DEF PrioTypes
<1>3. m \in S /\ \A x \in S : x <= m
  <2>1. \A i \in DOMAIN q : P(i) \in Int /\ P(i) <= PriMax
    BY <1>1, <1>2 DEF Priorities
  <2>2. 1 \in DOMAIN q /\ PriMax \in Int
    BY <1>1
  <2>. HIDE DEF P
  <2>3. S \in SUBSET Int /\ S # {} /\ \A x \in S : x <= PriMax
    BY <2>1, <2>2
  <2>. HIDE DEF S
  <2>. QED BY <2>2, <2>3, GreatestElement
<1>4. k \in I /\ \A i \in I : k <= i
  <2>. HIDE DEF P, m
  <2>1. I # {}
    BY <1>3
  <2>2. I \in SUBSET Nat
    BY <1>1
  <2>. HIDE DEF I
  <2>. QED BY <2>1, <2>2, LeastElement
<1>5. First(q, DOMAIN q, k)
  <2>1. k \in DOMAIN q /\ P(k) = m
    BY <1>4
  <2>2. ASSUME NEW j \in DOMAIN q
        PROVE  P(j) < P(k) \/ (P(j) = P(k) /\ k <= j)
    <3>1. P(j) <= m /\ (P(j) = m => k <= j)
      BY <1>3, <1>4
    <3>2. P(j) \in Int /\ m \in Int
      BY <1>1, <1>2, <2>1 DEF Priorities
    <3>. QED BY <2>1, <3>1, <3>2
  <2>. QED BY <2>2 DEF First
<1>6. \E i \in DOMAIN q : First(q, DOMAIN q, i)
  BY <1>4, <1>5
<1>7. list_max(q) \in DOMAIN q
  BY <1>6 DEF list_max
<1>. QED BY <1>2, <1>7

\* What propagate_priorities gives is a priority, and the highest of those it is
\* taken from.
LEMMA Donation ==
  ASSUME TypeOK, NEW u \in Threads,
         NEW p, p = Max({don.priority, old_priority[u]} \cup {priority[w] : w \in Donors(u)})
  PROVE  /\ p \in Priorities /\ Donors(u) \subseteq Threads
         /\ p = don.priority \/ p = old_priority[u] \/ \E w \in Donors(u) : p = priority[w]
         /\ don.priority <= p /\ old_priority[u] <= p /\ \A w \in Donors(u) : priority[w] <= p
<1>. DEFINE D == {priority[w] : w \in Donors(u)}
            S == {don.priority, old_priority[u]} \cup D
<1>1. PriMax \in Nat /\ old_priority[u] \in Priorities /\ don.priority \in Priorities \cup {-1}
  BY ThreadsAssumption, TypeGroups DEF PrioTypes, CodeTypes, Frame
<1>2. Donors(u) \subseteq Threads
  <2>1. ASSUME NEW l \in acquired[u] PROVE ToSet(waiters[l]) \subseteq Threads
    <3>1. l \in Semaphores BY TypeGroups DEF LockTypes, Semaphores
    <3>2. waiters[l] \in Seq(Threads) BY <3>1, TypeGroups DEF SemaTypes
    <3>. QED BY <3>2 DEF ToSet
  <2>. QED BY <2>1 DEF Donors
<1>3. D \subseteq Priorities
  BY <1>2, TypeGroups DEF PrioTypes
<1>. HIDE DEF D
<1>4. S \in SUBSET Int /\ S # {} /\ PriMax \in Int /\ \A x \in S : x <= PriMax
  <2>1. \A x \in Priorities : x \in Int /\ x <= PriMax
    BY <1>1 DEF Priorities
  <2>2. \A x \in D : x \in Int /\ x <= PriMax
    BY <1>3, <2>1
  <2>3. \A x \in {don.priority, old_priority[u]} : x \in Int /\ x <= PriMax
    BY <1>1, <2>1
  <2>. QED BY <1>1, <2>2, <2>3
<1>. HIDE DEF S
<1>5. Max(S) \in S /\ \A x \in S : x <= Max(S)
  BY <1>4, GreatestElement
<1>6. Max(S) \in Int /\ Max(S) <= PriMax /\ old_priority[u] <= Max(S)
  BY <1>4, <1>5 DEF S
<1>7. Max(S) \in Priorities
  BY <1>1, <1>6 DEF Priorities
<1>8. p = Max(S)
  BY DEF S, D
<1>9. p \in S /\ \A x \in S : x <= p
  BY <1>5, <1>8
<1>. QED BY <1>2, <1>7, <1>8, <1>9 DEF S, D

\* A ready thread moves to the list of its new priority.
LEMMA Reprioritizes ==
  ASSUME TypeOK, Scheduled, NEW u \in Threads, NEW p \in Priorities,
         priority' = [priority EXCEPT ![u] = p],
         ready' = IF status[u] = "ready"
                  THEN add_ready_thread(remove_ready_thread(ready, u), u, p)
                  ELSE ready,
         UNCHANGED <<cur, status, thread_ticks>>
  PROVE  SchedTypes' /\ Scheduled'
<1>0. /\ ready \in Lists /\ status \in States /\ priority \in [Threads -> Priorities]
      /\ priority' \in [Threads -> Priorities]
      /\ \A v \in Threads : priority'[v] = IF v = u THEN p ELSE priority[v]
  BY TypeGroups DEF SchedTypes, PrioTypes, Lists, States
<1>1. \A x \in Priorities :
        /\ ready[x] \in Seq(Threads) /\ IsInjective(ready[x])
        /\ \A v \in Threads : v \in ToSet(ready[x]) <=> status[v] = "ready" /\ priority[v] = x
  BY <1>0 DEF Scheduled, Listed, Lists
<1>2. CASE status[u] # "ready"
  <2>1. ready' = ready BY <1>2
  <2>2. Listed(ready', status', priority')
    BY <1>0, <1>1, <1>2, <2>1 DEF Listed
  <2>3. SchedTypes' BY <2>1, TypeGroups DEF SchedTypes
  <2>. QED BY <2>2, <2>3 DEF Scheduled
<1>3. CASE status[u] = "ready"
  <2>. DEFINE r == remove_ready_thread(ready, u)
              st == [status EXCEPT ![u] = "blocked"]
  <2>1. \A x \in Priorities : r[x] = RemoveFirst(ready[x], u)
    BY DEF remove_ready_thread
  <2>2. \A x \in Priorities : /\ r[x] \in Seq(Threads) /\ IsInjective(r[x])
                              /\ ToSet(r[x]) = ToSet(ready[x]) \ {u}
    BY <1>1, <2>1, RemovedFirst
  <2>3. r \in Lists
    BY <2>2 DEF Lists, remove_ready_thread
  <2>4. st \in States /\ \A v \in Threads : st[v] = IF v = u THEN "blocked" ELSE status[v]
    BY <1>0 DEF States, Statuses
  <2>. HIDE DEF r, st
  <2>5. Listed(r, st, priority')
    <3>1. ASSUME NEW x \in Priorities, NEW v \in Threads
          PROVE  v \in ToSet(r[x]) <=> st[v] = "ready" /\ priority'[v] = x
      <4>1. v \in ToSet(r[x]) <=> v # u /\ status[v] = "ready" /\ priority[v] = x
        <5>1. v \in ToSet(ready[x]) <=> status[v] = "ready" /\ priority[v] = x BY <1>1
        <5>2. ToSet(r[x]) = ToSet(ready[x]) \ {u} BY <2>2
        <5>. QED BY <5>1, <5>2
      <4>2. /\ st[v] = IF v = u THEN "blocked" ELSE status[v]
            /\ priority'[v] = IF v = u THEN p ELSE priority[v]
        BY <1>0, <2>4
      <4>. QED BY <4>1, <4>2
    <3>. QED BY <2>2, <3>1 DEF Listed
  <2>6. priority'[u] = p /\ st[u] # "ready"
    BY <1>0, <2>4
  <2>7. /\ add_ready_thread(r, u, priority'[u]) \in Lists
        /\ Listed(add_ready_thread(r, u, priority'[u]), [st EXCEPT ![u] = "ready"], priority')
    BY <1>0, <2>3, <2>4, <2>5, <2>6, Unblocks
  <2>8. [st EXCEPT ![u] = "ready"] = status
    <3>1. status = [v \in Threads |-> status[v]]
      BY <1>0 DEF States
    <3>2. [st EXCEPT ![u] = "ready"] = [v \in Threads |-> status[v]]
      BY <1>3, <2>4 DEF States
    <3>. QED BY <3>1, <3>2
  <2>9. ready' = add_ready_thread(r, u, priority'[u])
    BY <1>3, <2>6 DEF r
  <2>10. SchedTypes'
    BY <2>7, <2>9, TypeGroups DEF SchedTypes, Lists
  <2>. QED BY <2>7, <2>8, <2>9, <2>10 DEF Scheduled
<1>. QED BY <1>2, <1>3

-----------------------------------------------------------------------------
\* sema_up: what it does to the lists.

\* The thread w at place k of the list of semaphore s is ready.
Wakes(s, k, w) ==
  /\ k \in DOMAIN waiters[s] /\ w = waiters[s][k]
  /\ waiters' = [waiters EXCEPT ![s] = RemoveAt(@, k)]
  /\ status' = [status EXCEPT ![w] = "ready"] /\ cur' = cur

LEMMA SemaUp ==
  ASSUME IInv, NEW s \in Semaphores, sema_up(s), priority' = priority
  PROVE  \/ waiters' = waiters /\ waiters[s] = << >> /\ UNCHANGED sched_vars /\ Switches(status)
         \/ \E k \in DOMAIN waiters[s], w \in Threads :
              Wakes(s, k, w) /\ Switches([status EXCEPT ![w] = "ready"])
<1>0. TypeOK /\ Scheduled /\ Waits /\ PrioTypes /\ waiters[s] \in Seq(Threads)
  BY TypeGroups DEF IInv, SemaTypes
<1>1. CASE waiters[s] = << >>
  <2>1. waiters' = waiters /\ UNCHANGED sched_vars BY <1>1 DEF sema_up
  <2>. QED BY <1>0, <1>1, <2>1, StaysOn
<1>2. CASE waiters[s] # << >>
  <2>. DEFINE k == list_max(waiters[s])
              w == waiters[s][k]
  <2>1. k \in DOMAIN waiters[s] /\ w \in Threads
    BY <1>0, <1>2, ListMax
  <2>2. /\ waiters' = [waiters EXCEPT ![s] = RemoveAt(@, k)]
        /\ status' = [status EXCEPT ![w] = "ready"]
        /\ ready' = add_ready_thread(ready, w, priority[w]) /\ UNCHANGED <<cur, thread_ticks>>
    BY <1>2 DEF sema_up
  <2>3. w \in ToSet(waiters[s]) BY <2>1 DEF ToSet
  <2>. HIDE DEF k, w
  <2>4. status[w] = "blocked" BY <1>0, <2>1, <2>3 DEF Waits
  <2>5. Wakes(s, k, w) BY <2>1, <2>2 DEF Wakes, w
  <2>6. /\ ready' \in Lists /\ status' \in States /\ Listed(ready', status', priority')
    <3>1. /\ ready \in Lists /\ status \in States /\ priority \in [Threads -> Priorities]
          /\ Listed(ready, status, priority)
      BY <1>0, TypeGroups DEF SchedTypes, PrioTypes, Lists, States, Scheduled
    <3>2. status[w] # "ready" BY <2>4
    <3>. QED BY <2>1, <2>2, <3>1, <3>2, Unblocks
  <2>7. \A u \in Threads : status'[u] = "running" <=> u = cur'
    BY <1>0, <2>1, <2>2, <2>4, TypeGroups DEF Scheduled, SchedTypes
  <2>8. SchedTypes'
    BY <1>0, <2>2, <2>6, TypeGroups DEF SchedTypes, Lists, States
  <2>9. Switches([status EXCEPT ![w] = "ready"])
    BY <2>2, <2>6, <2>7, <2>8 DEF Switches, Scheduled
  <2>. QED BY <2>1, <2>5, <2>9
<1>. QED BY <1>1, <1>2
-----------------------------------------------------------------------------
\* Steps of the running thread: what stays true of everybody else.

\* Only thread t moves.
OnlyMoves(t) ==
  \A u \in Threads \ {t} :
    pc'[u] = pc[u] /\ loc'[u] = loc[u] /\ waiting_lock'[u] = waiting_lock[u]

\* Nobody but the running thread is in propagate_priorities.
LEMMA DonatesAlone ==
  ASSUME IInv, NEW t \in Threads, cur = t
  PROVE  /\ \A u \in Threads \ {t} : pc[u] # "donate"
         /\ pc[t] # "donate" => don = NoFrame
         /\ pc[t] = "donate" => don # NoFrame /\ don.then # "none"
BY DEF IInv, Places, Place

LEMMA RunningStatus ==
  ASSUME IInv, NEW t \in Threads, cur = t
  PROVE  status[t] = "running" /\ t \notin ToSet(sleeping) /\ ~ Child(t)
BY DEF IInv, Scheduled, Waits

\* The place of the others is as it was.
LEMMA OthersPlace ==
  ASSUME IInv, NEW t \in Threads, cur = t, OnlyMoves(t),
         NEW u \in Threads \ {t},
         holder[TidLock] = u => holder'[TidLock] = u,
         status'[u] = "none" => status[u] = "none"
  PROVE  Place(u)'
<1>1. Place(u) /\ pc[u] # "donate"
  BY DonatesAlone DEF IInv, Places
<1>2. pc'[u] = pc[u] /\ loc'[u] = loc[u] /\ waiting_lock'[u] = waiting_lock[u]
  BY DEF OnlyMoves
<1>. QED BY <1>1, <1>2 DEF Place, Creates

\* So are the lists a thread may wait in.
LEMMA WaitsKept ==
  ASSUME IInv, NEW t \in Threads, status[t] # "blocked", OnlyMoves(t),
         loc'[t].child = loc[t].child, sleeping' = sleeping, waiters' = waiters,
         \A u \in Threads : status'[u] = "blocked" <=> status[u] = "blocked"
  PROVE  Waits'
<1>0. Waits BY DEF IInv
<1>1. IsInjective(sleeping') /\ \A s \in Semaphores : IsInjective(waiters'[s])
  BY <1>0 DEF Waits
<1>2. \A u \in Threads : loc'[u].child = loc[u].child
  BY DEF OnlyMoves
<1>3. \A u \in Threads : Queued(u)' <=> Queued(u)
  BY DEF Queued
<1>4. \A u \in Threads : Child(u)' <=> Child(u)
  BY <1>2 DEF Child
<1>5. ASSUME NEW u \in Threads
      PROVE  /\ u \in ToSet(sleeping') => status'[u] = "blocked" /\ pc'[u] = "run"
             /\ \A s \in Semaphores : u \in ToSet(waiters'[s]) =>
                  status'[u] = "blocked" /\ pc'[u] = "down" /\ loc'[u].sema = s
             /\ Child(u)' => status'[u] = "blocked" /\ pc'[u] = "run" /\ u \notin ToSet(sleeping')
             /\ status'[u] = "blocked" => u \in ToSet(sleeping') \/ Queued(u)' \/ Child(u)'
             /\ \A v \in Threads :
                  loc'[u].child = loc'[v].child /\ loc'[u].child # NoThread => u = v
  <2>1. /\ u \in ToSet(sleeping) => status[u] = "blocked" /\ pc[u] = "run"
        /\ \A s \in Semaphores : u \in ToSet(waiters[s]) =>
             status[u] = "blocked" /\ pc[u] = "down" /\ loc[u].sema = s
        /\ Child(u) => status[u] = "blocked" /\ pc[u] = "run" /\ u \notin ToSet(sleeping)
        /\ status[u] = "blocked" => u \in ToSet(sleeping) \/ Queued(u) \/ Child(u)
        /\ \A v \in Threads : loc[u].child = loc[v].child /\ loc[u].child # NoThread => u = v
    BY <1>0 DEF Waits
  <2>2. u # t => pc'[u] = pc[u] /\ loc'[u] = loc[u]
    BY DEF OnlyMoves
  <2>. QED BY <1>2, <1>3, <1>4, <2>1, <2>2
<1>. QED BY <1>1, <1>5 DEF Waits

\* A step of thread t that changes no list but the ready lists.
LEMMA ThreadMoves ==
  ASSUME IInv, NEW t \in Threads, cur = t, OnlyMoves(t),
         NEW st, Switches(st), \A u \in Threads \ {t} : st[u] = status[u], st[t] # "blocked",
         sleeping' = sleeping, waiters' = waiters, in_external_intr' = FALSE,
         TypeOK', loc'[t].child = loc[t].child,
         \A u \in Threads \ {t} : holder[TidLock] = u => holder'[TidLock] = u,
         Place(t)', \A l \in Locks : Owned(l)',
         don' # NoFrame => cur' = t /\ pc'[t] = "donate" /\ don'.then # "none"
  PROVE  IInv'
<1>1. status[t] # "blocked"
  BY RunningStatus
<1>2. \A u \in Threads : status'[u] = "blocked" <=> status[u] = "blocked"
  BY <1>1 DEF Switches
<1>3. \A u \in Threads \ {t} : status'[u] = "none" => status[u] = "none"
  BY DEF Switches
<1>4. Waits'
  BY <1>1, <1>2, WaitsKept
<1>5. \A u \in Threads \ {t} : Place(u)'
  BY <1>3, OthersPlace
<1>6. \A u \in Threads : Place(u)'
  BY <1>5
<1>7. Places'
  BY <1>6 DEF Places
<1>. QED BY <1>4, <1>7 DEF IInv, Switches

-----------------------------------------------------------------------------
\* Who owns a lock.

LEMMA OwnedStays ==
  ASSUME NEW l, Owned(l), value'[l] = value[l], holder'[l] = holder[l],
         \A u \in Threads : l \in acquired'[u] => l \in acquired[u],
         \A u \in Threads : Takes(u, l)' => Takes(u, l),
         GivesUp(l)' => GivesUp(l)
  PROVE  Owned(l)'
BY DEF Owned

\* Thread t neither takes nor gives up a lock.
LEMMA NothingTaken ==
  ASSUME IInv, NEW t \in Threads, cur = t, OnlyMoves(t),
         UNCHANGED <<holder, acquired>>, \A l \in Locks : value'[l] = value[l],
         pc'[t] # "tried", don'.then # "up", ~ (pc'[t] = "donate" /\ don'.then = "own")
  PROVE  \A l \in Locks : Owned(l)'
<1>. SUFFICES ASSUME NEW l \in Locks PROVE Owned(l)'
  OBVIOUS
<1>0. Owned(l)
  BY DEF IInv
<1>1. ASSUME NEW u \in Threads, Takes(u, l)' PROVE Takes(u, l)
  <2>1. u # t
    BY <1>1 DEF Takes
  <2>2. pc'[u] = pc[u] /\ loc'[u] = loc[u] /\ pc[u] # "donate"
    BY <2>1, DonatesAlone DEF OnlyMoves
  <2>. QED BY <1>1, <2>2 DEF Takes
<1>2. ~ GivesUp(l)'
  BY DEF GivesUp
<1>. QED BY <1>0, <1>1, <1>2, OwnedStays

\* A lock that a step of thread t is not about.
LEMMA OtherLock ==
  ASSUME IInv, NEW t \in Threads, cur = t, OnlyMoves(t), NEW l \in Locks,
         value'[l] = value[l], holder'[l] = holder[l],
         \A u \in Threads : l \in acquired'[u] => l \in acquired[u],
         ~ Takes(t, l)', ~ GivesUp(l)'
  PROVE  Owned(l)'
<1>0. Owned(l)
  BY DEF IInv
<1>1. ASSUME NEW u \in Threads, Takes(u, l)' PROVE Takes(u, l)
  <2>1. u # t
    BY <1>1
  <2>2. pc'[u] = pc[u] /\ loc'[u] = loc[u] /\ pc[u] # "donate"
    BY <2>1, DonatesAlone DEF OnlyMoves
  <2>. QED BY <1>1, <2>2 DEF Takes
<1>. QED BY <1>0, <1>1, OwnedStays

\* Only thread t may have taken, or take, the lock l now.
LEMMA OthersTakeNot ==
  ASSUME IInv, NEW t \in Threads, cur = t, OnlyMoves(t), NEW l \in Locks,
         value[l] # 0 \/ holder[l] # NoThread \/ GivesUp(l) \/ Takes(t, l)
  PROVE  \A u \in Threads \ {t} : ~ Takes(u, l) /\ ~ Takes(u, l)'
<1>1. \A u \in Threads \ {t} : ~ Takes(u, l)
  BY DEF IInv, Owned
<1>2. ASSUME NEW u \in Threads \ {t}, Takes(u, l)' PROVE Takes(u, l)
  <2>1. pc'[u] = pc[u] /\ loc'[u] = loc[u] /\ pc[u] # "donate"
    BY DonatesAlone DEF OnlyMoves
  <2>. QED BY <1>2, <2>1 DEF Takes
<1>. QED BY <1>1, <1>2

-----------------------------------------------------------------------------
\* Types of locals.

LEMMA LocTyped ==
  ASSUME CodeTypes, NEW t \in Threads, NEW r \in Loc, loc' = [loc EXCEPT ![t] = r]
  PROVE  /\ loc' \in [Threads -> Loc] /\ loc'[t] = r
         /\ \A u \in Threads \ {t} : loc'[u] = loc[u]
BY DEF CodeTypes

LEMMA NoLocTyped == NoLoc \in Loc
<1>1. NoWake \in {n \in Int : n <= MaxTicks} \cup {NoWake}
  OBVIOUS
<1>. QED BY <1>1 DEF NoLoc, Loc

LEMMA GotoTyped ==
  ASSUME CodeTypes, NEW t \in Threads, NEW l \in IntrOn \cup IntrOff, Goto(t, l)
  PROVE  /\ pc' \in [Threads -> IntrOn \cup IntrOff] /\ pc'[t] = l
         /\ \A u \in Threads \ {t} : pc'[u] = pc[u]
BY DEF CodeTypes, Goto

\* A call of propagate_priorities begins ...
LEMMA DonateTyped ==
  ASSUME CodeTypes, NEW t \in Threads, NEW to \in Threads \cup {NoThread},
         NEW p \in Priorities \cup {-1}, NEW then \in {"set", "yield", "own", "up"},
         NEW l \in Locks \cup {NoLock}, NEW before \in Priorities,
         Donate(t, to, p, then, l, before)
  PROVE  /\ don' \in Frame /\ don' # NoFrame /\ don'.then = then /\ don'.lock = l
         /\ pc' \in [Threads -> IntrOn \cup IntrOff] /\ pc'[t] = "donate"
         /\ \A u \in Threads \ {t} : pc'[u] = pc[u]
<1>1. don' = [t |-> to, priority |-> p, then |-> then, lock |-> l, before |-> before]
  BY DEF Donate
<1>2. don' \in Frame /\ don'.then = then /\ don'.lock = l
  BY <1>1 DEF Frame
<1>3. don' # NoFrame
  <2>1. NoFrame.then = "none" BY DEF NoFrame
  <2>. QED BY <1>2, <2>1
<1>4. Goto(t, "donate") /\ "donate" \in IntrOn \cup IntrOff
  BY DEF Donate, IntrOff
<1>. QED BY <1>2, <1>3, <1>4, GotoTyped

\* ... and ends.
LEMMA FrameEnds == NoFrame \in Frame /\ NoFrame.then = "none"
<1>1. 0 \in Priorities
  BY ThreadsAssumption DEF Priorities
<1>. QED BY <1>1 DEF NoFrame, Frame
-----------------------------------------------------------------------------
\* The steps, one by one.

LEMMA TypesNext ==
  ASSUME SchedTypes', PrioTypes', SemaTypes', LockTypes', TimeTypes', CodeTypes', RestTypes'
  PROVE  TypeOK'
BY DEF TypeOK, SchedTypes, Statuses, PrioTypes, SemaTypes, LockTypes, TimeTypes, CodeTypes, RestTypes

\* What a step leaves alone keeps its type.
LEMMA SameTypes ==
  ASSUME TypeOK
  PROVE  /\ UNCHANGED prio_vars => PrioTypes'
         /\ UNCHANGED sema_vars => SemaTypes'
         /\ UNCHANGED lock_vars => LockTypes'
         /\ UNCHANGED time_vars => TimeTypes'
         /\ UNCHANGED <<pc, loc, don>> => CodeTypes'
         /\ UNCHANGED <<condition, calls, panic, missed>> => RestTypes'
BY TypeGroups DEF prio_vars, sema_vars, lock_vars, time_vars, PrioTypes, SemaTypes,
   LockTypes, TimeTypes, CodeTypes, RestTypes

\* One call less is left.
LEMMA CallTyped ==
  ASSUME TypeOK, NEW t \in Threads, NEW c, Call(t, c)
  PROVE  calls' \in [DOMAIN Calls -> Nat]
<1>1. calls \in [DOMAIN Calls -> Nat] /\ c \in DOMAIN Calls /\ calls[c] > 0
  BY TypeGroups DEF RestTypes, Call
<1>2. calls[c] \in Nat /\ calls[c] - 1 \in Nat
  BY <1>1
<1>3. calls' = [calls EXCEPT ![c] = calls[c] - 1]
  BY DEF Call
<1>. QED BY <1>1, <1>2, <1>3

\* Where the running thread is.
LEMMA Runs ==
  ASSUME IInv, NEW t \in Threads, NEW l, At(t, l)
  PROVE  /\ cur = t /\ pc[t] = l /\ in_external_intr = FALSE /\ panic = FALSE
         /\ status[t] = "running" /\ Place(t) /\ TypeOK /\ Scheduled
         /\ PrioTypes /\ LockTypes /\ CodeTypes /\ RestTypes /\ SchedTypes /\ TimeTypes
         /\ SemaTypes
<1>1. TimeTypes /\ RestTypes
  BY TypeGroups DEF IInv
<1>. QED BY <1>1, RunningStatus, TypeGroups DEF IInv, Places, At, TimeTypes, RestTypes

\* ... outside of propagate_priorities, ...
LEMMA RunsOn ==
  ASSUME IInv, NEW t \in Threads, NEW l, At(t, l), l # "donate"
  PROVE  /\ cur = t /\ pc[t] = l /\ in_external_intr = FALSE /\ panic = FALSE
         /\ status[t] = "running" /\ Place(t) /\ TypeOK /\ Scheduled
         /\ PrioTypes /\ LockTypes /\ CodeTypes /\ RestTypes /\ SchedTypes /\ TimeTypes
         /\ SemaTypes /\ don = NoFrame
BY Runs, DonatesAlone

\* ... and where it begins a call.
LEMMA Begins ==
  ASSUME IInv, NEW t \in Threads, NEW c, Call(t, c)
  PROVE  /\ cur = t /\ pc[t] = "run" /\ in_external_intr = FALSE /\ panic = FALSE
         /\ status[t] = "running" /\ Place(t) /\ TypeOK /\ Scheduled
         /\ PrioTypes /\ LockTypes /\ CodeTypes /\ RestTypes /\ SchedTypes /\ TimeTypes
         /\ SemaTypes /\ don = NoFrame /\ calls' \in [DOMAIN Calls -> Nat]
         /\ loc[t].ret = "run" /\ loc[t].child = NoThread
<1>1. At(t, "run")
  BY DEF Call
<1>2. /\ cur = t /\ pc[t] = "run" /\ in_external_intr = FALSE /\ panic = FALSE
      /\ status[t] = "running" /\ Place(t) /\ TypeOK /\ Scheduled
      /\ PrioTypes /\ LockTypes /\ CodeTypes /\ RestTypes /\ SchedTypes /\ TimeTypes
      /\ SemaTypes /\ don = NoFrame
  BY <1>1, RunsOn
<1>3. calls' \in [DOMAIN Calls -> Nat]
  BY <1>2, CallTyped
<1>4. loc[t].ret = "run" /\ loc[t].child = NoThread
  BY <1>2 DEF Place, Creates, CreatePCs
<1>. QED BY <1>2, <1>3, <1>4

\* A step that changes neither the lists nor the priorities, and one that
\* yields.
LEMMA SwitchesNot ==
  ASSUME IInv, UNCHANGED sched_vars, UNCHANGED prio_vars
  PROVE  Switches(status)
BY StaysOn DEF IInv, prio_vars

LEMMA SwitchesAway ==
  ASSUME IInv, NEW t \in Threads, cur = t, UNCHANGED prio_vars, thread_yield(t, ready, status)
  PROVE  Switches(status)
<1>1. /\ ready \in Lists /\ status \in States /\ PrioTypes /\ priority' = priority
      /\ Listed(ready, status, priority) /\ \A u \in Threads : status[u] = "running" <=> u = t
  BY TypeGroups DEF IInv, Scheduled, SchedTypes, Lists, States, prio_vars
<1>. QED BY <1>1, Yields

\* Quiet steps: thread t moves, and neither takes nor gives up a lock.
LEMMA QuietMove ==
  ASSUME IInv, NEW t \in Threads, cur = t, in_external_intr = FALSE, OnlyMoves(t),
         Switches(status), UNCHANGED time_vars, waiters' = waiters,
         TypeOK', loc'[t].child = loc[t].child, Place(t)',
         UNCHANGED <<holder, acquired>>, \A l \in Locks : value'[l] = value[l],
         don' # NoFrame => cur' = t /\ pc'[t] = "donate" /\ don'.then # "none",
         pc'[t] # "tried", don'.then # "up", ~ (pc'[t] = "donate" /\ don'.then = "own")
  PROVE  IInv'
<1>1. \A l \in Locks : Owned(l)'
  BY NothingTaken
<1>2. status[t] # "blocked"
  BY RunningStatus
<1>3. sleeping' = sleeping /\ in_external_intr' = FALSE
  BY DEF time_vars
<1>. QED BY <1>1, <1>2, <1>3, ThreadMoves

\* propagate_priorities changes one priority and where it goes on.
LEMMA PropagateKeeps ==
  ASSUME IInv, NEW t \in Threads, propagate_priorities(t)
  PROVE  IInv'
<1>. DEFINE u == don.t
            p == Max({don.priority, old_priority[u]} \cup {priority[w] : w \in Donors(u)})
<1>0. /\ cur = t /\ pc[t] = "donate" /\ in_external_intr = FALSE /\ status[t] = "running"
      /\ Place(t) /\ TypeOK /\ Scheduled /\ don # NoFrame /\ don.then # "none"
      /\ CodeTypes /\ LockTypes /\ PrioTypes
  BY Runs, DonatesAlone DEF propagate_priorities
<1>1. u \in Threads
  BY DEF propagate_priorities, is_thread
<1>2. p \in Priorities
  BY <1>0, <1>1, Donation
<1>. HIDE DEF p
<1>3. /\ priority' = [priority EXCEPT ![u] = p]
      /\ ready' = IF status[u] = "ready"
                  THEN add_ready_thread(remove_ready_thread(ready, u), u, p)
                  ELSE ready
      /\ don' = [don EXCEPT !.priority = p,
                            !.t = IF waiting_lock[u] = NoLock THEN NoThread
                                  ELSE holder[waiting_lock[u]]]
      /\ UNCHANGED <<cur, status, thread_ticks, old_priority, lock_vars, sema_vars,
                     condition, time_vars, pc, loc, calls, panic, missed>>
  BY DEF propagate_priorities, p
<1>4. SchedTypes' /\ Scheduled'
  BY <1>0, <1>1, <1>2, <1>3, Reprioritizes
<1>5. Switches(status)
  BY <1>3, <1>4 DEF Switches
<1>6. don' \in Frame /\ don'.then = don.then /\ don'.lock = don.lock
  <2>1. waiting_lock[u] = NoLock \/ waiting_lock[u] \in Locks
    BY <1>0, <1>1 DEF LockTypes
  <2>2. (IF waiting_lock[u] = NoLock THEN NoThread ELSE holder[waiting_lock[u]])
          \in Threads \cup {NoThread}
    BY <1>0, <2>1 DEF LockTypes
  <2>3. don \in Frame BY <1>0 DEF CodeTypes
  <2>. QED BY <1>2, <1>3, <2>2, <2>3 DEF Frame
<1>7. TypeOK'
  <2>1. PrioTypes' BY <1>0, <1>1, <1>2, <1>3 DEF PrioTypes
  <2>2. SemaTypes' /\ LockTypes' /\ TimeTypes' /\ RestTypes' BY <1>0, <1>3, SameTypes
  <2>3. CodeTypes' BY <1>0, <1>3, <1>6 DEF CodeTypes
  <2>. QED BY <1>4, <2>1, <2>2, <2>3, TypesNext
<1>8. OnlyMoves(t) /\ loc'[t].child = loc[t].child /\ UNCHANGED <<holder, acquired, value>>
  BY <1>3 DEF OnlyMoves, lock_vars, sema_vars
<1>9. don' # NoFrame /\ don'.then # "none"
  BY <1>0, <1>6, FrameEnds
<1>10. Place(t)'
  BY <1>0, <1>3, <1>6, <1>9 DEF Place, Creates, lock_vars
<1>11. ASSUME NEW l \in Locks PROVE Owned(l)'
  <2>1. Owned(l) BY DEF IInv
  <2>2. \A v \in Threads : Takes(v, l)' => Takes(v, l)
    BY <1>3, <1>6 DEF Takes
  <2>3. GivesUp(l)' => GivesUp(l)
    BY <1>6 DEF GivesUp
  <2>. QED BY <1>8, <2>1, <2>2, <2>3, OwnedStays
<1>12. sleeping' = sleeping /\ waiters' = waiters /\ in_external_intr' = FALSE /\ cur' = t
       /\ pc'[t] = "donate"
  BY <1>0, <1>3 DEF time_vars, sema_vars
<1>. QED BY <1>0, <1>5, <1>7, <1>8, <1>9, <1>10, <1>11, <1>12, ThreadMoves

LEMMA SetPriorityKeeps ==
  ASSUME IInv, NEW t \in Threads, thread_set_priority(t)
  PROVE  IInv'
<1>0. /\ cur = t /\ pc[t] = "run" /\ in_external_intr = FALSE /\ status[t] = "running"
      /\ Place(t) /\ TypeOK /\ Scheduled /\ CodeTypes /\ PrioTypes /\ RestTypes /\ SchedTypes
  BY Runs DEF thread_set_priority, Call
<1>1. PICK p \in Priorities : /\ old_priority' = [old_priority EXCEPT ![t] = p]
                              /\ priority' = [priority EXCEPT ![t] = p]
  BY DEF thread_set_priority
<1>2. /\ Donate(t, t, -1, "set", NoLock, priority[t])
      /\ UNCHANGED <<sched_vars, lock_vars, sema_vars, condition, time_vars, loc, panic, missed>>
  BY DEF thread_set_priority
<1>3. /\ don' \in Frame /\ don' # NoFrame /\ don'.then = "set"
      /\ pc' \in [Threads -> IntrOn \cup IntrOff] /\ pc'[t] = "donate"
      /\ \A u \in Threads \ {t} : pc'[u] = pc[u]
  BY <1>0, <1>2, DonateTyped DEF PrioTypes
<1>4. TypeOK'
  <2>1. PrioTypes' BY <1>0, <1>1 DEF PrioTypes
  <2>2. SemaTypes' /\ LockTypes' /\ TimeTypes' BY <1>0, <1>2, SameTypes
  <2>3. CodeTypes' BY <1>0, <1>2, <1>3 DEF CodeTypes
  <2>4. calls' \in [DOMAIN Calls -> Nat] BY <1>0, CallTyped DEF thread_set_priority
  <2>5. RestTypes' BY <1>0, <1>2, <2>4 DEF RestTypes
  <2>6. SchedTypes' BY <1>0, <1>2 DEF SchedTypes, sched_vars
  <2>. QED BY <2>1, <2>2, <2>3, <2>5, <2>6, TypesNext
<1>5. Switches(status)
  <2>1. \A u \in Threads : u # t => priority'[u] = priority[u]
    BY <1>0, <1>1 DEF PrioTypes
  <2>2. Listed(ready', status', priority')
    BY <1>0, <1>2, <2>1 DEF Scheduled, Listed, sched_vars
  <2>3. SchedTypes' BY <1>0, <1>2 DEF SchedTypes, sched_vars
  <2>. QED BY <1>0, <1>2, <2>2, <2>3 DEF Switches, Scheduled, sched_vars
<1>6. OnlyMoves(t) /\ loc'[t].child = loc[t].child /\ waiters' = waiters /\ cur' = t
      /\ UNCHANGED <<holder, acquired, value>>
  BY <1>0, <1>2, <1>3 DEF OnlyMoves, lock_vars, sema_vars, sched_vars
<1>7. Place(t)'
  BY <1>0, <1>2, <1>3, <1>6 DEF Place, Creates, CreatePCs, lock_vars, sched_vars
<1>. QED BY <1>0, <1>2, <1>3, <1>4, <1>5, <1>6, <1>7, QuietMove

\* A call of propagate_priorities is over.
LEMMA Donates ==
  ASSUME IInv, NEW t \in Threads, NEW then, Donated(t, then)
  PROVE  /\ cur = t /\ pc[t] = "donate" /\ in_external_intr = FALSE /\ panic = FALSE
         /\ status[t] = "running" /\ Place(t) /\ TypeOK /\ Scheduled
         /\ PrioTypes /\ LockTypes /\ CodeTypes /\ RestTypes /\ SchedTypes /\ TimeTypes
         /\ SemaTypes /\ don.then = then /\ don # NoFrame /\ don' = NoFrame
         /\ don' \in Frame /\ don'.then = "none"
BY Runs, DonatesAlone, FrameEnds DEF Donated

LEMMA PrioritySetKeeps ==
  ASSUME IInv, NEW t \in Threads, PrioritySet(t)
  PROVE  IInv'
<1>0. /\ cur = t /\ pc[t] = "donate" /\ in_external_intr = FALSE /\ status[t] = "running"
      /\ Place(t) /\ TypeOK /\ CodeTypes /\ don.then = "set" /\ don' = NoFrame
      /\ don' \in Frame /\ don'.then = "none"
  BY Donates DEF PrioritySet
<1>1. /\ Goto(t, "run")
      /\ IF don.before > priority[t] THEN thread_yield(t, ready, status) ELSE UNCHANGED sched_vars
      /\ UNCHANGED <<prio_vars, lock_vars, sema_vars, condition, time_vars, loc, calls, panic,
                     missed>>
  BY DEF PrioritySet
<1>2. /\ pc' \in [Threads -> IntrOn \cup IntrOff] /\ pc'[t] = "run"
      /\ \A u \in Threads \ {t} : pc'[u] = pc[u]
  BY <1>0, <1>1, GotoTyped DEF IntrOn
<1>3. Switches(status)
  BY <1>0, <1>1, SwitchesNot, SwitchesAway
<1>4. TypeOK'
  <2>1. PrioTypes' /\ SemaTypes' /\ LockTypes' /\ TimeTypes' /\ RestTypes'
    BY <1>0, <1>1, SameTypes
  <2>2. CodeTypes' BY <1>0, <1>1, <1>2 DEF CodeTypes
  <2>. QED BY <1>3, <2>1, <2>2, TypesNext DEF Switches
<1>5. OnlyMoves(t) /\ loc'[t].child = loc[t].child /\ waiters' = waiters
      /\ UNCHANGED <<holder, acquired, value>>
  BY <1>0, <1>1, <1>2 DEF OnlyMoves, lock_vars, sema_vars
<1>6. Place(t)'
  BY <1>0, <1>1, <1>2, <1>3 DEF Place, Creates, CreatePCs, lock_vars, Switches
<1>. QED BY <1>0, <1>1, <1>2, <1>3, <1>4, <1>5, <1>6, QuietMove
\* A step of thread t, whatever lists it changes.
LEMMA AnyMove ==
  ASSUME IInv, NEW t \in Threads, cur = t, OnlyMoves(t), in_external_intr' = FALSE,
         TypeOK', Scheduled', Waits', Place(t)', \A l \in Locks : Owned(l)',
         \A u \in Threads \ {t} : status'[u] = "none" => status[u] = "none",
         \A u \in Threads \ {t} : holder[TidLock] = u => holder'[TidLock] = u,
         don' # NoFrame => cur' = t /\ pc'[t] = "donate" /\ don'.then # "none"
  PROVE  IInv'
<1>1. \A u \in Threads \ {t} : Place(u)'
  BY OthersPlace
<1>2. Places'
  BY <1>1 DEF Places
<1>. QED BY <1>2 DEF IInv

-----------------------------------------------------------------------------
\* Semaphores.

LEMMA SemaWaitKeeps ==
  ASSUME IInv, NEW t \in Threads, SemaWait(t)
  PROVE  IInv'
<1>. DEFINE s == loc[t].sema
            st == [status EXCEPT ![t] = "blocked"]
<1>0. /\ cur = t /\ pc[t] = "down" /\ in_external_intr = FALSE /\ status[t] = "running"
      /\ Place(t) /\ TypeOK /\ Scheduled /\ CodeTypes /\ PrioTypes /\ RestTypes /\ SchedTypes
      /\ SemaTypes /\ don = NoFrame /\ s \in Semaphores /\ waiters[s] \in Seq(Threads)
  <2>1. /\ cur = t /\ pc[t] = "down" /\ in_external_intr = FALSE /\ status[t] = "running"
        /\ Place(t) /\ TypeOK /\ Scheduled /\ CodeTypes /\ PrioTypes /\ RestTypes /\ SchedTypes
        /\ SemaTypes /\ don = NoFrame
    <3>1. At(t, "down") BY DEF SemaWait
    <3>2. /\ cur = t /\ pc[t] = "down" /\ in_external_intr = FALSE /\ status[t] = "running"
          /\ Place(t) /\ TypeOK /\ Scheduled /\ CodeTypes /\ PrioTypes /\ RestTypes
          /\ SchedTypes /\ SemaTypes
      BY <3>1, Runs
    <3>. QED BY <3>2, DonatesAlone
  <2>. QED BY <2>1 DEF Place, SemaTypes
<1>1. /\ waiters' = [waiters EXCEPT ![s] = Append(@, t)] /\ thread_block(t)
      /\ missed' \subseteq Threads
      /\ UNCHANGED <<prio_vars, lock_vars, value, condition, don, time_vars, pc, loc, calls,
                     panic>>
  BY <1>0 DEF SemaWait, RestTypes
<1>2. Switches(st)
  BY <1>0, <1>1, Blocks DEF prio_vars
<1>3. \A u \in Threads : /\ status'[u] = "blocked" <=> status[u] = "blocked" \/ u = t
                         /\ status'[u] = "none" <=> status[u] = "none"
  BY <1>0, <1>2 DEF Switches, SchedTypes
<1>4. t \notin ToSet(waiters[s])
  BY <1>0 DEF IInv, Waits
<1>5. /\ waiters'[s] \in Seq(Threads) /\ ToSet(waiters'[s]) = ToSet(waiters[s]) \cup {t}
      /\ IsInjective(waiters'[s])
      /\ \A x \in Semaphores \ {s} : waiters'[x] = waiters[x]
  <2>1. waiters'[s] = Append(waiters[s], t) /\ \A x \in Semaphores \ {s} : waiters'[x] = waiters[x]
    BY <1>0, <1>1 DEF SemaTypes
  <2>2. IsInjective(waiters[s]) BY <1>0 DEF IInv, Waits
  <2>. QED BY <1>0, <1>4, <2>1, <2>2, AppendedList
<1>. HIDE DEF s, st
<1>6. TypeOK'
  <2>1. SemaTypes'
    <3>1. waiters' \in [Semaphores -> Seq(Threads)]
      BY <1>0, <1>1, <1>5 DEF SemaTypes
    <3>. QED BY <1>0, <1>1, <3>1 DEF SemaTypes
  <2>2. PrioTypes' /\ LockTypes' /\ TimeTypes' /\ CodeTypes' BY <1>0, <1>1, SameTypes
  <2>3. RestTypes' BY <1>0, <1>1 DEF RestTypes
  <2>. QED BY <1>2, <2>1, <2>2, <2>3, TypesNext DEF Switches
<1>7. Waits'
  <2>0. Waits BY DEF IInv
  <2>1. sleeping' = sleeping /\ pc' = pc /\ loc' = loc BY <1>1 DEF time_vars
  <2>2. IsInjective(sleeping') /\ \A x \in Semaphores : IsInjective(waiters'[x])
    BY <1>5, <2>0, <2>1 DEF Waits
  <2>3. \A u \in Threads : Child(u)' <=> Child(u) BY <2>1 DEF Child
  <2>4. ~ Child(t) /\ t \notin ToSet(sleeping) BY <1>0, RunningStatus
  <2>5. \A u \in Threads, x \in Semaphores :
          u \in ToSet(waiters'[x]) <=> u \in ToSet(waiters[x]) \/ (u = t /\ x = s)
    BY <1>5
  <2>6. \A u \in Threads : Queued(u)' <=> Queued(u) \/ u = t
    BY <1>0, <2>5 DEF Queued, s
  <2>7. ASSUME NEW u \in Threads
        PROVE  /\ u \in ToSet(sleeping') => status'[u] = "blocked" /\ pc'[u] = "run"
               /\ \A x \in Semaphores : u \in ToSet(waiters'[x]) =>
                    status'[u] = "blocked" /\ pc'[u] = "down" /\ loc'[u].sema = x
               /\ Child(u)' => status'[u] = "blocked" /\ pc'[u] = "run" /\ u \notin ToSet(sleeping')
               /\ status'[u] = "blocked" => u \in ToSet(sleeping') \/ Queued(u)' \/ Child(u)'
               /\ \A v \in Threads :
                    loc'[u].child = loc'[v].child /\ loc'[u].child # NoThread => u = v
    <3>1. /\ u \in ToSet(sleeping) => status[u] = "blocked" /\ pc[u] = "run"
          /\ \A x \in Semaphores : u \in ToSet(waiters[x]) =>
               status[u] = "blocked" /\ pc[u] = "down" /\ loc[u].sema = x
          /\ Child(u) => status[u] = "blocked" /\ pc[u] = "run" /\ u \notin ToSet(sleeping)
          /\ status[u] = "blocked" => u \in ToSet(sleeping) \/ Queued(u) \/ Child(u)
          /\ \A v \in Threads : loc[u].child = loc[v].child /\ loc[u].child # NoThread => u = v
      BY <2>0 DEF Waits
    <3>. QED BY <1>0, <1>3, <2>1, <2>3, <2>5, <2>6, <3>1 DEF s
  <2>. QED BY <2>2, <2>7 DEF Waits
<1>8. \A u \in Threads : Place(u)'
  <2>1. ASSUME NEW u \in Threads PROVE Place(u)'
    <3>1. Place(u) /\ pc[u] # "donate"
      BY <1>0, DonatesAlone DEF IInv, Places
    <3>. QED BY <1>1, <1>3, <3>1 DEF Place, Creates, lock_vars
  <2>. QED BY <2>1
<1>9. Places'
  BY <1>0, <1>1, <1>8 DEF Places, time_vars
<1>10. ASSUME NEW l \in Locks PROVE Owned(l)'
  BY <1>1, OwnedStays DEF IInv, Takes, GivesUp, lock_vars
<1>. QED BY <1>2, <1>6, <1>7, <1>9, <1>10 DEF IInv, Switches

\* The way out of sema_down, ...
LEMMA SemaPassKeeps ==
  ASSUME IInv, NEW t \in Threads, SemaPass(t)
  PROVE  IInv'
<1>. DEFINE s == loc[t].sema
<1>0. /\ cur = t /\ pc[t] = "down" /\ in_external_intr = FALSE /\ status[t] = "running"
      /\ Place(t) /\ TypeOK /\ CodeTypes /\ SchedTypes /\ SemaTypes /\ LockTypes
      /\ don = NoFrame
  BY Runs, DonatesAlone DEF SemaPass
<1>1. s \in Semaphores /\ value[s] \in Nat /\ loc[t] \in Loc
  BY <1>0 DEF Place, SemaTypes, CodeTypes
<1>2. /\ value[s] > 0 /\ value' = [value EXCEPT ![s] = value[s] - 1]
      /\ \/ s \in Locks /\ Donate(t, loc[t].holder, -1, "own", s, 0) /\ loc' = loc
         \/ /\ s \notin Locks
            /\ Goto(t, IF s = t THEN "clock" ELSE "run")
            /\ loc' = [loc EXCEPT ![t] = NoLoc] /\ don' = don
      /\ UNCHANGED <<sched_vars, prio_vars, lock_vars, waiters, condition, time_vars, calls,
                     panic, missed>>
  BY DEF SemaPass
<1>3. Switches(status)
  BY <1>2, SwitchesNot
<1>4. /\ SemaTypes' /\ \A x \in Semaphores \ {s} : value'[x] = value[x]
      /\ value'[s] = value[s] - 1
  <2>1. value[s] - 1 \in Nat BY <1>1, <1>2
  <2>2. \A x \in Semaphores : value'[x] = IF x = s THEN value[s] - 1 ELSE value[x]
    BY <1>0, <1>2 DEF SemaTypes
  <2>3. value' \in [Semaphores -> Nat] BY <1>0, <1>2, <2>1 DEF SemaTypes
  <2>4. \A l \in Locks : value'[l] <= 1
    <3>1. ASSUME NEW l \in Locks PROVE value'[l] <= 1
      <4>1. l \in Semaphores BY DEF Semaphores
      <4>2. value[l] <= 1 /\ value[l] \in Nat BY <1>0, <4>1 DEF SemaTypes
      <4>. QED BY <2>2, <4>1, <4>2
    <3>. QED BY <3>1
  <2>. QED BY <1>0, <1>1, <1>2, <2>2, <2>3, <2>4 DEF SemaTypes
<1>5. PrioTypes' /\ LockTypes' /\ TimeTypes' /\ RestTypes'
  BY <1>0, <1>2, SameTypes
<1>6. CASE s \in Locks
  <2>1. Donate(t, loc[t].holder, -1, "own", s, 0) /\ loc' = loc
    BY <1>2, <1>6
  <2>2. /\ don' \in Frame /\ don' # NoFrame /\ don'.then = "own"
        /\ pc' \in [Threads -> IntrOn \cup IntrOff] /\ pc'[t] = "donate"
        /\ \A u \in Threads \ {t} : pc'[u] = pc[u]
    <3>1. loc[t].holder \in Threads \cup {NoThread} /\ 0 \in Priorities
      BY <1>1, ThreadsAssumption DEF Loc, Priorities
    <3>. QED BY <1>0, <1>6, <2>1, <3>1, DonateTyped
  <2>3. TypeOK'
    <3>1. CodeTypes' BY <1>0, <2>1, <2>2 DEF CodeTypes
    <3>. QED BY <1>3, <1>4, <1>5, <3>1, TypesNext DEF Switches
  <2>4. /\ OnlyMoves(t) /\ loc'[t].child = loc[t].child /\ waiters' = waiters /\ cur' = t
        /\ UNCHANGED <<holder, acquired, waiting_lock, sleeping>> /\ in_external_intr' = FALSE
    BY <1>0, <1>2, <2>1, <2>2 DEF OnlyMoves, lock_vars, sched_vars, time_vars
  <2>5. Place(t)'
    BY <1>0, <1>2, <1>6, <2>1, <2>2, <2>4 DEF Place, Creates, CreatePCs, sched_vars
  <2>6. ASSUME NEW l \in Locks PROVE Owned(l)'
    <3>1. CASE l # s
      <4>1. value'[l] = value[l] BY <1>4, <3>1 DEF Semaphores
      <4>2. ~ Takes(t, l)' /\ ~ GivesUp(l)' BY <2>1, <2>2, <3>1 DEF Takes, GivesUp
      <4>. QED BY <1>0, <2>4, <4>1, <4>2, OtherLock
    <3>2. CASE l = s
      <4>1. value[l] # 0 /\ value[l] <= 1 /\ value[l] \in Nat
        BY <1>0, <1>1, <1>2, <1>6, <3>2 DEF SemaTypes
      <4>2. value'[l] = 0 BY <1>4, <3>2, <4>1
      <4>3. holder[l] = NoThread /\ \A u \in Threads : l \in acquired[u] => holder[l] = u
        <5>1. Owned(l) BY DEF IInv
        <5>. QED BY <4>1, <5>1 DEF Owned
      <4>4. \A u \in Threads \ {t} : ~ Takes(u, l)'
        BY <1>0, <2>4, <4>1, OthersTakeNot
      <4>5. ~ GivesUp(l)' BY <2>2 DEF GivesUp
      <4>. QED BY <2>4, <4>2, <4>3, <4>4, <4>5 DEF Owned
    <3>. QED BY <3>1, <3>2
  <2>. QED BY <1>0, <1>3, <2>2, <2>3, <2>4, <2>5, <2>6, ThreadMoves
<1>7. CASE s \notin Locks
  <2>1. Goto(t, IF s = t THEN "clock" ELSE "run") /\ loc' = [loc EXCEPT ![t] = NoLoc] /\ don' = don
    BY <1>2, <1>7
  <2>2. /\ pc' \in [Threads -> IntrOn \cup IntrOff] /\ pc'[t] \in {"clock", "run"}
        /\ \A u \in Threads \ {t} : pc'[u] = pc[u]
    <3>1. (IF s = t THEN "clock" ELSE "run") \in IntrOn \cup IntrOff BY DEF IntrOn
    <3>. QED BY <1>0, <2>1, <3>1, GotoTyped
  <2>3. /\ loc' \in [Threads -> Loc] /\ loc'[t] = NoLoc /\ \A u \in Threads \ {t} : loc'[u] = loc[u]
    BY <1>0, <2>1, NoLocTyped, LocTyped
  <2>4. NoLoc.child = NoThread /\ NoLoc.ret = "run" /\ loc[t].child = NoThread
    BY <1>0, <1>7 DEF Place, Creates, CreatePCs, NoLoc
  <2>5. TypeOK'
    <3>1. CodeTypes' BY <1>0, <2>1, <2>2, <2>3 DEF CodeTypes
    <3>. QED BY <1>3, <1>4, <1>5, <3>1, TypesNext DEF Switches
  <2>6. /\ OnlyMoves(t) /\ loc'[t].child = loc[t].child /\ waiters' = waiters
        /\ UNCHANGED <<holder, acquired, waiting_lock>>
    BY <1>2, <2>2, <2>3, <2>4 DEF OnlyMoves, lock_vars
  <2>7. \A l \in Locks : value'[l] = value[l]
    BY <1>4, <1>7 DEF Semaphores
  <2>8. Place(t)'
    BY <1>0, <1>2, <2>2, <2>3, <2>4 DEF Place, Creates, CreatePCs, sched_vars
  <2>9. don' = NoFrame /\ don'.then = "none"
    BY <1>0, <2>1, FrameEnds
  <2>. QED BY <1>0, <1>2, <1>3, <2>2, <2>5, <2>6, <2>7, <2>8, <2>9, QuietMove
<1>. QED BY <1>6, <1>7
\* ... the calls of the program on a semaphore ...
LEMMA CallSemaDownKeeps ==
  ASSUME IInv, NEW t \in Threads, CallSemaDown(t)
  PROVE  IInv'
<1>0. /\ cur = t /\ pc[t] = "run" /\ in_external_intr = FALSE /\ status[t] = "running"
      /\ Place(t) /\ TypeOK /\ CodeTypes /\ RestTypes /\ don = NoFrame
      /\ calls' \in [DOMAIN Calls -> Nat]
  <2>1. Call(t, "wait") BY DEF CallSemaDown
  <2>. QED BY <2>1, Begins
<1>1. PICK s \in Semas : loc' = [loc EXCEPT ![t].sema = s]
  BY DEF CallSemaDown
<1>2. /\ Goto(t, "down")
      /\ UNCHANGED <<sched_vars, prio_vars, lock_vars, sema_vars, condition, don, time_vars,
                     panic, missed>>
  BY DEF CallSemaDown
<1>3. /\ pc' \in [Threads -> IntrOn \cup IntrOff] /\ pc'[t] = "down"
      /\ \A u \in Threads \ {t} : pc'[u] = pc[u]
  BY <1>0, <1>2, GotoTyped DEF IntrOff
<1>s. s \in Semaphores /\ s \notin Locks
  BY ThreadsAssumption DEF Semaphores, Locks
<1>4. /\ loc' \in [Threads -> Loc] /\ \A u \in Threads \ {t} : loc'[u] = loc[u]
      /\ loc'[t].sema = s /\ loc'[t].child = loc[t].child /\ loc'[t].ret = loc[t].ret
  <2>1. loc[t] \in Loc BY <1>0 DEF CodeTypes
  <2>2. [loc[t] EXCEPT !.sema = s] \in Loc BY <1>s, <2>1 DEF Loc
  <2>3. loc' = [loc EXCEPT ![t] = [loc[t] EXCEPT !.sema = s]] BY <1>0, <1>1 DEF CodeTypes
  <2>4. /\ [loc[t] EXCEPT !.sema = s].sema = s /\ [loc[t] EXCEPT !.sema = s].ret = loc[t].ret
        /\ [loc[t] EXCEPT !.sema = s].child = loc[t].child
    BY <2>1 DEF Loc
  <2>. QED BY <1>0, <2>2, <2>3, <2>4, LocTyped
<1>5. Switches(status)
  BY <1>2, SwitchesNot
<1>6. TypeOK'
  <2>1. PrioTypes' /\ SemaTypes' /\ LockTypes' /\ TimeTypes'
    BY <1>0, <1>2, SameTypes
  <2>2. CodeTypes' BY <1>0, <1>2, <1>3, <1>4 DEF CodeTypes
  <2>4. RestTypes' BY <1>0, <1>2 DEF RestTypes
  <2>. QED BY <1>5, <2>1, <2>2, <2>4, TypesNext DEF Switches
<1>7. OnlyMoves(t) /\ waiters' = waiters /\ UNCHANGED <<holder, acquired, value, waiting_lock>>
  BY <1>2, <1>3, <1>4 DEF OnlyMoves, lock_vars, sema_vars
<1>8. loc[t].ret = "run" /\ loc[t].child = NoThread
  BY <1>0 DEF Place, Creates, CreatePCs
<1>9. Place(t)'
  BY <1>0, <1>2, <1>3, <1>4, <1>8, <1>s DEF Place, Creates, CreatePCs, sched_vars
<1>10. don' = NoFrame /\ don'.then = "none"
  BY <1>0, <1>2, FrameEnds
<1>. QED BY <1>0, <1>2, <1>3, <1>4, <1>5, <1>6, <1>7, <1>9, <1>10, QuietMove

\* The value of a semaphore that is not a lock's may change as it likes.
LEMMA ValueTyped ==
  ASSUME TypeOK, NEW s \in Semaphores, NEW n \in Nat, s \in Locks => n <= 1,
         value' = [value EXCEPT ![s] = n],
         waiters' \in [Semaphores -> Seq(Threads)]
  PROVE  SemaTypes' /\ value'[s] = n /\ \A x \in Semaphores \ {s} : value'[x] = value[x]
<1>1. value \in [Semaphores -> Nat] /\ \A l \in Locks : value[l] <= 1
  BY TypeGroups DEF SemaTypes
<1>2. \A x \in Semaphores : value'[x] = IF x = s THEN n ELSE value[x]
  BY <1>1
<1>3. \A l \in Locks : value'[l] <= 1
  BY <1>1, <1>2 DEF Semaphores
<1>. QED BY <1>1, <1>2, <1>3 DEF SemaTypes

LEMMA CallSemaTryDownKeeps ==
  ASSUME IInv, NEW t \in Threads, CallSemaTryDown(t)
  PROVE  IInv'
<1>0. /\ cur = t /\ pc[t] = "run" /\ in_external_intr = FALSE /\ status[t] = "running"
      /\ Place(t) /\ TypeOK /\ CodeTypes /\ RestTypes /\ SemaTypes /\ don = NoFrame
      /\ calls' \in [DOMAIN Calls -> Nat]
  <2>1. Call(t, "wait") BY DEF CallSemaTryDown
  <2>. QED BY <2>1, Begins
<1>1. PICK s \in Semas : value[s] > 0 /\ value' = [value EXCEPT ![s] = value[s] - 1]
  BY DEF CallSemaTryDown, sema_try_down
<1>2. UNCHANGED <<sched_vars, prio_vars, lock_vars, waiters, condition, don, time_vars, pc,
                  loc, panic, missed>>
  BY DEF CallSemaTryDown
<1>s. s \in Semaphores /\ s \notin Locks
  BY ThreadsAssumption DEF Semaphores, Locks
<1>3. SemaTypes' /\ \A x \in Semaphores \ {s} : value'[x] = value[x]
  <2>1. value[s] \in Nat BY <1>0, <1>s DEF SemaTypes
  <2>2. value[s] - 1 \in Nat BY <1>1, <2>1
  <2>3. waiters' \in [Semaphores -> Seq(Threads)] BY <1>0, <1>2 DEF SemaTypes
  <2>. QED BY <1>0, <1>1, <1>s, <2>2, <2>3, ValueTyped
<1>4. Switches(status)
  BY <1>2, SwitchesNot
<1>5. TypeOK'
  <2>1. PrioTypes' /\ LockTypes' /\ TimeTypes' /\ CodeTypes'
    BY <1>0, <1>2, SameTypes
  <2>4. RestTypes' BY <1>0, <1>2 DEF RestTypes
  <2>. QED BY <1>3, <1>4, <2>1, <2>4, TypesNext DEF Switches
<1>6. /\ OnlyMoves(t) /\ loc'[t].child = loc[t].child
      /\ UNCHANGED <<holder, acquired, waiting_lock>>
  BY <1>2 DEF OnlyMoves, lock_vars
<1>7. \A l \in Locks : value'[l] = value[l]
  BY <1>3, <1>s DEF Semaphores
<1>8. Place(t)'
  BY <1>0, <1>2, <1>6 DEF Place, Creates, sched_vars
<1>9. don' = NoFrame /\ don'.then = "none"
  BY <1>0, <1>2, FrameEnds
<1>. QED BY <1>0, <1>2, <1>4, <1>5, <1>6, <1>7, <1>8, <1>9, QuietMove

\* sema_up takes one thread out of the list it waits in.
LEMMA WaitsUp ==
  ASSUME IInv, NEW t \in Threads, cur = t, OnlyMoves(t),
         loc'[t].child = loc[t].child, sleeping' = sleeping,
         NEW s \in Semaphores, sema_up(s), priority' = priority
  PROVE  /\ waiters' \in [Semaphores -> Seq(Threads)]
         /\ SchedTypes' /\ Scheduled' /\ Waits' /\ cur' = cur
         /\ \A u \in Threads : status'[u] = "none" <=> status[u] = "none"
<1>0. status[t] = "running" /\ SchedTypes /\ SemaTypes /\ Waits
  BY RunningStatus, TypeGroups DEF IInv
<1>1. CASE waiters' = waiters /\ UNCHANGED sched_vars /\ Switches(status)
  <2>1. Waits'
    BY <1>0, <1>1, WaitsKept DEF sched_vars
  <2>. QED BY <1>0, <1>1, <2>1 DEF Switches, SemaTypes, sched_vars
<1>2. ASSUME NEW k \in DOMAIN waiters[s], NEW w \in Threads, Wakes(s, k, w),
             Switches([status EXCEPT ![w] = "ready"])
      PROVE  /\ waiters' \in [Semaphores -> Seq(Threads)]
             /\ SchedTypes' /\ Scheduled' /\ Waits' /\ cur' = cur
             /\ \A u \in Threads : status'[u] = "none" <=> status[u] = "none"
  <2>1. /\ w = waiters[s][k] /\ waiters' = [waiters EXCEPT ![s] = RemoveAt(waiters[s], k)]
        /\ status' = [status EXCEPT ![w] = "ready"] /\ cur' = cur
    BY <1>2 DEF Wakes
  <2>2. waiters[s] \in Seq(Threads) /\ IsInjective(waiters[s])
    BY <1>0 DEF SemaTypes, Waits
  <2>3. /\ RemoveAt(waiters[s], k) \in Seq(Threads) /\ w \in ToSet(waiters[s])
        /\ IsInjective(RemoveAt(waiters[s], k))
        /\ ToSet(RemoveAt(waiters[s], k)) = ToSet(waiters[s]) \ {w}
    BY <2>1, <2>2, RemovedAt
  <2>4. \A x \in Semaphores :
          waiters'[x] = IF x = s THEN RemoveAt(waiters[s], k) ELSE waiters[x]
    BY <1>0, <2>1 DEF SemaTypes
  <2>5. waiters' \in [Semaphores -> Seq(Threads)]
    BY <1>0, <2>1, <2>3 DEF SemaTypes
  <2>6. /\ status[w] = "blocked" /\ pc[w] = "down" /\ loc[w].sema = s
        /\ \A u \in Threads : status'[u] = IF u = w THEN "ready" ELSE status[u]
    BY <1>0, <2>1, <2>3 DEF Waits, SchedTypes
  <2>7. w # t
    BY <1>0, <2>6
  <2>8. \A u \in Threads, x \in Semaphores :
          u \in ToSet(waiters'[x]) <=> u \in ToSet(waiters[x]) /\ u # w
    <3>1. ASSUME NEW u \in Threads, NEW x \in Semaphores
          PROVE  u \in ToSet(waiters'[x]) <=> u \in ToSet(waiters[x]) /\ u # w
      <4>1. CASE x = s BY <2>3, <2>4, <4>1
      <4>2. CASE x # s
        <5>1. w \notin ToSet(waiters[x]) BY <1>0, <2>6, <4>2 DEF Waits
        <5>. QED BY <2>4, <4>2, <5>1
      <4>. QED BY <4>1, <4>2
    <3>. QED BY <3>1
  <2>9. /\ IsInjective(sleeping') /\ \A x \in Semaphores : IsInjective(waiters'[x])
    BY <1>0, <2>3, <2>4 DEF Waits
  <2>10. \A u \in Threads : loc'[u].child = loc[u].child
    BY DEF OnlyMoves
  <2>11. \A u \in Threads : Child(u)' <=> Child(u)
    BY <2>10 DEF Child
  <2>12. ~ Child(w) /\ w \notin ToSet(sleeping)
    BY <1>0, <2>6 DEF Waits
  <2>13. \A u \in Threads : Queued(u)' <=> Queued(u) /\ u # w
    BY <2>8 DEF Queued
  <2>14. ASSUME NEW u \in Threads
         PROVE  /\ u \in ToSet(sleeping') => status'[u] = "blocked" /\ pc'[u] = "run"
                /\ \A x \in Semaphores : u \in ToSet(waiters'[x]) =>
                     status'[u] = "blocked" /\ pc'[u] = "down" /\ loc'[u].sema = x
                /\ Child(u)' => status'[u] = "blocked" /\ pc'[u] = "run" /\ u \notin ToSet(sleeping')
                /\ status'[u] = "blocked" => u \in ToSet(sleeping') \/ Queued(u)' \/ Child(u)'
                /\ \A v \in Threads :
                     loc'[u].child = loc'[v].child /\ loc'[u].child # NoThread => u = v
    <3>1. /\ u \in ToSet(sleeping) => status[u] = "blocked" /\ pc[u] = "run"
          /\ \A x \in Semaphores : u \in ToSet(waiters[x]) =>
               status[u] = "blocked" /\ pc[u] = "down" /\ loc[u].sema = x
          /\ Child(u) => status[u] = "blocked" /\ pc[u] = "run" /\ u \notin ToSet(sleeping)
          /\ status[u] = "blocked" => u \in ToSet(sleeping) \/ Queued(u) \/ Child(u)
          /\ \A v \in Threads : loc[u].child = loc[v].child /\ loc[u].child # NoThread => u = v
      BY <1>0 DEF Waits
    <3>2. u # t => pc'[u] = pc[u] /\ loc'[u] = loc[u]
      BY DEF OnlyMoves
    <3>. QED BY <1>0, <2>6, <2>8, <2>10, <2>11, <2>12, <2>13, <3>1, <3>2
  <2>15. Waits'
    BY <2>9, <2>14 DEF Waits
  <2>16. \A u \in Threads : status'[u] = "none" <=> status[u] = "none"
    BY <2>6
  <2>. QED BY <1>2, <2>1, <2>5, <2>15, <2>16 DEF Switches
<1>. QED BY <1>1, <1>2, SemaUp

LEMMA CallSemaUpKeeps ==
  ASSUME IInv, NEW t \in Threads, CallSemaUp(t)
  PROVE  IInv'
<1>0. /\ cur = t /\ pc[t] = "run" /\ in_external_intr = FALSE /\ status[t] = "running"
      /\ Place(t) /\ TypeOK /\ CodeTypes /\ RestTypes /\ SemaTypes /\ don = NoFrame
      /\ calls' \in [DOMAIN Calls -> Nat]
  <2>1. Call(t, "wait") BY DEF CallSemaUp
  <2>. QED BY <2>1, Begins
<1>1. PICK s \in Semas : sema_up(s)
  BY DEF CallSemaUp
<1>2. UNCHANGED <<prio_vars, lock_vars, condition, don, time_vars, pc, loc, panic, missed>>
  BY DEF CallSemaUp
<1>s. s \in Semaphores /\ s \notin Locks
  BY ThreadsAssumption DEF Semaphores, Locks
<1>3. /\ OnlyMoves(t) /\ loc'[t].child = loc[t].child /\ sleeping' = sleeping
      /\ priority' = priority /\ in_external_intr' = FALSE
      /\ UNCHANGED <<holder, acquired, waiting_lock>>
  BY <1>0, <1>2 DEF OnlyMoves, lock_vars, time_vars, prio_vars
<1>4. /\ waiters' \in [Semaphores -> Seq(Threads)]
      /\ SchedTypes' /\ Scheduled' /\ Waits' /\ cur' = cur
      /\ \A u \in Threads : status'[u] = "none" <=> status[u] = "none"
  BY <1>0, <1>1, <1>3, <1>s, WaitsUp
<1>5. SemaTypes' /\ \A x \in Semaphores \ {s} : value'[x] = value[x]
  <2>1. value[s] + 1 \in Nat BY <1>0, <1>s DEF SemaTypes
  <2>2. value' = [value EXCEPT ![s] = value[s] + 1] BY <1>1 DEF sema_up
  <2>. QED BY <1>0, <1>4, <1>s, <2>1, <2>2, ValueTyped
<1>6. TypeOK'
  <2>1. PrioTypes' /\ LockTypes' /\ TimeTypes' /\ CodeTypes'
    BY <1>0, <1>2, SameTypes
  <2>4. RestTypes' BY <1>0, <1>2 DEF RestTypes
  <2>. QED BY <1>4, <1>5, <2>1, <2>4, TypesNext
<1>7. \A l \in Locks : value'[l] = value[l]
  BY <1>5, <1>s DEF Semaphores
<1>8. Place(t)'
  BY <1>0, <1>2, <1>3, <1>4 DEF Place, Creates
<1>9. don' = NoFrame /\ don'.then = "none" /\ pc'[t] = "run"
  BY <1>0, <1>2, FrameEnds
<1>10. \A l \in Locks : Owned(l)'
  BY <1>0, <1>3, <1>7, <1>9, NothingTaken
<1>. QED BY <1>0, <1>3, <1>4, <1>6, <1>8, <1>9, <1>10, AnyMove
-----------------------------------------------------------------------------
\* Locks.

\* Two records of locals that differ from what they were in a field or two.
LEMMA LocFields ==
  ASSUME CodeTypes, NEW t \in Threads, NEW s \in Semaphores \cup {NoSema},
         NEW h \in Threads \cup {NoThread}, NEW r \in {"run", "cdown", "number", "unblock"}
  PROVE  /\ loc' = [loc EXCEPT ![t].sema = s, ![t].holder = h, ![t].ret = r] =>
              /\ loc' \in [Threads -> Loc] /\ \A u \in Threads \ {t} : loc'[u] = loc[u]
              /\ loc'[t].sema = s /\ loc'[t].ret = r /\ loc'[t].child = loc[t].child
              /\ loc'[t].wake = loc[t].wake
         /\ loc' = [loc EXCEPT ![t].ret = r] =>
              /\ loc' \in [Threads -> Loc] /\ \A u \in Threads \ {t} : loc'[u] = loc[u]
              /\ loc'[t].sema = loc[t].sema /\ loc'[t].ret = r /\ loc'[t].child = loc[t].child
              /\ loc'[t].wake = loc[t].wake
         /\ loc' = [loc EXCEPT ![t].sema = s] =>
              /\ loc' \in [Threads -> Loc] /\ \A u \in Threads \ {t} : loc'[u] = loc[u]
              /\ loc'[t].sema = s /\ loc'[t].ret = loc[t].ret /\ loc'[t].child = loc[t].child
              /\ loc'[t].wake = loc[t].wake
<1>1. loc[t] \in Loc /\ loc \in [Threads -> Loc]
  BY DEF CodeTypes
<1>2. ASSUME loc' = [loc EXCEPT ![t].sema = s, ![t].holder = h, ![t].ret = r]
      PROVE  /\ loc' \in [Threads -> Loc] /\ \A u \in Threads \ {t} : loc'[u] = loc[u]
             /\ loc'[t].sema = s /\ loc'[t].ret = r /\ loc'[t].child = loc[t].child
             /\ loc'[t].wake = loc[t].wake
  <2>. DEFINE x == [loc[t] EXCEPT !.sema = s, !.holder = h, !.ret = r]
  <2>1. /\ x \in Loc /\ x.sema = s /\ x.ret = r /\ x.child = loc[t].child
        /\ x.wake = loc[t].wake
    BY <1>1 DEF Loc
  <2>2. loc' = [loc EXCEPT ![t] = x] BY <1>1, <1>2
  <2>. HIDE DEF x
  <2>. QED BY <2>1, <2>2, LocTyped
<1>3. ASSUME loc' = [loc EXCEPT ![t].ret = r]
      PROVE  /\ loc' \in [Threads -> Loc] /\ \A u \in Threads \ {t} : loc'[u] = loc[u]
             /\ loc'[t].sema = loc[t].sema /\ loc'[t].ret = r /\ loc'[t].child = loc[t].child
             /\ loc'[t].wake = loc[t].wake
  <2>. DEFINE x == [loc[t] EXCEPT !.ret = r]
  <2>1. /\ x \in Loc /\ x.sema = loc[t].sema /\ x.ret = r /\ x.child = loc[t].child
        /\ x.wake = loc[t].wake
    BY <1>1 DEF Loc
  <2>2. loc' = [loc EXCEPT ![t] = x] BY <1>1, <1>3
  <2>. HIDE DEF x
  <2>. QED BY <2>1, <2>2, LocTyped
<1>4. ASSUME loc' = [loc EXCEPT ![t].sema = s]
      PROVE  /\ loc' \in [Threads -> Loc] /\ \A u \in Threads \ {t} : loc'[u] = loc[u]
             /\ loc'[t].sema = s /\ loc'[t].ret = loc[t].ret /\ loc'[t].child = loc[t].child
             /\ loc'[t].wake = loc[t].wake
  <2>. DEFINE x == [loc[t] EXCEPT !.sema = s]
  <2>1. /\ x \in Loc /\ x.sema = s /\ x.ret = loc[t].ret /\ x.child = loc[t].child
        /\ x.wake = loc[t].wake
    BY <1>1 DEF Loc
  <2>2. loc' = [loc EXCEPT ![t] = x] BY <1>1, <1>4
  <2>. HIDE DEF x
  <2>. QED BY <2>1, <2>2, LocTyped
<1>. QED BY <1>2, <1>3, <1>4

\* lock_acquire begins with a donation, ...
LEMMA AcquireKeeps ==
  ASSUME IInv, NEW t \in Threads, cur = t, in_external_intr = FALSE,
         pc[t] \notin {"donate", "down"} \cup CreatePCs, NEW l \in Locks,
         lock_acquire(t, l, "run"),
         UNCHANGED <<sched_vars, prio_vars, sema_vars, time_vars>>, RestTypes'
  PROVE  IInv'
<1>0. /\ TypeOK /\ CodeTypes /\ LockTypes /\ Place(t) /\ SchedTypes /\ PrioTypes
      /\ status[t] = "running"
  BY TypeGroups, RunningStatus DEF IInv, Places
<1>1. /\ waiting_lock' = [waiting_lock EXCEPT ![t] = l]
      /\ loc' = [loc EXCEPT ![t].sema = l, ![t].holder = holder[l], ![t].ret = "run"]
      /\ Donate(t, holder[l], priority[t], "yield", l, 0)
      /\ UNCHANGED <<holder, acquired>>
  BY DEF lock_acquire
<1>2. /\ don' \in Frame /\ don' # NoFrame /\ don'.then = "yield"
      /\ pc' \in [Threads -> IntrOn \cup IntrOff] /\ pc'[t] = "donate"
      /\ \A u \in Threads \ {t} : pc'[u] = pc[u]
  <2>1. 0 \in Priorities BY ThreadsAssumption DEF Priorities
  <2>2. holder[l] \in Threads \cup {NoThread} /\ priority[t] \in Priorities
    BY <1>0 DEF LockTypes, PrioTypes
  <2>. QED BY <1>0, <1>1, <2>1, <2>2, DonateTyped
<1>3. /\ loc' \in [Threads -> Loc] /\ \A u \in Threads \ {t} : loc'[u] = loc[u]
      /\ loc'[t].sema = l /\ loc'[t].ret = "run" /\ loc'[t].child = loc[t].child
  <2>1. holder[l] \in Threads \cup {NoThread} /\ l \in Semaphores
    BY <1>0 DEF LockTypes, Semaphores
  <2>. QED BY <1>0, <1>1, <2>1, LocFields
<1>4. LockTypes' /\ waiting_lock'[t] = l
      /\ \A u \in Threads \ {t} : waiting_lock'[u] = waiting_lock[u]
  BY <1>0, <1>1 DEF LockTypes
<1>5. Switches(status)
  BY SwitchesNot
<1>6. TypeOK'
  <2>1. PrioTypes' /\ SemaTypes' /\ TimeTypes'
    BY <1>0, SameTypes
  <2>2. CodeTypes' BY <1>2, <1>3 DEF CodeTypes
  <2>. QED BY <1>4, <1>5, <2>1, <2>2, TypesNext DEF Switches
<1>7. OnlyMoves(t) /\ waiters' = waiters /\ cur' = t /\ value' = value
  BY <1>2, <1>3, <1>4 DEF OnlyMoves, sema_vars, sched_vars
<1>8. loc[t].ret = "run" /\ loc[t].child = NoThread
  BY <1>0 DEF Place, Creates, CreatePCs
<1>9. Place(t)'
  BY <1>0, <1>2, <1>3, <1>4, <1>7, <1>8 DEF Place, Creates, CreatePCs, sched_vars
<1>. QED BY <1>0, <1>1, <1>2, <1>3, <1>5, <1>6, <1>7, <1>9, QuietMove

LEMMA CallAcquireKeeps ==
  ASSUME IInv, NEW t \in Threads, CallAcquire(t)
  PROVE  IInv'
<1>0. /\ cur = t /\ pc[t] = "run" /\ in_external_intr = FALSE
      /\ RestTypes /\ calls' \in [DOMAIN Calls -> Nat]
  <2>1. Call(t, "lock") BY DEF CallAcquire
  <2>. QED BY <2>1, Begins
<1>1. PICK l \in 1 .. NumLocks : lock_acquire(t, l, "run")
  BY DEF CallAcquire
<1>2. UNCHANGED <<sched_vars, prio_vars, sema_vars, condition, time_vars, panic, missed>>
  BY DEF CallAcquire
<1>3. l \in Locks
  BY ThreadsAssumption DEF Locks, TidLock
<1>4. RestTypes'
  BY <1>0, <1>2 DEF RestTypes
<1>5. pc[t] \notin {"donate", "down"} \cup CreatePCs
  BY <1>0 DEF CreatePCs
<1>. QED BY <1>0, <1>1, <1>2, <1>3, <1>4, <1>5, AcquireKeeps

LEMMA CondReacquireKeeps ==
  ASSUME IInv, NEW t \in Threads, CondReacquire(t)
  PROVE  IInv'
<1>0. /\ cur = t /\ pc[t] = "clock" /\ in_external_intr = FALSE /\ RestTypes
  <2>1. At(t, "clock") BY DEF CondReacquire
  <2>. QED BY <2>1, RunsOn
<1>1. /\ lock_acquire(t, CondLock, "run")
      /\ UNCHANGED <<sched_vars, prio_vars, sema_vars, condition, time_vars, calls, panic, missed>>
  BY DEF CondReacquire
<1>3. CondLock \in Locks
  BY ThreadsAssumption DEF Locks, TidLock
<1>4. RestTypes'
  BY <1>0, <1>1 DEF RestTypes
<1>5. pc[t] \notin {"donate", "down"} \cup CreatePCs
  BY <1>0 DEF CreatePCs
<1>. QED BY <1>0, <1>1, <1>3, <1>4, <1>5, AcquireKeeps

\* ... goes on with a yield ...
LEMMA AcquireYieldKeeps ==
  ASSUME IInv, NEW t \in Threads, AcquireYield(t)
  PROVE  IInv'
<1>0. /\ cur = t /\ pc[t] = "donate" /\ in_external_intr = FALSE /\ status[t] = "running"
      /\ Place(t) /\ TypeOK /\ CodeTypes /\ don.then = "yield" /\ don' = NoFrame
      /\ don' \in Frame /\ don'.then = "none"
  <2>1. Donated(t, "yield") BY DEF AcquireYield
  <2>. QED BY <2>1, Donates
<1>1. /\ Goto(t, "down") /\ thread_yield(t, ready, status)
      /\ UNCHANGED <<prio_vars, lock_vars, sema_vars, condition, time_vars, loc, calls, panic,
                     missed>>
  BY DEF AcquireYield
<1>2. /\ pc' \in [Threads -> IntrOn \cup IntrOff] /\ pc'[t] = "down"
      /\ \A u \in Threads \ {t} : pc'[u] = pc[u]
  BY <1>0, <1>1, GotoTyped DEF IntrOff
<1>3. Switches(status)
  BY <1>0, <1>1, SwitchesAway
<1>4. TypeOK'
  <2>1. PrioTypes' /\ SemaTypes' /\ LockTypes' /\ TimeTypes' /\ RestTypes'
    BY <1>0, <1>1, SameTypes
  <2>2. CodeTypes' BY <1>0, <1>1, <1>2 DEF CodeTypes
  <2>. QED BY <1>3, <2>1, <2>2, TypesNext DEF Switches
<1>5. OnlyMoves(t) /\ loc'[t].child = loc[t].child /\ waiters' = waiters
      /\ UNCHANGED <<holder, acquired, value, waiting_lock, loc>>
  BY <1>0, <1>1, <1>2 DEF OnlyMoves, lock_vars, sema_vars
<1>6. status'[t] # "none"
  BY <1>0, <1>3 DEF Switches
<1>7. Place(t)'
  <2>1. loc[t].sema \in Semaphores BY <1>0 DEF Place, Semaphores
  <2>. QED BY <1>0, <1>2, <1>5, <1>6, <2>1 DEF Place, Creates, CreatePCs
<1>. QED BY <1>0, <1>1, <1>2, <1>3, <1>4, <1>5, <1>7, QuietMove

\* ... and ends when the holder is stored.
LEMMA AcquireOwnKeeps ==
  ASSUME IInv, NEW t \in Threads, AcquireOwn(t)
  PROVE  IInv'
<1>. DEFINE l == waiting_lock[t]
<1>0. /\ cur = t /\ pc[t] = "donate" /\ in_external_intr = FALSE /\ status[t] = "running"
      /\ Place(t) /\ TypeOK /\ CodeTypes /\ LockTypes /\ RestTypes /\ SemaTypes
      /\ don.then = "own" /\ don' = NoFrame /\ don' \in Frame /\ don'.then = "none"
  <2>1. Donated(t, "own") BY DEF AcquireOwn
  <2>. QED BY <2>1, Donates
<1>1. /\ acquired' = [acquired EXCEPT ![t] = @ \cup {l}]
      /\ waiting_lock' = [waiting_lock EXCEPT ![t] = NoLock]
      /\ holder' = [holder EXCEPT ![l] = t]
      /\ Goto(t, loc[t].ret)
      /\ loc' = [loc EXCEPT ![t] = [NoLoc EXCEPT !.child = loc[t].child]]
      /\ missed' = (missed \ {t}) \cup {w \in ToSet(waiters[l]) : priority[w] > priority[t]}
      /\ UNCHANGED <<sched_vars, prio_vars, sema_vars, condition, time_vars, calls, panic>>
  BY DEF AcquireOwn
<1>2. l \in Locks /\ l \in Semaphores /\ loc[t].sema = l
  BY <1>0 DEF Place, Semaphores
<1>. HIDE DEF l
<1>3. /\ loc[t].ret \in {"run", "cdown", "number", "unblock"}
      /\ loc[t].child \in Threads \cup {NoThread}
      /\ loc[t].ret = "number" => l = TidLock
      /\ loc[t].child # NoThread <=> loc[t].ret \in CreatePCs
  <2>1. loc[t] \in Loc BY <1>0 DEF CodeTypes
  <2>. QED BY <1>0, <1>2, <2>1 DEF Loc, Place, Creates, CreatePCs
<1>4. /\ pc' \in [Threads -> IntrOn \cup IntrOff] /\ pc'[t] = loc[t].ret
      /\ \A u \in Threads \ {t} : pc'[u] = pc[u]
  <2>1. loc[t].ret \in IntrOn \cup IntrOff BY <1>3 DEF IntrOn
  <2>. QED BY <1>0, <1>1, <2>1, GotoTyped
<1>5. /\ loc' \in [Threads -> Loc] /\ \A u \in Threads \ {t} : loc'[u] = loc[u]
      /\ loc'[t].child = loc[t].child /\ loc'[t].ret = "run"
  <2>. DEFINE x == [NoLoc EXCEPT !.child = loc[t].child]
  <2>1. x \in Loc BY <1>3, NoLocTyped DEF Loc
  <2>2. x.child = loc[t].child /\ x.ret = "run" BY DEF NoLoc
  <2>3. loc' = [loc EXCEPT ![t] = x] BY <1>1
  <2>. HIDE DEF x
  <2>. QED BY <1>0, <2>1, <2>2, <2>3, LocTyped
<1>6. /\ holder'[l] = t /\ \A x \in Locks \ {l} : holder'[x] = holder[x]
      /\ \A u \in Threads, x \in Locks : x \in acquired'[u] =>
           x \in acquired[u] \/ (u = t /\ x = l)
      /\ LockTypes' /\ \A u \in Threads \ {t} : waiting_lock'[u] = waiting_lock[u]
  BY <1>0, <1>1, <1>2 DEF LockTypes
<1>7. Switches(status)
  BY <1>1, SwitchesNot
<1>8. TypeOK'
  <2>1. PrioTypes' /\ SemaTypes' /\ TimeTypes'
    BY <1>0, <1>1, SameTypes
  <2>2. CodeTypes' BY <1>0, <1>4, <1>5 DEF CodeTypes
  <2>3. ToSet(waiters[l]) \subseteq Threads
    <3>1. waiters[l] \in Seq(Threads) BY <1>0, <1>2 DEF SemaTypes
    <3>. QED BY <3>1 DEF ToSet
  <2>4. RestTypes' BY <1>0, <1>1, <2>3 DEF RestTypes
  <2>. QED BY <1>6, <1>7, <2>1, <2>2, <2>4, TypesNext DEF Switches
<1>9. /\ OnlyMoves(t) /\ waiters' = waiters /\ sleeping' = sleeping /\ in_external_intr' = FALSE
      /\ status' = status /\ value' = value
  BY <1>0, <1>1, <1>4, <1>5, <1>6 DEF OnlyMoves, sema_vars, time_vars, sched_vars
<1>10. pc'[t] \notin {"donate", "down", "tried"}
  BY <1>3, <1>4
<1>11. /\ Takes(t, l) /\ value[l] = 0 /\ holder[l] = NoThread
       /\ \A u \in Threads : l \notin acquired[u]
  <2>1. Takes(t, l) BY <1>0, <1>2 DEF Takes
  <2>2. Owned(l) BY <1>2 DEF IInv
  <2>3. NoThread \notin Threads BY ThreadsAssumption
  <2>. QED BY <2>1, <2>2, <2>3 DEF Owned
<1>12. Place(t)'
  BY <1>0, <1>3, <1>4, <1>5, <1>6, <1>9, <1>10 DEF Place, Creates, CreatePCs
<1>13. ASSUME NEW x \in Locks PROVE Owned(x)'
  <2>0. ~ GivesUp(x)' /\ ~ Takes(t, x)'
    BY <1>0, <1>10 DEF GivesUp, Takes
  <2>1. CASE x # l
    <3>1. \A u \in Threads : x \in acquired'[u] => x \in acquired[u] BY <1>6, <2>1
    <3>. QED BY <1>0, <1>6, <1>9, <2>0, <2>1, <3>1, OtherLock
  <2>2. CASE x = l
    <3>1. \A u \in Threads \ {t} : ~ Takes(u, x)'
      BY <1>0, <1>2, <1>9, <1>11, <2>2, OthersTakeNot
    <3>2. \A u \in Threads : x \in acquired'[u] => u = t
      BY <1>6, <1>11, <2>2
    <3>. QED BY <1>6, <1>9, <1>11, <2>0, <2>2, <3>1, <3>2 DEF Owned
  <2>. QED BY <2>1, <2>2
<1>14. \A u \in Threads \ {t} : holder[TidLock] = u => holder'[TidLock] = u
  <2>1. NoThread \notin Threads /\ TidLock \in Locks
    BY ThreadsAssumption DEF Locks, TidLock
  <2>. QED BY <1>6, <1>11, <2>1
<1>15. status[t] # "blocked"
  BY <1>0
<1>. QED BY <1>0, <1>5, <1>7, <1>8, <1>9, <1>12, <1>13, <1>14, <1>15, ThreadMoves
-----------------------------------------------------------------------------
\* The release of a lock.

\* lock_release begins with a donation: the lock has no holder any more, ...
LEMMA ReleaseBegins ==
  ASSUME IInv, NEW t \in Threads, cur = t, in_external_intr = FALSE,
         pc[t] \notin {"donate", "down", "tried"}, NEW l \in Locks, holder[l] = t,
         NEW ret \in {"run", "cdown", "unblock"}, ret \in CreatePCs <=> pc[t] \in CreatePCs,
         lock_release(t, l, ret),
         UNCHANGED <<sched_vars, prio_vars, sema_vars, time_vars>>,
         condition' \in Seq(Threads), calls' \in [DOMAIN Calls -> Nat]
  PROVE  IInv'
<1>0. /\ TypeOK /\ CodeTypes /\ LockTypes /\ Place(t) /\ RestTypes /\ status[t] = "running"
  BY TypeGroups, RunningStatus DEF IInv, Places
<1>1. /\ holder' = [holder EXCEPT ![l] = NoThread]
      /\ acquired' = [acquired EXCEPT ![t] = @ \ {l}]
      /\ loc' = [loc EXCEPT ![t].ret = ret]
      /\ panic' \in BOOLEAN
      /\ Donate(t, t, -1, "up", l, 0)
      /\ UNCHANGED <<waiting_lock, missed>>
  BY DEF lock_release
<1>2. /\ don' \in Frame /\ don' # NoFrame /\ don'.then = "up" /\ don'.lock = l
      /\ pc' \in [Threads -> IntrOn \cup IntrOff] /\ pc'[t] = "donate"
      /\ \A u \in Threads \ {t} : pc'[u] = pc[u]
  <2>1. 0 \in Priorities BY ThreadsAssumption DEF Priorities
  <2>. QED BY <1>0, <1>1, <2>1, DonateTyped
<1>3. /\ loc' \in [Threads -> Loc] /\ \A u \in Threads \ {t} : loc'[u] = loc[u]
      /\ loc'[t].sema = loc[t].sema /\ loc'[t].ret = ret /\ loc'[t].child = loc[t].child
  <2>1. ret \in {"run", "cdown", "number", "unblock"} /\ NoSema \in Semaphores \cup {NoSema}
    OBVIOUS
  <2>2. t \in Threads \cup {NoThread} OBVIOUS
  <2>. QED BY <1>0, <1>1, <2>1, <2>2, LocFields
<1>4. /\ holder'[l] = NoThread /\ \A x \in Locks \ {l} : holder'[x] = holder[x]
      /\ \A u \in Threads : /\ acquired'[u] \subseteq acquired[u]
                            /\ u = t => l \notin acquired'[u]
      /\ LockTypes'
  BY <1>0, <1>1 DEF LockTypes
<1>5. Switches(status)
  BY SwitchesNot
<1>6. TypeOK'
  <2>1. PrioTypes' /\ SemaTypes' /\ TimeTypes'
    BY <1>0, SameTypes
  <2>2. CodeTypes' BY <1>2, <1>3 DEF CodeTypes
  <2>3. RestTypes' BY <1>0, <1>1 DEF RestTypes
  <2>. QED BY <1>4, <1>5, <2>1, <2>2, <2>3, TypesNext DEF Switches
<1>7. /\ OnlyMoves(t) /\ waiters' = waiters /\ sleeping' = sleeping /\ in_external_intr' = FALSE
      /\ status' = status /\ value' = value /\ cur' = t
  BY <1>1, <1>2, <1>3 DEF OnlyMoves, sema_vars, time_vars, sched_vars
<1>8. loc[t].ret = "run" /\ (loc[t].child # NoThread <=> pc[t] \in CreatePCs)
  BY <1>0 DEF Place, Creates, CreatePCs
<1>9. Place(t)'
  BY <1>0, <1>2, <1>3, <1>7, <1>8 DEF Place, Creates, CreatePCs
<1>10. value[l] = 0 /\ \A u \in Threads : l \in acquired[u] => u = t
  <2>1. Owned(l) BY DEF IInv
  <2>2. NoThread \notin Threads BY ThreadsAssumption
  <2>. QED BY <2>1, <2>2 DEF Owned
<1>11. holder[l] # NoThread
  BY ThreadsAssumption
<1>12. ASSUME NEW x \in Locks PROVE Owned(x)'
  <2>0. ~ Takes(t, x)'
    BY <1>2 DEF Takes
  <2>1. CASE x # l
    <3>1. \A u \in Threads : x \in acquired'[u] => x \in acquired[u] BY <1>4
    <3>2. ~ GivesUp(x)' BY <1>2, <2>1 DEF GivesUp
    <3>. QED BY <1>0, <1>4, <1>7, <2>0, <2>1, <3>1, <3>2, OtherLock
  <2>2. CASE x = l
    <3>1. \A u \in Threads \ {t} : ~ Takes(u, x)'
      BY <1>7, <1>11, <2>2, OthersTakeNot
    <3>2. \A u \in Threads : x \notin acquired'[u]
      BY <1>4, <1>10, <2>2
    <3>. QED BY <1>4, <1>7, <1>10, <2>0, <2>2, <3>1, <3>2 DEF Owned
  <2>. QED BY <2>1, <2>2
<1>13. \A u \in Threads \ {t} : holder[TidLock] = u => holder'[TidLock] = u
  <2>1. TidLock \in Locks
    BY ThreadsAssumption DEF Locks, TidLock
  <2>. QED BY <1>4, <2>1
<1>14. status[t] # "blocked" /\ don'.then # "none"
  BY <1>0, <1>2
<1>. QED BY <1>2, <1>3, <1>5, <1>6, <1>7, <1>9, <1>12, <1>13, <1>14, ThreadMoves

LEMMA CallReleaseKeeps ==
  ASSUME IInv, NEW t \in Threads, CallRelease(t)
  PROVE  IInv'
<1>0. cur = t /\ pc[t] = "run" /\ in_external_intr = FALSE /\ RestTypes
  <2>1. At(t, "run") BY DEF CallRelease
  <2>. QED BY <2>1, RunsOn
<1>1. PICK l \in Held(t) : lock_release(t, l, "run")
  BY DEF CallRelease
<1>2. UNCHANGED <<sched_vars, prio_vars, sema_vars, condition, time_vars, calls>>
  BY DEF CallRelease
<1>3. l \in Locks /\ holder[l] = t
  BY DEF Held
<1>4. "run" \in CreatePCs <=> pc[t] \in CreatePCs
  BY <1>0
<1>5. condition' \in Seq(Threads) /\ calls' \in [DOMAIN Calls -> Nat]
  BY <1>0, <1>2 DEF RestTypes
<1>6. pc[t] \notin {"donate", "down", "tried"}
  BY <1>0
<1>. QED BY <1>0, <1>1, <1>2, <1>3, <1>4, <1>5, <1>6, ReleaseBegins

LEMMA TidReleaseKeeps ==
  ASSUME IInv, NEW t \in Threads, TidRelease(t)
  PROVE  IInv'
<1>0. cur = t /\ pc[t] = "number" /\ in_external_intr = FALSE /\ RestTypes /\ Place(t)
  <2>1. At(t, "number") BY DEF TidRelease
  <2>. QED BY <2>1, RunsOn
<1>1. /\ lock_release(t, TidLock, "unblock")
      /\ UNCHANGED <<sched_vars, prio_vars, sema_vars, condition, time_vars, calls>>
  BY DEF TidRelease
<1>3. TidLock \in Locks /\ holder[TidLock] = t
  BY <1>0, ThreadsAssumption DEF Place, Locks, TidLock
<1>4. "unblock" \in CreatePCs <=> pc[t] \in CreatePCs
  BY <1>0 DEF CreatePCs
<1>5. condition' \in Seq(Threads) /\ calls' \in [DOMAIN Calls -> Nat]
  BY <1>0, <1>1 DEF RestTypes
<1>6. pc[t] \notin {"donate", "down", "tried"}
  BY <1>0
<1>. QED BY <1>0, <1>1, <1>3, <1>4, <1>5, <1>6, ReleaseBegins

LEMMA CondWaitKeeps ==
  ASSUME IInv, NEW t \in Threads, cond_wait(t)
  PROVE  IInv'
<1>0. /\ cur = t /\ pc[t] = "run" /\ in_external_intr = FALSE
      /\ RestTypes /\ calls' \in [DOMAIN Calls -> Nat]
  <2>1. Call(t, "cond") BY DEF cond_wait
  <2>. QED BY <2>1, Begins
<1>1. /\ holder[CondLock] = t /\ condition' = Append(condition, t)
      /\ lock_release(t, CondLock, "cdown")
      /\ UNCHANGED <<sched_vars, prio_vars, sema_vars, time_vars>>
  BY DEF cond_wait
<1>3. CondLock \in Locks
  BY ThreadsAssumption DEF Locks, TidLock
<1>4. "cdown" \in CreatePCs <=> pc[t] \in CreatePCs
  BY <1>0 DEF CreatePCs
<1>5. condition' \in Seq(Threads)
  BY <1>0, <1>1 DEF RestTypes
<1>6. pc[t] \notin {"donate", "down", "tried"}
  BY <1>0
<1>. QED BY <1>0, <1>1, <1>3, <1>4, <1>5, <1>6, ReleaseBegins

\* ... and ends when its semaphore is up.
LEMMA ReleaseUpKeeps ==
  ASSUME IInv, NEW t \in Threads, ReleaseUp(t)
  PROVE  IInv'
<1>. DEFINE l == don.lock
<1>0. /\ cur = t /\ pc[t] = "donate" /\ in_external_intr = FALSE /\ status[t] = "running"
      /\ Place(t) /\ TypeOK /\ CodeTypes /\ LockTypes /\ RestTypes /\ SemaTypes
      /\ don.then = "up" /\ don' = NoFrame /\ don' \in Frame /\ don'.then = "none"
  <2>1. Donated(t, "up") BY DEF ReleaseUp
  <2>. QED BY <2>1, Donates
<1>1. /\ sema_up(l) /\ Goto(t, loc[t].ret) /\ loc' = [loc EXCEPT ![t].ret = "run"]
      /\ UNCHANGED <<prio_vars, lock_vars, condition, time_vars, calls, panic, missed>>
  BY DEF ReleaseUp
<1>2. l \in Locks /\ l \in Semaphores
  BY <1>0 DEF Place, Semaphores
<1>3. GivesUp(l)
  BY <1>0 DEF GivesUp
<1>. HIDE DEF l
<1>4. /\ loc[t].ret \in {"run", "cdown", "unblock"}
      /\ loc[t].child # NoThread <=> loc[t].ret \in CreatePCs
  <2>1. loc[t] \in Loc BY <1>0 DEF CodeTypes
  <2>. QED BY <1>0, <2>1 DEF Loc, Place, Creates, CreatePCs
<1>5. /\ pc' \in [Threads -> IntrOn \cup IntrOff] /\ pc'[t] = loc[t].ret
      /\ \A u \in Threads \ {t} : pc'[u] = pc[u]
  <2>1. loc[t].ret \in IntrOn \cup IntrOff BY <1>4 DEF IntrOn
  <2>. QED BY <1>0, <1>1, <2>1, GotoTyped
<1>6. /\ loc' \in [Threads -> Loc] /\ \A u \in Threads \ {t} : loc'[u] = loc[u]
      /\ loc'[t].sema = loc[t].sema /\ loc'[t].ret = "run" /\ loc'[t].child = loc[t].child
  <2>1. NoSema \in Semaphores \cup {NoSema} /\ t \in Threads \cup {NoThread}
    OBVIOUS
  <2>. QED BY <1>0, <1>1, <2>1, LocFields
<1>7. /\ OnlyMoves(t) /\ loc'[t].child = loc[t].child /\ sleeping' = sleeping
      /\ priority' = priority /\ in_external_intr' = FALSE
      /\ UNCHANGED <<holder, acquired, waiting_lock>>
  BY <1>0, <1>1, <1>5, <1>6 DEF OnlyMoves, lock_vars, time_vars, prio_vars
<1>8. /\ waiters' \in [Semaphores -> Seq(Threads)]
      /\ SchedTypes' /\ Scheduled' /\ Waits' /\ cur' = cur
      /\ \A u \in Threads : status'[u] = "none" <=> status[u] = "none"
  BY <1>0, <1>1, <1>2, <1>7, WaitsUp
<1>9. value[l] = 0 /\ holder[l] = NoThread
  <2>1. Owned(l) BY <1>2 DEF IInv
  <2>. QED BY <1>3, <2>1 DEF Owned
<1>10. SemaTypes' /\ \A x \in Semaphores \ {l} : value'[x] = value[x]
  <2>1. value' = [value EXCEPT ![l] = 1]
    <3>1. value' = [value EXCEPT ![l] = value[l] + 1] BY <1>1 DEF sema_up
    <3>2. value[l] + 1 = 1 BY <1>9
    <3>. QED BY <3>1, <3>2
  <2>2. 1 \in Nat /\ (l \in Locks => 1 <= 1) OBVIOUS
  <2>. QED BY <1>0, <1>2, <1>8, <2>1, <2>2, ValueTyped
<1>11. TypeOK'
  <2>1. PrioTypes' /\ LockTypes' /\ TimeTypes' /\ RestTypes'
    BY <1>0, <1>1, SameTypes
  <2>2. CodeTypes' BY <1>0, <1>5, <1>6 DEF CodeTypes
  <2>. QED BY <1>8, <1>10, <2>1, <2>2, TypesNext
<1>12. pc'[t] \notin {"donate", "down", "tried", "number"}
  BY <1>4, <1>5
<1>13. Place(t)'
  BY <1>0, <1>4, <1>5, <1>6, <1>8, <1>12 DEF Place, Creates, CreatePCs
<1>14. ASSUME NEW x \in Locks PROVE Owned(x)'
  <2>0. ~ Takes(t, x)' /\ ~ GivesUp(x)'
    BY <1>0, <1>12 DEF Takes, GivesUp
  <2>1. CASE x # l
    <3>1. value'[x] = value[x] BY <1>10, <2>1 DEF Semaphores
    <3>. QED BY <1>0, <1>7, <2>0, <3>1, OtherLock
  <2>2. CASE x = l
    <3>1. \A u \in Threads \ {t} : ~ Takes(u, x)'
      BY <1>0, <1>3, <1>7, <2>2, OthersTakeNot
    <3>2. \A u \in Threads : x \in acquired[u] => holder[x] = u
      BY DEF IInv, Owned
    <3>. QED BY <1>7, <1>9, <2>0, <2>2, <3>1, <3>2 DEF Owned
  <2>. QED BY <2>1, <2>2
<1>. QED BY <1>0, <1>7, <1>8, <1>11, <1>13, <1>14, AnyMove

-----------------------------------------------------------------------------
\* lock_try_acquire takes the semaphore, ...
LEMMA TryAcquireKeeps ==
  ASSUME IInv, NEW t \in Threads, lock_try_acquire(t)
  PROVE  IInv'
<1>0. /\ cur = t /\ pc[t] = "run" /\ in_external_intr = FALSE /\ status[t] = "running"
      /\ Place(t) /\ TypeOK /\ CodeTypes /\ RestTypes /\ SemaTypes /\ don = NoFrame
      /\ calls' \in [DOMAIN Calls -> Nat] /\ loc[t].ret = "run" /\ loc[t].child = NoThread
  <2>1. Call(t, "lock") BY DEF lock_try_acquire
  <2>. QED BY <2>1, Begins
<1>1. PICK l \in 1 .. NumLocks : sema_try_down(l) /\ loc' = [loc EXCEPT ![t].sema = l]
  BY DEF lock_try_acquire
<1>2. /\ Goto(t, "tried")
      /\ UNCHANGED <<sched_vars, prio_vars, lock_vars, waiters, condition, don, time_vars,
                     panic, missed>>
  BY DEF lock_try_acquire
<1>3. l \in Locks /\ l \in Semaphores
  BY ThreadsAssumption DEF Locks, TidLock, Semaphores
<1>4. /\ pc' \in [Threads -> IntrOn \cup IntrOff] /\ pc'[t] = "tried"
      /\ \A u \in Threads \ {t} : pc'[u] = pc[u]
  BY <1>0, <1>2, GotoTyped DEF IntrOn
<1>5. /\ loc' \in [Threads -> Loc] /\ \A u \in Threads \ {t} : loc'[u] = loc[u]
      /\ loc'[t].sema = l /\ loc'[t].ret = "run" /\ loc'[t].child = NoThread
  <2>1. "run" \in {"run", "cdown", "number", "unblock"} /\ t \in Threads \cup {NoThread}
    OBVIOUS
  <2>. QED BY <1>0, <1>1, <1>3, <2>1, LocFields
<1>6. value[l] = 1 /\ value' = [value EXCEPT ![l] = 0]
  <2>1. value[l] > 0 /\ value' = [value EXCEPT ![l] = value[l] - 1]
    BY <1>1 DEF sema_try_down
  <2>2. value[l] \in Nat /\ value[l] <= 1 BY <1>0, <1>3 DEF SemaTypes
  <2>3. value[l] = 1 /\ value[l] - 1 = 0 BY <2>1, <2>2
  <2>. QED BY <2>1, <2>3
<1>7. SemaTypes' /\ value'[l] = 0 /\ \A x \in Semaphores \ {l} : value'[x] = value[x]
  <2>1. waiters' \in [Semaphores -> Seq(Threads)] BY <1>0, <1>2 DEF SemaTypes
  <2>2. 0 \in Nat /\ (l \in Locks => 0 <= 1) OBVIOUS
  <2>. QED BY <1>0, <1>3, <1>6, <2>1, <2>2, ValueTyped
<1>8. Switches(status)
  BY <1>2, SwitchesNot
<1>9. TypeOK'
  <2>1. PrioTypes' /\ LockTypes' /\ TimeTypes'
    BY <1>0, <1>2, SameTypes
  <2>2. CodeTypes' BY <1>0, <1>2, <1>4, <1>5 DEF CodeTypes
  <2>3. RestTypes' BY <1>0, <1>2 DEF RestTypes
  <2>. QED BY <1>7, <1>8, <2>1, <2>2, <2>3, TypesNext DEF Switches
<1>10. /\ OnlyMoves(t) /\ loc'[t].child = loc[t].child /\ waiters' = waiters
       /\ sleeping' = sleeping /\ in_external_intr' = FALSE /\ don' = NoFrame
       /\ UNCHANGED <<holder, acquired, waiting_lock, status>>
  BY <1>0, <1>2, <1>4, <1>5 DEF OnlyMoves, lock_vars, sched_vars, time_vars
<1>11. Place(t)'
  BY <1>0, <1>3, <1>4, <1>5, <1>10 DEF Place, Creates, CreatePCs
<1>12. ASSUME NEW x \in Locks PROVE Owned(x)'
  <2>0. ~ GivesUp(x)' BY <1>10, FrameEnds DEF GivesUp
  <2>1. CASE x # l
    <3>1. value'[x] = value[x] BY <1>7, <2>1 DEF Semaphores
    <3>2. ~ Takes(t, x)' BY <1>5, <2>1 DEF Takes
    <3>. QED BY <1>0, <1>10, <2>0, <3>1, <3>2, OtherLock
  <2>2. CASE x = l
    <3>0. value[x] # 0 BY <1>6, <2>2
    <3>1. \A u \in Threads \ {t} : ~ Takes(u, x)'
      BY <1>0, <1>10, <3>0, OthersTakeNot
    <3>2. holder[x] = NoThread /\ \A u \in Threads : x \in acquired[u] => holder[x] = u
      BY <3>0 DEF IInv, Owned
    <3>. QED BY <1>7, <1>10, <2>0, <2>2, <3>1, <3>2 DEF Owned
  <2>. QED BY <2>1, <2>2
<1>13. status[t] # "blocked"
  BY <1>0
<1>. QED BY <1>0, <1>8, <1>9, <1>10, <1>11, <1>12, <1>13, ThreadMoves

\* ... and later stores the holder.
LEMMA TryOwnKeeps ==
  ASSUME IInv, NEW t \in Threads, TryOwn(t)
  PROVE  IInv'
<1>. DEFINE l == loc[t].sema
<1>0. /\ cur = t /\ pc[t] = "tried" /\ in_external_intr = FALSE /\ status[t] = "running"
      /\ Place(t) /\ TypeOK /\ CodeTypes /\ RestTypes /\ LockTypes /\ don = NoFrame
  <2>1. At(t, "tried") BY DEF TryOwn
  <2>. QED BY <2>1, RunsOn
<1>1. /\ holder' = [holder EXCEPT ![l] = t] /\ loc' = [loc EXCEPT ![t] = NoLoc]
      /\ Goto(t, "run")
      /\ UNCHANGED <<sched_vars, prio_vars, waiting_lock, acquired, sema_vars, condition, don,
                     time_vars, calls, panic, missed>>
  BY DEF TryOwn
<1>2. l \in Locks /\ loc[t].child = NoThread
  BY <1>0 DEF Place, Creates, CreatePCs
<1>3. /\ Takes(t, l) /\ value[l] = 0 /\ holder[l] = NoThread
      /\ \A u \in Threads : l \notin acquired[u]
  <2>1. Takes(t, l) BY <1>0 DEF Takes
  <2>2. Owned(l) BY <1>2 DEF IInv
  <2>3. NoThread \notin Threads BY ThreadsAssumption
  <2>. QED BY <2>1, <2>2, <2>3 DEF Owned
<1>. HIDE DEF l
<1>4. /\ pc' \in [Threads -> IntrOn \cup IntrOff] /\ pc'[t] = "run"
      /\ \A u \in Threads \ {t} : pc'[u] = pc[u]
  BY <1>0, <1>1, GotoTyped DEF IntrOn
<1>5. /\ loc' \in [Threads -> Loc] /\ loc'[t] = NoLoc /\ \A u \in Threads \ {t} : loc'[u] = loc[u]
      /\ NoLoc.child = NoThread /\ NoLoc.ret = "run"
  <2>1. NoLoc.child = NoThread /\ NoLoc.ret = "run" BY DEF NoLoc
  <2>. QED BY <1>0, <1>1, <2>1, NoLocTyped, LocTyped
<1>6. holder'[l] = t /\ (\A x \in Locks \ {l} : holder'[x] = holder[x]) /\ LockTypes'
  BY <1>0, <1>1, <1>2 DEF LockTypes
<1>7. Switches(status)
  BY <1>1, SwitchesNot
<1>8. TypeOK'
  <2>1. PrioTypes' /\ SemaTypes' /\ TimeTypes' /\ RestTypes'
    BY <1>0, <1>1, SameTypes
  <2>2. CodeTypes' BY <1>0, <1>1, <1>4, <1>5 DEF CodeTypes
  <2>. QED BY <1>6, <1>7, <2>1, <2>2, TypesNext DEF Switches
<1>9. /\ OnlyMoves(t) /\ loc'[t].child = loc[t].child /\ waiters' = waiters
      /\ sleeping' = sleeping /\ in_external_intr' = FALSE /\ don' = NoFrame
      /\ UNCHANGED <<value, acquired, waiting_lock, status>>
  BY <1>0, <1>1, <1>2, <1>4, <1>5 DEF OnlyMoves, sema_vars, sched_vars, time_vars
<1>10. Place(t)'
  BY <1>0, <1>4, <1>5, <1>9 DEF Place, Creates, CreatePCs
<1>11. ASSUME NEW x \in Locks PROVE Owned(x)'
  <2>0. ~ GivesUp(x)' /\ ~ Takes(t, x)'
    BY <1>4, <1>9, FrameEnds DEF GivesUp, Takes
  <2>1. CASE x # l
    BY <1>0, <1>6, <1>9, <2>0, <2>1, OtherLock
  <2>2. CASE x = l
    <3>1. \A u \in Threads \ {t} : ~ Takes(u, x)'
      BY <1>0, <1>2, <1>3, <1>9, <2>2, OthersTakeNot
    <3>. QED BY <1>3, <1>6, <1>9, <2>0, <2>2, <3>1 DEF Owned
  <2>. QED BY <2>1, <2>2
<1>12. \A u \in Threads \ {t} : holder[TidLock] = u => holder'[TidLock] = u
  <2>1. NoThread \notin Threads /\ TidLock \in Locks
    BY ThreadsAssumption DEF Locks, TidLock
  <2>. QED BY <1>3, <1>6, <2>1
<1>13. status[t] # "blocked"
  BY <1>0
<1>. QED BY <1>0, <1>7, <1>8, <1>9, <1>10, <1>11, <1>12, <1>13, ThreadMoves
-----------------------------------------------------------------------------
\* Condition variables.

\* cond_down waits at the semaphore of the thread's own semaphore_elem.
LEMMA CondDownKeeps ==
  ASSUME IInv, NEW t \in Threads, CondDown(t)
  PROVE  IInv'
<1>0. /\ cur = t /\ pc[t] = "cdown" /\ in_external_intr = FALSE /\ status[t] = "running"
      /\ Place(t) /\ TypeOK /\ CodeTypes /\ RestTypes /\ don = NoFrame
  <2>1. At(t, "cdown") BY DEF CondDown
  <2>. QED BY <2>1, RunsOn
<1>1. /\ loc' = [loc EXCEPT ![t].sema = t] /\ Goto(t, "down")
      /\ UNCHANGED <<sched_vars, prio_vars, lock_vars, sema_vars, condition, don, time_vars,
                     calls, panic, missed>>
  BY DEF CondDown
<1>2. t \in Semaphores /\ t \notin Locks
  BY ThreadsAssumption DEF Semaphores, Locks
<1>3. loc[t].ret = "run" /\ loc[t].child = NoThread
  BY <1>0 DEF Place, Creates, CreatePCs
<1>4. /\ pc' \in [Threads -> IntrOn \cup IntrOff] /\ pc'[t] = "down"
      /\ \A u \in Threads \ {t} : pc'[u] = pc[u]
  BY <1>0, <1>1, GotoTyped DEF IntrOff
<1>5. /\ loc' \in [Threads -> Loc] /\ \A u \in Threads \ {t} : loc'[u] = loc[u]
      /\ loc'[t].sema = t /\ loc'[t].ret = "run" /\ loc'[t].child = NoThread
  <2>1. "run" \in {"run", "cdown", "number", "unblock"} /\ t \in Threads \cup {NoThread}
    OBVIOUS
  <2>2. t \in Semaphores \cup {NoSema} BY <1>2
  <2>. QED BY <1>0, <1>1, <1>3, <2>1, <2>2, LocFields
<1>6. Switches(status)
  BY <1>1, SwitchesNot
<1>7. TypeOK'
  <2>1. PrioTypes' /\ SemaTypes' /\ LockTypes' /\ TimeTypes' /\ RestTypes'
    BY <1>0, <1>1, SameTypes
  <2>2. CodeTypes' BY <1>0, <1>1, <1>4, <1>5 DEF CodeTypes
  <2>. QED BY <1>6, <2>1, <2>2, TypesNext DEF Switches
<1>8. /\ OnlyMoves(t) /\ loc'[t].child = loc[t].child /\ waiters' = waiters
      /\ UNCHANGED <<value, holder, acquired, waiting_lock, status>>
  BY <1>1, <1>3, <1>4, <1>5 DEF OnlyMoves, sema_vars, sched_vars, lock_vars
<1>9. Place(t)'
  BY <1>0, <1>2, <1>4, <1>5, <1>8 DEF Place, Creates, CreatePCs
<1>10. don' = NoFrame /\ don'.then = "none"
  BY <1>0, <1>1, FrameEnds
<1>. QED BY <1>0, <1>1, <1>4, <1>6, <1>7, <1>8, <1>9, <1>10, QuietMove

\* A signal is a sema_up of the semaphore of one of the waiting threads.
LEMMA SignalKeeps ==
  ASSUME IInv, NEW t \in Threads, cur = t, pc[t] \in {"run", "broadcast"},
         in_external_intr = FALSE, Signal,
         UNCHANGED <<prio_vars, lock_vars, don, time_vars, pc, loc, panic, missed>>,
         calls' \in [DOMAIN Calls -> Nat]
  PROVE  IInv'
<1>0. /\ status[t] = "running" /\ Place(t) /\ TypeOK /\ CodeTypes /\ RestTypes /\ SemaTypes
      /\ don = NoFrame
  BY TypeGroups, RunningStatus, DonatesAlone DEF IInv, Places
<1>1. PICK i \in CondMax : condition' = RemoveAt(condition, i) /\ sema_up(condition[i])
  BY DEF Signal
<1>2. i \in DOMAIN condition
  <2>1. condition \in Seq(Threads) BY <1>0 DEF RestTypes
  <2>2. CASE Len(condition) = 1
    <3>1. i = 1 BY <1>1, <2>2 DEF CondMax
    <3>. QED BY <2>1, <2>2, <3>1
  <2>3. CASE Len(condition) # 1
    BY <2>3 DEF CondMax
  <2>. QED BY <2>2, <2>3
<1>. DEFINE s == condition[i]
<1>3. condition' \in Seq(Threads) /\ s \in Threads
  <2>1. condition \in Seq(Threads) BY <1>0 DEF RestTypes
  <2>. QED BY <1>1, <1>2, <2>1, RemovedAt
<1>4. sema_up(s)
  BY <1>1
<1>. HIDE DEF s
<1>5. s \in Semaphores /\ s \notin Locks
  BY <1>3, ThreadsAssumption DEF Semaphores, Locks
<1>6. /\ OnlyMoves(t) /\ loc'[t].child = loc[t].child /\ sleeping' = sleeping
      /\ priority' = priority /\ in_external_intr' = FALSE
      /\ UNCHANGED <<holder, acquired, waiting_lock>>
  BY DEF OnlyMoves, lock_vars, time_vars, prio_vars
<1>7. /\ waiters' \in [Semaphores -> Seq(Threads)]
      /\ SchedTypes' /\ Scheduled' /\ Waits' /\ cur' = cur
      /\ \A u \in Threads : status'[u] = "none" <=> status[u] = "none"
  BY <1>4, <1>5, <1>6, WaitsUp
<1>8. SemaTypes' /\ \A x \in Semaphores \ {s} : value'[x] = value[x]
  <2>1. value[s] + 1 \in Nat BY <1>0, <1>5 DEF SemaTypes
  <2>2. value' = [value EXCEPT ![s] = value[s] + 1] BY <1>4 DEF sema_up
  <2>. QED BY <1>0, <1>5, <1>7, <2>1, <2>2, ValueTyped
<1>9. TypeOK'
  <2>1. PrioTypes' /\ LockTypes' /\ TimeTypes' /\ CodeTypes'
    BY <1>0, SameTypes
  <2>4. RestTypes' BY <1>0, <1>3 DEF RestTypes
  <2>. QED BY <1>7, <1>8, <2>1, <2>4, TypesNext
<1>10. \A l \in Locks : value'[l] = value[l]
  BY <1>5, <1>8 DEF Semaphores
<1>11. Place(t)'
  BY <1>0, <1>6, <1>7 DEF Place, Creates
<1>12. don' = NoFrame /\ don'.then = "none" /\ pc'[t] \notin {"tried", "donate"}
  BY <1>0, FrameEnds
<1>13. \A l \in Locks : Owned(l)'
  BY <1>6, <1>10, <1>12, NothingTaken
<1>. QED BY <1>6, <1>7, <1>9, <1>11, <1>12, <1>13, AnyMove

LEMMA CondSignalKeeps ==
  ASSUME IInv, NEW t \in Threads, cond_signal(t)
  PROVE  IInv'
<1>0. /\ cur = t /\ pc[t] = "run" /\ in_external_intr = FALSE
      /\ calls' \in [DOMAIN Calls -> Nat]
  <2>1. Call(t, "cond") BY DEF cond_signal
  <2>. QED BY <2>1, Begins
<1>1. Signal /\ UNCHANGED <<prio_vars, lock_vars, don, time_vars, pc, loc, panic, missed>>
  BY DEF cond_signal
<1>. QED BY <1>0, <1>1, SignalKeeps

\* Thread t goes on outside of propagate_priorities and sema_down.
LEMMA GoesOn ==
  ASSUME IInv, NEW t \in Threads, cur = t, in_external_intr = FALSE, pc[t] # "donate",
         NEW l \in {"run", "broadcast"}, pc[t] \in {"run", "broadcast"}, Goto(t, l),
         UNCHANGED <<sched_vars, prio_vars, lock_vars, sema_vars, condition, don, time_vars, loc,
                     panic, missed>>,
         calls' \in [DOMAIN Calls -> Nat]
  PROVE  IInv'
<1>0. /\ status[t] = "running" /\ Place(t) /\ TypeOK /\ CodeTypes /\ RestTypes /\ don = NoFrame
  BY TypeGroups, RunningStatus, DonatesAlone DEF IInv, Places
<1>1. /\ pc' \in [Threads -> IntrOn \cup IntrOff] /\ pc'[t] = l
      /\ \A u \in Threads \ {t} : pc'[u] = pc[u]
  <2>1. l \in IntrOn \cup IntrOff BY DEF IntrOn
  <2>. QED BY <1>0, <2>1, GotoTyped
<1>2. Switches(status)
  BY SwitchesNot
<1>3. TypeOK'
  <2>1. PrioTypes' /\ SemaTypes' /\ LockTypes' /\ TimeTypes'
    BY <1>0, SameTypes
  <2>2. CodeTypes' BY <1>0, <1>1 DEF CodeTypes
  <2>3. RestTypes' BY <1>0 DEF RestTypes
  <2>. QED BY <1>2, <2>1, <2>2, <2>3, TypesNext DEF Switches
<1>4. /\ OnlyMoves(t) /\ loc'[t].child = loc[t].child /\ waiters' = waiters
      /\ UNCHANGED <<value, holder, acquired, status>>
  BY <1>1 DEF OnlyMoves, sema_vars, sched_vars, lock_vars
<1>5. Place(t)'
  BY <1>0, <1>1, <1>4 DEF Place, Creates, CreatePCs
<1>6. don' = NoFrame /\ don'.then = "none"
  BY <1>0, FrameEnds
<1>. QED BY <1>1, <1>2, <1>3, <1>4, <1>5, <1>6, QuietMove

LEMMA CondBroadcastKeeps ==
  ASSUME IInv, NEW t \in Threads, cond_broadcast(t)
  PROVE  IInv'
<1>0. /\ cur = t /\ pc[t] = "run" /\ in_external_intr = FALSE
      /\ calls' \in [DOMAIN Calls -> Nat]
  <2>1. Call(t, "cond") BY DEF cond_broadcast
  <2>. QED BY <2>1, Begins
<1>1. /\ Goto(t, "broadcast")
      /\ UNCHANGED <<sched_vars, prio_vars, lock_vars, sema_vars, condition, don, time_vars, loc,
                     panic, missed>>
  BY DEF cond_broadcast
<1>2. pc[t] # "donate" /\ pc[t] \in {"run", "broadcast"}
  BY <1>0
<1>. QED BY <1>0, <1>1, <1>2, GoesOn

LEMMA BroadcastNextKeeps ==
  ASSUME IInv, NEW t \in Threads, BroadcastNext(t)
  PROVE  IInv'
<1>0. /\ cur = t /\ pc[t] = "broadcast" /\ in_external_intr = FALSE /\ RestTypes
  <2>1. At(t, "broadcast") BY DEF BroadcastNext
  <2>. QED BY <2>1, RunsOn
<1>1. UNCHANGED <<prio_vars, lock_vars, don, time_vars, loc, calls, panic, missed>>
  BY DEF BroadcastNext
<1>2. calls' \in [DOMAIN Calls -> Nat] /\ pc[t] # "donate" /\ pc[t] \in {"run", "broadcast"}
  BY <1>0, <1>1 DEF RestTypes
<1>3. ASSUME Signal, pc' = pc PROVE IInv'
  BY <1>0, <1>1, <1>2, <1>3, SignalKeeps
<1>4. ASSUME Goto(t, "run"), UNCHANGED <<condition, sema_vars, sched_vars>> PROVE IInv'
  BY <1>0, <1>1, <1>2, <1>4, GoesOn
<1>. QED BY <1>3, <1>4 DEF BroadcastNext

-----------------------------------------------------------------------------
\* The life of a thread, and its sleep.

LEMMA ThreadCreateKeeps ==
  ASSUME IInv, NEW t \in Threads, thread_create(t)
  PROVE  IInv'
<1>0. /\ cur = t /\ pc[t] = "run" /\ in_external_intr = FALSE /\ status[t] = "running"
      /\ Place(t) /\ TypeOK /\ CodeTypes /\ RestTypes /\ LockTypes /\ SchedTypes /\ PrioTypes
      /\ Scheduled /\ don = NoFrame /\ loc[t].ret = "run" /\ loc[t].child = NoThread
      /\ calls' \in [DOMAIN Calls -> Nat]
  <2>1. Call(t, "create") BY DEF thread_create
  <2>. QED BY <2>1, Begins
<1>1. PICK c \in Threads, p \in Priorities :
        /\ status[c] = "none"
        /\ status' = [status EXCEPT ![c] = "blocked"]
        /\ priority' = [priority EXCEPT ![c] = p]
        /\ old_priority' = [old_priority EXCEPT ![c] = p]
        /\ loc' = [loc EXCEPT ![t] = [NoLoc EXCEPT !.child = c, !.sema = TidLock,
                                      !.holder = holder[TidLock], !.ret = "number"]]
  BY DEF thread_create
<1>2. /\ waiting_lock' = [waiting_lock EXCEPT ![t] = TidLock]
      /\ Donate(t, holder[TidLock], priority[t], "yield", TidLock, 0)
      /\ UNCHANGED <<cur, ready, thread_ticks, holder, acquired, sema_vars, condition,
                     time_vars, panic, missed>>
  BY DEF thread_create
<1>3. /\ TidLock \in Locks /\ TidLock \in Semaphores /\ holder[TidLock] \in Threads \cup {NoThread}
      /\ c # t /\ c # NoThread
  BY <1>0, <1>1, ThreadsAssumption DEF Locks, TidLock, Semaphores, LockTypes
<1>4. /\ don' \in Frame /\ don' # NoFrame /\ don'.then = "yield"
      /\ pc' \in [Threads -> IntrOn \cup IntrOff] /\ pc'[t] = "donate"
      /\ \A u \in Threads \ {t} : pc'[u] = pc[u]
  <2>1. 0 \in Priorities BY ThreadsAssumption DEF Priorities
  <2>2. priority[t] \in Priorities BY <1>0 DEF PrioTypes
  <2>. QED BY <1>0, <1>2, <1>3, <2>1, <2>2, DonateTyped
<1>5. /\ loc' \in [Threads -> Loc] /\ \A u \in Threads \ {t} : loc'[u] = loc[u]
      /\ loc'[t].sema = TidLock /\ loc'[t].ret = "number" /\ loc'[t].child = c
  <2>. DEFINE x == [NoLoc EXCEPT !.child = c, !.sema = TidLock,
                                 !.holder = holder[TidLock], !.ret = "number"]
  <2>1. x \in Loc BY <1>3, NoLocTyped DEF Loc
  <2>2. x.sema = TidLock /\ x.child = c /\ x.ret = "number" BY DEF NoLoc
  <2>3. loc' = [loc EXCEPT ![t] = x] BY <1>1
  <2>. HIDE DEF x
  <2>. QED BY <1>0, <2>1, <2>2, <2>3, LocTyped
<1>6. LockTypes' /\ waiting_lock'[t] = TidLock
      /\ \A u \in Threads \ {t} : waiting_lock'[u] = waiting_lock[u]
  BY <1>0, <1>2, <1>3 DEF LockTypes
<1>7. /\ \A u \in Threads : status'[u] = IF u = c THEN "blocked" ELSE status[u]
      /\ PrioTypes' /\ SchedTypes'
      /\ \A u \in Threads : u # c => priority'[u] = priority[u]
  BY <1>0, <1>1, <1>2 DEF PrioTypes, SchedTypes, Statuses
<1>8. Scheduled'
  <2>1. /\ ready \in Lists /\ status \in States /\ priority \in [Threads -> Priorities]
        /\ priority' \in [Threads -> Priorities] /\ Listed(ready, status, priority)
        /\ status[c] # "ready" /\ "blocked" \in Statuses \ {"ready"}
    BY <1>0, <1>1, <1>7 DEF Scheduled, SchedTypes, PrioTypes, Lists, States, Statuses
  <2>2. Listed(ready, [status EXCEPT ![c] = "blocked"], priority')
    BY <1>7, <2>1, StatusOnly
  <2>3. Listed(ready', status', priority')
    BY <1>1, <1>2, <2>2
  <2>4. \A u \in Threads : status'[u] = "running" <=> u = cur'
    BY <1>0, <1>2, <1>3, <1>7 DEF Scheduled
  <2>. QED BY <2>3, <2>4 DEF Scheduled
<1>9. TypeOK'
  <2>1. SemaTypes' /\ TimeTypes' BY <1>0, <1>2, SameTypes
  <2>2. CodeTypes' BY <1>4, <1>5 DEF CodeTypes
  <2>3. RestTypes' BY <1>0, <1>2 DEF RestTypes
  <2>. QED BY <1>6, <1>7, <2>1, <2>2, <2>3, TypesNext
<1>10. OnlyMoves(t) /\ in_external_intr' = FALSE /\ sleeping' = sleeping /\ waiters' = waiters
       /\ cur' = t /\ UNCHANGED <<value, holder, acquired>>
  BY <1>0, <1>2, <1>4, <1>5, <1>6 DEF OnlyMoves, time_vars, sema_vars
<1>11. Waits'
  <2>0. Waits BY DEF IInv
  <2>1. /\ pc[c] = "run" /\ c \notin ToSet(sleeping) /\ ~ Queued(c) /\ ~ Child(c)
    <3>1. Place(c) BY DEF IInv, Places
    <3>2. pc[c] = "run" BY <1>1, <3>1 DEF Place
    <3>. QED BY <1>1, <2>0, <3>2 DEF Waits, Queued
  <2>2. \A u \in Threads : Queued(u)' <=> Queued(u)
    BY <1>10 DEF Queued
  <2>3. \A u \in Threads : Child(u)' <=> Child(u) \/ u = c
    <3>1. ASSUME NEW u \in Threads, Child(u) PROVE Child(u)'
      <4>1. PICK v \in Threads : loc[v].child = u BY <3>1 DEF Child
      <4>2. v # t BY <1>0, <4>1, ThreadsAssumption
      <4>. QED BY <1>5, <4>1, <4>2 DEF Child
    <3>2. ASSUME NEW u \in Threads, Child(u)', u # c PROVE Child(u)
      <4>1. PICK v \in Threads : loc'[v].child = u BY <3>2 DEF Child
      <4>2. v # t BY <1>5, <3>2, <4>1
      <4>. QED BY <1>5, <4>1, <4>2 DEF Child
    <3>3. Child(c)' BY <1>5 DEF Child
    <3>. QED BY <3>1, <3>2, <3>3
  <2>4. ASSUME NEW u \in Threads, NEW v \in Threads,
               loc'[u].child = loc'[v].child, loc'[u].child # NoThread
        PROVE  u = v
    <3>1. \A x \in Threads : loc[x].child # c
      BY <2>1 DEF Child
    <3>2. CASE u = t \/ v = t
      BY <1>5, <2>4, <3>1, <3>2
    <3>3. CASE u # t /\ v # t
      BY <1>5, <2>0, <2>4, <3>3 DEF Waits
    <3>. QED BY <3>2, <3>3
  <2>5. ASSUME NEW u \in Threads
        PROVE  /\ u \in ToSet(sleeping') => status'[u] = "blocked" /\ pc'[u] = "run"
               /\ \A x \in Semaphores : u \in ToSet(waiters'[x]) =>
                    status'[u] = "blocked" /\ pc'[u] = "down" /\ loc'[u].sema = x
               /\ Child(u)' => status'[u] = "blocked" /\ pc'[u] = "run" /\ u \notin ToSet(sleeping')
               /\ status'[u] = "blocked" => u \in ToSet(sleeping') \/ Queued(u)' \/ Child(u)'
    <3>1. /\ u \in ToSet(sleeping) => status[u] = "blocked" /\ pc[u] = "run"
          /\ \A x \in Semaphores : u \in ToSet(waiters[x]) =>
               status[u] = "blocked" /\ pc[u] = "down" /\ loc[u].sema = x
          /\ Child(u) => status[u] = "blocked" /\ pc[u] = "run" /\ u \notin ToSet(sleeping)
          /\ status[u] = "blocked" => u \in ToSet(sleeping) \/ Queued(u) \/ Child(u)
      BY <2>0 DEF Waits
    <3>2. u # t => pc'[u] = pc[u] /\ loc'[u] = loc[u]
      BY <1>4, <1>5
    <3>. QED BY <1>0, <1>3, <1>7, <1>10, <2>1, <2>2, <2>3, <3>1, <3>2
  <2>6. IsInjective(sleeping') /\ \A s \in Semaphores : IsInjective(waiters'[s])
    BY <1>10, <2>0 DEF Waits
  <2>. QED BY <2>4, <2>5, <2>6 DEF Waits
<1>12. Place(t)'
  BY <1>0, <1>3, <1>4, <1>5, <1>6, <1>7, <1>10 DEF Place, Creates, CreatePCs
<1>13. \A l \in Locks : Owned(l)'
  BY <1>0, <1>4, <1>10, NothingTaken
<1>14. \A u \in Threads \ {t} : status'[u] = "none" => status[u] = "none"
  BY <1>7
<1>15. don'.then # "none"
  BY <1>4
<1>. QED BY <1>0, <1>4, <1>8, <1>9, <1>10, <1>11, <1>12, <1>13, <1>14, <1>15, AnyMove
\* The new thread is ready, and its creator yields to it when it comes first.
LEMMA CreateUnblockKeeps ==
  ASSUME IInv, NEW t \in Threads, CreateUnblock(t)
  PROVE  IInv'
<1>. DEFINE c == loc[t].child
            rd == add_ready_thread(ready, c, priority[c])
            st == [status EXCEPT ![c] = "ready"]
<1>0. /\ cur = t /\ pc[t] = "unblock" /\ in_external_intr = FALSE /\ status[t] = "running"
      /\ Place(t) /\ TypeOK /\ CodeTypes /\ RestTypes /\ LockTypes /\ SchedTypes /\ PrioTypes
      /\ Scheduled /\ don = NoFrame
  <2>1. At(t, "unblock") BY DEF CreateUnblock
  <2>. QED BY <2>1, RunsOn
<1>1. /\ IF priority[t] < priority[c] THEN thread_yield(t, rd, st)
         ELSE ready' = rd /\ status' = st /\ UNCHANGED <<cur, thread_ticks>>
      /\ Goto(t, "run") /\ loc' = [loc EXCEPT ![t] = NoLoc]
      /\ UNCHANGED <<prio_vars, lock_vars, sema_vars, condition, don, time_vars, calls, panic,
                     missed>>
  BY DEF CreateUnblock
<1>2. c \in Threads
  <2>1. c # NoThread BY <1>0 DEF Place, Creates, CreatePCs
  <2>2. loc[t] \in Loc BY <1>0 DEF CodeTypes
  <2>. QED BY <2>1, <2>2 DEF Loc
<1>3. Child(c)
  BY <1>2 DEF Child
<1>. HIDE DEF c
<1>4. status[c] = "blocked" /\ pc[c] = "run" /\ c \notin ToSet(sleeping) /\ ~ Queued(c) /\ c # t
  <2>1. status[c] = "blocked" /\ pc[c] = "run" /\ c \notin ToSet(sleeping)
    BY <1>2, <1>3 DEF IInv, Waits
  <2>2. ~ Queued(c) BY <1>2, <2>1 DEF IInv, Waits, Queued
  <2>. QED BY <1>0, <2>1, <2>2
<1>5. /\ ready \in Lists /\ status \in States /\ priority \in [Threads -> Priorities]
      /\ Listed(ready, status, priority) /\ priority' = priority
  BY <1>0, <1>1 DEF SchedTypes, PrioTypes, Lists, States, Scheduled, prio_vars
<1>6. /\ rd \in Lists /\ st \in States /\ Listed(rd, st, priority)
      /\ \A u \in Threads : st[u] = IF u = c THEN "ready" ELSE status[u]
  <2>1. status[c] # "ready" BY <1>4
  <2>2. \A u \in Threads : st[u] = IF u = c THEN "ready" ELSE status[u]
    BY <1>2, <1>5 DEF States
  <2>. QED BY <1>2, <1>5, <2>1, <2>2, Unblocks
<1>. HIDE DEF rd, st
<1>7. \A u \in Threads : st[u] = "running" <=> u = t
  BY <1>0, <1>4, <1>6 DEF Scheduled
<1>8. Switches(st)
  <2>1. CASE priority[t] < priority[c]
    <3>1. thread_yield(t, rd, st) BY <1>1, <2>1
    <3>. QED BY <1>0, <1>5, <1>6, <1>7, <3>1, Yields
  <2>2. CASE ~ (priority[t] < priority[c])
    <3>1. ready' = rd /\ status' = st /\ cur' = cur /\ thread_ticks' = thread_ticks
      BY <1>1, <2>2
    <3>2. SchedTypes' BY <1>0, <1>6, <3>1 DEF SchedTypes, Lists, States
    <3>. QED BY <1>0, <1>5, <1>6, <1>7, <3>1, <3>2 DEF Switches, Scheduled
  <2>. QED BY <2>1, <2>2
<1>9. /\ pc' \in [Threads -> IntrOn \cup IntrOff] /\ pc'[t] = "run"
      /\ \A u \in Threads \ {t} : pc'[u] = pc[u]
  BY <1>0, <1>1, GotoTyped DEF IntrOn
<1>10. /\ loc' \in [Threads -> Loc] /\ loc'[t] = NoLoc /\ \A u \in Threads \ {t} : loc'[u] = loc[u]
       /\ NoLoc.child = NoThread /\ NoLoc.ret = "run"
  <2>1. NoLoc.child = NoThread /\ NoLoc.ret = "run" BY DEF NoLoc
  <2>. QED BY <1>0, <1>1, <2>1, NoLocTyped, LocTyped
<1>11. TypeOK'
  <2>1. PrioTypes' /\ LockTypes' /\ SemaTypes' /\ TimeTypes' /\ RestTypes'
    BY <1>0, <1>1, SameTypes
  <2>2. CodeTypes' BY <1>0, <1>1, <1>9, <1>10 DEF CodeTypes
  <2>. QED BY <1>8, <2>1, <2>2, TypesNext DEF Switches
<1>12. /\ OnlyMoves(t) /\ in_external_intr' = FALSE /\ sleeping' = sleeping /\ waiters' = waiters
       /\ UNCHANGED <<value, holder, acquired>> /\ don' = NoFrame /\ don'.then = "none"
  BY <1>0, <1>1, <1>9, <1>10, FrameEnds DEF OnlyMoves, time_vars, sema_vars, lock_vars
<1>13. \A u \in Threads : /\ status'[u] = "blocked" <=> status[u] = "blocked" /\ u # c
                          /\ status'[u] = "none" <=> status[u] = "none"
  BY <1>4, <1>6, <1>8 DEF Switches
<1>14. Waits'
  <2>0. Waits BY DEF IInv
  <2>1. \A u \in Threads : Queued(u)' <=> Queued(u)
    BY <1>12 DEF Queued
  <2>2. \A v \in Threads \ {t} : loc[v].child # c
    <3>1. c # NoThread BY <1>2, ThreadsAssumption
    <3>2. loc[t].child = c BY DEF c
    <3>. QED BY <2>0, <3>1, <3>2 DEF Waits
  <2>3. \A u \in Threads : Child(u)' <=> Child(u) /\ u # c
    <3>1. ASSUME NEW u \in Threads, Child(u), u # c PROVE Child(u)'
      <4>1. PICK v \in Threads : loc[v].child = u BY <3>1 DEF Child
      <4>2. v # t BY <3>1, <4>1 DEF c
      <4>. QED BY <1>10, <4>1, <4>2 DEF Child
    <3>2. ASSUME NEW u \in Threads, Child(u)' PROVE Child(u) /\ u # c
      <4>1. PICK v \in Threads : loc'[v].child = u BY <3>2 DEF Child
      <4>2. v # t BY <1>10, <4>1, ThreadsAssumption
      <4>. QED BY <1>10, <2>2, <4>1, <4>2 DEF Child
    <3>. QED BY <3>1, <3>2
  <2>4. ASSUME NEW u \in Threads, NEW v \in Threads,
               loc'[u].child = loc'[v].child, loc'[u].child # NoThread
        PROVE  u = v
    BY <1>10, <2>0, <2>4 DEF Waits
  <2>5. ASSUME NEW u \in Threads
        PROVE  /\ u \in ToSet(sleeping') => status'[u] = "blocked" /\ pc'[u] = "run"
               /\ \A x \in Semaphores : u \in ToSet(waiters'[x]) =>
                    status'[u] = "blocked" /\ pc'[u] = "down" /\ loc'[u].sema = x
               /\ Child(u)' => status'[u] = "blocked" /\ pc'[u] = "run" /\ u \notin ToSet(sleeping')
               /\ status'[u] = "blocked" => u \in ToSet(sleeping') \/ Queued(u)' \/ Child(u)'
    <3>1. /\ u \in ToSet(sleeping) => status[u] = "blocked" /\ pc[u] = "run"
          /\ \A x \in Semaphores : u \in ToSet(waiters[x]) =>
               status[u] = "blocked" /\ pc[u] = "down" /\ loc[u].sema = x
          /\ Child(u) => status[u] = "blocked" /\ pc[u] = "run" /\ u \notin ToSet(sleeping)
          /\ status[u] = "blocked" => u \in ToSet(sleeping) \/ Queued(u) \/ Child(u)
      BY <2>0 DEF Waits
    <3>2. u # t => pc'[u] = pc[u] /\ loc'[u] = loc[u]
      BY <1>9, <1>10
    <3>3. \A x \in Semaphores : u \in ToSet(waiters[x]) => u # c
      BY <1>4 DEF Queued
    <3>. QED BY <1>0, <1>4, <1>12, <1>13, <2>1, <2>3, <3>1, <3>2, <3>3
  <2>6. IsInjective(sleeping') /\ \A s \in Semaphores : IsInjective(waiters'[s])
    BY <1>12, <2>0 DEF Waits
  <2>. QED BY <2>4, <2>5, <2>6 DEF Waits
<1>15. Place(t)'
  BY <1>0, <1>9, <1>10, <1>12, <1>13 DEF Place, Creates, CreatePCs
<1>16. \A l \in Locks : Owned(l)'
  BY <1>0, <1>9, <1>12, NothingTaken
<1>. QED BY <1>0, <1>8, <1>11, <1>12, <1>13, <1>14, <1>15, <1>16, AnyMove DEF Switches

LEMMA ThreadExitKeeps ==
  ASSUME IInv, NEW t \in Threads, thread_exit(t)
  PROVE  IInv'
<1>. DEFINE st == [status EXCEPT ![t] = "none"]
<1>0. /\ cur = t /\ pc[t] = "run" /\ in_external_intr = FALSE /\ status[t] = "running"
      /\ Place(t) /\ TypeOK /\ SchedTypes /\ PrioTypes /\ Scheduled /\ don = NoFrame
  <2>1. At(t, "run") BY DEF thread_exit
  <2>. QED BY <2>1, RunsOn
<1>1. /\ schedule(ready, st)
      /\ priority' = [priority EXCEPT ![t] = 0]
      /\ old_priority' = [old_priority EXCEPT ![t] = 0]
      /\ UNCHANGED <<lock_vars, sema_vars, condition, don, time_vars, pc, loc, calls, panic,
                     missed>>
  BY DEF thread_exit
<1>2. PrioTypes' /\ \A u \in Threads : u # t => priority'[u] = priority[u]
  <2>1. 0 \in Priorities BY ThreadsAssumption DEF Priorities
  <2>. QED BY <1>0, <1>1, <2>1 DEF PrioTypes
<1>3. /\ ready \in Lists /\ st \in States /\ Listed(ready, st, priority')
      /\ \A u \in Threads : st[u] = IF u = t THEN "none" ELSE status[u]
  <2>1. /\ ready \in Lists /\ status \in States /\ priority \in [Threads -> Priorities]
        /\ priority' \in [Threads -> Priorities] /\ Listed(ready, status, priority)
        /\ status[t] # "ready" /\ "none" \in Statuses \ {"ready"}
    BY <1>0, <1>2 DEF Scheduled, SchedTypes, PrioTypes, Lists, States, Statuses
  <2>2. \A u \in Threads : st[u] = IF u = t THEN "none" ELSE status[u]
    BY <2>1 DEF States
  <2>. QED BY <1>2, <2>1, <2>2, StatusOnly
<1>. HIDE DEF st
<1>4. \A u \in Threads : st[u] # "running"
  BY <1>0, <1>3 DEF Scheduled
<1>5. Switches(st)
  BY <1>1, <1>3, <1>4, Schedules
<1>6. TypeOK'
  <2>1. SemaTypes' /\ LockTypes' /\ TimeTypes' /\ CodeTypes' /\ RestTypes'
    BY <1>0, <1>1, SameTypes
  <2>. QED BY <1>2, <1>5, <2>1, TypesNext DEF Switches
<1>7. /\ OnlyMoves(t) /\ loc'[t].child = loc[t].child /\ waiters' = waiters
      /\ sleeping' = sleeping /\ in_external_intr' = FALSE /\ pc'[t] = "run"
      /\ UNCHANGED <<value, holder, acquired>> /\ don' = NoFrame /\ don'.then = "none"
  BY <1>0, <1>1, FrameEnds DEF OnlyMoves, time_vars, sema_vars, lock_vars
<1>8. Place(t)'
  BY <1>0, <1>1, <1>7 DEF Place, Creates, CreatePCs
<1>9. \A l \in Locks : Owned(l)'
  BY <1>0, <1>7, NothingTaken
<1>10. st[t] # "blocked" /\ \A u \in Threads \ {t} : st[u] = status[u]
  BY <1>3
<1>. QED BY <1>0, <1>5, <1>6, <1>7, <1>8, <1>9, <1>10, ThreadMoves

\* The deadline is computed with interrupts on, ...
LEMMA TimerSleepKeeps ==
  ASSUME IInv, NEW t \in Threads, timer_sleep(t)
  PROVE  IInv'
<1>0. /\ cur = t /\ pc[t] = "run" /\ in_external_intr = FALSE /\ status[t] = "running"
      /\ Place(t) /\ TypeOK /\ CodeTypes /\ RestTypes /\ TimeTypes /\ don = NoFrame
      /\ calls' \in [DOMAIN Calls -> Nat]
  <2>1. Call(t, "wait") BY DEF timer_sleep
  <2>. QED BY <2>1, Begins
<1>1. PICK n \in Sleeps : ticks + n <= MaxTicks /\ loc' = [loc EXCEPT ![t].wake = ticks + n]
  BY DEF timer_sleep
<1>2. /\ Goto(t, "sleep")
      /\ UNCHANGED <<sched_vars, prio_vars, lock_vars, sema_vars, condition, don, time_vars,
                     panic, missed>>
  BY DEF timer_sleep
<1>3. /\ loc' \in [Threads -> Loc] /\ \A u \in Threads \ {t} : loc'[u] = loc[u]
      /\ loc'[t].sema = loc[t].sema /\ loc'[t].ret = loc[t].ret /\ loc'[t].child = loc[t].child
  <2>. DEFINE x == [loc[t] EXCEPT !.wake = ticks + n]
  <2>1. ticks + n \in Int /\ ticks + n <= MaxTicks
    BY <1>0, <1>1, ThreadsAssumption DEF TimeTypes
  <2>2. loc[t] \in Loc BY <1>0 DEF CodeTypes
  <2>3. /\ x \in Loc /\ x.sema = loc[t].sema /\ x.ret = loc[t].ret /\ x.child = loc[t].child
    BY <2>1, <2>2 DEF Loc
  <2>4. loc' = [loc EXCEPT ![t] = x] BY <1>0, <1>1 DEF CodeTypes
  <2>. HIDE DEF x
  <2>. QED BY <1>0, <2>3, <2>4, LocTyped
<1>4. /\ pc' \in [Threads -> IntrOn \cup IntrOff] /\ pc'[t] = "sleep"
      /\ \A u \in Threads \ {t} : pc'[u] = pc[u]
  BY <1>0, <1>2, GotoTyped DEF IntrOn
<1>5. Switches(status)
  BY <1>2, SwitchesNot
<1>6. TypeOK'
  <2>1. PrioTypes' /\ SemaTypes' /\ LockTypes' /\ TimeTypes'
    BY <1>0, <1>2, SameTypes
  <2>2. CodeTypes' BY <1>0, <1>2, <1>3, <1>4 DEF CodeTypes
  <2>3. RestTypes' BY <1>0, <1>2 DEF RestTypes
  <2>. QED BY <1>5, <2>1, <2>2, <2>3, TypesNext DEF Switches
<1>7. /\ OnlyMoves(t) /\ waiters' = waiters /\ UNCHANGED <<value, holder, acquired, status>>
  BY <1>2, <1>3, <1>4 DEF OnlyMoves, sema_vars, sched_vars, lock_vars
<1>8. Place(t)'
  BY <1>0, <1>3, <1>4, <1>7 DEF Place, Creates, CreatePCs
<1>9. don' = NoFrame /\ don'.then = "none"
  BY <1>0, <1>2, FrameEnds
<1>. QED BY <1>0, <1>2, <1>3, <1>4, <1>5, <1>6, <1>7, <1>8, <1>9, QuietMove

\* ... and with interrupts off the thread takes its place among the sleepers.
LEMMA Inserted ==
  ASSUME NEW t \in Threads, sleeping \in Seq(Threads)
  PROVE  \E k \in 1 .. Len(sleeping) + 1 :
           /\ Insert(t) \in Seq(Threads) /\ OneMore(sleeping, Insert(t), k, t)
           /\ \A i \in 1 .. Len(sleeping) : i < k => ~ (loc[t].wake < loc[sleeping[i]].wake)
           /\ k <= Len(sleeping) => loc[t].wake < loc[sleeping[k]].wake
<1>. DEFINE n == Len(sleeping)
            I == {i \in 1 .. n : loc[t].wake < loc[sleeping[i]].wake}
            k == SelectInSeq(sleeping, LAMBDA u : loc[t].wake < loc[u].wake)
<1>1. n \in Nat /\ I \in SUBSET Nat
  OBVIOUS
<1>2. k = IF I # {} THEN Min(I) ELSE 0
  BY DEF SelectInSeq
<1>3. Insert(t) = IF k = 0 THEN Append(sleeping, t) ELSE InsertAt(sleeping, k, t)
  BY DEF Insert
<1>. HIDE DEF k
<1>4. CASE I = {}
  <2>1. Insert(t) = Append(sleeping, t) BY <1>2, <1>3, <1>4
  <2>2. OneMore(sleeping, Append(sleeping, t), n + 1, t) /\ Append(sleeping, t) \in Seq(Threads)
    BY AppendedList
  <2>3. n + 1 \in 1 .. n + 1 /\ ~ (n + 1 <= n) BY <1>1
  <2>4. \A i \in 1 .. n : ~ (loc[t].wake < loc[sleeping[i]].wake) BY <1>4
  <2>. QED BY <2>1, <2>2, <2>3, <2>4
<1>5. CASE I # {}
  <2>1. k \in I /\ \A i \in I : k <= i
    <3>1. Min(I) \in I /\ \A i \in I : Min(I) <= i BY <1>1, <1>5, LeastElement
    <3>. QED BY <1>2, <1>5, <3>1
  <2>2. k \in 1 .. n /\ k \in 1 .. n + 1 /\ k # 0 BY <1>1, <2>1
  <2>3. Insert(t) = InsertAt(sleeping, k, t) BY <1>3, <2>2
  <2>4. OneMore(sleeping, InsertAt(sleeping, k, t), k, t) /\ InsertAt(sleeping, k, t) \in Seq(Threads)
    BY <2>2, InsertedAt
  <2>5. loc[t].wake < loc[sleeping[k]].wake BY <2>1
  <2>6. \A i \in 1 .. n : i < k => ~ (loc[t].wake < loc[sleeping[i]].wake)
    <3>1. ASSUME NEW i \in 1 .. n, i < k, loc[t].wake < loc[sleeping[i]].wake PROVE FALSE
      <4>1. i \in I BY <3>1
      <4>2. k <= i BY <2>1, <4>1
      <4>. QED BY <1>1, <2>2, <3>1, <4>2
    <3>. QED BY <3>1
  <2>. QED BY <2>2, <2>3, <2>4, <2>5, <2>6
<1>. QED BY <1>4, <1>5

LEMMA SleepBlockKeeps ==
  ASSUME IInv, NEW t \in Threads, SleepBlock(t)
  PROVE  IInv'
<1>. DEFINE st == [status EXCEPT ![t] = "blocked"]
<1>0. /\ cur = t /\ pc[t] = "sleep" /\ in_external_intr = FALSE /\ status[t] = "running"
      /\ Place(t) /\ TypeOK /\ CodeTypes /\ TimeTypes /\ SchedTypes /\ Scheduled /\ don = NoFrame
  <2>1. At(t, "sleep") BY DEF SleepBlock
  <2>. QED BY <2>1, RunsOn
<1>1. /\ sleeping' = Insert(t) /\ thread_block(t) /\ Goto(t, "run")
      /\ UNCHANGED <<prio_vars, lock_vars, sema_vars, condition, don, ticks, in_external_intr,
                     loc, calls, panic, missed>>
  BY DEF SleepBlock
<1>2. Switches(st)
  BY <1>0, <1>1, Blocks DEF prio_vars
<1>3. \A u \in Threads : /\ status'[u] = "blocked" <=> status[u] = "blocked" \/ u = t
                         /\ status'[u] = "none" <=> status[u] = "none"
  BY <1>0, <1>2 DEF Switches, SchedTypes
<1>. HIDE DEF st
<1>4. t \notin ToSet(sleeping) /\ ~ Child(t) /\ ~ Queued(t)
  BY <1>0, RunningStatus DEF IInv, Waits, Queued
<1>5. /\ sleeping' \in Seq(Threads) /\ ToSet(sleeping') = ToSet(sleeping) \cup {t}
      /\ IsInjective(sleeping')
  <2>1. sleeping \in Seq(Threads) BY <1>0 DEF TimeTypes
  <2>2. PICK k : sleeping' \in Seq(Threads) /\ OneMore(sleeping, sleeping', k, t)
    BY <1>1, <2>1, Inserted
  <2>3. IsInjective(sleeping) BY DEF IInv, Waits
  <2>. QED BY <1>4, <2>1, <2>2, <2>3, OneMoreElement
<1>6. /\ pc' \in [Threads -> IntrOn \cup IntrOff] /\ pc'[t] = "run"
      /\ \A u \in Threads \ {t} : pc'[u] = pc[u]
  BY <1>0, <1>1, GotoTyped DEF IntrOn
<1>7. TypeOK'
  <2>1. PrioTypes' /\ SemaTypes' /\ LockTypes' /\ RestTypes'
    BY <1>0, <1>1, SameTypes
  <2>2. CodeTypes' BY <1>0, <1>1, <1>6 DEF CodeTypes
  <2>3. TimeTypes' BY <1>0, <1>1, <1>5 DEF TimeTypes
  <2>. QED BY <1>2, <2>1, <2>2, <2>3, TypesNext DEF Switches
<1>8. /\ OnlyMoves(t) /\ waiters' = waiters /\ UNCHANGED <<value, holder, acquired, loc>>
      /\ in_external_intr' = FALSE /\ don' = NoFrame /\ don'.then = "none"
  BY <1>0, <1>1, <1>6, FrameEnds DEF OnlyMoves, sema_vars, lock_vars
<1>9. Waits'
  <2>0. Waits BY DEF IInv
  <2>1. \A u \in Threads : Queued(u)' <=> Queued(u)
    BY <1>8 DEF Queued
  <2>2. \A u \in Threads : Child(u)' <=> Child(u)
    BY <1>8 DEF Child
  <2>3. ASSUME NEW u \in Threads
        PROVE  /\ u \in ToSet(sleeping') => status'[u] = "blocked" /\ pc'[u] = "run"
               /\ \A x \in Semaphores : u \in ToSet(waiters'[x]) =>
                    status'[u] = "blocked" /\ pc'[u] = "down" /\ loc'[u].sema = x
               /\ Child(u)' => status'[u] = "blocked" /\ pc'[u] = "run" /\ u \notin ToSet(sleeping')
               /\ status'[u] = "blocked" => u \in ToSet(sleeping') \/ Queued(u)' \/ Child(u)'
               /\ \A v \in Threads :
                    loc'[u].child = loc'[v].child /\ loc'[u].child # NoThread => u = v
    <3>1. /\ u \in ToSet(sleeping) => status[u] = "blocked" /\ pc[u] = "run"
          /\ \A x \in Semaphores : u \in ToSet(waiters[x]) =>
               status[u] = "blocked" /\ pc[u] = "down" /\ loc[u].sema = x
          /\ Child(u) => status[u] = "blocked" /\ pc[u] = "run" /\ u \notin ToSet(sleeping)
          /\ status[u] = "blocked" => u \in ToSet(sleeping) \/ Queued(u) \/ Child(u)
          /\ \A v \in Threads :
               loc[u].child = loc[v].child /\ loc[u].child # NoThread => u = v
      BY <2>0 DEF Waits
    <3>. QED BY <1>0, <1>3, <1>4, <1>5, <1>6, <1>8, <2>1, <2>2, <3>1
  <2>4. \A s \in Semaphores : IsInjective(waiters'[s])
    BY <1>8, <2>0 DEF Waits
  <2>. QED BY <1>5, <2>3, <2>4 DEF Waits
<1>10. Place(t)'
  BY <1>0, <1>3, <1>6, <1>8 DEF Place, Creates, CreatePCs
<1>11. \A l \in Locks : Owned(l)'
  BY <1>0, <1>6, <1>8, NothingTaken
<1>. QED BY <1>0, <1>2, <1>3, <1>7, <1>8, <1>9, <1>10, <1>11, AnyMove DEF Switches, lock_vars
-----------------------------------------------------------------------------
\* The timer interrupt.

\* The handler moves no thread; where no call of propagate_priorities is under
\* way, it takes no lock.
LEMMA HandlerMoves ==
  ASSUME IInv, don = NoFrame, UNCHANGED <<lock_vars, value, don, pc>>,
         TypeOK', Scheduled', Waits', in_external_intr' => sleeping' # << >>,
         \A u \in Threads : loc'[u] = loc[u] \/ (loc'[u] = NoLoc /\ pc[u] = "run"),
         \A u \in Threads : status'[u] = "none" => status[u] = "none"
  PROVE  IInv'
<1>1. NoLoc.child = NoThread /\ NoLoc.ret = "run" /\ NoFrame.then = "none"
  BY DEF NoLoc, NoFrame
<1>2. ASSUME NEW u \in Threads PROVE Place(u)'
  <2>1. Place(u) /\ pc[u] # "donate"
    <3>1. Place(u) BY DEF IInv, Places
    <3>. QED BY <3>1 DEF Place
  <2>2. CASE loc'[u] = loc[u]
    BY <2>1, <2>2 DEF Place, Creates, lock_vars
  <2>3. CASE loc'[u] = NoLoc /\ pc[u] = "run"
    BY <1>1, <2>1, <2>3 DEF Place, Creates, CreatePCs, lock_vars
  <2>. QED BY <2>2, <2>3
<1>3. Places'
  BY <1>2 DEF Places
<1>4. ASSUME NEW l \in Locks PROVE Owned(l)'
  <2>1. ASSUME NEW u \in Threads, Takes(u, l)' PROVE Takes(u, l)
    BY <2>1 DEF Takes
  <2>. QED BY <2>1, OwnedStays DEF IInv, GivesUp, lock_vars
<1>. QED BY <1>3, <1>4 DEF IInv

\* No call of propagate_priorities is under way where the timer interrupts.
LEMMA InterruptsQuiet ==
  ASSUME IInv, cur # Idle => pc[cur] \in IntrOn
  PROVE  don = NoFrame
<1>1. Idle \notin Threads
  BY ThreadsAssumption
<1>. QED BY <1>1 DEF IInv, Places, IntrOn

LEMMA TimerInterruptKeeps ==
  ASSUME IInv, timer_interrupt
  PROVE  IInv'
<1>0. TypeOK /\ Scheduled /\ Waits /\ SchedTypes /\ PrioTypes /\ TimeTypes
  BY TypeGroups DEF IInv
<1>1. don = NoFrame
  BY InterruptsQuiet DEF timer_interrupt
<1>2. /\ ticks' = Now
      /\ in_external_intr' = Late(sleeping, Now)
      /\ IF Late(sleeping, Now) THEN UNCHANGED sched_vars ELSE intr_return(ready, status)
      /\ UNCHANGED <<prio_vars, lock_vars, sema_vars, condition, don, sleeping, pc, loc, calls,
                     panic, missed>>
  BY DEF timer_interrupt
<1>3. Switches(status)
  <2>1. CASE Late(sleeping, Now)
    BY <1>2, <2>1, SwitchesNot
  <2>2. CASE ~ Late(sleeping, Now)
    <3>1. intr_return(ready, status) /\ priority' = priority BY <1>2, <2>2 DEF prio_vars
    <3>2. /\ ready \in Lists /\ status \in States /\ Listed(ready, status, priority)
          /\ \A u \in Threads : status[u] = "running" <=> u = cur
      BY <1>0 DEF SchedTypes, Lists, States, Scheduled
    <3>. QED BY <1>0, <3>1, <3>2, Returns
  <2>. QED BY <2>1, <2>2
<1>4. Now \in 0 .. MaxTicks
  BY <1>0, ThreadsAssumption DEF Now, TimeTypes
<1>5. TypeOK'
  <2>1. PrioTypes' /\ SemaTypes' /\ LockTypes' /\ CodeTypes' /\ RestTypes'
    BY <1>0, <1>2, SameTypes
  <2>2. TimeTypes' BY <1>0, <1>2, <1>4 DEF TimeTypes, Late
  <2>. QED BY <1>3, <2>1, <2>2, TypesNext DEF Switches
<1>6. Waits'
  <2>1. \A u \in Threads : /\ Queued(u)' <=> Queued(u)
                           /\ Child(u)' <=> Child(u)
                           /\ status'[u] = "blocked" <=> status[u] = "blocked"
    BY <1>2, <1>3 DEF Queued, Child, Switches, sema_vars
  <2>. QED BY <1>0, <1>2, <2>1 DEF Waits, sema_vars
<1>7. in_external_intr' => sleeping' # << >>
  BY <1>2 DEF Late
<1>8. UNCHANGED <<lock_vars, value, don, pc, loc>>
  BY <1>2 DEF sema_vars
<1>. QED BY <1>1, <1>3, <1>5, <1>6, <1>7, <1>8, HandlerMoves DEF Switches

LEMMA WakeUpKeeps ==
  ASSUME IInv, wake_up_threads
  PROVE  IInv'
<1>. DEFINE t == Head(sleeping)
            rd == add_ready_thread(ready, t, priority[t])
            st == [status EXCEPT ![t] = "ready"]
<1>0. TypeOK /\ Scheduled /\ Waits /\ SchedTypes /\ PrioTypes /\ TimeTypes /\ CodeTypes
  BY TypeGroups DEF IInv
<1>1. don = NoFrame /\ sleeping # << >>
  BY DEF IInv, Places, wake_up_threads
<1>2. /\ sleeping' = Tail(sleeping)
      /\ loc' = [loc EXCEPT ![t] = NoLoc]
      /\ ticks' = IF Pending = {t} THEN 0 ELSE ticks
      /\ in_external_intr' = Late(Tail(sleeping), ticks)
      /\ IF Late(Tail(sleeping), ticks)
         THEN ready' = rd /\ status' = st /\ UNCHANGED <<cur, thread_ticks>>
         ELSE intr_return(rd, st)
      /\ UNCHANGED <<prio_vars, lock_vars, sema_vars, condition, don, pc, calls, panic, missed>>
  BY DEF wake_up_threads
<1>3. /\ Tail(sleeping) \in Seq(Threads) /\ t \in ToSet(sleeping) /\ t \in Threads
      /\ ToSet(Tail(sleeping)) = ToSet(sleeping) \ {t} /\ IsInjective(Tail(sleeping))
  <2>1. sleeping \in Seq(Threads) /\ IsInjective(sleeping) BY <1>0 DEF TimeTypes, Waits
  <2>. QED BY <1>1, <2>1, TailOfList
<1>. HIDE DEF t
<1>4. status[t] = "blocked" /\ pc[t] = "run" /\ ~ Queued(t) /\ ~ Child(t)
  BY <1>0, <1>3 DEF Waits, Queued
<1>5. /\ ready \in Lists /\ status \in States /\ priority \in [Threads -> Priorities]
      /\ Listed(ready, status, priority) /\ priority' = priority
  BY <1>0, <1>2 DEF SchedTypes, PrioTypes, Lists, States, Scheduled, prio_vars
<1>6. /\ rd \in Lists /\ st \in States /\ Listed(rd, st, priority)
      /\ \A u \in Threads : st[u] = IF u = t THEN "ready" ELSE status[u]
  <2>1. status[t] # "ready" BY <1>4
  <2>2. \A u \in Threads : st[u] = IF u = t THEN "ready" ELSE status[u]
    BY <1>3, <1>5 DEF States
  <2>. QED BY <1>3, <1>5, <2>1, <2>2, Unblocks
<1>. HIDE DEF rd, st
<1>7. \A u \in Threads : st[u] = "running" <=> u = cur
  BY <1>0, <1>4, <1>6 DEF Scheduled
<1>8. Switches(st)
  <2>1. CASE Late(Tail(sleeping), ticks)
    <3>1. ready' = rd /\ status' = st /\ cur' = cur /\ thread_ticks' = thread_ticks
      BY <1>2, <2>1
    <3>2. SchedTypes' BY <1>0, <1>6, <3>1 DEF SchedTypes, Lists, States
    <3>. QED BY <1>0, <1>5, <1>6, <1>7, <3>1, <3>2 DEF Switches, Scheduled
  <2>2. CASE ~ Late(Tail(sleeping), ticks)
    <3>1. intr_return(rd, st) BY <1>2, <2>2
    <3>. QED BY <1>0, <1>5, <1>6, <1>7, <3>1, Returns
  <2>. QED BY <2>1, <2>2
<1>9. /\ loc' \in [Threads -> Loc] /\ loc'[t] = NoLoc /\ \A u \in Threads \ {t} : loc'[u] = loc[u]
      /\ NoLoc.child = NoThread
  <2>1. NoLoc.child = NoThread BY DEF NoLoc
  <2>. QED BY <1>0, <1>2, <1>3, <2>1, NoLocTyped, LocTyped
<1>10. TypeOK'
  <2>1. PrioTypes' /\ LockTypes' /\ SemaTypes' /\ RestTypes'
    BY <1>0, <1>2, SameTypes
  <2>2. CodeTypes' BY <1>0, <1>2, <1>9 DEF CodeTypes
  <2>3. TimeTypes'
    <3>1. ticks' \in 0 .. MaxTicks BY <1>0, <1>2, ThreadsAssumption DEF TimeTypes
    <3>. QED BY <1>2, <1>3, <3>1 DEF TimeTypes, Late
  <2>. QED BY <1>8, <2>1, <2>2, <2>3, TypesNext DEF Switches
<1>11. \A u \in Threads : /\ status'[u] = "blocked" <=> status[u] = "blocked" /\ u # t
                          /\ status'[u] = "none" <=> status[u] = "none"
  BY <1>4, <1>6, <1>8 DEF Switches
<1>12. Waits'
  <2>1. \A u \in Threads : Queued(u)' <=> Queued(u)
    BY <1>2 DEF Queued, sema_vars
  <2>2. loc[t].child = NoThread
    <3>1. Place(t) BY <1>3 DEF IInv, Places
    <3>. QED BY <1>4, <3>1 DEF Place, Creates, CreatePCs
  <2>3. \A u \in Threads : loc'[u].child = loc[u].child
    BY <1>9, <2>2
  <2>4. \A u \in Threads : Child(u)' <=> Child(u)
    BY <2>3 DEF Child
  <2>5. ASSUME NEW u \in Threads
        PROVE  /\ u \in ToSet(sleeping') => status'[u] = "blocked" /\ pc'[u] = "run"
               /\ \A x \in Semaphores : u \in ToSet(waiters'[x]) =>
                    status'[u] = "blocked" /\ pc'[u] = "down" /\ loc'[u].sema = x
               /\ Child(u)' => status'[u] = "blocked" /\ pc'[u] = "run" /\ u \notin ToSet(sleeping')
               /\ status'[u] = "blocked" => u \in ToSet(sleeping') \/ Queued(u)' \/ Child(u)'
               /\ \A v \in Threads :
                    loc'[u].child = loc'[v].child /\ loc'[u].child # NoThread => u = v
    <3>1. /\ u \in ToSet(sleeping) => status[u] = "blocked" /\ pc[u] = "run"
          /\ \A x \in Semaphores : u \in ToSet(waiters[x]) =>
               status[u] = "blocked" /\ pc[u] = "down" /\ loc[u].sema = x
          /\ Child(u) => status[u] = "blocked" /\ pc[u] = "run" /\ u \notin ToSet(sleeping)
          /\ status[u] = "blocked" => u \in ToSet(sleeping) \/ Queued(u) \/ Child(u)
          /\ \A v \in Threads :
               loc[u].child = loc[v].child /\ loc[u].child # NoThread => u = v
      BY <1>0 DEF Waits
    <3>2. ToSet(sleeping') = ToSet(sleeping) \ {t} /\ waiters' = waiters /\ pc' = pc
      BY <1>2, <1>3 DEF sema_vars
    <3>3. \A x \in Semaphores : u \in ToSet(waiters[x]) => u # t
      BY <1>4 DEF Queued
    <3>. QED BY <1>4, <1>9, <1>11, <2>1, <2>3, <2>4, <3>1, <3>2, <3>3
  <2>6. IsInjective(sleeping') /\ \A s \in Semaphores : IsInjective(waiters'[s])
    BY <1>0, <1>2, <1>3 DEF Waits, sema_vars
  <2>. QED BY <2>5, <2>6 DEF Waits
<1>13. in_external_intr' => sleeping' # << >>
  BY <1>2 DEF Late
<1>14. UNCHANGED <<lock_vars, value, don, pc>>
  BY <1>2 DEF sema_vars
<1>15. \A u \in Threads : loc'[u] = loc[u] \/ (loc'[u] = NoLoc /\ pc[u] = "run")
  BY <1>4, <1>9
<1>. QED BY <1>1, <1>8, <1>10, <1>11, <1>12, <1>13, <1>14, <1>15, HandlerMoves DEF Switches

-----------------------------------------------------------------------------
\* The invariant.

LEMMA InitInv ==
  ASSUME Init
  PROVE  IInv
<1>0. /\ IsFiniteSet(Threads) /\ Main \in Threads /\ Started \subseteq Threads
      /\ Idle \notin Threads /\ NoThread \notin Threads /\ Main \notin Started
      /\ PriMax \in Nat /\ TimeSlice \in Nat \ {0} /\ MaxTicks \in Nat
      /\ Calls \in [DOMAIN Calls -> Nat]
  BY ThreadsAssumption
<1>1. /\ cur = Main /\ thread_ticks = 0 /\ sleeping = << >> /\ condition = << >>
      /\ don = NoFrame /\ ticks = 0 /\ in_external_intr = FALSE /\ calls = Calls
      /\ panic = FALSE /\ missed = {} /\ priority \in [Threads -> Priorities]
      /\ old_priority = priority
      /\ status = [t \in Threads |-> IF t = Main THEN "running"
                                     ELSE IF t \in Started THEN "ready" ELSE "none"]
      /\ value = [s \in Semaphores |-> IF s \in Locks THEN 1 ELSE 0]
      /\ waiters = [s \in Semaphores |-> << >>]
      /\ holder = [l \in Locks |-> NoThread]
      /\ waiting_lock = [t \in Threads |-> NoLock] /\ acquired = [t \in Threads |-> {}]
      /\ pc = [t \in Threads |-> "run"] /\ loc = [t \in Threads |-> NoLoc]
  BY DEF Init
<1>2. /\ ready \in [Priorities -> UNION {SetToSeqs(S) : S \in SUBSET Started}]
      /\ \A p \in Priorities : ToSet(ready[p]) = {t \in Started : priority[t] = p}
  BY DEF Init
<1>3. ASSUME NEW p \in Priorities PROVE ready[p] \in Seq(Threads) /\ IsInjective(ready[p])
  <2>1. PICK S \in SUBSET Started : ready[p] \in SetToSeqs(S)
    BY <1>2
  <2>2. Cardinality(S) \in Nat
    <3>1. S \in SUBSET Threads BY <1>0
    <3>2. IsFiniteSet(S) BY <1>0, <3>1, FS_Subset
    <3>. QED BY <3>2, FS_CardinalityType
  <2>3. PICK n \in Nat : n = Cardinality(S)
    BY <2>2
  <2>4. /\ ready[p] \in [1 .. n -> S]
        /\ \A i, j \in 1 .. n : i # j => ready[p][i] # ready[p][j]
    BY <2>1, <2>3 DEF SetToSeqs
  <2>5. ready[p] \in [1 .. n -> Threads] /\ DOMAIN ready[p] = 1 .. n
    BY <1>0, <2>4
  <2>. QED BY <2>4, <2>5 DEF IsInjective
<1>4. TypeOK
  <2>1. SchedTypes
    BY <1>0, <1>1, <1>2, <1>3 DEF SchedTypes, Statuses
  <2>2. PrioTypes BY <1>1 DEF PrioTypes
  <2>3. SemaTypes
    <3>1. value \in [Semaphores -> Nat] /\ waiters \in [Semaphores -> Seq(Threads)]
      BY <1>1
    <3>2. \A l \in Locks : value[l] <= 1
      BY <1>1 DEF Semaphores
    <3>. QED BY <3>1, <3>2 DEF SemaTypes
  <2>4. LockTypes BY <1>1 DEF LockTypes
  <2>e. << >> \in Seq(Threads)
    OBVIOUS
  <2>5. TimeTypes
    <3>1. sleeping \in Seq(Threads) BY <1>1, <2>e
    <3>2. ticks = 0 /\ 0 \in 0 .. MaxTicks BY <1>0, <1>1
    <3>3. in_external_intr \in BOOLEAN BY <1>1
    <3>. QED BY <3>1, <3>2, <3>3 DEF TimeTypes
  <2>6. CodeTypes
    <3>1. pc \in [Threads -> IntrOn \cup IntrOff] BY <1>1 DEF IntrOn
    <3>. QED BY <1>1, <3>1, NoLocTyped, FrameEnds DEF CodeTypes
  <2>7. RestTypes
    <3>1. condition = << >> /\ calls = Calls /\ panic = FALSE /\ missed = {} BY <1>1
    <3>. QED BY <1>0, <2>e, <3>1 DEF RestTypes
  <2>. QED BY <2>1, <2>2, <2>3, <2>4, <2>5, <2>6, <2>7, TypeGroups
<1>5. NoLoc.child = NoThread /\ NoLoc.ret = "run" /\ NoFrame.then = "none"
  BY DEF NoLoc, NoFrame
<1>6. Places
  BY <1>1, <1>5 DEF Places, Place, Creates, CreatePCs
<1>7. Scheduled
  <2>1. Listed(ready, status, priority)
    <3>1. ASSUME NEW p \in Priorities, NEW t \in Threads
          PROVE  t \in ToSet(ready[p]) <=> status[t] = "ready" /\ priority[t] = p
      <4>1. t \in ToSet(ready[p]) <=> t \in Started /\ priority[t] = p BY <1>2
      <4>2. status[t] = "ready" <=> t \in Started BY <1>0, <1>1
      <4>. QED BY <4>1, <4>2
    <3>. QED BY <1>3, <3>1 DEF Listed
  <2>2. \A t \in Threads : status[t] = "running" <=> t = cur
    BY <1>0, <1>1
  <2>. QED BY <2>1, <2>2 DEF Scheduled
<1>8. Waits
  <2>1. IsInjective(<< >>) /\ ToSet(<< >>) = {}
    BY DEF IsInjective, ToSet
  <2>2. \A s \in Semaphores : waiters[s] = << >>
    BY <1>1
  <2>3. \A t \in Threads : loc[t].child = NoThread /\ status[t] # "blocked"
    BY <1>1, <1>5
  <2>4. \A t \in Threads : ~ Queued(t) /\ ~ Child(t)
    BY <1>0, <2>1, <2>2, <2>3 DEF Queued, Child
  <2>. QED BY <1>1, <2>1, <2>2, <2>3, <2>4 DEF Waits
<1>9. \A l \in Locks : Owned(l)
  BY <1>0, <1>1, <1>5 DEF Owned, Takes, GivesUp
<1>. QED BY <1>4, <1>6, <1>7, <1>8, <1>9 DEF IInv

LEMMA NextInv ==
  ASSUME IInv, [Next]_vars
  PROVE  IInv'
<1>1. CASE timer_interrupt
  BY <1>1, TimerInterruptKeeps
<1>2. CASE wake_up_threads
  BY <1>2, WakeUpKeeps
<1>3. ASSUME NEW t \in Threads, Inside(t) PROVE IInv'
  BY <1>3, PropagateKeeps, PrioritySetKeeps, SemaWaitKeeps, SemaPassKeeps, AcquireYieldKeeps,
     AcquireOwnKeeps, ReleaseUpKeeps, TryOwnKeeps, CondDownKeeps, CondReacquireKeeps,
     BroadcastNextKeeps, TidReleaseKeeps, CreateUnblockKeeps, SleepBlockKeeps
  DEF Inside
<1>4. ASSUME NEW t \in Threads, Begin(t) PROVE IInv'
  BY <1>4, SetPriorityKeeps, CallSemaDownKeeps, CallSemaUpKeeps, CallSemaTryDownKeeps,
     CallAcquireKeeps, TryAcquireKeeps, CondWaitKeeps, CondSignalKeeps, CondBroadcastKeeps,
     ThreadCreateKeeps, TimerSleepKeeps
  DEF Begin
<1>5. ASSUME NEW t \in Threads, Finish(t) PROVE IInv'
  BY <1>5, CallReleaseKeeps, ThreadExitKeeps DEF Finish
<1>6. CASE UNCHANGED vars
  BY <1>6 DEF IInv, TypeOK, Places, Place, Creates, Scheduled, Listed, Waits, Queued, Child,
              Owned, Takes, GivesUp, Donors, vars, sched_vars, prio_vars, lock_vars, sema_vars,
              time_vars
<1>. QED BY <1>1, <1>2, <1>3, <1>4, <1>5, <1>6 DEF Next


THEOREM Invariance == Spec => []IInv
<1>1. Init => IInv
  BY InitInv
<1>2. IInv /\ [Next]_vars => IInv'
  BY NextInv
<1>. QED BY <1>1, <1>2, PTL DEF Spec

-----------------------------------------------------------------------------
\* What follows from it.

\* How often a thread is in a list that has nobody twice.
LEMMA TimesInList ==
  ASSUME NEW q \in Seq(Threads), IsInjective(q), NEW t
  PROVE  Times(t, q) = IF t \in ToSet(q) THEN 1 ELSE 0
<1>. DEFINE I == {i \in DOMAIN q : q[i] = t}
<1>1. CASE t \in ToSet(q)
  <2>1. PICK k \in DOMAIN q : q[k] = t
    BY <1>1 DEF ToSet
  <2>2. I = {k}
    BY <2>1 DEF IsInjective
  <2>3. Cardinality(I) = 1
    BY <2>2, FS_Singleton
  <2>. QED BY <1>1, <2>3 DEF Times
<1>2. CASE t \notin ToSet(q)
  <2>1. I = {}
    BY <1>2 DEF ToSet
  <2>2. Cardinality(I) = 0
    BY <2>1, FS_EmptySet
  <2>. QED BY <1>2, <2>2 DEF Times
<1>. QED BY <1>1, <1>2

LEMMA ListedFollows ==
  ASSUME IInv
  PROVE  ThreadsListed
<1>0. TypeOK /\ Scheduled /\ Waits /\ SchedTypes
  BY TypeGroups DEF IInv
<1>1. ASSUME NEW t \in Threads, NEW p \in Priorities
      PROVE  Times(t, ready[p]) = IF status[t] = "ready" /\ priority[t] = p THEN 1 ELSE 0
  <2>1. ready[p] \in Seq(Threads) BY <1>0 DEF SchedTypes
  <2>2. IsInjective(ready[p]) /\ (t \in ToSet(ready[p]) <=> status[t] = "ready" /\ priority[t] = p)
    BY <1>0 DEF Scheduled, Listed
  <2>. QED BY <2>1, <2>2, TimesInList
<1>2. \A t \in Threads : status[t] = "running" <=> t = cur
  BY <1>0 DEF Scheduled
<1>3. ASSUME NEW t \in Threads
      PROVE  (status[t] = "blocked" /\ \A u \in Threads : loc[u].child # t)
               <=> (t \in ToSet(sleeping) \/ \E s \in Semaphores : t \in ToSet(waiters[s]))
  <2>1. /\ t \in ToSet(sleeping) => status[t] = "blocked" /\ pc[t] = "run"
        /\ \A s \in Semaphores : t \in ToSet(waiters[s]) => status[t] = "blocked" /\ pc[t] = "down"
        /\ Child(t) => status[t] = "blocked" /\ pc[t] = "run" /\ t \notin ToSet(sleeping)
        /\ status[t] = "blocked" => t \in ToSet(sleeping) \/ Queued(t) \/ Child(t)
    BY <1>0 DEF Waits
  <2>. QED BY <2>1 DEF Queued, Child
<1>. QED BY <1>0, <1>1, <1>2, <1>3 DEF ThreadsListed, QueuesOK

\* A ready thread is once in the list of its current priority and in no other, a
\* blocked one sleeps, is queued or is being created, one thread runs, and every
\* value has its type, whatever propagate_priorities, sema_up, the timer and the
\* calls of the program do.
THEOREM ThreadsListedHolds == Spec => []ThreadsListed
<1>1. IInv => ThreadsListed
  BY ListedFollows
<1>. QED BY <1>1, Invariance, PTL

LEMMA ExclusionFollows ==
  ASSUME IInv
  PROVE  Exclusion
<1>1. ASSUME NEW l \in Locks
      PROVE  /\ Cardinality({t \in Threads : l \in acquired[t]}) <= 1
             /\ \A t \in Threads : l \in acquired[t] => holder[l] = t
             /\ holder[l] # NoThread => value[l] = 0
  <2>1. /\ \A t \in Threads : l \in acquired[t] => holder[l] = t
        /\ holder[l] # NoThread => value[l] = 0
    BY DEF IInv, Owned
  <2>2. {t \in Threads : l \in acquired[t]} \in SUBSET {holder[l]}
    BY <2>1
  <2>3. IsFiniteSet({holder[l]}) /\ Cardinality({holder[l]}) = 1
    BY FS_Singleton
  <2>4. Cardinality({t \in Threads : l \in acquired[t]}) <= Cardinality({holder[l]})
    BY <2>2, <2>3, FS_Subset
  <2>. QED BY <2>1, <2>3, <2>4
<1>. QED BY <1>1 DEF Exclusion

\* A lock has one owner, and nobody takes it away: lock_acquire and
\* lock_try_acquire store the holder long after they took the semaphore, and
\* lock_release gives the semaphore back long after it cleared the holder.
THEOREM ExclusionHolds == Spec => []Exclusion
<1>1. IInv => Exclusion
  BY ExclusionFollows
<1>. QED BY <1>1, Invariance, PTL

-----------------------------------------------------------------------------
(* What has been promised to the threads that wait: what no step takes back. *)

\* No semaphore is in two of the three kinds.
LEMMA KindsApart ==
  /\ Threads \cap Locks = {} /\ Threads \cap Semas = {} /\ NoSema \notin Threads
  /\ Threads \subseteq Semaphores /\ Locks \subseteq Semaphores /\ Semas \subseteq Semaphores
BY ThreadsAssumption DEF Locks, TidLock, NoSema, Semaphores

\* A thread that is in none of the places of cond_wait has no signal.
LEMMA Outside ==
  ASSUME Signals, NEW t \in Threads, pc[t] \notin {"down", "cdown"},
         pc[t] = "donate" => don.then # "up" \/ loc[t].ret # "cdown"
  PROVE  ~ InWait(t) /\ t \notin ToSet(condition) /\ value[t] = 0
<1>1. SignalOf(t)
  BY DEF Signals
<1>2. ~ InWait(t)
  BY <1>1 DEF SignalOf, WaitPlace, InWait
<1>. QED BY <1>1, <1>2 DEF SignalOf

\* The signals of the other threads stay what they are.
LEMMA OthersSignal ==
  ASSUME IInv, NEW t \in Threads, cur = t, OnlyMoves(t), NEW u \in Threads \ {t}, SignalOf(u),
         u \in ToSet(condition') <=> u \in ToSet(condition), value'[u] = value[u]
  PROVE  SignalOf(u)'
<1>1. pc[u] # "donate" /\ pc'[u] = pc[u] /\ loc'[u] = loc[u]
  BY DonatesAlone DEF OnlyMoves
<1>. QED BY <1>1 DEF SignalOf, WaitPlace, InWait

LEMMA SignalsStay ==
  ASSUME IInv, Signals, NEW t \in Threads, cur = t, OnlyMoves(t),
         condition' = condition, \A u \in Threads : value'[u] = value[u],
         InWait(t)' <=> InWait(t), WaitPlace(t)'
  PROVE  Signals'
<1>1. SignalOf(t)'
  BY DEF Signals, SignalOf
<1>2. \A u \in Threads \ {t} : SignalOf(u)'
  BY OthersSignal DEF Signals
<1>. QED BY <1>1, <1>2 DEF Signals

\* A thread on its way out of sema_down stays awake when nobody is queued.
LEMMA ComingStays ==
  ASSUME IInv, IInv', NEW s, NEW u \in Coming(s), pc'[u] = "down", loc'[u].sema = loc[u].sema,
         \A x \in Semaphores : ToSet(waiters'[x]) \subseteq ToSet(waiters[x])
  PROVE  u \in Coming(s)'
<1>1. u \in Threads /\ loc[u].sema = s /\ status[u] # "blocked"
  BY DEF Coming
<1>2. ASSUME status'[u] = "blocked" PROVE FALSE
  <2>1. u \in ToSet(sleeping') \/ Queued(u)' \/ Child(u)'
    BY <1>1, <1>2 DEF IInv, Waits
  <2>2. u \notin ToSet(sleeping') /\ ~ Child(u)'
    BY <1>1 DEF IInv, Waits
  <2>3. PICK x \in Semaphores : u \in ToSet(waiters'[x])
    BY <2>1, <2>2 DEF Queued
  <2>4. u \in ToSet(waiters[x])
    BY <2>3
  <2>. QED BY <1>1, <2>3, <2>4 DEF IInv, Waits
<1>. QED BY <1>1, <1>2 DEF Coming

LEMMA ComingFinite ==
  ASSUME NEW s
  PROVE  IsFiniteSet(Coming(s)) /\ Cardinality(Coming(s)) \in Nat
<1>1. Coming(s) \subseteq Threads
  BY DEF Coming
<1>. QED BY <1>1, ThreadsAssumption, FS_Subset, FS_CardinalityType

\* As long as somebody is queued, the value of a semaphore rises only when
\* somebody more is on his way.
LEMMA WakeupsStay ==
  ASSUME IInv, IInv', Wakeups,
         \A u \in Threads : pc[u] = "down" => pc'[u] = "down" /\ loc'[u].sema = loc[u].sema,
         \A x \in Semaphores : ToSet(waiters'[x]) \subseteq ToSet(waiters[x]),
         \A x \in Semaphores : waiters'[x] # << >> =>
            \/ value'[x] <= value[x]
            \/ value'[x] <= value[x] + 1 /\ \E w \in Coming(x)' : w \notin Coming(x)
  PROVE  Wakeups'
<1>. SUFFICES ASSUME NEW s \in Semaphores, waiters'[s] # << >>
              PROVE  value'[s] <= Cardinality(Coming(s)')
  BY DEF Wakeups
<1>. DEFINE C == Coming(s)
            D == Coming(s)'
<1>0. waiters[s] # << >>
  <2>1. waiters'[s] \in Seq(Threads) BY DEF IInv, TypeOK
  <2>2. Head(waiters'[s]) \in ToSet(waiters'[s]) BY <2>1, TailOfList
  <2>3. ToSet(waiters[s]) # {} BY <2>2
  <2>. QED BY <2>3 DEF ToSet
<1>1. value[s] <= Cardinality(C) /\ value[s] \in Nat /\ value'[s] \in Nat
  BY <1>0 DEF Wakeups, IInv, TypeOK
<1>2. C \subseteq D
  <2>1. ASSUME NEW u \in C PROVE u \in D
    <3>1. u \in Threads /\ pc[u] = "down" BY DEF Coming
    <3>. QED BY <3>1, ComingStays
  <2>. QED BY <2>1
<1>3. IsFiniteSet(C) /\ Cardinality(C) \in Nat /\ IsFiniteSet(D) /\ Cardinality(D) \in Nat
  <2>1. D \subseteq Threads BY DEF Coming
  <2>2. IsFiniteSet(D) BY <2>1, ThreadsAssumption, FS_Subset
  <2>. QED BY <2>2, ComingFinite, FS_CardinalityType
<1>. HIDE DEF C, D
<1>4. Cardinality(C) <= Cardinality(D)
  BY <1>2, <1>3, FS_Subset
<1>5. ASSUME value'[s] <= value[s] PROVE value'[s] <= Cardinality(D)
  BY <1>1, <1>3, <1>4, <1>5
<1>6. ASSUME NEW w \in D, w \notin C, value'[s] <= value[s] + 1
      PROVE  value'[s] <= Cardinality(D)
  <2>1. Cardinality(C \cup {w}) = Cardinality(C) + 1 /\ IsFiniteSet(C \cup {w})
    BY <1>3, <1>6, FS_AddElement
  <2>2. C \cup {w} \subseteq D BY <1>2, <1>6
  <2>3. Cardinality(C \cup {w}) <= Cardinality(D)
    BY <1>3, <2>2, FS_Subset
  <2>. QED BY <1>1, <1>3, <1>6, <2>1, <2>3
<1>7. value'[s] <= value[s] \/ (value'[s] <= value[s] + 1 /\ \E w \in D : w \notin C)
  BY <1>0 DEF C, D
<1>8. value'[s] <= Cardinality(D)
  BY <1>5, <1>6, <1>7
<1>. QED BY <1>8 DEF D

\* sema_up adds a unit and sends the thread it wakes after it.
LEMMA WakeupsUp ==
  ASSUME IInv, IInv', Wakeups, NEW s \in Semaphores, sema_up(s), priority' = priority,
         \A u \in Threads : pc[u] = "down" => pc'[u] = "down" /\ loc'[u].sema = loc[u].sema
  PROVE  Wakeups'
<1>0. value' = [value EXCEPT ![s] = @ + 1] /\ value \in [Semaphores -> Nat]
  BY DEF sema_up, IInv, TypeOK
<1>1. CASE waiters' = waiters /\ waiters[s] = << >>
  <2>1. \A x \in Semaphores : waiters'[x] # << >> => value'[x] <= value[x]
    BY <1>0, <1>1
  <2>. QED BY <1>1, <2>1, WakeupsStay
<1>2. ASSUME NEW k \in DOMAIN waiters[s], NEW w \in Threads, Wakes(s, k, w) PROVE Wakeups'
  <2>1. /\ waiters' = [waiters EXCEPT ![s] = RemoveAt(@, k)] /\ w = waiters[s][k]
        /\ status' = [status EXCEPT ![w] = "ready"]
    BY <1>2 DEF Wakes
  <2>2. /\ waiters \in [Semaphores -> Seq(Threads)] /\ waiters[s] \in Seq(Threads)
        /\ status \in [Threads -> {"none", "blocked", "ready", "running"}]
    BY DEF IInv, TypeOK
  <2>3. /\ w \in ToSet(waiters[s])
        /\ ToSet(waiters[s]) = ToSet(RemoveAt(waiters[s], k)) \cup {w}
    BY <1>2, <2>1, <2>2, RemovedAt
  <2>4. status[w] = "blocked" /\ pc[w] = "down" /\ loc[w].sema = s
    BY <2>3 DEF IInv, Waits
  <2>5. w \in Coming(s)' /\ w \notin Coming(s)
    <3>1. status'[w] = "ready" BY <2>1, <2>2
    <3>. QED BY <2>4, <3>1 DEF Coming
  <2>6. \A x \in Semaphores : ToSet(waiters'[x]) \subseteq ToSet(waiters[x])
    <3>1. ASSUME NEW x \in Semaphores PROVE ToSet(waiters'[x]) \subseteq ToSet(waiters[x])
      <4>1. CASE x = s BY <2>1, <2>2, <2>3, <4>1
      <4>2. CASE x # s BY <2>1, <2>2, <4>2
      <4>. QED BY <4>1, <4>2
    <3>. QED BY <3>1
  <2>7. ASSUME NEW x \in Semaphores
        PROVE  \/ value'[x] <= value[x]
               \/ value'[x] <= value[x] + 1 /\ \E v \in Coming(x)' : v \notin Coming(x)
    <3>1. CASE x = s BY <1>0, <2>5, <3>1
    <3>2. CASE x # s BY <1>0, <3>2
    <3>. QED BY <3>1, <3>2
  <2>. QED BY <2>6, <2>7, WakeupsStay
<1>. QED BY <1>1, <1>2, SemaUp

\* The list of the sleepers stays what it is while a thread runs.
LEMMA OrderStays ==
  ASSUME IInv, Ordered, NEW t \in Threads, cur = t, OnlyMoves(t), sleeping' = sleeping,
         in_external_intr' = FALSE, pc'[t] = "sleep" => loc'[t].wake <= MaxTicks
  PROVE  Ordered'
<1>1. t \notin ToSet(sleeping) /\ sleeping \in Seq(Threads)
  BY RunningStatus DEF IInv, TypeOK
<1>2. \A u \in ToSet(sleeping) : loc'[u] = loc[u] /\ u \in Threads
  BY <1>1 DEF OnlyMoves, ToSet
<1>3. \A i \in DOMAIN sleeping : sleeping[i] \in ToSet(sleeping)
  BY DEF ToSet
<1>4. \A i, j \in DOMAIN sleeping' : i <= j => loc'[sleeping'[i]].wake <= loc'[sleeping'[j]].wake
  BY <1>2, <1>3 DEF Ordered
<1>5. \A u \in ToSet(sleeping') : loc'[u].wake <= MaxTicks
  BY <1>2 DEF Ordered
<1>6. \A u \in Threads : pc'[u] = "sleep" => loc'[u].wake <= MaxTicks
  BY DEF Ordered, OnlyMoves
<1>. QED BY <1>4, <1>5, <1>6 DEF Ordered

\* Most steps of a thread have nothing to do with its own cond_wait, and free
\* nothing anybody waits for.
LEMMA OrdinaryStep ==
  ASSUME IInv, IInv', Promises, NEW t \in Threads, cur = t, OnlyMoves(t),
         UNCHANGED <<condition, waiters>>,
         \A x \in Semaphores :
            value'[x] = value[x] \/ (x \notin Threads /\ value'[x] <= value[x]),
         pc[t] \notin {"down", "cdown"}, pc[t] = "donate" => don.then # "up",
         pc'[t] # "cdown", loc'[t].sema \notin Threads,
         pc'[t] \in {"donate", "down"} => loc'[t].ret # "cdown"
  PROVE  Signals' /\ Wakeups'
<1>0. /\ \A u \in Threads : value'[u] = value[u]
      /\ \A x \in Semaphores : value'[x] <= value[x]
  <2>1. value \in [Semaphores -> Nat] /\ value' \in [Semaphores -> Nat]
    BY DEF IInv, TypeOK
  <2>2. \A x \in Semaphores : value[x] \in Nat
    BY <2>1
  <2>3. \A u \in Threads : u \in Semaphores
    BY KindsApart
  <2>. QED BY <2>2, <2>3
<1>1. ~ InWait(t)
  <2>1. pc[t] = "donate" => loc[t].ret # "cdown"
    BY DEF Promises, Signals, SignalOf, WaitPlace
  <2>. QED BY <2>1, Outside DEF Promises
<1>2. ~ InWait(t)' /\ WaitPlace(t)'
  BY DEF InWait, WaitPlace
<1>3. Signals'
  BY <1>0, <1>1, <1>2, SignalsStay DEF Promises
<1>4. \A u \in Threads : pc[u] = "down" => pc'[u] = "down" /\ loc'[u].sema = loc[u].sema
  BY DEF OnlyMoves
<1>5. Wakeups'
  BY <1>0, <1>4, WakeupsStay DEF Promises
<1>. QED BY <1>3, <1>5

LEMMA OrdinaryKeeps ==
  ASSUME IInv, IInv', Promises, NEW t \in Threads, cur = t, OnlyMoves(t),
         in_external_intr = FALSE, UNCHANGED <<condition, waiters, time_vars>>,
         \A x \in Semaphores :
            value'[x] = value[x] \/ (x \notin Threads /\ value'[x] <= value[x]),
         pc[t] \notin {"down", "cdown"}, pc[t] = "donate" => don.then # "up",
         pc'[t] \notin {"cdown", "sleep"}, loc'[t].sema \notin Threads,
         pc'[t] \in {"donate", "down"} => loc'[t].ret # "cdown"
  PROVE  Promises'
<1>1. Signals' /\ Wakeups'
  BY OrdinaryStep
<1>2. Ordered'
  BY OrderStays DEF Promises, time_vars
<1>. QED BY <1>1, <1>2 DEF Promises

\* Where a thread is outside of sema_down.
LEMMA Position ==
  ASSUME IInv, Promises, NEW t \in Threads, pc[t] # "down"
  PROVE  /\ loc[t].sema \notin Threads /\ pc \in [Threads -> IntrOn \cup IntrOff]
         /\ loc \in [Threads -> Loc] /\ loc[t] \in Loc
         /\ waiting_lock \in [Threads -> Locks \cup {NoLock}]
         /\ value \in [Semaphores -> Nat]
         /\ pc[t] # "donate" => loc[t].ret = "run"
         /\ pc[t] = "donate" /\ don.then # "up" => loc[t].ret # "cdown"
<1>1. SignalOf(t) /\ Place(t) /\ TypeOK
  BY DEF Promises, Signals, IInv, Places
<1>2. /\ pc \in [Threads -> IntrOn \cup IntrOff] /\ loc \in [Threads -> Loc]
      /\ waiting_lock \in [Threads -> Locks \cup {NoLock}] /\ value \in [Semaphores -> Nat]
  BY <1>1 DEF TypeOK
<1>. QED BY <1>1, <1>2 DEF SignalOf, WaitPlace, Place

-----------------------------------------------------------------------------
(* What has been promised, step by step.                                     *)

\* Code of the kernel that frees nothing anybody waits for.
LEMMA OrdinaryInside ==
  ASSUME IInv, IInv', Promises, NEW t \in Threads,
         \/ PrioritySet(t) \/ AcquireYield(t) \/ AcquireOwn(t) \/ TryOwn(t)
         \/ CondReacquire(t) \/ TidRelease(t) \/ CreateUnblock(t)
  PROVE  Promises'
<1>. DEFINE same == UNCHANGED <<waiting_lock, condition, waiters, value, time_vars>>
<1>0. NoSema \notin Threads /\ Threads \cap Locks = {}
  BY KindsApart
<1>1. CASE PrioritySet(t)
  <2>1. Donated(t, "set") BY <1>1 DEF PrioritySet
  <2>2. cur = t /\ pc[t] = "donate" /\ in_external_intr = FALSE /\ don.then = "set"
    BY <2>1, Donates
  <2>3. pc' = [pc EXCEPT ![t] = "run"] /\ loc' = loc /\ same
    BY <1>1 DEF PrioritySet, Goto, lock_vars, sema_vars
  <2>4. OnlyMoves(t) /\ pc'[t] = "run" /\ loc'[t].sema \notin Threads
    BY <2>2, <2>3, Position DEF OnlyMoves
  <2>. QED BY <2>2, <2>3, <2>4, OrdinaryKeeps
<1>2. CASE AcquireYield(t)
  <2>1. Donated(t, "yield") BY <1>2 DEF AcquireYield
  <2>2. cur = t /\ pc[t] = "donate" /\ in_external_intr = FALSE /\ don.then = "yield"
    BY <2>1, Donates
  <2>3. pc' = [pc EXCEPT ![t] = "down"] /\ loc' = loc /\ same
    BY <1>2 DEF AcquireYield, Goto, lock_vars, sema_vars
  <2>4. /\ OnlyMoves(t) /\ pc'[t] = "down" /\ loc'[t].sema \notin Threads
        /\ loc'[t].ret # "cdown"
    BY <2>2, <2>3, Position DEF OnlyMoves
  <2>. QED BY <2>2, <2>3, <2>4, OrdinaryKeeps
<1>3. CASE AcquireOwn(t)
  <2>1. Donated(t, "own") BY <1>3 DEF AcquireOwn
  <2>2. cur = t /\ pc[t] = "donate" /\ in_external_intr = FALSE /\ don.then = "own"
    BY <2>1, Donates
  <2>3. /\ pc' = [pc EXCEPT ![t] = loc[t].ret] /\ UNCHANGED <<condition, waiters, value, time_vars>>
        /\ loc' = [loc EXCEPT ![t] = [NoLoc EXCEPT !.child = loc[t].child]]
        /\ waiting_lock' = [waiting_lock EXCEPT ![t] = NoLock]
    BY <1>3 DEF AcquireOwn, Goto, sema_vars
  <2>4. /\ loc[t] \in Loc /\ loc[t].ret # "cdown" /\ pc \in [Threads -> IntrOn \cup IntrOff]
        /\ loc \in [Threads -> Loc] /\ waiting_lock \in [Threads -> Locks \cup {NoLock}]
    BY <2>2, Position
  <2>5. /\ pc'[t] = loc[t].ret /\ loc[t].ret \in {"run", "number", "unblock"}
    BY <2>3, <2>4 DEF Loc
  <2>6. loc'[t].sema = NoSema
    BY <2>3, <2>4 DEF NoLoc
  <2>7. OnlyMoves(t)
    BY <2>3, <2>4 DEF OnlyMoves
  <2>. QED BY <1>0, <2>2, <2>3, <2>5, <2>6, <2>7, OrdinaryKeeps
<1>4. CASE TryOwn(t)
  <2>1. At(t, "tried") BY <1>4 DEF TryOwn
  <2>2. cur = t /\ pc[t] = "tried" /\ in_external_intr = FALSE
    BY <2>1, RunsOn
  <2>3. pc' = [pc EXCEPT ![t] = "run"] /\ loc' = [loc EXCEPT ![t] = NoLoc] /\ same
    BY <1>4 DEF TryOwn, Goto, sema_vars
  <2>4. OnlyMoves(t) /\ pc'[t] = "run" /\ loc'[t].sema = NoSema
    BY <2>2, <2>3, Position DEF OnlyMoves, NoLoc
  <2>. QED BY <1>0, <2>2, <2>3, <2>4, OrdinaryKeeps
<1>5. CASE CondReacquire(t)
  <2>1. At(t, "clock") BY <1>5 DEF CondReacquire
  <2>2. cur = t /\ pc[t] = "clock" /\ in_external_intr = FALSE
    BY <2>1, RunsOn
  <2>3. /\ pc' = [pc EXCEPT ![t] = "donate"]
        /\ loc' = [loc EXCEPT ![t].sema = CondLock, ![t].holder = holder[CondLock], ![t].ret = "run"]
        /\ waiting_lock' = [waiting_lock EXCEPT ![t] = CondLock]
        /\ UNCHANGED <<condition, waiters, value, time_vars>>
    BY <1>5 DEF CondReacquire, lock_acquire, Donate, Goto, sema_vars
  <2>4. CondLock \notin Threads
    BY ThreadsAssumption
  <2>5. OnlyMoves(t) /\ pc'[t] = "donate"
    BY <2>2, <2>3, Position DEF OnlyMoves
  <2>6. loc'[t].sema = CondLock /\ loc'[t].ret = "run"
    BY <2>2, <2>3, Position DEF Loc
  <2>. QED BY <2>2, <2>3, <2>4, <2>5, <2>6, OrdinaryKeeps
<1>6. CASE TidRelease(t)
  <2>1. At(t, "number") BY <1>6 DEF TidRelease
  <2>2. cur = t /\ pc[t] = "number" /\ in_external_intr = FALSE
    BY <2>1, RunsOn
  <2>3. pc' = [pc EXCEPT ![t] = "donate"] /\ loc' = [loc EXCEPT ![t].ret = "unblock"] /\ same
    BY <1>6 DEF TidRelease, lock_release, Donate, Goto, sema_vars
  <2>4. OnlyMoves(t) /\ pc'[t] = "donate"
    BY <2>2, <2>3, Position DEF OnlyMoves
  <2>5. loc'[t].sema \notin Threads /\ loc'[t].ret = "unblock"
    BY <2>2, <2>3, Position DEF Loc
  <2>. QED BY <2>2, <2>3, <2>4, <2>5, OrdinaryKeeps
<1>7. CASE CreateUnblock(t)
  <2>1. At(t, "unblock") BY <1>7 DEF CreateUnblock
  <2>2. cur = t /\ pc[t] = "unblock" /\ in_external_intr = FALSE
    BY <2>1, RunsOn
  <2>3. pc' = [pc EXCEPT ![t] = "run"] /\ loc' = [loc EXCEPT ![t] = NoLoc] /\ same
    BY <1>7 DEF CreateUnblock, Goto, lock_vars, sema_vars
  <2>4. OnlyMoves(t) /\ pc'[t] = "run" /\ loc'[t].sema = NoSema
    BY <2>2, <2>3, Position DEF OnlyMoves, NoLoc
  <2>. QED BY <1>0, <2>2, <2>3, <2>4, OrdinaryKeeps
<1>. QED BY <1>1, <1>2, <1>3, <1>4, <1>5, <1>6, <1>7

\* Calls that free nothing anybody waits for.
LEMMA OrdinaryCalls ==
  ASSUME IInv, IInv', Promises, NEW t \in Threads,
         \/ thread_set_priority(t) \/ CallSemaDown(t) \/ CallSemaTryDown(t) \/ CallAcquire(t)
         \/ lock_try_acquire(t) \/ cond_broadcast(t) \/ thread_create(t)
  PROVE  Promises'
<1>. DEFINE same == UNCHANGED <<waiting_lock, condition, waiters, value, time_vars>>
<1>0. cur = t /\ pc[t] = "run" /\ in_external_intr = FALSE
  <2>1. \E c \in {"set_priority", "wait", "lock", "cond", "create"} : Call(t, c)
    BY DEF thread_set_priority, CallSemaDown, CallSemaTryDown, CallAcquire, lock_try_acquire,
           cond_broadcast, thread_create
  <2>. QED BY <2>1, Begins
<1>1. /\ loc[t].sema \notin Threads /\ loc[t].ret = "run" /\ loc[t] \in Loc
      /\ pc \in [Threads -> IntrOn \cup IntrOff] /\ loc \in [Threads -> Loc]
      /\ waiting_lock \in [Threads -> Locks \cup {NoLock}] /\ value \in [Semaphores -> Nat]
  BY <1>0, Position
<1>2. /\ Threads \cap Locks = {} /\ Threads \cap Semas = {} /\ 1 .. NumLocks \subseteq Locks
      /\ Locks \subseteq Semaphores /\ Semas \subseteq Semaphores /\ TidLock \in Locks
  BY KindsApart, ThreadsAssumption DEF Locks, TidLock
<1>3. CASE thread_set_priority(t)
  <2>1. pc' = [pc EXCEPT ![t] = "donate"] /\ loc' = loc /\ same
    BY <1>3 DEF thread_set_priority, Donate, Goto, lock_vars, sema_vars
  <2>2. OnlyMoves(t) /\ pc'[t] = "donate"
    BY <1>1, <2>1 DEF OnlyMoves
  <2>. QED BY <1>0, <1>1, <2>1, <2>2, OrdinaryKeeps
<1>4. CASE CallSemaDown(t)
  <2>1. PICK s \in Semas : loc' = [loc EXCEPT ![t].sema = s]
    BY <1>4 DEF CallSemaDown
  <2>2. pc' = [pc EXCEPT ![t] = "down"] /\ same
    BY <1>4 DEF CallSemaDown, Goto, lock_vars, sema_vars
  <2>3. OnlyMoves(t) /\ pc'[t] = "down"
    BY <1>1, <2>1, <2>2 DEF OnlyMoves
  <2>4. loc'[t].sema = s /\ loc'[t].ret = "run"
    BY <1>1, <2>1 DEF Loc
  <2>. QED BY <1>0, <1>2, <2>2, <2>3, <2>4, OrdinaryKeeps
<1>5. CASE CallSemaTryDown(t)
  <2>1. PICK s \in Semas : sema_try_down(s)
    BY <1>5 DEF CallSemaTryDown
  <2>2. UNCHANGED <<pc, loc, waiting_lock, condition, waiters, time_vars>>
    BY <1>5 DEF CallSemaTryDown, lock_vars
  <2>3. OnlyMoves(t) BY <2>2 DEF OnlyMoves
  <2>4. \A x \in Semaphores :
          value'[x] = value[x] \/ (x \notin Threads /\ value'[x] <= value[x])
    BY <1>1, <1>2, <2>1 DEF sema_try_down
  <2>. QED BY <1>0, <1>1, <2>2, <2>3, <2>4, OrdinaryKeeps
<1>6. CASE CallAcquire(t)
  <2>1. PICK l \in 1 .. NumLocks : lock_acquire(t, l, "run")
    BY <1>6 DEF CallAcquire
  <2>2. /\ pc' = [pc EXCEPT ![t] = "donate"]
        /\ loc' = [loc EXCEPT ![t].sema = l, ![t].holder = holder[l], ![t].ret = "run"]
        /\ waiting_lock' = [waiting_lock EXCEPT ![t] = l]
        /\ UNCHANGED <<condition, waiters, value, time_vars>>
    BY <1>6, <2>1 DEF CallAcquire, lock_acquire, Donate, Goto, sema_vars
  <2>3. OnlyMoves(t) /\ pc'[t] = "donate"
    BY <1>1, <2>2 DEF OnlyMoves
  <2>4. loc'[t].sema = l /\ loc'[t].ret = "run"
    BY <1>1, <2>2 DEF Loc
  <2>. QED BY <1>0, <1>2, <2>2, <2>3, <2>4, OrdinaryKeeps
<1>7. CASE lock_try_acquire(t)
  <2>1. PICK l \in 1 .. NumLocks : sema_try_down(l) /\ loc' = [loc EXCEPT ![t].sema = l]
    BY <1>7 DEF lock_try_acquire
  <2>2. pc' = [pc EXCEPT ![t] = "tried"] /\ UNCHANGED <<waiting_lock, condition, waiters, time_vars>>
    BY <1>7 DEF lock_try_acquire, Goto, lock_vars
  <2>3. OnlyMoves(t) /\ pc'[t] = "tried"
    BY <1>1, <2>1, <2>2 DEF OnlyMoves
  <2>4. loc'[t].sema = l /\ l \notin Threads
    BY <1>1, <1>2, <2>1 DEF Loc
  <2>5. \A x \in Semaphores :
          value'[x] = value[x] \/ (x \notin Threads /\ value'[x] <= value[x])
    BY <1>1, <1>2, <2>1 DEF sema_try_down
  <2>. QED BY <1>0, <2>2, <2>3, <2>4, <2>5, OrdinaryKeeps
<1>8. CASE cond_broadcast(t)
  <2>1. pc' = [pc EXCEPT ![t] = "broadcast"] /\ loc' = loc /\ same
    BY <1>8 DEF cond_broadcast, Goto, lock_vars, sema_vars
  <2>2. OnlyMoves(t) /\ pc'[t] = "broadcast"
    BY <1>1, <2>1 DEF OnlyMoves
  <2>. QED BY <1>0, <1>1, <2>1, <2>2, OrdinaryKeeps
<1>9. CASE thread_create(t)
  <2>1. PICK c \in Threads \ {Main} :
          loc' = [loc EXCEPT ![t] = [NoLoc EXCEPT !.child = c, !.sema = TidLock,
                                        !.holder = holder[TidLock], !.ret = "number"]]
    BY <1>9 DEF thread_create
  <2>2. /\ pc' = [pc EXCEPT ![t] = "donate"]
        /\ waiting_lock' = [waiting_lock EXCEPT ![t] = TidLock]
        /\ UNCHANGED <<condition, waiters, value, time_vars>>
    BY <1>9 DEF thread_create, Donate, Goto, sema_vars
  <2>3. OnlyMoves(t) /\ pc'[t] = "donate"
    BY <1>1, <2>1, <2>2 DEF OnlyMoves
  <2>4. loc'[t].sema = TidLock /\ loc'[t].ret = "number"
    BY <1>1, <2>1 DEF NoLoc
  <2>. QED BY <1>0, <1>2, <2>2, <2>3, <2>4, OrdinaryKeeps
<1>. QED BY <1>3, <1>4, <1>5, <1>6, <1>7, <1>8, <1>9

LEMMA OrdinaryEnds ==
  ASSUME IInv, IInv', Promises, NEW t \in Threads, CallRelease(t) \/ thread_exit(t)
  PROVE  Promises'
<1>. DEFINE same == UNCHANGED <<waiting_lock, condition, waiters, value, time_vars>>
<1>0. cur = t /\ pc[t] = "run" /\ in_external_intr = FALSE
  <2>1. At(t, "run") BY DEF CallRelease, thread_exit
  <2>. QED BY <2>1, RunsOn
<1>1. /\ loc[t].sema \notin Threads /\ loc[t] \in Loc
      /\ pc \in [Threads -> IntrOn \cup IntrOff] /\ loc \in [Threads -> Loc]
  BY <1>0, Position
<1>2. CASE CallRelease(t)
  <2>1. /\ pc' = [pc EXCEPT ![t] = "donate"] /\ loc' = [loc EXCEPT ![t].ret = "run"] /\ same
    BY <1>2 DEF CallRelease, lock_release, Donate, Goto, sema_vars
  <2>2. OnlyMoves(t) /\ pc'[t] = "donate"
    BY <1>1, <2>1 DEF OnlyMoves
  <2>3. loc'[t].sema = loc[t].sema /\ loc'[t].ret = "run"
    BY <1>1, <2>1 DEF Loc
  <2>. QED BY <1>0, <1>1, <2>1, <2>2, <2>3, OrdinaryKeeps
<1>3. CASE thread_exit(t)
  <2>1. pc' = pc /\ loc' = loc /\ same
    BY <1>3 DEF thread_exit, lock_vars, sema_vars
  <2>2. OnlyMoves(t) BY <2>1 DEF OnlyMoves
  <2>. QED BY <1>0, <1>1, <2>1, <2>2, OrdinaryKeeps
<1>. QED BY <1>2, <1>3

\* The steps that have to do with what is promised.
LEMMA PropagatePromises ==
  ASSUME IInv, IInv', Promises, NEW t \in Threads, propagate_priorities(t)
  PROVE  Promises'
<1>1. cur = t /\ pc[t] = "donate" /\ in_external_intr = FALSE /\ don \in Frame
  BY Runs DEF propagate_priorities, CodeTypes
<1>2. UNCHANGED <<waiting_lock, condition, waiters, value, time_vars, pc, loc>>
  BY DEF propagate_priorities, lock_vars, sema_vars
<1>3. don'.then = don.then
  BY <1>1 DEF propagate_priorities, Frame
<1>4. OnlyMoves(t)
  BY <1>2 DEF OnlyMoves
<1>5. (InWait(t)' <=> InWait(t)) /\ WaitPlace(t)'
  BY <1>2, <1>3 DEF InWait, WaitPlace, Promises, Signals, SignalOf
<1>6. Signals'
  BY <1>1, <1>2, <1>4, <1>5, SignalsStay DEF Promises
<1>7. Wakeups'
  <2>1. \A x \in Semaphores : value[x] <= value[x]
    <3>1. \A x \in Semaphores : value[x] \in Nat BY DEF IInv, TypeOK
    <3>. QED BY <3>1
  <2>. QED BY <1>2, <2>1, WakeupsStay DEF Promises
<1>8. Ordered'
  BY <1>1, <1>2, <1>4, OrderStays DEF Promises, time_vars
<1>. QED BY <1>6, <1>7, <1>8 DEF Promises

\* As long as nobody leaves, who is on his way to a unit covers it.
LEMMA ComingCovers ==
  ASSUME NEW s, NEW n \in Nat, n <= Cardinality(Coming(s)), Coming(s) \subseteq Coming(s)'
  PROVE  n <= Cardinality(Coming(s)')
<1>. DEFINE C == Coming(s)
            D == Coming(s)'
<1>1. D \subseteq Threads
  BY DEF Coming
<1>2. IsFiniteSet(D) /\ Cardinality(D) \in Nat
  BY <1>1, ThreadsAssumption, FS_Subset, FS_CardinalityType
<1>3. Cardinality(C) \in Nat
  BY ComingFinite
<1>4. C \subseteq D /\ n <= Cardinality(C)
  OBVIOUS
<1>. HIDE DEF C, D
<1>5. Cardinality(C) <= Cardinality(D)
  BY <1>2, <1>4, FS_Subset
<1>6. n <= Cardinality(D)
  BY <1>2, <1>3, <1>4, <1>5
<1>. QED BY <1>6 DEF D

\* A thread queues itself only where no unit is left.
LEMMA SemaWaitPromises ==
  ASSUME IInv, IInv', Promises, NEW t \in Threads, SemaWait(t)
  PROVE  Promises'
<1>. DEFINE s == loc[t].sema
<1>1. /\ cur = t /\ pc[t] = "down" /\ in_external_intr = FALSE /\ TypeOK /\ Scheduled
      /\ Place(t) /\ waiters \in [Semaphores -> Seq(Threads)] /\ status \in [Threads -> Statuses]
  BY Runs DEF SemaWait, SemaTypes, SchedTypes
<1>2. /\ value[s] = 0 /\ waiters' = [waiters EXCEPT ![s] = Append(@, t)] /\ thread_block(t)
      /\ UNCHANGED <<waiting_lock, condition, value, don, time_vars, pc, loc>>
      /\ priority' = priority
  BY DEF SemaWait, lock_vars, prio_vars
<1>3. OnlyMoves(t)
  BY <1>2 DEF OnlyMoves
<1>4. (InWait(t)' <=> InWait(t)) /\ WaitPlace(t)'
  BY <1>2 DEF InWait, WaitPlace, Promises, Signals, SignalOf
<1>5. Signals'
  BY <1>1, <1>2, <1>3, <1>4, SignalsStay DEF Promises
<1>6. Switches([status EXCEPT ![t] = "blocked"])
  BY <1>1, <1>2, Blocks
<1>7. ASSUME NEW x \in Semaphores, waiters'[x] # << >>
      PROVE  value'[x] <= Cardinality(Coming(x)')
  <2>1. CASE x = s
    <3>1. Coming(x)' \subseteq Threads BY DEF Coming
    <3>2. Cardinality(Coming(x)') \in Nat
      BY <3>1, ThreadsAssumption, FS_Subset, FS_CardinalityType
    <3>3. value'[x] = 0 BY <1>2, <2>1
    <3>. QED BY <3>2, <3>3
  <2>2. CASE x # s
    <3>1. waiters'[x] = waiters[x] BY <1>1, <1>2, <2>2
    <3>2. value[x] <= Cardinality(Coming(x)) /\ value[x] \in Nat /\ value'[x] = value[x]
      BY <1>2, <1>7, <3>1 DEF Promises, Wakeups, IInv, TypeOK
    <3>3. Coming(x) \subseteq Coming(x)'
      <4>1. ASSUME NEW u \in Coming(x) PROVE u \in Coming(x)'
        <5>1. u \in Threads \ {t} /\ status[u] # "blocked" BY <2>2 DEF Coming
        <5>2. status'[u] # "blocked" BY <1>1, <1>6, <5>1 DEF Switches
        <5>. QED BY <1>2, <5>1, <5>2 DEF Coming
      <4>. QED BY <4>1
    <3>. QED BY <3>2, <3>3, ComingCovers
  <2>. QED BY <2>1, <2>2
<1>8. Ordered'
  BY <1>1, <1>2, <1>3, OrderStays DEF Promises, time_vars
<1>. QED BY <1>5, <1>7, <1>8 DEF Promises, Wakeups

\* The thread that takes a unit was on its way to it; the one that takes its own
\* signal is in cond_wait no more.
LEMMA SemaPassPromises ==
  ASSUME IInv, IInv', Promises, NEW t \in Threads, SemaPass(t)
  PROVE  Promises'
<1>. DEFINE s == loc[t].sema
<1>1. /\ cur = t /\ pc[t] = "down" /\ in_external_intr = FALSE /\ status[t] = "running"
      /\ Place(t) /\ CodeTypes /\ SemaTypes
  BY Runs DEF SemaPass
<1>2. /\ value[s] > 0 /\ value' = [value EXCEPT ![s] = value[s] - 1]
      /\ \/ s \in Locks /\ Donate(t, loc[t].holder, -1, "own", s, 0) /\ loc' = loc
         \/ /\ s \notin Locks
            /\ Goto(t, IF s = t THEN "clock" ELSE "run")
            /\ loc' = [loc EXCEPT ![t] = NoLoc] /\ don' = don
      /\ UNCHANGED <<waiting_lock, waiters, condition, time_vars, status>>
  BY DEF SemaPass, lock_vars, sched_vars
<1>3. s \in Semaphores /\ value[s] \in Nat /\ value \in [Semaphores -> Nat]
  BY <1>1 DEF Place, SemaTypes
<1>4. SignalOf(t)
  BY DEF Promises, Signals
<1>5. OnlyMoves(t) /\ pc'[t] \in {"donate", "clock", "run"}
  BY <1>1, <1>2 DEF OnlyMoves, Donate, Goto, CodeTypes
<1>6. SignalOf(t)'
  <2>1. CASE s \in Locks
    <3>1. pc'[t] = "donate" /\ loc' = loc /\ t # s /\ s \notin Threads
      BY <1>1, <1>2, <2>1, KindsApart DEF Donate, Goto, CodeTypes
    <3>2. value'[t] = value[t] BY <1>2, <1>3, <3>1, KindsApart
    <3>3. ~ InWait(t) /\ ~ InWait(t)' /\ WaitPlace(t)'
      BY <1>1, <1>4, <3>1 DEF SignalOf, WaitPlace, InWait
    <3>. QED BY <1>2, <1>4, <3>2, <3>3 DEF SignalOf
  <2>2. CASE s \notin Locks
    <3>1. pc'[t] \in {"clock", "run"} /\ loc'[t].sema \notin Threads
      BY <1>1, <1>2, <2>2, KindsApart DEF Goto, CodeTypes, NoLoc
    <3>2. ~ InWait(t)' /\ WaitPlace(t)'
      BY <3>1 DEF WaitPlace, InWait
    <3>3. CASE s = t
      <4>1. value[t] = 1 /\ t \notin ToSet(condition)
        BY <1>2, <1>3, <1>4, <3>3 DEF SignalOf
      <4>2. value'[t] = 0 BY <1>2, <1>3, <3>3, <4>1
      <4>. QED BY <1>2, <3>2, <4>1, <4>2 DEF SignalOf
    <3>4. CASE s # t
      <4>1. ~ InWait(t) BY <1>1, <3>4 DEF InWait
      <4>2. value'[t] = value[t] BY <1>2, <1>3, <3>4, KindsApart
      <4>. QED BY <1>2, <1>4, <3>2, <4>1, <4>2 DEF SignalOf
    <3>. QED BY <3>3, <3>4
  <2>. QED BY <2>1, <2>2
<1>7. ASSUME NEW u \in Threads \ {t} PROVE SignalOf(u)'
  <2>1. SignalOf(u) BY DEF Promises, Signals
  <2>2. u # s BY <1>4, <1>7 DEF SignalOf, WaitPlace
  <2>3. value'[u] = value[u] BY <1>2, <1>3, <2>2, KindsApart
  <2>. QED BY <1>1, <1>2, <1>5, <2>1, <2>3, OthersSignal
<1>8. Signals'
  BY <1>2, <1>6, <1>7 DEF Promises, Signals
<1>9. ASSUME NEW x \in Semaphores, waiters'[x] # << >>
      PROVE  value'[x] <= Cardinality(Coming(x)')
  <2>1. value[x] <= Cardinality(Coming(x)) /\ value[x] \in Nat
    BY <1>2, <1>3, <1>9 DEF Promises, Wakeups
  <2>2. ASSUME NEW u \in Coming(x), u # t PROVE u \in Coming(x)'
    BY <1>2, <1>5, <2>2 DEF Coming, OnlyMoves
  <2>3. CASE x # s
    <3>1. t \notin Coming(x) BY <2>3 DEF Coming
    <3>2. Coming(x) \subseteq Coming(x)' BY <2>2, <3>1
    <3>3. value'[x] = value[x] BY <1>2, <1>3, <2>3
    <3>. QED BY <2>1, <3>2, <3>3, ComingCovers
  <2>4. CASE x = s
    <3>. DEFINE C == Coming(x)
                D == Coming(x)'
    <3>1. t \in C BY <1>1, <2>4 DEF Coming
    <3>2. C \ {t} \subseteq D BY <2>2
    <3>3. D \subseteq Threads BY DEF Coming
    <3>4. IsFiniteSet(C) /\ Cardinality(C) \in Nat BY ComingFinite
    <3>5. IsFiniteSet(D) /\ Cardinality(D) \in Nat
      BY <3>3, ThreadsAssumption, FS_Subset, FS_CardinalityType
    <3>6. value'[x] = value[x] - 1 BY <1>2, <1>3, <2>4
    <3>7. value[x] <= Cardinality(C) BY <2>1
    <3>. HIDE DEF C, D
    <3>8. Cardinality(C \ {t}) = Cardinality(C) - 1 /\ IsFiniteSet(C \ {t})
      BY <3>1, <3>4, FS_RemoveElement
    <3>9. Cardinality(C \ {t}) <= Cardinality(D)
      BY <3>2, <3>5, FS_Subset
    <3>10. value'[x] <= Cardinality(D)
      BY <2>1, <3>4, <3>5, <3>6, <3>7, <3>8, <3>9
    <3>. QED BY <3>10 DEF D
  <2>. QED BY <2>3, <2>4
<1>10. Ordered'
  BY <1>1, <1>2, <1>5, OrderStays DEF Promises, time_vars
<1>. QED BY <1>8, <1>9, <1>10 DEF Promises, Wakeups

LEMMA CondDownPromises ==
  ASSUME IInv, IInv', Promises, NEW t \in Threads, CondDown(t)
  PROVE  Promises'
<1>1. At(t, "cdown")
  BY DEF CondDown
<1>2. cur = t /\ pc[t] = "cdown" /\ in_external_intr = FALSE
  BY <1>1, RunsOn
<1>3. /\ pc' = [pc EXCEPT ![t] = "down"] /\ loc' = [loc EXCEPT ![t].sema = t]
      /\ UNCHANGED <<waiting_lock, condition, waiters, value, time_vars>>
  BY DEF CondDown, Goto, lock_vars, sema_vars
<1>4. OnlyMoves(t) /\ pc'[t] = "down"
  BY <1>2, <1>3, Position DEF OnlyMoves
<1>5. loc'[t].sema = t /\ loc'[t].ret = "run"
  BY <1>2, <1>3, Position DEF Loc
<1>6. InWait(t) /\ InWait(t)' /\ WaitPlace(t)'
  BY <1>2, <1>4, <1>5 DEF InWait, WaitPlace
<1>7. Signals'
  BY <1>2, <1>3, <1>4, <1>6, SignalsStay DEF Promises
<1>8. Wakeups'
  <2>1. \A x \in Semaphores : value'[x] <= value[x]
    <3>1. \A x \in Semaphores : value[x] \in Nat BY DEF IInv, TypeOK
    <3>. QED BY <1>3, <3>1
  <2>2. \A u \in Threads : pc[u] = "down" => pc'[u] = "down" /\ loc'[u].sema = loc[u].sema
    BY <1>2, <1>4 DEF OnlyMoves
  <2>. QED BY <1>3, <2>1, <2>2, WakeupsStay DEF Promises
<1>9. Ordered'
  BY <1>2, <1>3, <1>4, OrderStays DEF Promises, time_vars
<1>. QED BY <1>7, <1>8, <1>9 DEF Promises

\* lock_release gives its unit after the thread that waits in cond_wait has taken
\* its place in the list of the condition.
LEMMA ReleaseUpPromises ==
  ASSUME IInv, IInv', Promises, NEW t \in Threads, ReleaseUp(t)
  PROVE  Promises'
<1>1. Donated(t, "up")
  BY DEF ReleaseUp
<1>2. /\ cur = t /\ pc[t] = "donate" /\ in_external_intr = FALSE /\ don.then = "up"
      /\ Place(t) /\ CodeTypes /\ SemaTypes
  BY <1>1, Donates
<1>3. /\ pc' = [pc EXCEPT ![t] = loc[t].ret] /\ loc' = [loc EXCEPT ![t].ret = "run"]
      /\ sema_up(don.lock) /\ priority' = priority
      /\ UNCHANGED <<waiting_lock, condition, time_vars>>
  BY DEF ReleaseUp, Goto, lock_vars, prio_vars
<1>4. don.lock \in Locks /\ don.lock \in Semaphores /\ don.lock \notin Threads
  BY <1>2, KindsApart DEF Place
<1>5. /\ loc[t] \in Loc /\ loc[t].sema \notin Threads
      /\ pc \in [Threads -> IntrOn \cup IntrOff] /\ loc \in [Threads -> Loc]
  BY <1>2, Position
<1>6. /\ pc'[t] = loc[t].ret /\ loc[t].ret \in {"run", "cdown", "number", "unblock"}
      /\ OnlyMoves(t)
  BY <1>3, <1>5 DEF OnlyMoves, Loc
<1>7. loc'[t].sema = loc[t].sema
  BY <1>3, <1>5 DEF Loc
<1>8. (InWait(t)' <=> InWait(t)) /\ WaitPlace(t)'
  BY <1>2, <1>5, <1>6, <1>7 DEF InWait, WaitPlace
<1>9. \A u \in Threads : value'[u] = value[u]
  BY <1>2, <1>3, <1>4, KindsApart DEF sema_up, SemaTypes
<1>10. Signals'
  BY <1>2, <1>3, <1>6, <1>8, <1>9, SignalsStay DEF Promises
<1>11. \A u \in Threads : pc[u] = "down" => pc'[u] = "down" /\ loc'[u].sema = loc[u].sema
  BY <1>2, <1>6 DEF OnlyMoves
<1>12. Wakeups'
  BY <1>3, <1>4, <1>11, WakeupsUp DEF Promises
<1>13. Ordered'
  BY <1>2, <1>3, <1>6, OrderStays DEF Promises, time_vars
<1>. QED BY <1>10, <1>12, <1>13 DEF Promises

LEMMA CallSemaUpPromises ==
  ASSUME IInv, IInv', Promises, NEW t \in Threads, CallSemaUp(t)
  PROVE  Promises'
<1>1. Call(t, "wait")
  BY DEF CallSemaUp
<1>2. cur = t /\ pc[t] = "run" /\ in_external_intr = FALSE /\ SemaTypes
  BY <1>1, Begins
<1>3. PICK s \in Semas : sema_up(s)
  BY DEF CallSemaUp
<1>4. /\ UNCHANGED <<waiting_lock, condition, don, time_vars, pc, loc>> /\ priority' = priority
  BY DEF CallSemaUp, lock_vars, prio_vars
<1>5. OnlyMoves(t) /\ s \in Semaphores /\ s \notin Threads
  BY <1>4, KindsApart DEF OnlyMoves
<1>6. (InWait(t)' <=> InWait(t)) /\ WaitPlace(t)'
  BY <1>4 DEF InWait, WaitPlace, Promises, Signals, SignalOf
<1>7. \A u \in Threads : value'[u] = value[u]
  BY <1>2, <1>3, <1>5, KindsApart DEF sema_up, SemaTypes
<1>8. Signals'
  BY <1>2, <1>4, <1>5, <1>6, <1>7, SignalsStay DEF Promises
<1>9. Wakeups'
  BY <1>3, <1>4, <1>5, WakeupsUp DEF Promises
<1>10. Ordered'
  BY <1>2, <1>4, <1>5, OrderStays DEF Promises, time_vars
<1>. QED BY <1>8, <1>9, <1>10 DEF Promises

\* cond_wait takes its place in the list before it releases the lock.
LEMMA CondWaitPromises ==
  ASSUME IInv, IInv', Promises, NEW t \in Threads, cond_wait(t)
  PROVE  Promises'
<1>1. Call(t, "cond")
  BY DEF cond_wait
<1>2. cur = t /\ pc[t] = "run" /\ in_external_intr = FALSE /\ RestTypes
  BY <1>1, Begins
<1>3. /\ pc' = [pc EXCEPT ![t] = "donate"] /\ loc' = [loc EXCEPT ![t].ret = "cdown"]
      /\ don' = [t |-> t, priority |-> -1, then |-> "up", lock |-> CondLock, before |-> 0]
      /\ condition' = Append(condition, t)
      /\ UNCHANGED <<waiting_lock, waiters, value, time_vars>>
  BY DEF cond_wait, lock_release, Donate, Goto, sema_vars
<1>4. OnlyMoves(t) /\ pc'[t] = "donate"
  BY <1>2, <1>3, Position DEF OnlyMoves
<1>5. loc'[t].sema = loc[t].sema /\ loc[t].sema \notin Threads /\ loc'[t].ret = "cdown"
  BY <1>2, <1>3, Position DEF Loc
<1>6. ~ InWait(t) /\ t \notin ToSet(condition) /\ value[t] = 0
  BY <1>2, Outside DEF Promises
<1>7. InWait(t)' /\ WaitPlace(t)'
  BY <1>3, <1>4, <1>5 DEF InWait, WaitPlace
<1>8. ToSet(condition') = ToSet(condition) \cup {t} /\ IsInjective(condition')
  <2>1. condition \in Seq(Threads) BY <1>2 DEF RestTypes
  <2>2. IsInjective(condition) BY DEF Promises, Signals
  <2>. QED BY <1>3, <1>6, <2>1, <2>2, AppendedList
<1>9. SignalOf(t)'
  BY <1>3, <1>6, <1>7, <1>8 DEF SignalOf
<1>10. ASSUME NEW u \in Threads \ {t} PROVE SignalOf(u)'
  <2>1. SignalOf(u) /\ value'[u] = value[u] /\ (u \in ToSet(condition') <=> u \in ToSet(condition))
    BY <1>3, <1>8 DEF Promises, Signals
  <2>. QED BY <1>2, <1>4, <2>1, OthersSignal
<1>11. Wakeups'
  <2>1. \A x \in Semaphores : value'[x] <= value[x]
    <3>1. \A x \in Semaphores : value[x] \in Nat BY DEF IInv, TypeOK
    <3>. QED BY <1>3, <3>1
  <2>2. \A u \in Threads : pc[u] = "down" => pc'[u] = "down" /\ loc'[u].sema = loc[u].sema
    BY <1>2, <1>4 DEF OnlyMoves
  <2>. QED BY <1>3, <2>1, <2>2, WakeupsStay DEF Promises
<1>12. Ordered'
  BY <1>2, <1>3, <1>4, OrderStays DEF Promises, time_vars
<1>. QED BY <1>8, <1>9, <1>10, <1>11, <1>12 DEF Promises, Signals

\* A signal moves from the list of the condition to the semaphore.
LEMMA SignalPromises ==
  ASSUME IInv, IInv', Promises, NEW t \in Threads, cur = t, pc[t] \in {"run", "broadcast"},
         in_external_intr = FALSE, Signal, priority' = priority,
         UNCHANGED <<waiting_lock, don, time_vars, pc, loc>>
  PROVE  Promises'
<1>1. PICK i \in CondMax : condition' = RemoveAt(condition, i) /\ sema_up(condition[i])
  BY DEF Signal
<1>2. condition \in Seq(Threads) /\ value \in [Semaphores -> Nat]
  BY DEF IInv, TypeOK
<1>3. i \in DOMAIN condition
  <2>1. CASE Len(condition) = 1
    <3>1. i = 1 BY <1>1, <2>1 DEF CondMax
    <3>. QED BY <1>2, <2>1, <3>1
  <2>2. CASE Len(condition) # 1
    BY <2>2, <1>1 DEF CondMax
  <2>. QED BY <2>1, <2>2
<1>4. PICK s \in Threads :
        /\ s = condition[i] /\ s \in ToSet(condition)
        /\ ToSet(condition) = ToSet(condition') \cup {s}
        /\ IsInjective(condition) <=> IsInjective(condition') /\ s \notin ToSet(condition')
  BY <1>1, <1>2, <1>3, RemovedAt
<1>5. sema_up(s)
  BY <1>1, <1>4
<1>6. IsInjective(condition') /\ s \notin ToSet(condition') /\ SignalOf(s) /\ s \in Semaphores
  BY <1>4, KindsApart DEF Promises, Signals
<1>7. value[s] = 0 /\ InWait(s) /\ WaitPlace(s)
  BY <1>4, <1>6 DEF SignalOf
<1>8. value'[s] = 1 /\ \A u \in Threads \ {s} : value'[u] = value[u]
  BY <1>2, <1>5, <1>6, <1>7, KindsApart DEF sema_up
<1>9. \A u \in Threads : (InWait(u)' <=> InWait(u)) /\ (WaitPlace(u)' <=> WaitPlace(u))
  BY DEF InWait, WaitPlace
<1>10. SignalOf(s)'
  BY <1>4, <1>6, <1>7, <1>8, <1>9 DEF SignalOf
<1>11. ASSUME NEW u \in Threads \ {s} PROVE SignalOf(u)'
  <2>1. SignalOf(u) BY DEF Promises, Signals
  <2>. QED BY <1>4, <1>8, <1>9, <2>1 DEF SignalOf
<1>12. Signals'
  BY <1>6, <1>10, <1>11 DEF Signals
<1>13. Wakeups'
  BY <1>5, <1>6, WakeupsUp DEF Promises
<1>14. OnlyMoves(t)
  BY DEF OnlyMoves
<1>15. Ordered'
  BY <1>14, OrderStays DEF Promises, time_vars
<1>. QED BY <1>12, <1>13, <1>15 DEF Promises

LEMMA SignalsSent ==
  ASSUME IInv, IInv', Promises, NEW t \in Threads, cond_signal(t) \/ BroadcastNext(t)
  PROVE  Promises'
<1>1. CASE cond_signal(t)
  <2>1. Call(t, "cond") BY <1>1 DEF cond_signal
  <2>2. cur = t /\ pc[t] = "run" /\ in_external_intr = FALSE BY <2>1, Begins
  <2>3. Signal /\ UNCHANGED <<waiting_lock, don, time_vars, pc, loc>> /\ priority' = priority
    BY <1>1 DEF cond_signal, lock_vars, prio_vars
  <2>. QED BY <2>2, <2>3, SignalPromises
<1>2. CASE BroadcastNext(t)
  <2>1. At(t, "broadcast") BY <1>2 DEF BroadcastNext
  <2>2. cur = t /\ pc[t] = "broadcast" /\ in_external_intr = FALSE BY <2>1, RunsOn
  <2>3. UNCHANGED <<waiting_lock, don, time_vars, loc>> /\ priority' = priority
    BY <1>2 DEF BroadcastNext, lock_vars, prio_vars
  <2>4. CASE Signal /\ pc' = pc
    BY <2>2, <2>3, <2>4, SignalPromises
  <2>5. CASE Goto(t, "run") /\ UNCHANGED <<condition, sema_vars, sched_vars>>
    <3>1. pc' = [pc EXCEPT ![t] = "run"] /\ UNCHANGED <<condition, waiters, value>>
      BY <2>5 DEF Goto, sema_vars
    <3>2. OnlyMoves(t) /\ pc'[t] = "run" /\ loc'[t].sema \notin Threads
      BY <2>2, <2>3, <3>1, Position DEF OnlyMoves
    <3>. QED BY <2>2, <2>3, <3>1, <3>2, OrdinaryKeeps
  <2>. QED BY <1>2, <2>4, <2>5 DEF BroadcastNext
<1>. QED BY <1>1, <1>2

-----------------------------------------------------------------------------
(* The sleepers.                                                             *)

\* A deadline that is still to come is never the one of an empty frame.
LEMMA TimerSleepPromises ==
  ASSUME IInv, IInv', Promises, NEW t \in Threads, timer_sleep(t)
  PROVE  Promises'
<1>1. Call(t, "wait")
  BY DEF timer_sleep
<1>2. cur = t /\ pc[t] = "run" /\ in_external_intr = FALSE
  BY <1>1, Begins
<1>3. PICK n \in Sleeps : ticks + n <= MaxTicks /\ loc' = [loc EXCEPT ![t].wake = ticks + n]
  BY DEF timer_sleep
<1>4. /\ pc' = [pc EXCEPT ![t] = "sleep"]
      /\ UNCHANGED <<waiting_lock, condition, waiters, value, time_vars>>
  BY DEF timer_sleep, Goto, lock_vars, sema_vars
<1>5. OnlyMoves(t) /\ pc'[t] = "sleep"
  BY <1>2, <1>3, <1>4, Position DEF OnlyMoves
<1>6. /\ loc'[t].sema = loc[t].sema /\ loc[t].sema \notin Threads
      /\ loc'[t].wake = ticks + n
  BY <1>2, <1>3, Position DEF Loc
<1>7. Signals' /\ Wakeups'
  BY <1>2, <1>4, <1>5, <1>6, OrdinaryStep
<1>8. Ordered'
  BY <1>2, <1>3, <1>4, <1>5, <1>6, OrderStays DEF Promises, time_vars
<1>. QED BY <1>7, <1>8 DEF Promises

\* The place list_insert_ordered finds keeps the list in order.
LEMMA SleepBlockPromises ==
  ASSUME IInv, IInv', Promises, NEW t \in Threads, SleepBlock(t)
  PROVE  Promises'
<1>1. At(t, "sleep")
  BY DEF SleepBlock
<1>2. cur = t /\ pc[t] = "sleep" /\ in_external_intr = FALSE /\ sleeping \in Seq(Threads)
  BY <1>1, RunsOn DEF TimeTypes
<1>3. /\ pc' = [pc EXCEPT ![t] = "run"] /\ sleeping' = Insert(t) /\ in_external_intr' = FALSE
      /\ UNCHANGED <<waiting_lock, condition, waiters, value, loc>>
  BY <1>2 DEF SleepBlock, Goto, lock_vars, sema_vars
<1>4. OnlyMoves(t) /\ pc'[t] = "run"
  BY <1>2, <1>3, Position DEF OnlyMoves
<1>5. loc'[t].sema \notin Threads
  BY <1>2, <1>3, Position
<1>6. Signals' /\ Wakeups'
  BY <1>2, <1>3, <1>4, <1>5, OrdinaryStep
<1>. DEFINE n == Len(sleeping)
            w(u) == loc[u].wake
<1>7. PICK k \in 1 .. n + 1 :
        /\ Insert(t) \in Seq(Threads) /\ OneMore(sleeping, Insert(t), k, t)
        /\ \A i \in 1 .. n : i < k => ~ (w(t) < w(sleeping[i]))
        /\ k <= n => w(t) < w(sleeping[k])
  BY <1>2, Inserted
<1>8. n \in Nat /\ DOMAIN sleeping = 1 .. n /\ \A i \in 1 .. n : sleeping[i] \in Threads
  BY <1>2
<1>9. \A u \in Threads : w(u) \in Int
  <2>1. loc \in [Threads -> Loc] BY <1>2, Position
  <2>2. \A x \in Loc : x.wake \in Int BY ThreadsAssumption DEF Loc, NoWake
  <2>. QED BY <2>1, <2>2
<1>10. \A i, j \in 1 .. n : i <= j => w(sleeping[i]) <= w(sleeping[j])
  BY <1>8 DEF Promises, Ordered
<1>11. /\ Len(Insert(t)) = n + 1 /\ DOMAIN Insert(t) = 1 .. n + 1
       /\ \A i \in 1 .. n + 1 :
            Insert(t)[i] = IF i < k THEN sleeping[i] ELSE IF i = k THEN t ELSE sleeping[i - 1]
  BY <1>7, <1>8 DEF OneMore
<1>. HIDE DEF n, w
<1>. DEFINE r == Insert(t)
<1>12. ASSUME NEW i \in 1 .. n + 1, NEW j \in 1 .. n + 1, i <= j PROVE w(r[i]) <= w(r[j])
  <2>. HIDE DEF r
  <2>0. /\ r[i] = IF i < k THEN sleeping[i] ELSE IF i = k THEN t ELSE sleeping[i - 1]
        /\ r[j] = IF j < k THEN sleeping[j] ELSE IF j = k THEN t ELSE sleeping[j - 1]
    BY <1>11 DEF r
  <2>1. CASE j < k
    <3>1. i \in 1 .. n /\ j \in 1 .. n /\ i < k BY <1>7, <1>8, <1>12, <2>1
    <3>. QED BY <1>10, <1>12, <2>0, <2>1, <3>1
  <2>2. CASE i > k
    <3>1. i - 1 \in 1 .. n /\ j - 1 \in 1 .. n /\ i - 1 <= j - 1 BY <1>7, <1>8, <1>12, <2>2
    <3>2. r[i] = sleeping[i - 1] /\ r[j] = sleeping[j - 1] BY <1>7, <1>8, <1>12, <2>0, <2>2
    <3>. QED BY <1>10, <3>1, <3>2
  <2>3. CASE i = k /\ j = k
    <3>1. w(t) \in Int BY <1>9
    <3>. QED BY <2>0, <2>3, <3>1
  <2>4. CASE i < k /\ j = k
    <3>1. i \in 1 .. n BY <1>7, <1>8, <1>12, <2>4
    <3>2. r[i] = sleeping[i] /\ r[j] = t BY <2>0, <2>4
    <3>3. ~ (w(t) < w(sleeping[i])) BY <1>7, <2>4, <3>1
    <3>4. w(t) \in Int /\ w(sleeping[i]) \in Int BY <1>8, <1>9, <3>1
    <3>. QED BY <3>2, <3>3, <3>4
  <2>5. CASE i <= k /\ j > k
    <3>1. j - 1 \in 1 .. n /\ k \in 1 .. n /\ k <= j - 1 BY <1>7, <1>8, <1>12, <2>5
    <3>2. r[j] = sleeping[j - 1] BY <1>7, <1>8, <1>12, <2>0, <2>5
    <3>3. w(t) < w(sleeping[k]) BY <1>7, <1>8, <3>1
    <3>4. w(sleeping[k]) <= w(sleeping[j - 1]) BY <1>10, <3>1
    <3>5. /\ w(t) \in Int /\ w(sleeping[k]) \in Int /\ w(sleeping[j - 1]) \in Int
      BY <1>8, <1>9, <3>1
    <3>6. w(t) <= w(sleeping[j - 1]) BY <3>3, <3>4, <3>5
    <3>7. CASE i = k
      BY <2>0, <3>2, <3>6, <3>7
    <3>8. CASE i < k
      <4>1. i \in 1 .. n BY <1>7, <1>8, <1>12, <3>8
      <4>2. r[i] = sleeping[i] BY <2>0, <3>8
      <4>3. i <= j - 1 BY <1>7, <1>8, <1>12, <2>5, <3>8
      <4>. QED BY <1>10, <3>1, <3>2, <4>1, <4>2, <4>3
    <3>. QED BY <1>7, <1>8, <1>12, <2>5, <3>7, <3>8
  <2>. QED BY <1>7, <1>8, <1>12, <2>1, <2>2, <2>3, <2>4, <2>5
<1>13. ToSet(sleeping') = ToSet(sleeping) \cup {t}
  BY <1>2, <1>3, <1>7, OneMoreElement
<1>14. \A u \in ToSet(sleeping') : loc'[u].wake <= MaxTicks
  BY <1>2, <1>3, <1>13 DEF Promises, Ordered
<1>15. \A u \in Threads : pc'[u] = "sleep" => loc'[u].wake <= MaxTicks
  BY <1>3, <1>4 DEF Promises, Ordered, OnlyMoves
<1>16. \A i, j \in DOMAIN sleeping' : i <= j => loc'[sleeping'[i]].wake <= loc'[sleeping'[j]].wake
  BY <1>3, <1>11, <1>12 DEF w
<1>17. Ordered'
  BY <1>3, <1>14, <1>15, <1>16 DEF Ordered
<1>. QED BY <1>6, <1>17 DEF Promises

\* The timer interrupt has nothing to do with semaphores and conditions.
LEMMA HandlerPromises ==
  ASSUME IInv, IInv', Promises, UNCHANGED <<condition, value, waiters, don, pc>>,
         \A u \in Threads : loc'[u] = loc[u] \/ (loc'[u] = NoLoc /\ pc[u] = "run")
  PROVE  Signals' /\ Wakeups'
<1>1. ASSUME NEW u \in Threads PROVE SignalOf(u)'
  <2>1. SignalOf(u) BY DEF Promises, Signals
  <2>2. CASE loc'[u] = loc[u]
    BY <2>1, <2>2 DEF SignalOf, WaitPlace, InWait
  <2>3. CASE loc'[u] = NoLoc /\ pc[u] = "run"
    <3>1. NoLoc.sema \notin Threads BY KindsApart DEF NoLoc
    <3>. QED BY <2>1, <2>3, <3>1 DEF SignalOf, WaitPlace, InWait
  <2>. QED BY <2>2, <2>3
<1>2. Signals'
  BY <1>1 DEF Promises, Signals
<1>3. Wakeups'
  <2>1. \A x \in Semaphores : value'[x] <= value[x]
    <3>1. \A x \in Semaphores : value[x] \in Nat BY DEF IInv, TypeOK
    <3>. QED BY <3>1
  <2>2. \A u \in Threads : pc[u] = "down" => pc'[u] = "down" /\ loc'[u].sema = loc[u].sema
    OBVIOUS
  <2>. QED BY <2>1, <2>2, WakeupsStay DEF Promises
<1>. QED BY <1>2, <1>3

LEMMA TimerInterruptPromises ==
  ASSUME IInv, IInv', Promises, timer_interrupt
  PROVE  Promises'
<1>1. /\ UNCHANGED <<condition, value, waiters, don, pc, loc, sleeping>>
      /\ ticks' = Now /\ in_external_intr' = Late(sleeping, Now)
  BY DEF timer_interrupt, sema_vars
<1>2. Signals' /\ Wakeups'
  BY <1>1, HandlerPromises
<1>3. in_external_intr' => Late(sleeping, ticks)'
  BY <1>1 DEF Late
<1>4. Ordered'
  BY <1>1, <1>3 DEF Promises, Ordered
<1>. QED BY <1>2, <1>4 DEF Promises

\* t is the front of the list; its turn leaves the rest of the list, and the clock
\* as long as somebody is left.
Turn(t) ==
  /\ sleeping \in Seq(Threads) /\ loc[t].wake <= ticks
  /\ t \in ToSet(sleeping) /\ pc[t] = "run" /\ t \notin ToSet(Tail(sleeping))
  /\ ToSet(sleeping) = ToSet(Tail(sleeping)) \cup {t}
  /\ loc'[t] = NoLoc /\ \A u \in Threads \ {t} : loc'[u] = loc[u]
  /\ sleeping' = Tail(sleeping) /\ sleeping' \in Seq(Threads)
  /\ sleeping' # << >> => ticks' = ticks
  /\ in_external_intr' = Late(sleeping', ticks)

LEMMA FrontTurns ==
  ASSUME IInv, Ordered, wake_up_threads
  PROVE  \E t \in Threads : Turn(t)
<1>1. /\ in_external_intr = TRUE /\ sleeping \in Seq(Threads) /\ loc \in [Threads -> Loc]
      /\ sleeping # << >>
  BY DEF wake_up_threads, IInv, Places, TypeOK
<1>2. PICK t \in Threads : t = Head(sleeping)
  BY <1>1, TailOfList
<1>3. /\ sleeping' = Tail(sleeping) /\ loc' = [loc EXCEPT ![t] = NoLoc]
      /\ ticks' = IF Pending = {t} THEN 0 ELSE ticks
      /\ in_external_intr' = Late(Tail(sleeping), ticks)
  BY <1>2 DEF wake_up_threads
<1>4. /\ Tail(sleeping) \in Seq(Threads) /\ t \in ToSet(sleeping)
      /\ ToSet(sleeping) = ToSet(Tail(sleeping)) \cup {t} /\ t \notin ToSet(Tail(sleeping))
  <2>1. IsInjective(sleeping) BY DEF IInv, Waits
  <2>. QED BY <1>1, <1>2, <2>1, TailOfList
<1>5. loc[t].wake <= ticks /\ pc[t] = "run"
  BY <1>1, <1>2, <1>4 DEF Ordered, Late, IInv, Waits
<1>6. Tail(sleeping) # << >> => ticks' = ticks
  <2>1. ASSUME Tail(sleeping) # << >> PROVE Pending # {t}
    <3>1. PICK u \in Threads : u \in ToSet(Tail(sleeping))
      BY <1>4, <2>1, TailOfList
    <3>2. loc[u].wake <= MaxTicks /\ u # t BY <1>4, <3>1 DEF Ordered
    <3>3. loc[u].wake # NoWake BY <3>2, ThreadsAssumption DEF NoWake
    <3>. QED BY <3>2, <3>3 DEF Pending
  <2>. QED BY <1>3, <2>1
<1>7. loc'[t] = NoLoc /\ \A u \in Threads \ {t} : loc'[u] = loc[u]
  BY <1>1, <1>3
<1>. QED BY <1>1, <1>3, <1>4, <1>5, <1>6, <1>7 DEF Turn

LEMMA WakeUpPromises ==
  ASSUME IInv, IInv', Promises, wake_up_threads
  PROVE  Promises'
<1>0. PICK t \in Threads : Turn(t)
  BY FrontTurns DEF Promises
<1>1. /\ sleeping \in Seq(Threads) /\ t \in ToSet(sleeping) /\ pc[t] = "run"
      /\ t \notin ToSet(Tail(sleeping)) /\ ToSet(sleeping) = ToSet(Tail(sleeping)) \cup {t}
      /\ loc'[t] = NoLoc /\ \A u \in Threads \ {t} : loc'[u] = loc[u]
      /\ sleeping' = Tail(sleeping) /\ sleeping' \in Seq(Threads)
      /\ sleeping' # << >> => ticks' = ticks
      /\ in_external_intr' = Late(sleeping', ticks)
  BY <1>0 DEF Turn
<1>2. UNCHANGED <<condition, value, waiters, don, pc>>
  BY DEF wake_up_threads, sema_vars
<1>3. Signals' /\ Wakeups'
  BY <1>1, <1>2, HandlerPromises
<1>4. /\ DOMAIN sleeping = 1 .. Len(sleeping) /\ Len(sleeping) \in Nat /\ sleeping # << >>
      /\ DOMAIN sleeping' = 1 .. Len(sleeping) - 1
      /\ \A i \in 1 .. Len(sleeping) - 1 : sleeping'[i] = sleeping[i + 1]
  <2>1. sleeping # << >> BY <1>1 DEF ToSet
  <2>. QED BY <1>1, <2>1
<1>5. \A i \in DOMAIN sleeping' : sleeping'[i] \in ToSet(sleeping') /\ sleeping'[i] \in Threads
  BY <1>1 DEF ToSet
<1>6. \A u \in ToSet(sleeping') : u \in Threads /\ loc'[u] = loc[u]
  <2>1. ToSet(sleeping') \subseteq Threads BY <1>1 DEF ToSet
  <2>. QED BY <1>1, <2>1
<1>7. ASSUME NEW i \in DOMAIN sleeping', NEW j \in DOMAIN sleeping', i <= j
      PROVE  loc'[sleeping'[i]].wake <= loc'[sleeping'[j]].wake
  <2>1. i + 1 \in DOMAIN sleeping /\ j + 1 \in DOMAIN sleeping /\ i + 1 <= j + 1
    BY <1>4, <1>7
  <2>2. loc[sleeping[i + 1]].wake <= loc[sleeping[j + 1]].wake
    BY <2>1 DEF Promises, Ordered
  <2>3. sleeping'[i] = sleeping[i + 1] /\ sleeping'[j] = sleeping[j + 1] BY <1>4
  <2>4. loc'[sleeping'[i]] = loc[sleeping'[i]] /\ loc'[sleeping'[j]] = loc[sleeping'[j]]
    BY <1>5, <1>6
  <2>. QED BY <2>2, <2>3, <2>4
<1>8. in_external_intr' => Late(sleeping, ticks)'
  <2>1. ASSUME in_external_intr' PROVE Late(sleeping, ticks)'
    <3>1. sleeping' # << >> /\ loc[Head(sleeping')].wake <= ticks
      BY <1>1, <2>1 DEF Late
    <3>2. Head(sleeping') \in ToSet(sleeping') BY <1>1, <3>1, TailOfList
    <3>. QED BY <1>1, <1>6, <3>1, <3>2 DEF Late
  <2>. QED BY <2>1
<1>9. \A u \in ToSet(sleeping') : loc'[u].wake <= MaxTicks
  BY <1>1, <1>6 DEF Promises, Ordered
<1>10. \A u \in Threads : pc'[u] = "sleep" => loc'[u].wake <= MaxTicks
  BY <1>1, <1>2 DEF Promises, Ordered
<1>11. Ordered'
  BY <1>7, <1>8, <1>9, <1>10 DEF Ordered
<1>. QED BY <1>3, <1>11 DEF Promises

-----------------------------------------------------------------------------
LEMMA InitPromises ==
  ASSUME Init
  PROVE  Promises
<1>1. /\ condition = << >> /\ sleeping = << >> /\ in_external_intr = FALSE
      /\ waiters = [s \in Semaphores |-> << >>]
      /\ value = [s \in Semaphores |-> IF s \in Locks THEN 1 ELSE 0]
      /\ pc = [t \in Threads |-> "run"] /\ loc = [t \in Threads |-> NoLoc]
  BY DEF Init
<1>2. ASSUME NEW t \in Threads PROVE SignalOf(t)
  <2>1. value[t] = 0 /\ pc[t] = "run" /\ loc[t].sema \notin Threads
    BY <1>1, KindsApart DEF NoLoc
  <2>2. t \notin ToSet(condition) BY <1>1 DEF ToSet
  <2>. QED BY <2>1, <2>2 DEF SignalOf, WaitPlace, InWait
<1>3. IsInjective(condition)
  BY <1>1 DEF IsInjective
<1>4. Wakeups
  BY <1>1 DEF Wakeups
<1>5. Ordered
  <2>1. ToSet(sleeping) = {} /\ DOMAIN sleeping = {} BY <1>1 DEF ToSet
  <2>. QED BY <1>1, <2>1 DEF Ordered
<1>. QED BY <1>2, <1>3, <1>4, <1>5 DEF Promises, Signals

LEMMA NextPromises ==
  ASSUME IInv, IInv', Promises, [Next]_vars
  PROVE  Promises'
<1>1. CASE UNCHANGED vars
  <2>1. UNCHANGED <<status, condition, value, waiters, don, pc, loc, sleeping, ticks, in_external_intr>>
    BY <1>1 DEF vars, sched_vars, sema_vars, time_vars
  <2>2. Signals' /\ Wakeups' BY <2>1, HandlerPromises
  <2>3. Ordered' BY <2>1 DEF Promises, Ordered, Late
  <2>. QED BY <2>2, <2>3 DEF Promises
<1>2. CASE timer_interrupt
  BY <1>2, TimerInterruptPromises
<1>3. CASE wake_up_threads
  BY <1>3, WakeUpPromises
<1>4. ASSUME NEW t \in Threads, Inside(t) PROVE Promises'
  BY <1>4, PropagatePromises, SemaWaitPromises, SemaPassPromises, ReleaseUpPromises,
     CondDownPromises, SignalsSent, SleepBlockPromises, OrdinaryInside DEF Inside
<1>5. ASSUME NEW t \in Threads, Begin(t) PROVE Promises'
  BY <1>5, CallSemaUpPromises, CondWaitPromises, SignalsSent, TimerSleepPromises, OrdinaryCalls
  DEF Begin
<1>6. ASSUME NEW t \in Threads, Finish(t) PROVE Promises'
  BY <1>6, OrdinaryEnds DEF Finish
<1>. QED BY <1>1, <1>2, <1>3, <1>4, <1>5, <1>6 DEF Next

\* In every behaviour each thread is where its place says and what it was promised
\* is on its way (all of synch.c and timer.c).
THEOREM PromisesKept == Spec => [](IInv /\ Promises)
<1>1. Init => IInv /\ Promises
  BY InitInv, InitPromises
<1>2. IInv /\ Promises /\ [Next]_vars => (IInv /\ Promises)'
  <2>. SUFFICES ASSUME IInv, Promises, [Next]_vars PROVE IInv' /\ Promises'
    OBVIOUS
  <2>1. IInv' BY NextInv
  <2>. QED BY <2>1, NextPromises
<1>. QED BY <1>1, <1>2, PTL DEF Spec

-----------------------------------------------------------------------------
LEMMA NothingLostFollows ==
  ASSUME IInv, Promises
  PROVE  NothingLost
<1>1. NoLostWakeup
  BY DEF Promises, Wakeups, Coming, NoLostWakeup
<1>2. ASSUME Quiet, NEW t \in Threads
      PROVE  Times(t, condition) + value[t] = IF pc[t] = "cdown" \/ loc[t].sema = t THEN 1 ELSE 0
  <2>1. SignalOf(t) /\ Place(t) /\ don = NoFrame
    BY <1>2 DEF Promises, Signals, IInv, Places, Quiet
  <2>2. InWait(t) <=> pc[t] = "cdown" \/ loc[t].sema = t
    BY <2>1 DEF InWait, Place
  <2>3. Times(t, condition) = IF t \in ToSet(condition) THEN 1 ELSE 0
    <3>1. condition \in Seq(Threads) /\ IsInjective(condition)
      BY DEF Promises, Signals, IInv, TypeOK
    <3>. QED BY <3>1, TimesInList
  <2>4. value[t] = 0 \/ value[t] = 1
    BY <2>1 DEF SignalOf
  <2>5. CASE InWait(t)
    <3>1. (t \in ToSet(condition) /\ value[t] = 0) \/ (t \notin ToSet(condition) /\ value[t] = 1)
      BY <2>1, <2>4, <2>5 DEF SignalOf
    <3>. QED BY <2>2, <2>3, <2>5, <3>1
  <2>6. CASE ~ InWait(t)
    <3>1. t \notin ToSet(condition) /\ value[t] = 0
      BY <2>1, <2>6 DEF SignalOf
    <3>. QED BY <2>2, <2>3, <2>6, <3>1
  <2>. QED BY <2>5, <2>6
<1>3. NoLostSignal
  BY <1>2 DEF NoLostSignal
<1>. QED BY <1>1, <1>3 DEF NothingLost

\* As long as threads are queued at a semaphore somebody awake is on his way to
\* every unit of it, and a thread in cond_wait is in the condition's list or has
\* its signal, but not both (sema_down, sema_up, cond_wait, cond_signal,
\* cond_broadcast).
THEOREM NothingLostHolds == Spec => []NothingLost
<1>1. IInv /\ Promises => NothingLost
  BY NothingLostFollows
<1>. QED BY <1>1, PromisesKept, PTL

-----------------------------------------------------------------------------

-----------------------------------------------------------------------------
\* The sleepers that are left after the tick, or after the turn, have time.
LEMMA LaterWake ==
  ASSUME NEW q \in Seq(Threads), NEW now \in Int, ~ Late(q, now),
         \A u \in Threads : loc[u].wake \in Int,
         \A i, j \in DOMAIN q : i <= j => loc[q[i]].wake <= loc[q[j]].wake,
         NEW u \in ToSet(q)
  PROVE  loc[u].wake > now
<1>1. q # << >>
  BY DEF ToSet
<1>2. Head(q) = q[1] /\ 1 \in DOMAIN q /\ q[1] \in Threads
  BY <1>1
<1>3. PICK j \in DOMAIN q : q[j] = u
  BY DEF ToSet
<1>4. loc[q[1]].wake <= loc[u].wake
  BY <1>2, <1>3
<1>5. ~ (loc[q[1]].wake <= now)
  BY <1>1, <1>2 DEF Late
<1>6. u \in Threads
  BY <1>3
<1>. QED BY <1>2, <1>4, <1>5, <1>6

LEMMA DeadlinesTyped ==
  ASSUME TypeOK
  PROVE  \A u \in Threads : loc[u].wake \in Int
<1>1. loc \in [Threads -> Loc]
  BY DEF TypeOK
<1>2. \A x \in Loc : x.wake \in Int
  BY ThreadsAssumption DEF Loc, NoWake
<1>. QED BY <1>1, <1>2

\* Nobody leaves the list of the sleepers but in wake_up_threads.
LEMMA OnlyFrontLeaves ==
  ASSUME IInv, Promises, [Next]_vars, NEW u \in ToSet(sleeping), u \notin ToSet(sleeping')
  PROVE  loc[u].wake <= ticks
<1>1. CASE sleeping' = sleeping
  BY <1>1
<1>2. ASSUME NEW t \in Threads, SleepBlock(t) PROVE FALSE
  <2>1. sleeping \in Seq(Threads) BY DEF IInv, TypeOK
  <2>2. PICK k \in 1 .. Len(sleeping) + 1 :
          Insert(t) \in Seq(Threads) /\ OneMore(sleeping, Insert(t), k, t)
    BY <2>1, Inserted
  <2>3. ToSet(Insert(t)) = ToSet(sleeping) \cup {t} BY <2>1, <2>2, OneMoreElement
  <2>. QED BY <1>2, <2>3 DEF SleepBlock
<1>3. CASE wake_up_threads
  <2>1. PICK t \in Threads : Turn(t) BY <1>3, FrontTurns DEF Promises
  <2>. QED BY <2>1 DEF Turn
<1>4. CASE timer_interrupt
  BY <1>1, <1>4 DEF timer_interrupt
<1>5. CASE UNCHANGED vars
  BY <1>1, <1>5 DEF vars, time_vars
<1>6. ASSUME NEW t \in Threads, Inside(t), ~ SleepBlock(t) PROVE sleeping' = sleeping
  BY <1>6 DEF Inside, propagate_priorities, PrioritySet, SemaWait, SemaPass, AcquireYield,
     AcquireOwn, ReleaseUp, TryOwn, CondDown, CondReacquire, BroadcastNext, TidRelease,
     CreateUnblock, time_vars
<1>7. ASSUME NEW t \in Threads, Begin(t) PROVE sleeping' = sleeping
  BY <1>7 DEF Begin, thread_set_priority, CallSemaDown, CallSemaUp, CallSemaTryDown, CallAcquire,
     lock_try_acquire, cond_wait, cond_signal, cond_broadcast, thread_create, timer_sleep, time_vars
<1>8. ASSUME NEW t \in Threads, Finish(t) PROVE sleeping' = sleeping
  BY <1>8 DEF Finish, CallRelease, thread_exit, time_vars
<1>. QED BY <1>1, <1>2, <1>3, <1>4, <1>5, <1>6, <1>7, <1>8 DEF Next

\* timer_interrupt is done only when no sleeper is due any more.
LEMMA TickDone ==
  ASSUME IInv, Promises, timer_interrupt \/ wake_up_threads, ~ in_external_intr',
         NEW u \in ToSet(sleeping')
  PROVE  loc[u].wake > ticks'
<1>0. TypeOK /\ \A v \in Threads : loc[v].wake \in Int
  BY DeadlinesTyped DEF IInv
<1>1. CASE timer_interrupt
  <2>1. sleeping' = sleeping /\ ticks' = Now /\ ~ Late(sleeping, Now)
    BY <1>1 DEF timer_interrupt
  <2>2. sleeping \in Seq(Threads) /\ Now \in Int
    BY <1>0, ThreadsAssumption DEF TypeOK, Now
  <2>3. \A i, j \in DOMAIN sleeping : i <= j => loc[sleeping[i]].wake <= loc[sleeping[j]].wake
    BY DEF Promises, Ordered
  <2>. QED BY <1>0, <2>1, <2>2, <2>3, LaterWake
<1>2. CASE wake_up_threads
  <2>1. PICK t \in Threads : Turn(t) BY <1>2, FrontTurns DEF Promises
  <2>2. /\ sleeping \in Seq(Threads) /\ sleeping # << >> /\ sleeping' = Tail(sleeping)
        /\ ~ Late(sleeping', ticks) /\ sleeping' \in Seq(Threads)
    BY <2>1 DEF Turn, ToSet
  <2>3. sleeping' # << >> BY DEF ToSet
  <2>4. ticks' = ticks /\ ticks \in Int
    BY <1>0, <2>1, <2>3 DEF Turn, TypeOK
  <2>5. \A i, j \in DOMAIN sleeping' : i <= j => loc[sleeping'[i]].wake <= loc[sleeping'[j]].wake
    <3>1. ASSUME NEW i \in DOMAIN sleeping', NEW j \in DOMAIN sleeping', i <= j
          PROVE  loc[sleeping'[i]].wake <= loc[sleeping'[j]].wake
      <4>1. i + 1 \in DOMAIN sleeping /\ j + 1 \in DOMAIN sleeping /\ i + 1 <= j + 1
        BY <2>2, <3>1
      <4>2. sleeping'[i] = sleeping[i + 1] /\ sleeping'[j] = sleeping[j + 1] BY <2>2, <3>1
      <4>. QED BY <4>1, <4>2 DEF Promises, Ordered
    <3>. QED BY <3>1
  <2>. DEFINE q == sleeping'
  <2>6. q \in Seq(Threads) /\ ~ Late(q, ticks) /\ u \in ToSet(q)
        /\ \A i, j \in DOMAIN q : i <= j => loc[q[i]].wake <= loc[q[j]].wake
    BY <2>2, <2>5
  <2>. HIDE DEF q
  <2>7. loc[u].wake > ticks
    BY <1>0, <2>4, <2>6, LaterWake
  <2>. QED BY <2>4, <2>7
<1>. QED BY <1>1, <1>2

\* No tick wakes a sleeper early, and none leaves one asleep whose time has come
\* (timer_sleep, list_insert_ordered, wake_up_threads).
THEOREM WakesOnTimeHolds == Spec => WakesOnTime
<1>. DEFINE A == /\ \A t \in ToSet(sleeping) \ ToSet(sleeping') : loc[t].wake <= ticks
                 /\ (timer_interrupt \/ wake_up_threads) /\ ~in_external_intr'
                      => \A t \in ToSet(sleeping') : loc[t].wake > ticks'
<1>1. IInv /\ Promises /\ [Next]_vars => [A]_vars
  BY OnlyFrontLeaves, TickDone
<1>. QED BY <1>1, PromisesKept, PTL DEF Spec, WakesOnTime

-----------------------------------------------------------------------------
(* Donated priorities.                                                       *)

\* A thread that is queued for a lock of x asks x for it.
LEMMA DonorsAsk ==
  ASSUME IInv, NEW x \in Threads, NEW u \in Donors(x)
  PROVE  u \in Threads /\ status[u] = "blocked" /\ pc[u] = "down" /\ Asks(u, x)
<1>1. PICK l \in acquired[x] : u \in ToSet(waiters[l])
  BY DEF Donors
<1>2. l \in Locks /\ l \in Semaphores /\ waiters[l] \in Seq(Threads)
  BY <1>1 DEF IInv, TypeOK, Semaphores
<1>3. u \in Threads
  BY <1>1, <1>2 DEF ToSet
<1>4. status[u] = "blocked" /\ pc[u] = "down" /\ loc[u].sema = l
  BY <1>1, <1>2, <1>3 DEF IInv, Waits
<1>5. waiting_lock[u] = l
  BY <1>2, <1>3, <1>4 DEF IInv, Places, Place
<1>6. holder[l] = x
  BY <1>1, <1>2 DEF IInv, Owned
<1>. QED BY <1>2, <1>3, <1>4, <1>5, <1>6 DEF Asks, Held

\* A thread that is not in lock_acquire asks nobody.
LEMMA AsksNobody ==
  ASSUME IInv, Donations, NEW t \in Threads, pc[t] # "down",
         pc[t] = "donate" => don.then \notin {"yield", "own"}
  PROVE  waiting_lock[t] = NoLock /\ \A x \in Threads : ~ Asks(t, x) /\ t \notin Donors(x)
<1>1. waiting_lock[t] = NoLock
  BY DEF Donations, LockPlace
<1>2. NoLock \notin Locks
  BY ThreadsAssumption DEF NoLock, Locks
<1>3. \A x \in Threads : ~ Asks(t, x)
  BY <1>1, <1>2 DEF Asks, Held
<1>. QED BY <1>1, <1>3, DonorsAsk

\* The priority of a thread that is gone, or that propagate_priorities does not
\* come to, is right.
LEMMA RightNow ==
  ASSUME IInv, Donations, NEW x \in Threads, x # don.t \/ status[x] = "none"
  PROVE  Served(x) /\ Owed(x)
<1>1. CASE x # don.t
  BY <1>1 DEF Donations
<1>2. CASE status[x] = "none"
  <2>1. Held(x) = {} /\ priority[x] = 0
    BY <1>2 DEF Donations, LockPlace
  <2>2. Donors(x) = {}
    BY <2>1, DonorsAsk DEF Asks
  <2>3. ~ (priority[x] > old_priority[x])
    <3>1. old_priority[x] \in Nat BY ThreadsAssumption DEF IInv, TypeOK, Priorities
    <3>. QED BY <2>1, <3>1
  <2>. QED BY <2>2, <2>3 DEF Served, Owed
<1>. QED BY <1>1, <1>2

\* A step that leaves the priorities and the locks alone.
LEMMA DonationsStay ==
  ASSUME IInv, Donations, UNCHANGED <<priority, old_priority, waiting_lock, acquired, missed>>,
         \A x \in Threads : Held(x) \subseteq Held(x)',
         \A l \in Locks : ToSet(waiters'[l]) \subseteq ToSet(waiters[l]),
         don.t \in Threads => don.t = don'.t \/ status[don.t] = "none",
         don'.priority = -1 \/ (don'.priority = don.priority /\ don'.t = don.t),
         \A x \in Threads : LockPlace(x)'
  PROVE  Donations'
<1>1. ASSUME NEW x \in Threads, x # don'.t PROVE Served(x)' /\ Owed(x)'
  <2>1. Served(x) /\ Owed(x) BY <1>1, RightNow
  <2>2. Donors(x)' \subseteq Donors(x)
    <3>1. acquired[x] \subseteq Locks BY DEF IInv, TypeOK
    <3>. QED BY <3>1 DEF Donors
  <2>3. Served(x)' BY <2>1, <2>2 DEF Served
  <2>4. Owed(x)' BY <2>1 DEF Owed, Asks
  <2>. QED BY <2>3, <2>4
<1>2. ASSUME don'.t \in Threads, don'.priority # -1
      PROVE  \E u \in Threads : Asks(u, don.t)' /\ don'.priority <= priority'[u]
  <2>1. don'.priority = don.priority /\ don'.t = don.t BY <1>2
  <2>2. PICK u \in Threads : Asks(u, don.t) /\ don.priority <= priority[u]
    BY <1>2, <2>1 DEF Donations
  <2>3. Asks(u, don.t)' BY <1>2, <2>1, <2>2 DEF Asks
  <2>. QED BY <2>1, <2>2, <2>3
<1>. QED BY <1>1, <1>2 DEF Donations

LEMMA OthersLockPlace ==
  ASSUME IInv, Donations, NEW t \in Threads, cur = t, OnlyMoves(t), NEW u \in Threads \ {t},
         Held(u)' \subseteq Held(u), status'[u] = "none" => status[u] = "none" /\ priority'[u] = priority[u]
  PROVE  LockPlace(u)'
<1>1. pc[u] # "donate" /\ pc'[u] = pc[u] /\ loc'[u] = loc[u] /\ waiting_lock'[u] = waiting_lock[u]
  BY DonatesAlone DEF OnlyMoves
<1>. QED BY <1>1 DEF Donations, LockPlace

LEMMA DonationsMove ==
  ASSUME IInv, Donations, NEW t \in Threads, cur = t, OnlyMoves(t),
         UNCHANGED <<priority, old_priority, waiting_lock, holder, acquired, missed>>,
         \A l \in Locks : ToSet(waiters'[l]) \subseteq ToSet(waiters[l]),
         \A u \in Threads : status'[u] = "none" => status[u] = "none",
         don.t \in Threads => don.t = don'.t \/ status[don.t] = "none",
         don'.priority = -1 \/ (don'.priority = don.priority /\ don'.t = don.t),
         waiting_lock[t] # NoLock =>
           \/ pc'[t] = "down" /\ loc'[t].sema \in Locks
           \/ pc'[t] = "donate" /\ don'.then \in {"yield", "own"}
  PROVE  Donations'
<1>1. \A x \in Threads : Held(x)' = Held(x)
  BY DEF Held
<1>2. LockPlace(t)'
  BY <1>1 DEF Donations, LockPlace
<1>3. \A u \in Threads \ {t} : LockPlace(u)'
  BY <1>1, OthersLockPlace
<1>. QED BY <1>1, <1>2, <1>3, DonationsStay

-----------------------------------------------------------------------------
\* Only thread_exit takes a thread's status away.
LEMMA NoneStays ==
  ASSUME NEW st \in States, NEW rd, schedule(rd, st), NEW u \in Threads, status'[u] = "none"
  PROVE  st[u] = "none"
<1>1. CASE status' = st
  BY <1>1
<1>2. CASE \E next : status' = [st EXCEPT ![next] = "running"]
  BY <1>2 DEF States
<1>. QED BY <1>1, <1>2 DEF schedule

LEMMA YieldNone ==
  ASSUME NEW st \in States, NEW rd, NEW t, thread_yield(t, rd, st), NEW u \in Threads,
         status'[u] = "none"
  PROVE  st[u] = "none"
<1>. DEFINE st2 == [st EXCEPT ![t] = "ready"]
            rd2 == add_ready_thread(rd, t, priority[t])
<1>1. st2 \in States /\ schedule(rd2, st2)
  BY DEF thread_yield, States, Statuses
<1>2. st2[u] = "none" => st[u] = "none"
  BY DEF States
<1>. HIDE DEF st2, rd2
<1>3. st2[u] = "none"
  BY <1>1, NoneStays
<1>. QED BY <1>2, <1>3

LEMMA BlockNone ==
  ASSUME TypeOK, NEW t, thread_block(t), NEW u \in Threads, status'[u] = "none"
  PROVE  status[u] = "none"
<1>. DEFINE st2 == [status EXCEPT ![t] = "blocked"]
<1>1. status \in States
  BY TypeGroups DEF SchedTypes, States
<1>2. st2 \in States /\ schedule(ready, st2)
  BY <1>1 DEF thread_block, States, Statuses
<1>3. st2[u] = "none" => status[u] = "none"
  BY <1>1 DEF States
<1>. HIDE DEF st2
<1>4. st2[u] = "none"
  BY <1>2, NoneStays
<1>. QED BY <1>3, <1>4

LEMMA UpNone ==
  ASSUME IInv, NEW s \in Semaphores, sema_up(s), NEW u \in Threads, status'[u] = "none"
  PROVE  status[u] = "none"
<1>1. status \in States
  BY TypeGroups DEF IInv, SchedTypes, States
<1>2. CASE UNCHANGED sched_vars
  BY <1>2 DEF sched_vars
<1>3. CASE \E w : status' = [status EXCEPT ![w] = "ready"]
  BY <1>1, <1>3 DEF States
<1>. QED BY <1>2, <1>3 DEF sema_up

\* sema_up takes one thread out of one list.
LEMMA UpWaiters ==
  ASSUME IInv, NEW s \in Semaphores, sema_up(s), priority' = priority
  PROVE  \A l \in Locks : ToSet(waiters'[l]) \subseteq ToSet(waiters[l])
<1>0. waiters \in [Semaphores -> Seq(Threads)] /\ \A l \in Locks : l \in Semaphores
  BY DEF IInv, TypeOK, Semaphores
<1>1. CASE waiters' = waiters
  BY <1>1
<1>2. ASSUME NEW k \in DOMAIN waiters[s], NEW w \in Threads, Wakes(s, k, w), NEW l \in Locks
      PROVE  ToSet(waiters'[l]) \subseteq ToSet(waiters[l])
  <2>1. waiters' = [waiters EXCEPT ![s] = RemoveAt(@, k)] BY <1>2 DEF Wakes
  <2>2. waiters[s] \in Seq(Threads) BY <1>0
  <2>3. ToSet(waiters[s]) = ToSet(RemoveAt(waiters[s], k)) \cup {waiters[s][k]}
    BY <2>2, RemovedAt
  <2>4. CASE l = s
    BY <1>0, <2>1, <2>3, <2>4
  <2>5. CASE l # s
    BY <1>0, <2>1, <2>5
  <2>. QED BY <2>4, <2>5
<1>. QED BY <1>1, <1>2, SemaUp

-----------------------------------------------------------------------------
\* Steps of a thread outside of lock_acquire.

LEMMA PlainMove ==
  ASSUME IInv, Donations, NEW t \in Threads, cur = t, OnlyMoves(t), pc[t] # "down",
         UNCHANGED <<priority, old_priority, waiting_lock, holder, acquired, missed>>,
         \A l \in Locks : ToSet(waiters'[l]) \subseteq ToSet(waiters[l]),
         \A u \in Threads : status'[u] = "none" => status[u] = "none",
         \/ pc[t] # "donate" /\ don' = don
         \/ Donated(t, "set") \/ Donated(t, "up")
  PROVE  Donations'
<1>0. NoFrame.t = NoThread /\ NoFrame.priority = -1 /\ NoThread \notin Threads
  BY ThreadsAssumption DEF NoFrame
<1>1. CASE pc[t] # "donate" /\ don' = don
  <2>1. waiting_lock[t] = NoLock BY <1>1, AsksNobody
  <2>2. don' = NoFrame /\ don = NoFrame BY <1>1, DonatesAlone
  <2>. QED BY <1>0, <2>1, <2>2, DonationsMove
<1>2. ASSUME NEW then \in {"set", "up"}, Donated(t, then) PROVE Donations'
  <2>1. don.then = then /\ don' = NoFrame BY <1>2, Donates
  <2>2. waiting_lock[t] = NoLock BY <2>1, AsksNobody
  <2>3. don.t \in Threads => status[don.t] = "none" BY <1>2 DEF Donated, is_thread
  <2>. QED BY <1>0, <2>1, <2>2, <2>3, DonationsMove
<1>. QED BY <1>1, <1>2

LEMMA SignalGives ==
  ASSUME IInv, Signal, priority' = priority
  PROVE  /\ \A l \in Locks : ToSet(waiters'[l]) \subseteq ToSet(waiters[l])
         /\ \A u \in Threads : status'[u] = "none" => status[u] = "none"
<1>1. PICK i \in CondMax : sema_up(condition[i])
  BY DEF Signal
<1>2. condition \in Seq(Threads)
  BY DEF IInv, TypeOK
<1>3. CondMax \subseteq DOMAIN condition
  BY <1>2 DEF CondMax
<1>4. condition[i] \in Threads
  BY <1>1, <1>2, <1>3
<1>5. condition[i] \in Semaphores
  BY <1>4 DEF Semaphores
<1>. QED BY <1>1, <1>5, UpNone, UpWaiters

\* Code of the kernel that leaves priorities and locks alone.
LEMMA PlainInside ==
  ASSUME IInv, Donations, NEW t \in Threads,
         \/ PrioritySet(t) \/ ReleaseUp(t) \/ CondDown(t) \/ BroadcastNext(t)
         \/ CreateUnblock(t) \/ SleepBlock(t)
  PROVE  Donations'
<1>. DEFINE same == UNCHANGED <<priority, old_priority, waiting_lock, holder, acquired, missed>>
<1>0. status \in States
  BY TypeGroups DEF IInv, SchedTypes, States
<1>1. CASE PrioritySet(t)
  <2>1. Donated(t, "set") BY <1>1 DEF PrioritySet
  <2>2. cur = t /\ pc[t] = "donate" /\ CodeTypes BY <2>1, Donates
  <2>3. pc' = [pc EXCEPT ![t] = "run"] /\ loc' = loc /\ same /\ waiters' = waiters
    BY <1>1 DEF PrioritySet, Goto, lock_vars, sema_vars, prio_vars
  <2>4. OnlyMoves(t) BY <2>2, <2>3 DEF OnlyMoves, CodeTypes
  <2>5. thread_yield(t, ready, status) \/ status' = status
    BY <1>1 DEF PrioritySet, sched_vars
  <2>6. \A u \in Threads : status'[u] = "none" => status[u] = "none"
    BY <1>0, <2>5, YieldNone
  <2>. QED BY <2>1, <2>2, <2>3, <2>4, <2>6, PlainMove
<1>2. CASE ReleaseUp(t)
  <2>1. Donated(t, "up") BY <1>2 DEF ReleaseUp
  <2>2. cur = t /\ pc[t] = "donate" /\ CodeTypes /\ Place(t) /\ don.then = "up" BY <2>1, Donates
  <2>3. /\ pc' = [pc EXCEPT ![t] = loc[t].ret] /\ loc' = [loc EXCEPT ![t].ret = "run"] /\ same
        /\ sema_up(don.lock)
    BY <1>2 DEF ReleaseUp, Goto, lock_vars, prio_vars
  <2>4. OnlyMoves(t) BY <2>2, <2>3 DEF OnlyMoves, CodeTypes
  <2>5. don.lock \in Semaphores BY <2>2 DEF Place, Semaphores
  <2>6. \A u \in Threads : status'[u] = "none" => status[u] = "none"
    BY <2>3, <2>5, UpNone
  <2>7. \A l \in Locks : ToSet(waiters'[l]) \subseteq ToSet(waiters[l])
    BY <2>3, <2>5, UpWaiters
  <2>. QED BY <2>1, <2>2, <2>3, <2>4, <2>6, <2>7, PlainMove
<1>3. CASE CondDown(t)
  <2>1. At(t, "cdown") BY <1>3 DEF CondDown
  <2>2. cur = t /\ pc[t] = "cdown" /\ CodeTypes BY <2>1, RunsOn
  <2>3. /\ pc' = [pc EXCEPT ![t] = "down"] /\ loc' = [loc EXCEPT ![t].sema = t] /\ same
        /\ waiters' = waiters /\ status' = status /\ don' = don
    BY <1>3 DEF CondDown, Goto, lock_vars, prio_vars, sema_vars, sched_vars
  <2>4. OnlyMoves(t) BY <2>2, <2>3 DEF OnlyMoves, CodeTypes
  <2>. QED BY <2>2, <2>3, <2>4, PlainMove
<1>4. CASE BroadcastNext(t)
  <2>1. At(t, "broadcast") BY <1>4 DEF BroadcastNext
  <2>2. cur = t /\ pc[t] = "broadcast" /\ CodeTypes BY <2>1, RunsOn
  <2>3. /\ pc' = pc \/ pc' = [pc EXCEPT ![t] = "run"]
        /\ Signal \/ UNCHANGED <<status, waiters>>
        /\ loc' = loc /\ don' = don /\ same
    BY <1>4 DEF BroadcastNext, Goto, lock_vars, prio_vars, sema_vars, sched_vars
  <2>4. OnlyMoves(t) BY <2>2, <2>3 DEF OnlyMoves, CodeTypes
  <2>5. /\ \A l \in Locks : ToSet(waiters'[l]) \subseteq ToSet(waiters[l])
        /\ \A u \in Threads : status'[u] = "none" => status[u] = "none"
    BY <2>3, SignalGives
  <2>. QED BY <2>2, <2>3, <2>4, <2>5, PlainMove
<1>5. CASE CreateUnblock(t)
  <2>. DEFINE c == loc[t].child
              rd == add_ready_thread(ready, c, priority[c])
              st == [status EXCEPT ![c] = "ready"]
  <2>1. At(t, "unblock") BY <1>5 DEF CreateUnblock
  <2>2. cur = t /\ pc[t] = "unblock" /\ CodeTypes BY <2>1, RunsOn
  <2>3. /\ pc' = [pc EXCEPT ![t] = "run"] /\ loc' = [loc EXCEPT ![t] = NoLoc] /\ same
        /\ waiters' = waiters /\ don' = don
    BY <1>5 DEF CreateUnblock, Goto, lock_vars, prio_vars, sema_vars
  <2>4. OnlyMoves(t) BY <2>2, <2>3 DEF OnlyMoves, CodeTypes
  <2>5. thread_yield(t, rd, st) \/ status' = st BY <1>5 DEF CreateUnblock
  <2>6. st \in States /\ \A u \in Threads : st[u] = "none" => status[u] = "none"
    BY <1>0 DEF States, Statuses
  <2>. HIDE DEF st, rd
  <2>7. \A u \in Threads : status'[u] = "none" => status[u] = "none"
    BY <2>5, <2>6, YieldNone
  <2>. QED BY <2>2, <2>3, <2>4, <2>7, PlainMove
<1>6. CASE SleepBlock(t)
  <2>1. At(t, "sleep") BY <1>6 DEF SleepBlock
  <2>2. cur = t /\ pc[t] = "sleep" /\ CodeTypes BY <2>1, RunsOn
  <2>3. /\ pc' = [pc EXCEPT ![t] = "run"] /\ loc' = loc /\ same
        /\ waiters' = waiters /\ don' = don /\ thread_block(t)
    BY <1>6 DEF SleepBlock, Goto, lock_vars, prio_vars, sema_vars
  <2>4. OnlyMoves(t) BY <2>2, <2>3 DEF OnlyMoves, CodeTypes
  <2>5. \A u \in Threads : status'[u] = "none" => status[u] = "none"
    BY <2>3, BlockNone DEF IInv
  <2>. QED BY <2>2, <2>3, <2>4, <2>5, PlainMove
<1>. QED BY <1>1, <1>2, <1>3, <1>4, <1>5, <1>6

\* Calls that do so.
LEMMA PlainCalls ==
  ASSUME IInv, Donations, NEW t \in Threads,
         \/ CallSemaDown(t) \/ CallSemaUp(t) \/ CallSemaTryDown(t) \/ lock_try_acquire(t)
         \/ cond_signal(t) \/ cond_broadcast(t) \/ timer_sleep(t)
  PROVE  Donations'
<1>. DEFINE same == UNCHANGED <<priority, old_priority, waiting_lock, holder, acquired, missed, don>>
<1>0. cur = t /\ pc[t] = "run" /\ CodeTypes
  <2>1. \E c \in {"wait", "lock", "cond"} : Call(t, c)
    BY DEF CallSemaDown, CallSemaUp, CallSemaTryDown, lock_try_acquire, cond_signal,
           cond_broadcast, timer_sleep
  <2>. QED BY <2>1, Begins
<1>1. same
  BY DEF CallSemaDown, CallSemaUp, CallSemaTryDown, lock_try_acquire, cond_signal,
         cond_broadcast, timer_sleep, prio_vars, lock_vars
<1>2. OnlyMoves(t)
  <2>1. UNCHANGED waiting_lock BY <1>1
  <2>2. pc' = pc \/ \E a : pc' = [pc EXCEPT ![t] = a]
    BY DEF CallSemaDown, CallSemaUp, CallSemaTryDown, lock_try_acquire, cond_signal,
           cond_broadcast, timer_sleep, Goto
  <2>3. loc' = loc \/ (\E a : loc' = [loc EXCEPT ![t].sema = a])
          \/ \E a : loc' = [loc EXCEPT ![t].wake = a]
    BY DEF CallSemaDown, CallSemaUp, CallSemaTryDown, lock_try_acquire, cond_signal,
           cond_broadcast, timer_sleep
  <2>. QED BY <1>0, <2>1, <2>2, <2>3 DEF OnlyMoves, CodeTypes
<1>3. /\ \A l \in Locks : ToSet(waiters'[l]) \subseteq ToSet(waiters[l])
      /\ \A u \in Threads : status'[u] = "none" => status[u] = "none"
  <2>1. CASE CallSemaUp(t)
    <3>1. PICK s \in Semas : sema_up(s) BY <2>1 DEF CallSemaUp
    <3>2. s \in Semaphores BY DEF Semaphores
    <3>3. priority' = priority BY <1>1
    <3>. QED BY <3>1, <3>2, <3>3, UpNone, UpWaiters
  <2>2. CASE cond_signal(t)
    <3>1. Signal BY <2>2 DEF cond_signal
    <3>. QED BY <1>1, <3>1, SignalGives
  <2>3. CASE ~ CallSemaUp(t) /\ ~ cond_signal(t)
    <3>1. UNCHANGED <<waiters, status>>
      BY <2>3 DEF CallSemaDown, CallSemaTryDown, lock_try_acquire, cond_broadcast, timer_sleep,
                  sema_vars, sched_vars
    <3>. QED BY <3>1
  <2>. QED BY <2>1, <2>2, <2>3
<1>. QED BY <1>0, <1>1, <1>2, <1>3, PlainMove

-----------------------------------------------------------------------------
\* A donation begins.

LEMMA PrioritiesCount ==
  ASSUME IInv
  PROVE  \A x \in Threads : priority[x] \in Nat /\ old_priority[x] \in Nat
BY ThreadsAssumption DEF IInv, TypeOK, Priorities

\* lock_acquire; the thread that thread_create has begun with asks nobody and is
\* asked by nobody.
LEMMA AcquireDonations ==
  ASSUME IInv, Donations, NEW t \in Threads, cur = t, pc[t] \notin {"donate", "down"},
         NEW l \in Locks,
         waiting_lock' = [waiting_lock EXCEPT ![t] = l],
         don'.t = holder[l], don'.priority = priority[t], don'.then = "yield",
         pc'[t] = "donate", \A u \in Threads \ {t} : pc'[u] = pc[u] /\ loc'[u] = loc[u],
         UNCHANGED <<holder, acquired, waiters, missed>>,
         \A x \in Threads :
            \/ priority'[x] = priority[x] /\ old_priority'[x] = old_priority[x]
            \/ status[x] = "none" /\ priority'[x] = old_priority'[x],
         \A x \in Threads :
            status'[x] = "none" => status[x] = "none" /\ priority'[x] = priority[x],
         \A x \in Threads : priority'[x] \in Nat /\ old_priority'[x] \in Nat
  PROVE  Donations'
<1>0. /\ don = NoFrame /\ don.t = NoThread /\ NoThread \notin Threads
      /\ status[t] = "running" /\ waiting_lock \in [Threads -> Locks \cup {NoLock}]
      /\ priority[t] \in Nat
  <2>1. don = NoFrame /\ NoFrame.t = NoThread BY DonatesAlone DEF NoFrame
  <2>2. status[t] = "running" BY RunningStatus
  <2>3. NoThread \notin Threads BY ThreadsAssumption
  <2>4. waiting_lock \in [Threads -> Locks \cup {NoLock}] BY DEF IInv, TypeOK
  <2>. QED BY <2>1, <2>2, <2>3, <2>4, PrioritiesCount
<1>1. \A x \in Threads : Served(x) /\ Owed(x)
  BY <1>0 DEF Donations
<1>2. waiting_lock[t] = NoLock /\ \A x \in Threads : ~ Asks(t, x)
  BY AsksNobody
<1>3. \A x \in Threads : Held(x)' = Held(x) /\ Donors(x)' = Donors(x)
  BY DEF Held, Donors
<1>4. waiting_lock'[t] = l /\ \A u \in Threads \ {t} : waiting_lock'[u] = waiting_lock[u]
  BY <1>0
<1>5. ASSUME NEW u \in Threads, NEW x \in Threads, Asks(u, x)
      PROVE  u # t /\ Asks(u, x)' /\ priority'[u] = priority[u]
  <2>1. u # t BY <1>2, <1>5
  <2>2. Asks(u, x)' BY <1>3, <1>4, <1>5, <2>1 DEF Asks
  <2>3. pc[u] # "run"
    <3>1. waiting_lock[u] # NoLock
      BY <1>5, ThreadsAssumption DEF Asks, Held, Locks, NoLock
    <3>. QED BY <3>1 DEF Donations, LockPlace
  <2>4. status[u] # "none" BY <2>3 DEF IInv, Places, Place
  <2>. QED BY <2>1, <2>2, <2>4
<1>6. ASSUME NEW x \in Threads PROVE Served(x)' /\ Owed(x)'
  <2>1. Served(x)'
    <3>1. ASSUME NEW u \in Donors(x), u \notin missed PROVE priority'[u] <= priority'[x]
      <4>1. u \in Threads /\ Asks(u, x) BY DonorsAsk
      <4>2. priority'[u] = priority[u] BY <1>5, <4>1
      <4>3. priority[u] <= priority[x] BY <1>1, <3>1 DEF Served
      <4>4. status[x] # "none"
        <5>1. Held(x) # {} BY <4>1 DEF Asks
        <5>. QED BY <5>1 DEF Donations, LockPlace
      <4>5. priority'[x] = priority[x] BY <4>4
      <4>. QED BY <4>2, <4>3, <4>5
    <3>2. missed' = missed OBVIOUS
    <3>. QED BY <1>3, <3>1, <3>2 DEF Served
  <2>2. Owed(x)'
    <3>1. SUFFICES ASSUME priority'[x] > old_priority'[x]
                   PROVE  \E u \in Threads : Asks(u, x)' /\ priority'[x] <= priority'[u]
      BY DEF Owed
    <3>2. priority'[x] = priority[x] /\ old_priority'[x] = old_priority[x] BY <3>1
    <3>3. PICK u \in Threads : Asks(u, x) /\ priority[x] <= priority[u]
      BY <1>1, <3>1, <3>2 DEF Owed
    <3>4. Asks(u, x)' /\ priority'[u] = priority[u] BY <1>5, <3>3
    <3>. QED BY <3>2, <3>3, <3>4
  <2>. QED BY <2>1, <2>2
<1>7. ASSUME don'.t \in Threads
      PROVE  \E u \in Threads : Asks(u, don.t)' /\ don'.priority <= priority'[u]
  <2>1. Asks(t, don.t)' BY <1>3, <1>4, <1>7 DEF Asks, Held
  <2>2. priority'[t] = priority[t] BY <1>0
  <2>3. don'.priority <= priority'[t] BY <1>0, <2>2
  <2>. QED BY <2>1, <2>3
<1>8. ASSUME NEW x \in Threads PROVE LockPlace(x)'
  <2>1. LockPlace(x) BY DEF Donations
  <2>2. CASE x = t
    BY <1>0, <2>2 DEF LockPlace
  <2>3. CASE x # t
    <3>1. pc[x] # "donate" BY <2>3, DonatesAlone
    <3>2. pc'[x] = pc[x] /\ loc'[x] = loc[x] /\ waiting_lock'[x] = waiting_lock[x]
      BY <1>4, <2>3
    <3>. QED BY <1>3, <2>1, <3>1, <3>2 DEF LockPlace
  <2>. QED BY <2>2, <2>3
<1>. QED BY <1>6, <1>7, <1>8 DEF Donations

\* lock_release takes back what was given for the lock; thread_set_priority sets
\* the thread's own priority.
LEMMA OwnDonations ==
  ASSUME IInv, Donations, NEW t \in Threads, cur = t, pc[t] \notin {"donate", "down"},
         OnlyMoves(t), UNCHANGED <<status, waiters, missed, waiting_lock>>,
         don'.t = t, don'.priority = -1,
         \A x \in Threads \ {t} :
            /\ Held(x)' = Held(x) /\ acquired'[x] = acquired[x]
            /\ priority'[x] = priority[x] /\ old_priority'[x] = old_priority[x]
  PROVE  Donations'
<1>0. /\ don = NoFrame /\ don.t = NoThread /\ NoThread \notin Threads /\ status[t] = "running"
  BY DonatesAlone, RunningStatus, ThreadsAssumption DEF NoFrame
<1>1. \A x \in Threads : Served(x) /\ Owed(x)
  BY <1>0 DEF Donations
<1>2. waiting_lock[t] = NoLock /\ \A x \in Threads : ~ Asks(t, x) /\ t \notin Donors(x)
  BY AsksNobody
<1>3. ASSUME NEW x \in Threads \ {t} PROVE Served(x)' /\ Owed(x)'
  <2>1. Donors(x)' = Donors(x) BY DEF Donors
  <2>2. \A u \in Donors(x) : u \in Threads \ {t} BY <1>2, DonorsAsk
  <2>3. Served(x)' BY <1>1, <2>1, <2>2 DEF Served
  <2>4. Owed(x)' BY <1>1, <1>2 DEF Owed, Asks
  <2>. QED BY <2>3, <2>4
<1>4. LockPlace(t)'
  BY <1>0, <1>2 DEF LockPlace
<1>5. \A x \in Threads \ {t} : LockPlace(x)'
  BY OthersLockPlace
<1>. QED BY <1>3, <1>4, <1>5 DEF Donations

-----------------------------------------------------------------------------
\* propagate_priorities takes the one thread whose priority may be wrong, and
\* leaves the holder of the lock that thread asks for.
LEMMA PropagateDonations ==
  ASSUME IInv, Donations, NEW t \in Threads, propagate_priorities(t)
  PROVE  Donations'
<1>0. /\ TypeOK /\ PrioTypes /\ LockTypes /\ CodeTypes
  BY Runs DEF propagate_priorities
<1>1. PICK u \in Threads : u = don.t /\ status[u] # "none"
  BY DEF propagate_priorities, is_thread
<1>max. PICK p : p = Max({don.priority, old_priority[u]} \cup {priority[v] : v \in Donors(u)})
  OBVIOUS
<1>goes. PICK w : w = IF waiting_lock[u] = NoLock THEN NoThread ELSE holder[waiting_lock[u]]
  OBVIOUS
<1>2. /\ p \in Priorities /\ Donors(u) \subseteq Threads
      /\ p = don.priority \/ p = old_priority[u] \/ \E v \in Donors(u) : p = priority[v]
      /\ \A v \in Donors(u) : priority[v] <= p
  BY <1>0, <1>max, Donation
<1>3. /\ priority' = [priority EXCEPT ![u] = p]
      /\ don' = [don EXCEPT !.priority = p, !.t = w]
      /\ UNCHANGED <<status, old_priority, holder, waiting_lock, acquired, waiters, pc, loc, missed>>
  BY <1>1, <1>max, <1>goes DEF propagate_priorities, lock_vars, sema_vars
<1>4. p \in Nat /\ \A x \in Threads : priority[x] \in Nat /\ old_priority[x] \in Nat
  BY <1>2, PrioritiesCount, ThreadsAssumption DEF Priorities
<1>5. priority'[u] = p /\ \A x \in Threads \ {u} : priority'[x] = priority[x]
  BY <1>0, <1>1, <1>3 DEF PrioTypes
<1>6. don'.t = w /\ don'.priority = p /\ don'.then = don.then
  BY <1>0, <1>3 DEF CodeTypes, Frame
<1>7. \A x \in Threads : Held(x)' = Held(x) /\ Donors(x)' = Donors(x)
  BY <1>3 DEF Held, Donors
<1>8. \A v, x \in Threads : Asks(v, x)' <=> Asks(v, x)
  BY <1>3, <1>7 DEF Asks
<1>9. \A x \in Threads : Asks(u, x) => x = w
  BY <1>0, <1>goes, ThreadsAssumption DEF Asks, Held, LockTypes, Locks, NoLock
<1>10. NoThread \notin Threads
  BY ThreadsAssumption
<1>11. w \in Threads => Asks(u, w)
  BY <1>0, <1>goes, <1>10 DEF Asks, Held, LockTypes
<1>12. ASSUME w # u PROVE Served(u)' /\ Owed(u)'
  <2>1. Served(u)'
    <3>1. \A v \in Donors(u) : priority'[v] <= p
      BY <1>2, <1>4, <1>5
    <3>. QED BY <1>1, <1>5, <1>7, <3>1 DEF Served
  <2>2. Owed(u)'
    <3>1. SUFFICES ASSUME p > old_priority[u]
                   PROVE  \E v \in Threads : Asks(v, u) /\ p <= priority'[v]
      BY <1>1, <1>3, <1>5, <1>8 DEF Owed
    <3>2. CASE p = don.priority
      <4>1. don.priority # -1 BY <1>4, <3>2
      <4>2. PICK v \in Threads : Asks(v, u) /\ don.priority <= priority[v]
        BY <1>1, <4>1 DEF Donations
      <4>3. v # u BY <1>1, <1>9, <1>12, <4>2
      <4>4. priority'[v] = priority[v] BY <1>5, <4>3
      <4>. QED BY <3>2, <4>2, <4>4
    <3>3. CASE \E v \in Donors(u) : p = priority[v]
      <4>1. PICK v \in Donors(u) : p = priority[v] BY <3>3
      <4>2. v \in Threads /\ Asks(v, u) BY <1>1, DonorsAsk
      <4>3. p <= priority'[v] BY <1>4, <1>5, <4>1, <4>2
      <4>. QED BY <4>2, <4>3
    <3>4. p # old_priority[u] BY <1>1, <1>4, <3>1
    <3>. QED BY <1>2, <3>2, <3>3, <3>4
  <2>. QED BY <2>1, <2>2
<1>13. ASSUME NEW x \in Threads, x # u, x # w PROVE Served(x)' /\ Owed(x)'
  <2>1. Served(x) /\ Owed(x) BY <1>1, <1>13 DEF Donations
  <2>2. ~ Asks(u, x) BY <1>9, <1>13
  <2>3. priority'[x] = priority[x] BY <1>5, <1>13
  <2>4. \A v \in Donors(x) : v \in Threads \ {u} BY <2>2, DonorsAsk
  <2>5. Served(x)' BY <1>3, <1>5, <1>7, <2>1, <2>3, <2>4 DEF Served
  <2>6. Owed(x)' BY <1>3, <1>5, <1>8, <2>1, <2>2, <2>3 DEF Owed
  <2>. QED BY <2>5, <2>6
<1>14. \A x \in Threads : x # don'.t => Served(x)' /\ Owed(x)'
  BY <1>6, <1>12, <1>13
<1>15. ASSUME don'.t \in Threads
       PROVE  \E v \in Threads : Asks(v, don.t)' /\ don'.priority <= priority'[v]
  <2>1. Asks(u, w) BY <1>6, <1>11, <1>15
  <2>2. Asks(u, don.t)' BY <1>3, <1>6, <1>7, <1>15, <2>1 DEF Asks
  <2>3. don'.priority <= priority'[u] BY <1>4, <1>5, <1>6
  <2>. QED BY <1>1, <2>2, <2>3
<1>16. ASSUME NEW x \in Threads PROVE LockPlace(x)'
  <2>1. LockPlace(x) BY DEF Donations
  <2>2. status[x] = "none" => priority'[x] = priority[x] BY <1>1, <1>5
  <2>. QED BY <1>3, <1>6, <1>7, <2>1, <2>2 DEF LockPlace
<1>. QED BY <1>14, <1>15, <1>16 DEF Donations

-----------------------------------------------------------------------------
\* lock_acquire goes on.

LEMMA AcquireMoves ==
  ASSUME IInv, Donations, NEW t \in Threads, AcquireYield(t) \/ SemaPass(t)
  PROVE  Donations'
<1>. DEFINE same == UNCHANGED <<priority, old_priority, waiting_lock, holder, acquired, missed, waiters>>
<1>0. NoFrame.t = NoThread /\ NoFrame.priority = -1 /\ NoThread \notin Threads
  BY ThreadsAssumption DEF NoFrame
<1>1. CASE AcquireYield(t)
  <2>1. Donated(t, "yield") BY <1>1 DEF AcquireYield
  <2>2. /\ cur = t /\ pc[t] = "donate" /\ CodeTypes /\ Place(t) /\ don.then = "yield"
        /\ don' = NoFrame
    BY <2>1, Donates
  <2>3. pc' = [pc EXCEPT ![t] = "down"] /\ loc' = loc /\ same /\ thread_yield(t, ready, status)
    BY <1>1 DEF AcquireYield, Goto, prio_vars, lock_vars, sema_vars
  <2>4. OnlyMoves(t) /\ pc'[t] = "down" BY <2>2, <2>3 DEF OnlyMoves, CodeTypes
  <2>5. loc'[t].sema \in Locks BY <2>2, <2>3 DEF Place
  <2>6. status \in States BY TypeGroups DEF IInv, SchedTypes, States
  <2>7. \A u \in Threads : status'[u] = "none" => status[u] = "none"
    BY <2>3, <2>6, YieldNone
  <2>8. don.t \in Threads => status[don.t] = "none" BY <2>1 DEF Donated, is_thread
  <2>. QED BY <1>0, <2>2, <2>3, <2>4, <2>5, <2>7, <2>8, DonationsMove
<1>2. CASE SemaPass(t)
  <2>1. At(t, "down") BY <1>2 DEF SemaPass
  <2>2. cur = t /\ pc[t] = "down" /\ CodeTypes /\ don = NoFrame BY <2>1, RunsOn
  <2>3. same /\ status' = status
    BY <1>2 DEF SemaPass, prio_vars, lock_vars, sched_vars
  <2>4. CASE loc[t].sema \in Locks /\ Donate(t, loc[t].holder, -1, "own", loc[t].sema, 0) /\ loc' = loc
    <3>1. /\ don'.priority = -1 /\ don'.then = "own" /\ pc' = [pc EXCEPT ![t] = "donate"]
      BY <2>4 DEF Donate, Goto
    <3>2. OnlyMoves(t) /\ pc'[t] = "donate" BY <2>2, <2>3, <2>4, <3>1 DEF OnlyMoves, CodeTypes
    <3>. QED BY <1>0, <2>2, <2>3, <3>1, <3>2, DonationsMove
  <2>5. CASE loc[t].sema \notin Locks
    <3>1. /\ don' = don /\ loc' = [loc EXCEPT ![t] = NoLoc]
          /\ \E a : pc' = [pc EXCEPT ![t] = a]
      BY <1>2, <2>5 DEF SemaPass, Goto
    <3>2. OnlyMoves(t) BY <2>2, <2>3, <3>1 DEF OnlyMoves, CodeTypes
    <3>3. waiting_lock[t] = NoLock BY <2>2, <2>5 DEF Donations, LockPlace
    <3>. QED BY <1>0, <2>2, <2>3, <3>1, <3>2, <3>3, DonationsMove
  <2>6. loc[t].sema \in Locks =>
          Donate(t, loc[t].holder, -1, "own", loc[t].sema, 0) /\ loc' = loc
    BY <1>2 DEF SemaPass
  <2>. QED BY <2>4, <2>5, <2>6
<1>. QED BY <1>1, <1>2

\* Who queues and has more than the holder is in missed.
LEMMA SemaWaitDonations ==
  ASSUME IInv, Donations, NEW t \in Threads, SemaWait(t)
  PROVE  Donations'
<1>1. PICK s : s = loc[t].sema
  OBVIOUS
<1>2. cur = t /\ pc[t] = "down" /\ don = NoFrame /\ Place(t)
  <2>1. At(t, "down") BY DEF SemaWait
  <2>. QED BY <2>1, RunsOn
<1>3. s \in Semaphores
  BY <1>1, <1>2 DEF Place
<1>4. /\ waiters' = [waiters EXCEPT ![s] = Append(@, t)] /\ thread_block(t)
      /\ missed' = missed \cup {u \in {t} : /\ is_thread(Owner(s))
                                            /\ priority[Owner(s)] < priority[t]}
      /\ UNCHANGED <<priority, old_priority, holder, waiting_lock, acquired, don, pc, loc>>
  BY <1>1 DEF SemaWait, prio_vars, lock_vars
<1>5. don.t = NoThread /\ NoThread \notin Threads
  BY <1>2, ThreadsAssumption DEF NoFrame
<1>6. \A x \in Threads : Served(x) /\ Owed(x)
  BY <1>5 DEF Donations
<1>7. \A x \in Threads : Held(x)' = Held(x)
  BY <1>4 DEF Held
<1>8. \A l \in Semaphores : ToSet(waiters'[l]) \subseteq ToSet(waiters[l]) \cup (IF l = s THEN {t} ELSE {})
  <2>1. waiters \in [Semaphores -> Seq(Threads)] BY DEF IInv, TypeOK
  <2>2. waiters[s] \in Seq(Threads) BY <1>3, <2>1
  <2>3. ToSet(Append(waiters[s], t)) = ToSet(waiters[s]) \cup {t}
    BY <2>2, AppendedList
  <2>. QED BY <1>3, <1>4, <2>1, <2>3
<1>9. ASSUME NEW x \in Threads PROVE Served(x)' /\ Owed(x)'
  <2>1. Owed(x)' BY <1>4, <1>6, <1>7 DEF Owed, Asks
  <2>2. ASSUME NEW u \in Donors(x)', u \notin missed' PROVE priority[u] <= priority[x]
    <3>1. PICK l \in acquired[x] : u \in ToSet(waiters'[l])
      BY <1>4, <2>2 DEF Donors
    <3>2. l \in Locks /\ l \in Semaphores /\ holder[l] = x
      BY <3>1 DEF IInv, TypeOK, Owned, Semaphores
    <3>3. CASE u \in ToSet(waiters[l])
      <4>1. u \in Donors(x) \ missed BY <1>4, <2>2, <3>1, <3>3 DEF Donors
      <4>. QED BY <1>6, <4>1 DEF Served
    <3>4. CASE u \notin ToSet(waiters[l])
      <4>1. l = s /\ u = t BY <1>8, <3>1, <3>2, <3>4
      <4>2. Owner(s) = x BY <3>2, <4>1 DEF Owner
      <4>3. status[x] # "none"
        <5>1. Held(x) # {} BY <3>2 DEF Held
        <5>. QED BY <5>1 DEF Donations, LockPlace
      <4>4. is_thread(x) BY <4>3 DEF is_thread
      <4>5. ~ (priority[x] < priority[t]) BY <1>4, <2>2, <4>1, <4>2, <4>4
      <4>6. priority[x] \in Nat /\ priority[t] \in Nat BY PrioritiesCount
      <4>. QED BY <4>1, <4>5, <4>6
    <3>. QED BY <3>3, <3>4
  <2>3. Served(x)' BY <1>4, <2>2 DEF Served
  <2>. QED BY <2>1, <2>3
<1>10. \A x \in Threads : LockPlace(x)'
  <2>1. \A x \in Threads : status'[x] = "none" => status[x] = "none"
    BY <1>4, BlockNone DEF IInv
  <2>. QED BY <1>4, <1>7, <2>1 DEF Donations, LockPlace
<1>11. don'.t \notin Threads
  BY <1>4, <1>5
<1>. QED BY <1>9, <1>10, <1>11 DEF Donations

\* Who is queued when the lock is taken and has more is in missed.
LEMMA AcquireOwnDonations ==
  ASSUME IInv, Donations, NEW t \in Threads, AcquireOwn(t)
  PROVE  Donations'
<1>1. PICK l : l = waiting_lock[t]
  OBVIOUS
<1>2. Donated(t, "own")
  BY DEF AcquireOwn
<1>3. /\ cur = t /\ pc[t] = "donate" /\ don.then = "own" /\ don' = NoFrame /\ CodeTypes
      /\ LockTypes /\ Place(t) /\ status[t] = "running"
  BY <1>2, Donates
<1>4. /\ acquired' = [acquired EXCEPT ![t] = @ \cup {l}]
      /\ waiting_lock' = [waiting_lock EXCEPT ![t] = NoLock]
      /\ holder' = [holder EXCEPT ![l] = t]
      /\ pc' = [pc EXCEPT ![t] = loc[t].ret]
      /\ loc' = [loc EXCEPT ![t] = [NoLoc EXCEPT !.child = loc[t].child]]
      /\ missed' = (missed \ {t}) \cup {w \in ToSet(waiters[l]) : priority[w] > priority[t]}
      /\ UNCHANGED <<status, priority, old_priority, waiters>>
  BY <1>1 DEF AcquireOwn, Goto, sched_vars, prio_vars, sema_vars
<1>5. l \in Locks /\ l \in Semaphores /\ holder[l] = NoThread /\ NoThread \notin Threads
  <2>1. l \in Locks /\ loc[t].sema = l BY <1>1, <1>3 DEF Place
  <2>2. Takes(t, l) BY <1>3, <2>1 DEF Takes
  <2>. QED BY <2>1, <2>2, ThreadsAssumption DEF IInv, Owned, Semaphores
<1>6. \A x \in Threads : Served(x) /\ Owed(x)
  <2>1. don.t \in Threads => status[don.t] = "none" BY <1>2 DEF Donated, is_thread
  <2>. QED BY <2>1, RightNow
<1>7. /\ waiting_lock'[t] = NoLock /\ \A u \in Threads \ {t} : waiting_lock'[u] = waiting_lock[u]
      /\ OnlyMoves(t)
  BY <1>3, <1>4 DEF LockTypes, OnlyMoves, CodeTypes
<1>8. /\ Held(t) \subseteq Held(t)' /\ \A x \in Threads \ {t} : Held(x)' = Held(x)
  BY <1>3, <1>4, <1>5 DEF Held, LockTypes
<1>9. \A x \in Threads : t \notin Donors(x) /\ ~ Asks(t, x)
  <2>1. \A x \in Threads : t \notin Donors(x) BY <1>3, DonorsAsk
  <2>. QED BY <1>1, <1>5, <2>1 DEF Asks, Held
<1>10. ASSUME NEW x \in Threads PROVE Served(x)' /\ Owed(x)'
  <2>1. Owed(x)'
    <3>1. \A u \in Threads : Asks(u, x) => Asks(u, x)' BY <1>7, <1>8, <1>9 DEF Asks
    <3>. QED BY <1>4, <1>6, <3>1 DEF Owed
  <2>2. ASSUME NEW u \in Donors(x)', u \notin missed' PROVE priority[u] <= priority[x]
    <3>1. PICK k \in acquired'[x] : u \in ToSet(waiters[k])
      BY <1>4, <2>2 DEF Donors
    <3>2. CASE k \in acquired[x]
      <4>1. u \in Donors(x) BY <3>1, <3>2 DEF Donors
      <4>2. u \notin missed BY <1>4, <1>9, <2>2, <4>1
      <4>. QED BY <1>6, <4>1, <4>2 DEF Served
    <3>3. CASE k \notin acquired[x]
      <4>1. x = t /\ k = l BY <1>3, <1>4, <3>1, <3>3 DEF LockTypes
      <4>2. ~ (priority[u] > priority[t]) BY <1>4, <2>2, <3>1, <4>1
      <4>3. u \in Threads
        <5>1. waiters[l] \in Seq(Threads) BY <1>5 DEF IInv, TypeOK
        <5>. QED BY <3>1, <4>1, <5>1 DEF ToSet
      <4>4. priority[u] \in Nat /\ priority[t] \in Nat BY <4>3, PrioritiesCount
      <4>. QED BY <4>1, <4>2, <4>4
    <3>. QED BY <3>2, <3>3
  <2>3. Served(x)' BY <1>4, <2>2 DEF Served
  <2>. QED BY <2>1, <2>3
<1>11. LockPlace(t)'
  BY <1>3, <1>4, <1>7 DEF LockPlace
<1>12. \A x \in Threads \ {t} : LockPlace(x)'
  BY <1>3, <1>4, <1>7, <1>8, OthersLockPlace
<1>13. don'.t \notin Threads
  BY <1>3, <1>5 DEF NoFrame
<1>. QED BY <1>10, <1>11, <1>12, <1>13 DEF Donations

-----------------------------------------------------------------------------
\* Where lock_acquire, lock_release and thread_set_priority begin.

LEMMA AcquireBegins ==
  ASSUME IInv, Donations, NEW t \in Threads,
         CallAcquire(t) \/ CondReacquire(t) \/ thread_create(t)
  PROVE  Donations'
<1>0. cur = t /\ pc[t] \in {"run", "clock"} /\ CodeTypes
  <2>1. CASE CondReacquire(t)
    <3>1. At(t, "clock") BY <2>1 DEF CondReacquire
    <3>. QED BY <3>1, RunsOn
  <2>2. CASE CallAcquire(t) \/ thread_create(t)
    <3>1. \E c \in {"lock", "create"} : Call(t, c) BY <2>2 DEF CallAcquire, thread_create
    <3>. QED BY <3>1, Begins
  <2>. QED BY <2>1, <2>2
<1>1. 1 .. NumLocks \subseteq Locks /\ CondLock \in Locks /\ TidLock \in Locks
  BY ThreadsAssumption DEF Locks, TidLock
<1>2. \A x \in Threads : priority[x] \in Nat /\ old_priority[x] \in Nat
  BY PrioritiesCount
<1>3. CASE CallAcquire(t) \/ CondReacquire(t)
  <2>1. PICK l \in Locks : \E r : lock_acquire(t, l, r)
    BY <1>1, <1>3 DEF CallAcquire, CondReacquire
  <2>2. UNCHANGED <<status, priority, old_priority, waiters, missed>>
    BY <1>3 DEF CallAcquire, CondReacquire, sched_vars, prio_vars, sema_vars
  <2>2a. PICK r : lock_acquire(t, l, r)
    BY <2>1
  <2>3. /\ waiting_lock' = [waiting_lock EXCEPT ![t] = l]
        /\ loc' = [loc EXCEPT ![t].sema = l, ![t].holder = holder[l], ![t].ret = r]
        /\ don'.t = holder[l] /\ don'.priority = priority[t] /\ don'.then = "yield"
        /\ pc' = [pc EXCEPT ![t] = "donate"] /\ UNCHANGED <<holder, acquired>>
    BY <2>2a DEF lock_acquire, Donate, Goto
  <2>4. pc'[t] = "donate" /\ \A u \in Threads \ {t} : pc'[u] = pc[u] /\ loc'[u] = loc[u]
    BY <1>0, <2>3 DEF CodeTypes
  <2>5. pc[t] \notin {"donate", "down"} BY <1>0
  <2>6. \A x \in Threads : priority'[x] \in Nat /\ old_priority'[x] \in Nat
    BY <1>2, <2>2
  <2>. QED BY <1>0, <2>2, <2>3, <2>4, <2>5, <2>6, AcquireDonations
<1>4. CASE thread_create(t)
  <2>1. PICK c \in Threads \ {Main}, p \in Priorities :
          /\ status[c] = "none"
          /\ status' = [status EXCEPT ![c] = "blocked"]
          /\ priority' = [priority EXCEPT ![c] = p]
          /\ old_priority' = [old_priority EXCEPT ![c] = p]
          /\ loc' = [loc EXCEPT ![t] = [NoLoc EXCEPT !.child = c, !.sema = TidLock,
                                        !.holder = holder[TidLock], !.ret = "number"]]
    BY <1>4 DEF thread_create
  <2>2. /\ waiting_lock' = [waiting_lock EXCEPT ![t] = TidLock]
        /\ don'.t = holder[TidLock] /\ don'.priority = priority[t] /\ don'.then = "yield"
        /\ pc' = [pc EXCEPT ![t] = "donate"] /\ UNCHANGED <<holder, acquired, waiters, missed>>
    BY <1>4 DEF thread_create, Donate, Goto, sema_vars
  <2>3. pc'[t] = "donate" /\ \A u \in Threads \ {t} : pc'[u] = pc[u] /\ loc'[u] = loc[u]
    BY <1>0, <2>1, <2>2 DEF CodeTypes
  <2>4. /\ priority \in [Threads -> Priorities] /\ old_priority \in [Threads -> Priorities]
        /\ status \in [Threads -> {"none", "blocked", "ready", "running"}]
        /\ p \in Nat
    <3>1. p \in Nat BY ThreadsAssumption DEF Priorities
    <3>. QED BY <3>1 DEF IInv, TypeOK
  <2>5. /\ priority'[c] = p /\ old_priority'[c] = p /\ status'[c] = "blocked"
        /\ \A x \in Threads \ {c} : /\ priority'[x] = priority[x]
                                    /\ old_priority'[x] = old_priority[x]
                                    /\ status'[x] = status[x]
    BY <2>1, <2>4
  <2>6. \A x \in Threads :
            \/ priority'[x] = priority[x] /\ old_priority'[x] = old_priority[x]
            \/ status[x] = "none" /\ priority'[x] = old_priority'[x]
    BY <2>1, <2>5
  <2>7. \A x \in Threads :
            status'[x] = "none" => status[x] = "none" /\ priority'[x] = priority[x]
    BY <2>5
  <2>8. \A x \in Threads : priority'[x] \in Nat /\ old_priority'[x] \in Nat
    BY <1>2, <2>4, <2>5
  <2>9. pc[t] \notin {"donate", "down"} BY <1>0
  <2>. QED BY <1>0, <1>1, <2>2, <2>3, <2>6, <2>7, <2>8, <2>9, AcquireDonations
<1>. QED BY <1>3, <1>4

LEMMA OwnBegins ==
  ASSUME IInv, Donations, NEW t \in Threads,
         CallRelease(t) \/ TidRelease(t) \/ cond_wait(t) \/ thread_set_priority(t)
  PROVE  Donations'
<1>0. /\ cur = t /\ pc[t] \in {"run", "number"} /\ CodeTypes /\ LockTypes /\ PrioTypes
      /\ Place(t)
  <2>1. CASE CallRelease(t) \/ TidRelease(t)
    <3>1. \E a \in {"run", "number"} : At(t, a) BY <2>1 DEF CallRelease, TidRelease
    <3>. QED BY <3>1, RunsOn
  <2>2. CASE cond_wait(t) \/ thread_set_priority(t)
    <3>1. \E c \in {"cond", "set_priority"} : Call(t, c) BY <2>2 DEF cond_wait, thread_set_priority
    <3>. QED BY <3>1, Begins
  <2>. QED BY <2>1, <2>2
<1>1. pc[t] \notin {"donate", "down"}
  BY <1>0
<1>2. CASE CallRelease(t) \/ TidRelease(t) \/ cond_wait(t)
  <2>1. PICK l \in Locks : holder[l] = t /\ \E r : lock_release(t, l, r)
    <3>1. CondLock \in Locks /\ TidLock \in Locks
      BY ThreadsAssumption DEF Locks, TidLock
    <3>2. CASE CallRelease(t) BY <3>2 DEF CallRelease, Held
    <3>3. CASE TidRelease(t)
      <4>1. pc[t] = "number" BY <3>3 DEF TidRelease, At
      <4>. QED BY <1>0, <3>1, <3>3, <4>1 DEF TidRelease, Place
    <3>4. CASE cond_wait(t) BY <3>1, <3>4 DEF cond_wait
    <3>. QED BY <1>2, <3>2, <3>3, <3>4
  <2>2. UNCHANGED <<status, priority, old_priority, waiters>>
    BY <1>2 DEF CallRelease, TidRelease, cond_wait, sched_vars, prio_vars, sema_vars
  <2>2a. PICK r : lock_release(t, l, r)
    BY <2>1
  <2>3. /\ holder' = [holder EXCEPT ![l] = NoThread]
        /\ acquired' = [acquired EXCEPT ![t] = @ \ {l}]
        /\ loc' = [loc EXCEPT ![t].ret = r]
        /\ don'.t = t /\ don'.priority = -1 /\ pc' = [pc EXCEPT ![t] = "donate"]
        /\ UNCHANGED <<waiting_lock, missed>>
    BY <2>2a DEF lock_release, Donate, Goto
  <2>4. OnlyMoves(t) BY <1>0, <2>3 DEF OnlyMoves, CodeTypes
  <2>5. \A x \in Threads \ {t} : Held(x)' = Held(x) /\ acquired'[x] = acquired[x]
    BY <1>0, <2>1, <2>3, ThreadsAssumption DEF Held, LockTypes
  <2>. QED BY <1>0, <1>1, <2>2, <2>3, <2>4, <2>5, OwnDonations
<1>3. CASE thread_set_priority(t)
  <2>1. /\ \E p \in Priorities : /\ old_priority' = [old_priority EXCEPT ![t] = p]
                                 /\ priority' = [priority EXCEPT ![t] = p]
        /\ don'.t = t /\ don'.priority = -1 /\ pc' = [pc EXCEPT ![t] = "donate"]
        /\ UNCHANGED <<status, holder, waiting_lock, acquired, waiters, missed, loc>>
    BY <1>3 DEF thread_set_priority, Donate, Goto, sched_vars, lock_vars, sema_vars
  <2>2. OnlyMoves(t) BY <1>0, <2>1 DEF OnlyMoves, CodeTypes
  <2>3. \A x \in Threads \ {t} :
            /\ Held(x)' = Held(x) /\ acquired'[x] = acquired[x]
            /\ priority'[x] = priority[x] /\ old_priority'[x] = old_priority[x]
    BY <1>0, <2>1 DEF Held, PrioTypes
  <2>. QED BY <1>0, <1>1, <2>1, <2>2, <2>3, OwnDonations
<1>. QED BY <1>2, <1>3

-----------------------------------------------------------------------------
\* A thread that ends holds no lock and asks for none.
LEMMA ExitDonations ==
  ASSUME IInv, Donations, NEW t \in Threads, thread_exit(t)
  PROVE  Donations'
<1>0. cur = t /\ pc[t] = "run" /\ don = NoFrame /\ PrioTypes
  <2>1. At(t, "run") BY DEF thread_exit
  <2>. QED BY <2>1, RunsOn
<1>1. /\ Held(t) = {} /\ schedule(ready, [status EXCEPT ![t] = "none"])
      /\ priority' = [priority EXCEPT ![t] = 0] /\ old_priority' = [old_priority EXCEPT ![t] = 0]
      /\ UNCHANGED <<holder, waiting_lock, acquired, waiters, don, pc, loc, missed>>
  BY DEF thread_exit, lock_vars, sema_vars
<1>2. /\ priority'[t] = 0 /\ old_priority'[t] = 0
      /\ \A x \in Threads \ {t} : priority'[x] = priority[x] /\ old_priority'[x] = old_priority[x]
  BY <1>0, <1>1 DEF PrioTypes
<1>3. \A x \in Threads : Held(x)' = Held(x) /\ Donors(x)' = Donors(x)
  BY <1>1 DEF Held, Donors
<1>4. waiting_lock[t] = NoLock /\ \A x \in Threads : ~ Asks(t, x) /\ t \notin Donors(x)
  BY <1>0, AsksNobody
<1>5. don.t = NoThread /\ NoThread \notin Threads
  BY <1>0, ThreadsAssumption DEF NoFrame
<1>6. ASSUME NEW x \in Threads \ {t} PROVE Served(x)' /\ Owed(x)'
  <2>1. Served(x) /\ Owed(x) BY <1>5 DEF Donations
  <2>2. \A u \in Donors(x) : u \in Threads \ {t} BY <1>4, DonorsAsk
  <2>3. Served(x)' BY <1>1, <1>2, <1>3, <2>1, <2>2 DEF Served
  <2>4. Owed(x)' BY <1>1, <1>2, <1>3, <1>4, <2>1 DEF Owed, Asks
  <2>. QED BY <2>3, <2>4
<1>7. Served(t)' /\ Owed(t)'
  <2>1. Donors(t) = {} BY <1>1, DonorsAsk DEF Asks
  <2>. QED BY <1>2, <1>3, <2>1 DEF Served, Owed
<1>8. LockPlace(t)'
  BY <1>1, <1>2, <1>3, <1>4 DEF LockPlace
<1>9. ASSUME NEW x \in Threads \ {t} PROVE LockPlace(x)'
  <2>1. [status EXCEPT ![t] = "none"] \in States
    BY DEF IInv, TypeOK, States, Statuses
  <2>2. [status EXCEPT ![t] = "none"][x] = "none" => status[x] = "none"
    BY DEF IInv, TypeOK
  <2>3. status'[x] = "none" => [status EXCEPT ![t] = "none"][x] = "none"
    BY <1>1, <2>1, NoneStays
  <2>4. LockPlace(x) BY DEF Donations
  <2>. QED BY <1>1, <1>2, <1>3, <2>2, <2>3, <2>4 DEF LockPlace
<1>10. don'.t \notin Threads
  BY <1>1, <1>5
<1>. QED BY <1>6, <1>7, <1>8, <1>9, <1>10 DEF Donations

\* lock_try_acquire takes a lock that nobody had.
LEMMA TryOwnDonations ==
  ASSUME IInv, Donations, NEW t \in Threads, TryOwn(t)
  PROVE  Donations'
<1>0. /\ cur = t /\ pc[t] = "tried" /\ don = NoFrame /\ CodeTypes /\ LockTypes /\ Place(t)
      /\ status[t] = "running"
  <2>1. At(t, "tried") BY DEF TryOwn
  <2>. QED BY <2>1, RunsOn
<1>1. PICK l \in Locks : l = loc[t].sema
  BY <1>0 DEF Place
<1>2. /\ holder' = [holder EXCEPT ![l] = t] /\ loc' = [loc EXCEPT ![t] = NoLoc]
      /\ pc' = [pc EXCEPT ![t] = "run"]
      /\ UNCHANGED <<status, priority, old_priority, waiting_lock, acquired, waiters, don, missed>>
  BY <1>1 DEF TryOwn, Goto, sched_vars, prio_vars, sema_vars
<1>3. holder[l] = NoThread /\ NoThread \notin Threads
  <2>1. Takes(t, l) BY <1>0, <1>1 DEF Takes
  <2>. QED BY <2>1, ThreadsAssumption DEF IInv, Owned
<1>4. Held(t) \subseteq Held(t)' /\ \A x \in Threads \ {t} : Held(x)' = Held(x)
  BY <1>0, <1>2, <1>3 DEF Held, LockTypes
<1>5. OnlyMoves(t)
  BY <1>0, <1>2 DEF OnlyMoves, CodeTypes
<1>6. waiting_lock[t] = NoLock
  BY <1>0, AsksNobody
<1>7. LockPlace(t)'
  BY <1>0, <1>2, <1>6 DEF LockPlace
<1>8. \A x \in Threads \ {t} : LockPlace(x)'
  BY <1>0, <1>2, <1>4, <1>5, OthersLockPlace
<1>9. \A x \in Threads : Held(x) \subseteq Held(x)'
  BY <1>4
<1>. QED BY <1>2, <1>7, <1>8, <1>9, DonationsStay

-----------------------------------------------------------------------------
\* The timer interrupt.

LEMMA ReturnNone ==
  ASSUME NEW st \in States, NEW rd, intr_return(rd, st), NEW u \in Threads, status'[u] = "none"
  PROVE  st[u] = "none"
BY NoneStays, YieldNone DEF intr_return, idle

LEMMA HandlerDonations ==
  ASSUME IInv, Donations, timer_interrupt \/ wake_up_threads \/ UNCHANGED vars
  PROVE  Donations'
<1>1. /\ UNCHANGED <<priority, old_priority, waiting_lock, holder, acquired, missed, waiters, don, pc>>
  BY DEF timer_interrupt, wake_up_threads, vars, prio_vars, lock_vars, sema_vars
<1>2. \A x \in Threads : Held(x)' = Held(x)
  BY <1>1 DEF Held
<1>3. status \in States
  BY DEF IInv, TypeOK, States, Statuses
<1>4. \A x \in Threads : status'[x] = "none" => status[x] = "none"
  <2>1. CASE timer_interrupt
    <3>1. status' = status \/ intr_return(ready, status) BY <2>1 DEF timer_interrupt, sched_vars
    <3>. QED BY <1>3, <3>1, ReturnNone
  <2>2. CASE wake_up_threads
    <3>1. PICK st, rd :
            /\ st = [status EXCEPT ![Head(sleeping)] = "ready"]
            /\ status' = st \/ intr_return(rd, st)
      BY <2>2 DEF wake_up_threads
    <3>2. st \in States /\ \A x \in Threads : st[x] = "none" => status[x] = "none"
      BY <1>3, <3>1 DEF States, Statuses
    <3>. QED BY <3>1, <3>2, ReturnNone
  <2>3. CASE UNCHANGED vars
    BY <2>3 DEF vars, sched_vars
  <2>. QED BY <2>1, <2>2, <2>3
<1>5. ASSUME NEW x \in Threads, waiting_lock[x] # NoLock PROVE loc'[x] = loc[x]
  <2>1. pc[x] # "run" BY <1>5 DEF Donations, LockPlace
  <2>2. CASE wake_up_threads
    <3>1. sleeping \in Seq(Threads) /\ sleeping # << >> /\ loc \in [Threads -> Loc]
      BY <2>2 DEF wake_up_threads, IInv, TypeOK, Places
    <3>2. Head(sleeping) \in ToSet(sleeping) BY <3>1, TailOfList
    <3>3. Head(sleeping) \in Threads BY <3>1
    <3>4. Head(sleeping) # x BY <2>1, <3>2, <3>3 DEF IInv, Waits
    <3>5. loc' = [loc EXCEPT ![Head(sleeping)] = NoLoc] BY <2>2 DEF wake_up_threads
    <3>. QED BY <3>1, <3>4, <3>5
  <2>3. CASE timer_interrupt \/ UNCHANGED vars
    BY <2>3 DEF timer_interrupt, vars
  <2>. QED BY <2>2, <2>3
<1>6. ASSUME NEW x \in Threads PROVE LockPlace(x)'
  <2>1. LockPlace(x) BY DEF Donations
  <2>2. waiting_lock[x] # NoLock => loc'[x] = loc[x] BY <1>5
  <2>. QED BY <1>1, <1>2, <1>4, <2>1, <2>2 DEF LockPlace
<1>7. don'.priority = don.priority /\ don'.t = don.t
  BY <1>1
<1>. QED BY <1>1, <1>2, <1>6, <1>7, DonationsStay

-----------------------------------------------------------------------------
LEMMA InitDonations ==
  ASSUME Init
  PROVE  Donations
<1>1. /\ priority \in [Threads -> Priorities] /\ old_priority = priority /\ don = NoFrame
      /\ acquired = [t \in Threads |-> {}] /\ holder = [l \in Locks |-> NoThread]
      /\ waiting_lock = [t \in Threads |-> NoLock]
      /\ \A t \in Threads : status[t] = "none" => priority[t] = 0
  BY DEF Init
<1>2. NoThread \notin Threads /\ don.t = NoThread
  BY <1>1, ThreadsAssumption DEF NoFrame
<1>3. ASSUME NEW t \in Threads PROVE Served(t) /\ Owed(t) /\ LockPlace(t)
  <2>1. Donors(t) = {} BY <1>1 DEF Donors
  <2>2. Held(t) = {} BY <1>1, <1>2 DEF Held
  <2>3. priority[t] \in Nat BY <1>1, ThreadsAssumption DEF Priorities
  <2>4. ~ (priority[t] > old_priority[t]) BY <1>1, <2>3
  <2>. QED BY <1>1, <2>1, <2>2, <2>4 DEF Served, Owed, LockPlace
<1>. QED BY <1>2, <1>3 DEF Donations

LEMMA NextDonations ==
  ASSUME IInv, Donations, [Next]_vars
  PROVE  Donations'
<1>1. CASE timer_interrupt \/ wake_up_threads \/ UNCHANGED vars
  BY <1>1, HandlerDonations
<1>2. ASSUME NEW t \in Threads, Inside(t) PROVE Donations'
  BY <1>2, PropagateDonations, PlainInside, SemaWaitDonations, AcquireMoves, AcquireOwnDonations,
     TryOwnDonations, AcquireBegins, OwnBegins DEF Inside
<1>3. ASSUME NEW t \in Threads, Begin(t) PROVE Donations'
  BY <1>3, OwnBegins, PlainCalls, AcquireBegins DEF Begin
<1>4. ASSUME NEW t \in Threads, Finish(t) PROVE Donations'
  BY <1>4, OwnBegins, ExitDonations DEF Finish
<1>. QED BY <1>1, <1>2, <1>3, <1>4 DEF Next

LEMMA DonationExactFollows ==
  ASSUME IInv, Donations
  PROVE  DonationExact
<1>1. SUFFICES ASSUME Quiet, NEW t \in Threads
               PROVE  /\ \A u \in Donors(t) \ missed : priority[t] >= priority[u]
                      /\ priority[t] > old_priority[t] =>
                           \E u \in Threads : waiting_lock[u] \in Held(t) /\ priority[u] >= priority[t]
  BY DEF DonationExact, DonationKept, NoExcess
<1>2. don.t = NoThread /\ NoThread \notin Threads
  BY <1>1, ThreadsAssumption DEF Quiet, NoFrame
<1>3. Served(t) /\ Owed(t)
  BY <1>2 DEF Donations
<1>4. \A x \in Threads : priority[x] \in Nat
  BY PrioritiesCount
<1>5. \A u \in Donors(t) : u \in Threads
  BY DonorsAsk
<1>6. \A u \in Donors(t) \ missed : priority[t] >= priority[u]
  BY <1>3, <1>4, <1>5 DEF Served
<1>7. ASSUME priority[t] > old_priority[t]
      PROVE  \E u \in Threads : waiting_lock[u] \in Held(t) /\ priority[u] >= priority[t]
  <2>1. PICK u \in Threads : Asks(u, t) /\ priority[t] <= priority[u]
    BY <1>3, <1>7 DEF Owed
  <2>2. priority[u] >= priority[t] BY <1>4, <2>1
  <2>. QED BY <2>1, <2>2 DEF Asks
<1>. QED BY <1>6, <1>7

\* A holder keeps the priority of the threads queued for its locks for as long as
\* they wait, and has no more than its own once they do not: along every chain of
\* locks, whatever is set and released meanwhile (propagate_priorities,
\* lock_acquire, lock_release, thread_set_priority).
THEOREM DonationExactHolds == Spec => []DonationExact
<1>1. Init => IInv /\ Donations
  BY InitInv, InitDonations
<1>2. IInv /\ Donations /\ [Next]_vars => (IInv /\ Donations)'
  <2>. SUFFICES ASSUME IInv, Donations, [Next]_vars PROVE IInv' /\ Donations'
    OBVIOUS
  <2>1. IInv' BY NextInv
  <2>. QED BY <2>1, NextDonations
<1>3. IInv /\ Donations => DonationExact
  BY DonationExactFollows
<1>. QED BY <1>1, <1>2, <1>3, PTL DEF Spec
=============================================================================
