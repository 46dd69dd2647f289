------------------------------- MODULE Threads -------------------------------
(* Threads of Project 1: the priority scheduler of threads/thread.c, the        *)
(* semaphores, locks with priority donation and condition variables of          *)
(* threads/synch.c, and timer_sleep and the timer interrupt of devices/timer.c, *)
(* without the -mlfqs option.                                                   *)
(*                                                                              *)
(* There is one processor: only cur takes steps.  The timer interrupts it where *)
(* interrupts are on (IntrOn); code that runs with interrupts off is several    *)
(* steps of cur that nothing comes between, except where it calls schedule.     *)
(* propagate_priorities is one step per level of its recursion: don is its      *)
(* frame, don.then the place it returns to.  A thread that has died is freed at *)
(* once (the next thread does it in thread_schedule_tail before anything else). *)
EXTENDS Integers, Sequences, FiniteSets, SequencesExt, FiniteSetsExt

CONSTANTS Threads,      \* the pages that can hold a struct thread
          Main,         \* initial_thread
          Started,      \* threads it has created before, no priority above its own
          Idle,         \* idle_thread
          NoThread,     \* NULL
          NumLocks,     \* locks of the program
          Semas,        \* semaphores of the program
          CondLock,     \* the lock of the condition variable
          PriMax,       \* PRI_MAX
          TimeSlice,    \* TIME_SLICE
          Sleeps,       \* what timer_sleep is called with
          MaxTicks,     \* bound: the clock stops there, after every deadline
          Calls         \* bound: how often the program, all of its threads
                        \* together, makes each kind of call

Priorities == 0 .. PriMax
NoLock == 0
TidLock == NumLocks + 1       \* allocate_tid's lock
Locks == 1 .. TidLock
NoSema == 0
Semaphores == Locks \cup Semas \cup Threads   \* those of the locks, the program's, and
                                              \* the one in each thread's semaphore_elem

ASSUME ThreadsAssumption ==
    /\ IsFiniteSet(Threads) /\ Main \in Threads /\ Started \subseteq Threads \ {Main}
    /\ Idle \notin Threads /\ NoThread \notin Threads \cup {Idle}
    /\ NumLocks \in Nat /\ CondLock \in 1 .. NumLocks
    /\ Threads \cap Int = {} /\ Semas \cap (Threads \cup Int) = {}
    /\ PriMax \in Nat /\ TimeSlice \in Nat \ {0}
    /\ Sleeps \subseteq Int /\ MaxTicks \in Nat
    /\ Calls \in [DOMAIN Calls -> Nat]

VARIABLES
    \* thread.c
    cur,              \* running_thread
    status,           \* "none" (no thread), "blocked", "ready", "running"
    priority, old_priority,
    ready,            \* ready_list
    thread_ticks,
    \* synch.c
    value, waiters,   \* of each semaphore
    holder,           \* of each lock
    waiting_lock,     \* of each thread
    acquired,         \* the locks in the thread's acquired_locks_list
    condition,        \* the threads whose semaphore_elem is in the condition's list
    don,              \* the frame of propagate_priorities: [t, priority, then,
                      \* lock being released, priority before set_priority]
    \* timer.c
    ticks,
    sleeping,         \* sleeping_threads_list
    in_external_intr, \* the timer interrupt's handler is in wake_up_threads
    \* locals
    pc,               \* where each thread is
    loc,              \* [sema: of sema_down, holder: of lock_acquire, ret: where
                      \* a lock operation returns to, child: of thread_create,
                      \* wake: wake_up_time]
    calls,            \* calls that are left
    panic,            \* an ASSERT stopped the kernel
    missed            \* queued threads whose priority the lock's holder did not get
                      \* when the one queued or the other took the lock (ghost)

sched_vars == <<cur, status, ready, thread_ticks>>
prio_vars == <<priority, old_priority>>
lock_vars == <<holder, waiting_lock, acquired>>
sema_vars == <<value, waiters>>
time_vars == <<ticks, sleeping, in_external_intr>>
vars == <<sched_vars, prio_vars, lock_vars, sema_vars, condition, don, time_vars, pc, loc,
          calls, panic, missed>>

IntrOn == {"run", "tried", "sleep", "cdown", "clock", "number", "unblock", "broadcast"}
IntrOff == {"donate", "down"}

NoWake == MaxTicks + 1   \* later than every deadline
NoLoc == [sema |-> NoSema, holder |-> NoThread, ret |-> "run", child |-> NoThread,
          wake |-> NoWake]
NoFrame == [t |-> NoThread, priority |-> -1, then |-> "none", lock |-> NoLock, before |-> 0]

Init ==
    /\ cur = Main
    /\ status = [t \in Threads |-> IF t = Main THEN "running"
                                  ELSE IF t \in Started THEN "ready" ELSE "none"]
    /\ priority \in [Threads -> Priorities]
    /\ \A t \in Started : priority[t] <= priority[Main]
    /\ \A t \in Threads : status[t] = "none" => priority[t] = 0
    /\ old_priority = priority
    /\ ready \in [Priorities -> UNION {SetToSeqs(S) : S \in SUBSET Started}]
    /\ \A p \in Priorities : ToSet(ready[p]) = {t \in Started : priority[t] = p}
    /\ thread_ticks = 0
    /\ value = [s \in Semaphores |-> IF s \in Locks THEN 1 ELSE 0]
    /\ waiters = [s \in Semaphores |-> << >>]
    /\ holder = [l \in Locks |-> NoThread]
    /\ waiting_lock = [t \in Threads |-> NoLock] /\ acquired = [t \in Threads |-> {}]
    /\ condition = << >> /\ don = NoFrame
    /\ ticks = 0 /\ sleeping = << >> /\ in_external_intr = FALSE
    /\ pc = [t \in Threads |-> "run"] /\ loc = [t \in Threads |-> NoLoc]
    /\ calls = Calls /\ panic = FALSE /\ missed = {}

At(t, l) == cur = t /\ pc[t] = l /\ ~in_external_intr /\ ~panic
Goto(t, l) == pc' = [pc EXCEPT ![t] = l]

\* the program makes a call
Call(t, c) ==
    /\ At(t, "run") /\ c \in DOMAIN Calls /\ calls[c] > 0
    /\ calls' = [calls EXCEPT ![c] = @ - 1]

-----------------------------------------------------------------------------
(* The ready lists and the switch to another thread.                         *)

add_ready_thread(rd, t, p) == [rd EXCEPT ![p] = Append(@, t)]
remove_ready_thread(rd, t) == [p \in Priorities |-> RemoveFirst(rd[p], t)]

\* schedule: cur gives the processor away, its new status and list already set
schedule(rd, st) ==
    LET full == {p \in Priorities : rd[p] # << >>}
        next == Head(rd[Max(full)])
    IN /\ thread_ticks' = 0
       /\ IF full = {}
          THEN cur' = Idle /\ ready' = rd /\ status' = st
          ELSE /\ cur' = next
               /\ ready' = [rd EXCEPT ![Max(full)] = Tail(@)]
               /\ status' = [st EXCEPT ![next] = "running"]

thread_block(t) == schedule(ready, [status EXCEPT ![t] = "blocked"])
thread_yield(t, rd, st) ==
    schedule(add_ready_thread(rd, t, priority[t]), [st EXCEPT ![t] = "ready"])

\* idle: every interrupt ends its hlt, and its loop blocks again at once
idle(rd, st) == schedule(rd, st)

\* the clock matters only while a thread has read it for a deadline: it starts
\* again from 0 when none is left
Pending == {t \in Threads : loc[t].wake # NoWake}
Now == IF Pending = {} \/ ticks = MaxTicks THEN ticks ELSE ticks + 1

Late(q, now) == q # << >> /\ loc[Head(q)].wake <= now

\* the end of timer_interrupt: thread_tick, and the yield on return
intr_return(rd, st) ==
    IF cur = Idle THEN idle(rd, st)
    ELSE IF thread_ticks + 1 >= TimeSlice THEN thread_yield(cur, rd, st)
    ELSE thread_ticks' = thread_ticks + 1 /\ ready' = rd /\ status' = st /\ cur' = cur

\* timer_interrupt, up to wake_up_threads where a sleeper's time has come
timer_interrupt ==
    /\ ~panic /\ ~in_external_intr /\ (cur # Idle => pc[cur] \in IntrOn)
    /\ ticks' = Now
    /\ in_external_intr' = Late(sleeping, Now)
    /\ IF Late(sleeping, Now) THEN UNCHANGED sched_vars ELSE intr_return(ready, status)
    /\ UNCHANGED <<prio_vars, lock_vars, sema_vars, condition, don, sleeping, pc, loc, calls,
                   panic, missed>>

\* wake_up_threads, one turn of its loop: thread_unblock of the front of the list
wake_up_threads ==
    LET t == Head(sleeping)
        rd == add_ready_thread(ready, t, priority[t])
        st == [status EXCEPT ![t] = "ready"]
    IN /\ in_external_intr
       /\ sleeping' = Tail(sleeping)
       /\ loc' = [loc EXCEPT ![t] = NoLoc]
       /\ ticks' = IF Pending = {t} THEN 0 ELSE ticks
       /\ in_external_intr' = Late(Tail(sleeping), ticks)
       /\ IF Late(Tail(sleeping), ticks)
          THEN ready' = rd /\ status' = st /\ UNCHANGED <<cur, thread_ticks>>
          ELSE intr_return(rd, st)
       /\ UNCHANGED <<prio_vars, lock_vars, sema_vars, condition, don, pc, calls, panic,
                      missed>>

-----------------------------------------------------------------------------
(* Priority donation.                                                        *)

is_thread(t) == t \in Threads /\ status[t] # "none"

Donate(t, to, p, then, l, before) ==
    /\ don' = [t |-> to, priority |-> p, then |-> then, lock |-> l, before |-> before]
    /\ Goto(t, "donate")

Donors(u) == UNION {ToSet(waiters[l]) : l \in acquired[u]}

\* Mutant: as propagate_priorities, but leaves a ready thread in the list it is in
propagate_priorities_in_place(t) ==
    LET u == don.t
        p == Max({don.priority, old_priority[u]} \cup {priority[w] : w \in Donors(u)})
    IN /\ At(t, "donate") /\ is_thread(u)
       /\ priority' = [priority EXCEPT ![u] = p]
       /\ don' = [don EXCEPT !.priority = p,
                             !.t = IF waiting_lock[u] = NoLock THEN NoThread
                                   ELSE holder[waiting_lock[u]]]
       /\ UNCHANGED <<sched_vars, old_priority, lock_vars, sema_vars, condition, time_vars,
                      pc, loc, calls, panic, missed>>

\* Mutant: as propagate_priorities, but without the recursion
propagate_priorities_one_level(t) ==
    LET u == don.t
        p == Max({don.priority, old_priority[u]} \cup {priority[w] : w \in Donors(u)})
    IN /\ At(t, "donate") /\ is_thread(u)
       /\ priority' = [priority EXCEPT ![u] = p]
       /\ ready' = IF status[u] = "ready"
                   THEN add_ready_thread(remove_ready_thread(ready, u), u, p)
                   ELSE ready
       /\ don' = [don EXCEPT !.priority = p, !.t = NoThread]
       /\ UNCHANGED <<cur, status, thread_ticks, old_priority, lock_vars, sema_vars,
                      condition, time_vars, pc, loc, calls, panic, missed>>

\* propagate_priorities, one level of it
propagate_priorities(t) ==
    LET u == don.t
        p == Max({don.priority, old_priority[u]} \cup {priority[w] : w \in Donors(u)})
    IN /\ At(t, "donate") /\ is_thread(u)
       /\ priority' = [priority EXCEPT ![u] = p]
       /\ ready' = IF status[u] = "ready"
                   THEN add_ready_thread(remove_ready_thread(ready, u), u, p)
                   ELSE ready
       /\ don' = [don EXCEPT !.priority = p,
                             !.t = IF waiting_lock[u] = NoLock THEN NoThread
                                   ELSE holder[waiting_lock[u]]]
       /\ UNCHANGED <<cur, status, thread_ticks, old_priority, lock_vars, sema_vars,
                      condition, time_vars, pc, loc, calls, panic, missed>>

Donated(t, then) == At(t, "donate") /\ ~is_thread(don.t) /\ don.then = then /\ don' = NoFrame

thread_set_priority(t) ==
    /\ Call(t, "set_priority")
    /\ \E p \in Priorities :
          /\ old_priority' = [old_priority EXCEPT ![t] = p]
          /\ priority' = [priority EXCEPT ![t] = p]
    /\ Donate(t, t, -1, "set", NoLock, priority[t])
    /\ UNCHANGED <<sched_vars, lock_vars, sema_vars, condition, time_vars, loc, panic, missed>>

\* ... it yields if its effective priority has dropped
PrioritySet(t) ==
    /\ Donated(t, "set")
    /\ Goto(t, "run")
    /\ IF don.before > priority[t] THEN thread_yield(t, ready, status) ELSE UNCHANGED sched_vars
    /\ UNCHANGED <<prio_vars, lock_vars, sema_vars, condition, time_vars, loc, calls, panic,
                   missed>>

-----------------------------------------------------------------------------
(* Semaphores.                                                               *)

\* list_max with comparator_synch: the first of those with the highest priority
First(q, I, i) ==
    \A j \in I : \/ priority[q[j]] < priority[q[i]]
                 \/ priority[q[j]] = priority[q[i]] /\ i <= j
list_max(q) == CHOOSE i \in DOMAIN q : First(q, DOMAIN q, i)

\* Mutant: as sema_up, but wakes nobody
sema_up_silent(s) ==
    /\ value' = [value EXCEPT ![s] = @ + 1]
    /\ UNCHANGED <<waiters, sched_vars>>

\* sema_up wakes a thread and does not give the processor away
sema_up(s) ==
    /\ value' = [value EXCEPT ![s] = @ + 1]
    /\ IF waiters[s] = << >>
       THEN UNCHANGED <<waiters, sched_vars>>
       ELSE LET i == list_max(waiters[s])
                w == waiters[s][i]
            IN /\ waiters' = [waiters EXCEPT ![s] = RemoveAt(@, i)]
               /\ status' = [status EXCEPT ![w] = "ready"]
               /\ ready' = add_ready_thread(ready, w, priority[w])
               /\ UNCHANGED <<cur, thread_ticks>>

Owner(s) == IF s \in Locks THEN holder[s] ELSE NoThread

\* sema_down: one turn of its loop, and the way out of it
SemaWait(t) ==
    LET s == loc[t].sema
    IN /\ At(t, "down") /\ value[s] = 0
       /\ waiters' = [waiters EXCEPT ![s] = Append(@, t)]
       /\ thread_block(t)
       /\ missed' = missed \cup {u \in {t} : /\ is_thread(Owner(s))
                                             /\ priority[Owner(s)] < priority[t]}
       /\ UNCHANGED <<prio_vars, lock_vars, value, condition, don, time_vars, pc, loc, calls,
                      panic>>

\* Mutant: as SemaPass, but does not take from the value
SemaPass_keeps_value(t) ==
    LET s == loc[t].sema
    IN /\ At(t, "down") /\ value[s] > 0
       /\ \/ s \in Locks /\ Donate(t, loc[t].holder, -1, "own", s, 0) /\ loc' = loc
          \/ /\ s \notin Locks
             /\ Goto(t, IF s = t THEN "clock" ELSE "run")
             /\ loc' = [loc EXCEPT ![t] = NoLoc]
             /\ don' = don
       /\ UNCHANGED <<sched_vars, prio_vars, lock_vars, sema_vars, condition, time_vars, calls,
                      panic, missed>>

SemaPass(t) ==
    LET s == loc[t].sema
    IN /\ At(t, "down") /\ value[s] > 0
       /\ value' = [value EXCEPT ![s] = @ - 1]
       /\ \/ s \in Locks /\ Donate(t, loc[t].holder, -1, "own", s, 0) /\ loc' = loc
          \/ /\ s \notin Locks
             /\ Goto(t, IF s = t THEN "clock" ELSE "run")
             /\ loc' = [loc EXCEPT ![t] = NoLoc]
             /\ don' = don
       /\ UNCHANGED <<sched_vars, prio_vars, lock_vars, waiters, condition, time_vars, calls,
                      panic, missed>>

CallSemaDown(t) ==
    /\ Call(t, "wait")
    /\ \E s \in Semas : loc' = [loc EXCEPT ![t].sema = s]
    /\ Goto(t, "down")
    /\ UNCHANGED <<sched_vars, prio_vars, lock_vars, sema_vars, condition, don, time_vars,
                   panic, missed>>

CallSemaUp(t) ==
    /\ Call(t, "wait")
    /\ \E s \in Semas : sema_up(s)
    /\ UNCHANGED <<prio_vars, lock_vars, condition, don, time_vars, pc, loc, panic, missed>>

sema_try_down(s) == value[s] > 0 /\ value' = [value EXCEPT ![s] = @ - 1]

CallSemaTryDown(t) ==
    /\ Call(t, "wait")
    /\ \E s \in Semas : sema_try_down(s)
    /\ UNCHANGED <<sched_vars, prio_vars, lock_vars, waiters, condition, don, time_vars, pc,
                   loc, panic, missed>>

-----------------------------------------------------------------------------
(* Locks.  A program takes locks in ascending order, or it may deadlock.     *)

Held(t) == {l \in Locks : holder[l] = t}

\* lock_acquire: up to the first call of propagate_priorities
lock_acquire(t, l, ret) ==
    /\ waiting_lock' = [waiting_lock EXCEPT ![t] = l]
    /\ loc' = [loc EXCEPT ![t].sema = l, ![t].holder = holder[l], ![t].ret = ret]
    /\ Donate(t, holder[l], priority[t], "yield", l, 0)
    /\ UNCHANGED <<holder, acquired>>

CallAcquire(t) ==
    /\ Call(t, "lock")
    /\ \E l \in 1 .. NumLocks : (\A k \in Held(t) : k < l) /\ lock_acquire(t, l, "run")
    /\ UNCHANGED <<sched_vars, prio_vars, sema_vars, condition, time_vars, panic, missed>>

\* ... it yields, and goes on with sema_down when it is scheduled again
AcquireYield(t) ==
    /\ Donated(t, "yield")
    /\ Goto(t, "down")
    /\ thread_yield(t, ready, status)
    /\ UNCHANGED <<prio_vars, lock_vars, sema_vars, condition, time_vars, loc, calls, panic,
                   missed>>

\* ... and takes the lock, the priority of its former holder computed anew
AcquireOwn(t) ==
    LET l == waiting_lock[t]
    IN /\ Donated(t, "own")
       /\ acquired' = [acquired EXCEPT ![t] = @ \cup {l}]
       /\ waiting_lock' = [waiting_lock EXCEPT ![t] = NoLock]
       /\ holder' = [holder EXCEPT ![l] = t]
       /\ Goto(t, loc[t].ret)
       /\ loc' = [loc EXCEPT ![t] = [NoLoc EXCEPT !.child = loc[t].child]]
       /\ missed' = (missed \ {t}) \cup {w \in ToSet(waiters[l]) : priority[w] > priority[t]}
       /\ UNCHANGED <<sched_vars, prio_vars, sema_vars, condition, time_vars, calls, panic>>

\* Mutant: as lock_release, but keeps the priority that was given for the lock
lock_release_keeps_priority(t, l, ret) ==
    /\ holder' = [holder EXCEPT ![l] = NoThread]
    /\ acquired' = [acquired EXCEPT ![t] = @ \ {l}]
    /\ loc' = [loc EXCEPT ![t].ret = ret]
    /\ panic' = (l \notin acquired[t])
    /\ Donate(t, NoThread, -1, "up", l, 0)
    /\ UNCHANGED <<waiting_lock, missed>>

\* lock_release: list_remove panics on a lock that is in no list
lock_release(t, l, ret) ==
    /\ holder' = [holder EXCEPT ![l] = NoThread]
    /\ acquired' = [acquired EXCEPT ![t] = @ \ {l}]
    /\ loc' = [loc EXCEPT ![t].ret = ret]
    /\ panic' = (l \notin acquired[t])
    /\ Donate(t, t, -1, "up", l, 0)
    /\ UNCHANGED <<waiting_lock, missed>>

CallRelease(t) ==
    /\ At(t, "run")
    /\ \E l \in Held(t) : lock_release(t, l, "run")
    /\ UNCHANGED <<sched_vars, prio_vars, sema_vars, condition, time_vars, calls>>

ReleaseUp(t) ==
    /\ Donated(t, "up")
    /\ sema_up(don.lock)
    /\ Goto(t, loc[t].ret)
    /\ loc' = [loc EXCEPT ![t].ret = "run"]
    /\ UNCHANGED <<prio_vars, lock_vars, condition, time_vars, calls, panic, missed>>

\* lock_try_acquire: the holder is stored with interrupts on again
lock_try_acquire(t) ==
    /\ Call(t, "lock")
    /\ \E l \in 1 .. NumLocks :
          /\ \A k \in Held(t) : k < l
          /\ sema_try_down(l)
          /\ loc' = [loc EXCEPT ![t].sema = l]
    /\ Goto(t, "tried")
    /\ UNCHANGED <<sched_vars, prio_vars, lock_vars, waiters, condition, don, time_vars, panic,
                   missed>>

TryOwn(t) ==
    /\ At(t, "tried")
    /\ holder' = [holder EXCEPT ![loc[t].sema] = t]
    /\ loc' = [loc EXCEPT ![t] = NoLoc]
    /\ Goto(t, "run")
    /\ UNCHANGED <<sched_vars, prio_vars, waiting_lock, acquired, sema_vars, condition, don,
                   time_vars, calls, panic, missed>>

-----------------------------------------------------------------------------
(* Condition variables.                                                      *)

\* cond_wait, called with no lock above CondLock held; the value of the
\* semaphore in the caller's semaphore_elem is 0 whenever it is not in use
cond_wait(t) ==
    /\ Call(t, "cond")
    /\ holder[CondLock] = t /\ \A k \in Held(t) : k <= CondLock
    /\ condition' = Append(condition, t)
    /\ lock_release(t, CondLock, "cdown")
    /\ UNCHANGED <<sched_vars, prio_vars, sema_vars, time_vars>>

CondDown(t) ==
    /\ At(t, "cdown")
    /\ loc' = [loc EXCEPT ![t].sema = t]
    /\ Goto(t, "down")
    /\ UNCHANGED <<sched_vars, prio_vars, lock_vars, sema_vars, condition, don, time_vars,
                   calls, panic, missed>>

CondReacquire(t) ==
    /\ At(t, "clock")
    /\ lock_acquire(t, CondLock, "run")
    /\ UNCHANGED <<sched_vars, prio_vars, sema_vars, condition, time_vars, calls, panic, missed>>

\* list_max with cond_waiters_comparator: where a waiter has not come to its
\* sema_down yet, the comparison reads the priority of a thread that is not there
CondMax ==
    LET there == {i \in DOMAIN condition : waiters[condition[i]] # << >>}
    IN IF Len(condition) = 1 THEN {1}
       ELSE (DOMAIN condition \ there) \cup {i \in there : First(condition, there, i)}

\* Mutant: as Signal, but the signal to a waiter that is not there yet is lost
Signal_only_there ==
    \E i \in CondMax :
        /\ condition' = RemoveAt(condition, i)
        /\ IF waiters[condition[i]] = << >> THEN UNCHANGED <<sema_vars, sched_vars>>
           ELSE sema_up(condition[i])

Signal ==
    \E i \in CondMax : condition' = RemoveAt(condition, i) /\ sema_up(condition[i])

cond_signal(t) ==
    /\ Call(t, "cond") /\ holder[CondLock] = t /\ condition # << >>
    /\ Signal
    /\ UNCHANGED <<prio_vars, lock_vars, don, time_vars, pc, loc, panic, missed>>

cond_broadcast(t) ==
    /\ Call(t, "cond") /\ holder[CondLock] = t
    /\ Goto(t, "broadcast")
    /\ UNCHANGED <<sched_vars, prio_vars, lock_vars, sema_vars, condition, don, time_vars, loc,
                   panic, missed>>

BroadcastNext(t) ==
    /\ At(t, "broadcast")
    /\ \/ condition # << >> /\ Signal /\ pc' = pc
       \/ condition = << >> /\ Goto(t, "run") /\ UNCHANGED <<condition, sema_vars, sched_vars>>
    /\ UNCHANGED <<prio_vars, lock_vars, don, time_vars, loc, calls, panic, missed>>

-----------------------------------------------------------------------------
(* The life of a thread, and its sleep.                                      *)

\* thread_create: init_thread, then the number from allocate_tid under its lock
thread_create(t) ==
    /\ Call(t, "create")
    /\ \E c \in Threads \ {Main}, p \in Priorities :
          /\ status[c] = "none"
          /\ status' = [status EXCEPT ![c] = "blocked"]
          /\ priority' = [priority EXCEPT ![c] = p]
          /\ old_priority' = [old_priority EXCEPT ![c] = p]
          /\ loc' = [loc EXCEPT ![t] = [NoLoc EXCEPT !.child = c, !.sema = TidLock,
                                        !.holder = holder[TidLock], !.ret = "number"]]
    /\ waiting_lock' = [waiting_lock EXCEPT ![t] = TidLock]
    /\ Donate(t, holder[TidLock], priority[t], "yield", TidLock, 0)
    /\ UNCHANGED <<cur, ready, thread_ticks, holder, acquired, sema_vars, condition,
                   time_vars, panic, missed>>

TidRelease(t) ==
    /\ At(t, "number")
    /\ lock_release(t, TidLock, "unblock")
    /\ UNCHANGED <<sched_vars, prio_vars, sema_vars, condition, time_vars, calls>>

\* thread_unblock of the new thread, and a yield to it when it comes first
CreateUnblock(t) ==
    LET c == loc[t].child
        rd == add_ready_thread(ready, c, priority[c])
        st == [status EXCEPT ![c] = "ready"]
    IN /\ At(t, "unblock")
       /\ IF priority[t] < priority[c] THEN thread_yield(t, rd, st)
          ELSE ready' = rd /\ status' = st /\ UNCHANGED <<cur, thread_ticks>>
       /\ Goto(t, "run")
       /\ loc' = [loc EXCEPT ![t] = NoLoc]
       /\ UNCHANGED <<prio_vars, lock_vars, sema_vars, condition, don, time_vars, calls, panic,
                      missed>>

\* thread_exit, by a thread that holds no lock; its struct thread is gone
thread_exit(t) ==
    /\ At(t, "run") /\ Held(t) = {}
    /\ schedule(ready, [status EXCEPT ![t] = "none"])
    /\ priority' = [priority EXCEPT ![t] = 0]
    /\ old_priority' = [old_priority EXCEPT ![t] = 0]
    /\ UNCHANGED <<lock_vars, sema_vars, condition, don, time_vars, pc, loc, calls, panic,
                   missed>>

\* timer_sleep reads the clock with interrupts on
timer_sleep(t) ==
    /\ Call(t, "wait")
    /\ \E n \in Sleeps : ticks + n <= MaxTicks /\ loc' = [loc EXCEPT ![t].wake = ticks + n]
    /\ Goto(t, "sleep")
    /\ UNCHANGED <<sched_vars, prio_vars, lock_vars, sema_vars, condition, don, time_vars,
                   panic, missed>>

\* Mutant: as Insert, but at the end
Insert_last(t) == Append(sleeping, t)

\* list_insert_ordered
Insert(t) ==
    LET i == SelectInSeq(sleeping, LAMBDA u : loc[t].wake < loc[u].wake)
    IN IF i = 0 THEN Append(sleeping, t) ELSE InsertAt(sleeping, i, t)

SleepBlock(t) ==
    /\ At(t, "sleep")
    /\ sleeping' = Insert(t)
    /\ thread_block(t)
    /\ Goto(t, "run")
    /\ UNCHANGED <<prio_vars, lock_vars, sema_vars, condition, don, ticks, in_external_intr,
                   loc, calls, panic,
                   missed>>

-----------------------------------------------------------------------------

\* code of the kernel that goes on by itself once its thread runs
Inside(t) ==
    \/ propagate_priorities(t) \/ PrioritySet(t)
    \/ SemaWait(t) \/ SemaPass(t)
    \/ AcquireYield(t) \/ AcquireOwn(t) \/ ReleaseUp(t) \/ TryOwn(t)
    \/ CondDown(t) \/ CondReacquire(t) \/ BroadcastNext(t)
    \/ TidRelease(t) \/ CreateUnblock(t)
    \/ SleepBlock(t)

\* calls of the program
Begin(t) ==
    \/ thread_set_priority(t)
    \/ CallSemaDown(t) \/ CallSemaUp(t) \/ CallSemaTryDown(t)
    \/ CallAcquire(t) \/ lock_try_acquire(t)
    \/ cond_wait(t) \/ cond_signal(t) \/ cond_broadcast(t)
    \/ thread_create(t) \/ timer_sleep(t)

\* what every program does in the end
Finish(t) == CallRelease(t) \/ thread_exit(t)

Next == timer_interrupt \/ wake_up_threads \/ \E t \in Threads : Inside(t) \/ Begin(t) \/ Finish(t)

Spec == Init /\ [][Next]_vars

-----------------------------------------------------------------------------
Loc == [sema : Semaphores \cup {NoSema}, holder : Threads \cup {NoThread},
        ret : {"run", "cdown", "number", "unblock"}, child : Threads \cup {NoThread},
        wake : {n \in Int : n <= MaxTicks} \cup {NoWake}]
Frame == [t : Threads \cup {NoThread}, priority : Priorities \cup {-1},
          then : {"none", "set", "yield", "own", "up"}, lock : Locks \cup {NoLock},
          before : Priorities]

\* Types: a priority never leaves PRI_MIN .. PRI_MAX, which ready_list is indexed
\* with, and the semaphore of a lock never counts above 1.
TypeOK ==
    /\ cur \in Threads \cup {Idle}
    /\ status \in [Threads -> {"none", "blocked", "ready", "running"}]
    /\ priority \in [Threads -> Priorities] /\ old_priority \in [Threads -> Priorities]
    /\ ready \in [Priorities -> Seq(Threads)] /\ thread_ticks \in 0 .. TimeSlice - 1
    /\ value \in [Semaphores -> Nat] /\ \A l \in Locks : value[l] <= 1
    /\ waiters \in [Semaphores -> Seq(Threads)]
    /\ holder \in [Locks -> Threads \cup {NoThread}]
    /\ waiting_lock \in [Threads -> Locks \cup {NoLock}]
    /\ acquired \in [Threads -> SUBSET Locks]
    /\ condition \in Seq(Threads) /\ sleeping \in Seq(Threads) /\ ticks \in 0 .. MaxTicks
    /\ in_external_intr \in BOOLEAN
    /\ pc \in [Threads -> IntrOn \cup IntrOff] /\ loc \in [Threads -> Loc] /\ don \in Frame
    /\ calls \in [DOMAIN Calls -> Nat] /\ panic \in BOOLEAN /\ missed \subseteq Threads

\* no call of propagate_priorities is under way
Quiet == ~panic /\ don = NoFrame

\* how often a thread is in a list
Times(t, q) == Cardinality({i \in DOMAIN q : q[i] = t})

\* Donation moves threads between the ready lists while they wait there: a ready
\* thread is in the list of its current priority, once, and in no other; the
\* threads that sleep or are queued at a semaphore are exactly the blocked ones,
\* but for one that is being created.
QueuesOK ==
    \A t \in Threads :
        /\ \A p \in Priorities :
              Times(t, ready[p]) = IF status[t] = "ready" /\ priority[t] = p THEN 1 ELSE 0
        /\ status[t] = "running" <=> t = cur
        /\ (status[t] = "blocked" /\ \A u \in Threads : loc[u].child # t)
             <=> (t \in ToSet(sleeping) \/ \E s \in Semaphores : t \in ToSet(waiters[s]))

\* Every thread is where its status and its priority say (thread.c).
ThreadsListed == TypeOK /\ QueuesOK

\* lock_acquire stores the holder long after it looked at the lock: a lock is in
\* the list of at most one thread, which is its holder, and a lock that has a
\* holder cannot be taken.
Exclusion ==
    Quiet => \A l \in Locks :
        /\ Cardinality({t \in Threads : l \in acquired[t]}) <= 1
        /\ \A t \in Threads : l \in acquired[t] => holder[l] = t
        /\ holder[l] # NoThread => value[l] = 0

\* sema_up wakes one thread and keeps the value for whoever comes first: while
\* threads are queued, somebody who is awake is on his way for every unit left.
NoLostWakeup ==
    Quiet => \A s \in Semaphores :
        waiters[s] # << >> =>
            value[s] <= Cardinality({t \in Threads : /\ loc[t].sema = s /\ pc[t] = "down"
                                                     /\ status[t] # "blocked"})

\* cond_wait queues its element, releases the lock and only then goes to sleep: a
\* thread in it is in the list of the condition or has its signal, never both and
\* never neither, and no signal is left over from an earlier wait.
NoLostSignal ==
    Quiet => \A t \in Threads :
        Times(t, condition) + value[t] = IF pc[t] = "cdown" \/ loc[t].sema = t THEN 1 ELSE 0

\* No thread sleeps through what it waits for (sema_up, cond_signal,
\* cond_broadcast).
NothingLost == NoLostWakeup /\ NoLostSignal

\* propagate_priorities: a holder that had the priority of a queued thread when
\* the two met keeps it until it releases the lock, whatever is set, released and
\* given along the chain of locks meanwhile.
DonationKept ==
    Quiet => \A t \in Threads : \A u \in Donors(t) \ missed : priority[t] >= priority[u]

\* A priority above old_priority is always somebody's who waits for a lock the
\* thread holds: lock_release and thread_set_priority take back what has ended.
NoExcess ==
    Quiet => \A t \in Threads :
        priority[t] > old_priority[t] =>
            \E u \in Threads : waiting_lock[u] \in Held(t) /\ priority[u] >= priority[t]

\* A donated priority lasts as long as the wait it is for, and no longer
\* (propagate_priorities, lock_release, thread_set_priority).
DonationExact == DonationKept /\ NoExcess

\* timer_sleep computes its deadline with interrupts on and queues itself later:
\* no tick wakes a sleeper early, and none leaves one asleep whose time has come.
WakesOnTime ==
    [][/\ \A t \in ToSet(sleeping) \ ToSet(sleeping') : loc[t].wake <= ticks
       /\ (timer_interrupt \/ wake_up_threads) /\ ~in_external_intr'
            => \A t \in ToSet(sleeping') : loc[t].wake > ticks']_vars

-----------------------------------------------------------------------------
(* What the assignment and the design document say and the code does not do. *)

\* "MAX(old_priority, donations)" (threads/DESIGNDOC:85): no holder is below a
\* thread that is queued for its lock.
HolderOutranks ==
    Quiet => \A t \in Threads : \A u \in Donors(t) : priority[t] >= priority[u]

\* A lock taken with lock_try_acquire can be released.
NoPanic == ~panic

\* "the highest priority waiting thread should be awakened first"
\* (doc/threads.texi:480), by cond_signal as well.
SignalsHighest ==
    [][\A t, u \in ToSet(condition) :
         t \notin ToSet(condition') => priority[u] <= priority[t]]_vars

\* "the current thread should immediately yield the processor to the new thread"
\* (doc/threads.texi:477) when one with a higher priority becomes ready.
RunsHighest ==
    (Quiet /\ cur # Idle /\ pc[cur] = "run") =>
        \A t \in Threads : status[t] = "ready" => priority[t] <= priority[cur]

=============================================================================
