------------------------------ MODULE MCRWLock ------------------------------
(***************************************************************************)
(* RWLock for TLC.  Every thread makes at most MaxCalls calls, so that the *)
(* arrivals end and "every caller is served" is a meaningful question; the *)
(* ghost variable arrival numbers the waiting threads in the order in      *)
(* which they first began to wait.                                         *)
(***************************************************************************)
EXTENDS RWLock, TLC

CONSTANT MaxCalls

VARIABLES calls,    \* the calls each thread has made
          arrival   \* the threads that wait or were woken, oldest first

mcVars == <<vars, calls, arrival>>

Symmetry == Permutations(Threads)

\* Keep those that still wait, and add the thread that just began to.
Record(t) ==
  arrival' = LET kept == SelectSeq(arrival, LAMBDA u : pc'[u] \in Waiting)
             IN  IF pc[t] \notin Waiting /\ pc'[t] \in Waiting
                 THEN Append(kept, t) ELSE kept

MCInit == Init /\ calls = [t \in Threads |-> 0] /\ arrival = << >>

MCCall(t) ==
  /\ panic = "none" /\ calls[t] < MaxCalls
  /\ Call(t)
  /\ calls' = [calls EXCEPT ![t] = @ + 1]
  /\ Record(t)

MCStep(t, A) == panic = "none" /\ A /\ UNCHANGED calls /\ Record(t)

Done ==
  /\ panic # "none" \/ \A t \in Threads : calls[t] = MaxCalls /\ pc[t] = "idle"
  /\ UNCHANGED mcVars

MCNext ==
  \/ \E t \in Threads :
       \/ MCCall(t)
       \/ MCStep(t, Upgrade(t))
       \/ MCStep(t, Release(t))
       \/ MCStep(t, Retry(t))
  \/ Done

MCSpec == MCInit /\ [][MCNext]_mcVars

\* A woken thread is on the ready list and the round-robin scheduler gets to
\* it; the callers in inode.c, directory.c and cached_block.c release what
\* they hold after a bounded number of steps.
Fairness ==
  \A t \in Threads : /\ WF_mcVars(MCStep(t, Retry(t)))
                     /\ WF_mcVars(MCStep(t, Release(t)))

LiveSpec == MCSpec /\ Fairness

\* Once the calls stop coming, every thread that waits in r_lock_acquire,
\* w_lock_acquire or r_lock_upgrade_to_w gets the lock, unless an ASSERT
\* halted the kernel: no cycle of wake-ups and no forgotten waiter.
EveryWaiterIsServed ==
  \A t \in Threads : pc[t] \in Waiting ~> (pc[t] \notin Waiting \/ panic # "none")

\* The design document: the waiters wake up in the order in which they began
\* to wait.  A step never wakes one of two queued threads that began later.
WakesInOrder ==
  [][\A i, j \in DOMAIN arrival :
       (/\ i < j /\ arrival[i] \in Queued /\ arrival[j] \in Queued
        /\ arrival[j] \notin Queued') => arrival[i] \notin Queued']_mcVars
=============================================================================
