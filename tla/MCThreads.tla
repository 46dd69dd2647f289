----------------------------- MODULE MCThreads -----------------------------
(* Instances of Threads for TLC: how often each kind of call is made.         *)
EXTENDS Threads

\* enough for two threads that wait for each other's locks in a chain of three
DonationCalls == [create |-> 1, lock |-> 4, set_priority |-> 1]
\* enough for two threads in cond_wait and one that signals
MonitorCalls == [lock |-> 3, cond |-> 3, wait |-> 2]
\* tests/threads/alarm-zero.c and alarm-negative.c call timer_sleep with 0 and -100
SleepTicks == {-1, 2}
Sym == Permutations(Started)
=============================================================================
