----------------------------- MODULE ReadAhead ------------------------------
(***************************************************************************)
(* The read-ahead ring of the buffer cache (filesys/cached_block.c).       *)
(*                                                                         *)
(* A read of a sector queues the next one: the thread takes a slot by      *)
(* incrementing queue_e and then stores the sector in it.  The thread      *)
(* fflusher takes one sector a second.  The slots are not initialised and  *)
(* queue_s is not reduced modulo QUEUE_N, so it may read memory that holds *)
(* any value.  The names begin with Ring where BufferCache has the same,   *)
(* so that one module can speak of both.                                   *)
(***************************************************************************)
EXTENDS Naturals

CONSTANTS Readers,    \* the threads that read sectors
          QueueN,     \* QUEUE_N
          Size,       \* cached_block_size: the sectors of the disk
          MaxReads    \* bound: reads in all

ASSUME RingAssumption ==
  QueueN \in Nat \ {0} /\ Size \in Nat \ {0} /\ MaxReads \in Nat

VARIABLES queue, queue_s, queue_e,
          slot,       \* the slot a thread has taken and not yet filled, or QueueN
          pushed,     \* the sector it will store there
          asked,      \* ghost: the sectors that were ever queued
          ahead       \* the sectors read_ahead was called with, last call only

ringVars == <<queue, queue_s, queue_e, slot, pushed, asked, ahead>>

\* A uint16_t; sectors at and beyond Size stand for all the larger numbers.
Word == 0 .. Size

RingTypeOK ==
  /\ queue \in [0 .. QueueN - 1 -> Word]
  /\ queue_s \in Nat /\ queue_e \in 0 .. MaxReads
  /\ slot \in [Readers -> 0 .. QueueN]
  /\ pushed \in [Readers -> Word]
  /\ asked \subseteq Word /\ ahead \subseteq Word

\* malloc leaves the slots as they are.
RingInit ==
  /\ queue \in [0 .. QueueN - 1 -> Word]
  /\ queue_s = 0 /\ queue_e = 0
  /\ slot = [t \in Readers |-> QueueN]
  /\ pushed = [t \in Readers |-> 0]
  /\ asked = {} /\ ahead = {}

\* Mutant: the slot number is not taken modulo QUEUE_N.
Reserve_no_mod(t, sector) ==
  /\ slot[t] = QueueN /\ queue_e < MaxReads
  /\ sector + 1 < Size
  /\ slot' = [slot EXCEPT ![t] = queue_e]
  /\ pushed' = [pushed EXCEPT ![t] = sector + 1]
  /\ asked' = asked \cup {sector + 1}
  /\ queue_e' = queue_e + 1
  /\ UNCHANGED <<queue, queue_s, ahead>>

\* The end of cached_block_read_segment: fetch_and_add takes the slot ...
Reserve(t, sector) ==
  /\ slot[t] = QueueN /\ queue_e < MaxReads
  /\ sector + 1 < Size
  /\ slot' = [slot EXCEPT ![t] = queue_e % QueueN]
  /\ pushed' = [pushed EXCEPT ![t] = sector + 1]
  /\ asked' = asked \cup {sector + 1}
  /\ queue_e' = queue_e + 1
  /\ UNCHANGED <<queue, queue_s, ahead>>

\* ... and test_and_set fills it, perhaps after it was taken out.
FillSlot(t) ==
  /\ slot[t] # QueueN
  /\ queue' = [queue EXCEPT ![slot[t]] = pushed[t]]
  /\ slot' = [slot EXCEPT ![t] = QueueN]
  /\ UNCHANGED <<queue_s, queue_e, pushed, asked, ahead>>

\* Mutant: a sector that is too large is not filtered out.
Call_unchecked(get) ==
  /\ ahead' = {get}
  /\ queue_s' = queue_s + 2

\* read_ahead is called with get % QUEUE_N, and queue_s counts twice.
Call(get) ==
  \/ get < Size /\ ahead' = {get % QueueN} /\ queue_s' = queue_s + 2
  \/ get >= Size /\ ahead' = {} /\ queue_s' = queue_s + 1

\* Mutant: queue_s only advances when the sector was valid.
Take_stuck ==
  /\ queue_s < queue_e
  /\ \E get \in IF queue_s < QueueN THEN {queue[queue_s]} ELSE Word :
       get < Size /\ Call(get)
  /\ UNCHANGED <<queue, queue_e, slot, pushed, asked>>

Take ==
  /\ queue_s < queue_e
  /\ \E get \in IF queue_s < QueueN THEN {queue[queue_s]} ELSE Word : Call(get)
  /\ UNCHANGED <<queue, queue_e, slot, pushed, asked>>

RingNext ==
  \/ \E t \in Readers : FillSlot(t) \/ \E s \in 0 .. Size - 1 : Reserve(t, s)
  \/ Take

RingSpec == RingInit /\ [][RingNext]_ringVars /\ WF_ringVars(Take)

-----------------------------------------------------------------------------
\* Whatever the flusher reads from the ring or from beyond it, read_ahead
\* indexes addr and locks with a sector that exists.
ValidSector == \A s \in ahead : s < Size

\* The flusher catches up: a queue that is not empty is emptied, although
\* requests are taken out before they are filled in and entries are garbage.
CatchesUp == queue_s < queue_e ~> queue_s >= queue_e

\* The design document: queue_s and queue_e are taken modulo QUEUE_N, so the
\* flusher only reads slots of the ring.
TakesFromRing == [][queue_s' # queue_s => queue_s < QueueN]_ringVars

\* The design document: the sector after the one that was read is read ahead.
ReadsAheadNextSector == ahead \subseteq asked
=============================================================================
