---------------------------- MODULE SectorStore -----------------------------
(***************************************************************************)
(* What the users of the buffer cache are promised: an array of sectors in *)
(* which every request takes effect at one instant between its call and    *)
(* its return.  A write changes the one segment it names, a read returns   *)
(* what the last write left there, and nothing else ever changes a sector. *)
(***************************************************************************)
CONSTANTS Threads, Sectors, Segments, Values, InitialValue

VARIABLES store,    \* the contents of every segment of every sector
          request,  \* the current request of each thread
          status,   \* "none", "pending" (called) or "done" (took effect)
          got       \* what the last read of each thread returned

vars == <<store, request, status, got>>

Requests == [kind : {"read", "write"}, sector : Sectors, segment : Segments,
             value : Values]

Init ==
  /\ store = [s \in Sectors |-> [g \in Segments |-> InitialValue]]
  /\ request \in [Threads -> Requests]
  /\ status = [t \in Threads |-> "none"]
  /\ got = [t \in Threads |-> InitialValue]

Call(t) ==
  /\ status[t] = "none"
  /\ \E r \in Requests : request' = [request EXCEPT ![t] = r]
  /\ status' = [status EXCEPT ![t] = "pending"]
  /\ UNCHANGED <<store, got>>

Effect(t) ==
  LET r == request[t] IN
  /\ status[t] = "pending"
  /\ status' = [status EXCEPT ![t] = "done"]
  /\ \/ /\ r.kind = "write"
        /\ store' = [store EXCEPT ![r.sector][r.segment] = r.value]
        /\ UNCHANGED got
     \/ /\ r.kind = "read"
        /\ got' = [got EXCEPT ![t] = store[r.sector][r.segment]]
        /\ UNCHANGED store
  /\ UNCHANGED request

Return(t) ==
  /\ status[t] = "done"
  /\ status' = [status EXCEPT ![t] = "none"]
  /\ UNCHANGED <<store, request, got>>

Next == \E t \in Threads : Call(t) \/ Effect(t) \/ Return(t)

Spec == Init /\ [][Next]_vars
=============================================================================
