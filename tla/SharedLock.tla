----------------------------- MODULE SharedLock -----------------------------
(***************************************************************************)
(* What the reader-writer lock promises its callers, without its list,     *)
(* counters and wake-ups: at any time a set of readers or one writer.      *)
(***************************************************************************)
CONSTANT Threads

VARIABLE hold   \* what each thread holds: "none", "read" or "write"

Init == hold = [t \in Threads |-> "none"]

GetRead(t) ==
  /\ hold[t] = "none"
  /\ \A u \in Threads : hold[u] # "write"
  /\ hold' = [hold EXCEPT ![t] = "read"]

\* A reader that upgrades may be the only one and keep its place.
GetWrite(t) ==
  /\ hold[t] # "write"
  /\ \A u \in Threads \ {t} : hold[u] = "none"
  /\ hold' = [hold EXCEPT ![t] = "write"]

Drop(t) ==
  /\ hold[t] # "none"
  /\ hold' = [hold EXCEPT ![t] = "none"]

Next == \E t \in Threads : GetRead(t) \/ GetWrite(t) \/ Drop(t)

Spec == Init /\ [][Next]_hold
=============================================================================
