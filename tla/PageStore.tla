------------------------------ MODULE PageStore ------------------------------
(* What a process may expect of virtual memory, whatever frames and swap there  *)
(* are: a page holds what was last written to it.  A page starts as zeros, or   *)
(* as its part of the file it is mapped from; the pages of Sync go back to      *)
(* their file when they are unmapped.  The pages of Volatile are those whose    *)
(* last writes may be undone.                                                   *)
CONSTANTS Pages, Values, Zero, FilePages, Sync, Volatile

VARIABLES live,     \* the pages that exist
          mem,      \* what a process finds in a page
          last,     \* what it wrote there last
          file      \* the part of the file behind a page

svars == <<live, mem, last, file>>

Initial(p) == IF p \in FilePages THEN file[p] ELSE Zero

SInit == /\ live \subseteq Pages
         /\ file \in [Pages -> Values]
         /\ mem = [p \in Pages |-> Initial(p)]
         /\ last = mem

SMap(p) == /\ p \notin live
           /\ live' = live \cup {p}
           /\ UNCHANGED <<mem, last, file>>

SWrite(p, v) == /\ p \in live
                /\ mem' = [mem EXCEPT ![p] = v]
                /\ last' = [last EXCEPT ![p] = v]
                /\ UNCHANGED <<live, file>>

SLose(p, v) == /\ p \in Volatile
               /\ mem' = [mem EXCEPT ![p] = v]
               /\ UNCHANGED <<live, last, file>>

SWriteBack(p) == /\ p \in live \cap Sync
                 /\ file' = [file EXCEPT ![p] = mem[p]]
                 /\ UNCHANGED <<live, mem, last>>

SUnmap(p) == /\ p \in live
             /\ p \in Sync \ Volatile => file[p] = mem[p]
             /\ live' = live \ {p}
             /\ mem' = [mem EXCEPT ![p] = Initial(p)]
             /\ last' = [last EXCEPT ![p] = Initial(p)]
             /\ UNCHANGED file

SNext == \E p \in Pages :
            \/ SMap(p) \/ SWriteBack(p) \/ SUnmap(p)
            \/ \E v \in Values : SWrite(p, v) \/ SLose(p, v)

SSpec == SInit /\ [][SNext]_svars
==============================================================================
