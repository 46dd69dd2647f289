-------------------------- MODULE DirectoryProofs ---------------------------
(***************************************************************************)
(* Proofs about the name space, for every number of threads and sectors    *)
(* and every set of calls.                                                 *)
(*                                                                         *)
(* Three arguments carry them.  The reference count of an inode is a sum   *)
(* over the threads: a step changes the references of the thread that      *)
(* takes it and open_cnt by the same number (Balanced), and the references *)
(* are counted as a set of numbered copies.  The entry that is erased      *)
(* belongs to the thread that holds the lock of its directory, from the    *)
(* look-up to the release, so no two threads remove one entry and no       *)
(* victim is freed under its remover (NamesInv).  And while every          *)
(* directory that passed the check of dir_remove was empty (Intact), ".."  *)
(* and the active directories lead to directories that are in use, so that *)
(* an inode without a name has no new user (IntactInv).                    *)
(*                                                                         *)
(* Most actions do nothing to names but close inodes (Plain); the others   *)
(* are treated one by one.                                                 *)
(***************************************************************************)
EXTENDS Directory, FiniteSetTheorems, SequenceTheorems, WellFoundedInduction, TLAPS

-----------------------------------------------------------------------------
\* The inductive invariant.

\* The calls that hold a directory for writing, and those of remove_sys that
\* hold the inode it looked up.
Removing == {"check", "erase", "release"}
Choosing == {"readdir", "close_dir", "forget"}

\* The types, with a count of any sign: that no count falls below zero follows
\* from the references.
Typed ==
  /\ used \subseteq Sectors /\ removed \subseteq Sectors
  /\ entries \in [Sectors -> SUBSET Entry]
  /\ parent \in [Sectors -> Sectors \cup {NoSector}]
  /\ open_cnt \in [Sectors -> Int]
  /\ wlock \in [Sectors -> Threads \cup {NoThread}]
  /\ pc \in [Threads -> PC]
  /\ op \in [Threads -> Op]
  /\ active_dir \in [Threads -> Sectors \cup {NoSector}]
  /\ open_files \in [Threads -> [Descriptors -> Nat]]
  /\ calls \in 0 .. MaxCalls
  /\ past \subseteq Events

\* What the local variables of a call hold at each point of it.
LocalsOK(t) ==
  /\ pc[t] \in {"idle", "exited"} <=> op[t].work = NoSector
  /\ op[t].work = NoSector => op[t] = Idle
  /\ op[t].work # NoSector => op[t].call # "none"
  /\ op[t].next # NoSector => pc[t] \in {"step"} \cup Removing
  /\ pc[t] \in Removing => op[t].next # NoSector
  /\ pc[t] = "step" /\ op[t].is_dir => op[t].next # NoSector
  /\ pc[t] \in Removing \cup Choosing \cup {"remove"} => op[t].call = "remove"
  /\ pc[t] \in {"walk", "step", "leave"} /\ op[t].call = "remove" => op[t].inode = NoSector
  /\ pc[t] \in Choosing => op[t].inode # NoSector
  /\ pc[t] = "add" => op[t].inode # NoSector /\ op[t].call # "remove"
  /\ pc[t] = "exited" <=> active_dir[t] = NoSector
  /\ pc[t] \in Removing => wlock[op[t].work] = t

Locals == \A t \in Threads : LocalsOK(t)

-----------------------------------------------------------------------------
\* Lemmas on the operators of the model.

\* Every set of natural numbers that is not empty has a least element.
LEMMA LeastElement ==
  ASSUME NEW S \in SUBSET Nat, S # {}
  PROVE  Min(S) \in S
<1>1. PICK x \in S : \A y \in S : ~ (<<y, x>> \in OpToRel(<, Nat))
  BY NatLessThanWellFounded, WFMin
<1>2. ASSUME NEW y \in S, y < x PROVE FALSE
  <2>1. <<y, x>> \in {ss \in Nat \X Nat : ss[1] < ss[2]}
    BY <1>2
  <2>. QED BY <1>1, <2>1 DEF OpToRel
<1>3. \A y \in S : x =< y
  BY <1>2
<1>. QED BY <1>3 DEF Min

\* The sum of a function over the threads, as the size of a set.
Copies(r) == UNION {{t} \X (1 .. r[t]) : t \in Threads}

\* The numbers from one on.
LEMMA FirstNumbers ==
  ASSUME NEW n \in Nat
  PROVE  IsFiniteSet(1 .. n) /\ Cardinality(1 .. n) = n
<1>1. /\ IsFiniteSet(1 .. n)
      /\ Cardinality(1 .. n) = IF 1 > n THEN 0 ELSE n - 1 + 1
  BY FS_Interval
<1>. QED BY <1>1

\* The numbered copies of one thread.
LEMMA OwnCopies ==
  ASSUME NEW t, NEW n \in Nat
  PROVE  IsFiniteSet({t} \X (1 .. n)) /\ Cardinality({t} \X (1 .. n)) = n
<1>1. IsFiniteSet(1 .. n) /\ Cardinality(1 .. n) = n
  BY FirstNumbers
<1>2. IsFiniteSet({t}) /\ Cardinality({t}) = 1
  BY FS_Singleton
<1>3. IsFiniteSet({t} \X (1 .. n)) /\ Cardinality({t} \X (1 .. n)) = 1 * n
  BY <1>1, <1>2, FS_Product
<1>. QED BY <1>3

\* The copies of finitely many threads are finitely many.
LEMMA CopiesFinite ==
  ASSUME NEW r \in [Threads -> Nat]
  PROVE  IsFiniteSet(Copies(r)) /\ Cardinality(Copies(r)) \in Nat
<1>. DEFINE F == [t \in Threads |-> {t} \X (1 .. r[t])]
            S == {{t} \X (1 .. r[t]) : t \in Threads}
<1>1. F \in Surjection(Threads, S)
  BY DEF Surjection
<1>2. IsFiniteSet(S)
  BY <1>1, FS_Surjection, DirectoryAssumption
<1>3. ASSUME NEW T \in S PROVE IsFiniteSet(T)
  <2>1. PICK t \in Threads : T = {t} \X (1 .. r[t])
    OBVIOUS
  <2>. QED BY <2>1, OwnCopies
<1>4. IsFiniteSet(UNION S)
  BY <1>2, <1>3, FS_UNION
<1>. QED BY <1>4, FS_CardinalityType DEF Copies

\* A sum changes by as much as its only summand that changes.
LEMMA CopiesChange ==
  ASSUME NEW r \in [Threads -> Nat], NEW q \in [Threads -> Nat], NEW t \in Threads,
         \A u \in Threads \ {t} : q[u] = r[u]
  PROVE  Cardinality(Copies(q)) - q[t] = Cardinality(Copies(r)) - r[t]
<1>. DEFINE Rest == UNION {{u} \X (1 .. r[u]) : u \in Threads \ {t}}
<1>1. ASSUME NEW f \in [Threads -> Nat], \A u \in Threads \ {t} : f[u] = r[u]
      PROVE  /\ IsFiniteSet(Rest) /\ Cardinality(Rest) \in Nat
             /\ Cardinality(Copies(f)) = Cardinality(Rest) + f[t]
  <2>. DEFINE Own == {t} \X (1 .. f[t])
  <2>1. Copies(f) = Rest \cup Own
    <3>1. ASSUME NEW x \in Copies(f) PROVE x \in Rest \cup Own
      <4>1. PICK u \in Threads : x \in {u} \X (1 .. f[u])
        BY DEF Copies
      <4>. QED BY <4>1, <1>1
    <3>2. ASSUME NEW x \in Rest PROVE x \in Copies(f)
      <4>1. PICK u \in Threads \ {t} : x \in {u} \X (1 .. r[u])
        OBVIOUS
      <4>. QED BY <4>1, <1>1 DEF Copies
    <3>3. Own \subseteq Copies(f)
      BY DEF Copies
    <3>. QED BY <3>1, <3>2, <3>3
  <2>2. Rest \cap Own = {}
    <3>1. ASSUME NEW x \in Rest, x \in Own PROVE FALSE
      <4>1. PICK u \in Threads \ {t} : x \in {u} \X (1 .. r[u])
        OBVIOUS
      <4>. QED BY <3>1, <4>1
    <3>. QED BY <3>1
  <2>3. IsFiniteSet(Copies(f))
    BY CopiesFinite
  <2>4. IsFiniteSet(Rest) /\ IsFiniteSet(Own)
    BY <2>1, <2>3, FS_Subset
  <2>5. Cardinality(Own) = f[t]
    BY OwnCopies
  <2>6. Cardinality(Rest) \in Nat
    BY <2>4, FS_CardinalityType
  <2>7. Cardinality(Copies(f)) = Cardinality(Rest) + Cardinality(Own) - Cardinality({})
    BY <2>1, <2>2, <2>4, FS_Union
  <2>8. Cardinality({}) = 0 /\ f[t] \in Nat
    BY FS_EmptySet
  <2>. QED BY <2>4, <2>5, <2>6, <2>7, <2>8
<1>2. Cardinality(Copies(q)) = Cardinality(Rest) + q[t] /\ Cardinality(Rest) \in Nat
  BY <1>1
<1>3. Cardinality(Copies(r)) = Cardinality(Rest) + r[t]
  BY <1>1
<1>4. q[t] \in Nat /\ r[t] \in Nat
  OBVIOUS
<1>. HIDE DEF Rest
<1>. QED BY <1>2, <1>3, <1>4

\* A sum is at least each of its summands, and if it is no larger than one of
\* them the others are zero.
LEMMA CopiesBound ==
  ASSUME NEW r \in [Threads -> Nat], NEW t \in Threads
  PROVE  /\ Cardinality(Copies(r)) >= r[t]
         /\ \A u \in Threads \ {t} : Cardinality(Copies(r)) >= r[t] + r[u]
<1>1. ASSUME NEW u \in Threads
      PROVE  /\ IsFiniteSet({u} \X (1 .. r[u])) /\ Cardinality({u} \X (1 .. r[u])) = r[u]
             /\ r[u] \in Nat /\ {u} \X (1 .. r[u]) \subseteq Copies(r)
  BY OwnCopies DEF Copies
<1>2. IsFiniteSet(Copies(r)) /\ Cardinality(Copies(r)) \in Nat
  BY CopiesFinite
<1>3. Cardinality(Copies(r)) >= r[t]
  <2>. DEFINE A == {t} \X (1 .. r[t])
  <2>1. A \subseteq Copies(r) /\ Cardinality(A) = r[t] /\ r[t] \in Nat
    BY <1>1
  <2>. HIDE DEF A
  <2>2. Cardinality(A) <= Cardinality(Copies(r))
    BY <1>2, <2>1, FS_Subset
  <2>. QED BY <1>2, <2>1, <2>2
<1>4. ASSUME NEW u \in Threads \ {t} PROVE Cardinality(Copies(r)) >= r[t] + r[u]
  <2>. DEFINE A == {t} \X (1 .. r[t])
              B == {u} \X (1 .. r[u])
  <2>1. A \cap B = {}
    OBVIOUS
  <2>2. /\ IsFiniteSet(A) /\ Cardinality(A) = r[t] /\ r[t] \in Nat /\ A \subseteq Copies(r)
        /\ IsFiniteSet(B) /\ Cardinality(B) = r[u] /\ r[u] \in Nat /\ B \subseteq Copies(r)
    BY <1>1
  <2>. HIDE DEF A, B
  <2>3. IsFiniteSet(A \cup B)
        /\ Cardinality(A \cup B) = Cardinality(A) + Cardinality(B) - Cardinality(A \cap B)
    BY <2>2, FS_Union
  <2>4. A \cup B \subseteq Copies(r)
    BY <2>2
  <2>5. Cardinality(A \cup B) <= Cardinality(Copies(r))
    BY <1>2, <2>4, FS_Subset
  <2>6. Cardinality({}) = 0
    BY FS_EmptySet
  <2>7. Cardinality(A \cup B) = Cardinality(A) + Cardinality(B) - 0
    BY <2>1, <2>3, <2>6
  <2>. QED BY ONLY <1>2, <2>2, <2>5, <2>7
<1>. QED BY <1>3, <1>4

-----------------------------------------------------------------------------
\* Types and local variables.

\* What inode_close leaves: sectors that are given back were removed.
LEMMA ClosesEffect ==
  ASSUME Typed, NEW n \in [Sectors -> Int], Closes(n)
  PROVE  /\ open_cnt' \in [Sectors -> Int]
         /\ \A s \in Sectors : open_cnt'[s] = open_cnt[s] - n[s]
         /\ removed' \subseteq removed /\ used' \subseteq used
         /\ \A s \in used : s \notin used' <=> s \in removed /\ open_cnt'[s] = 0
         /\ \A s \in removed : s \notin removed' <=> open_cnt'[s] = 0
<1>. DEFINE left == [s \in Sectors |-> open_cnt[s] - n[s]]
<1>1. open_cnt' = left /\ left \in [Sectors -> Int]
  BY DEF Closes, Typed
<1>2. removed' = removed \ {s \in removed : left[s] = 0}
  BY DEF Closes
<1>3. used' = used \ {s \in removed : left[s] = 0}
  BY DEF Closes
<1>. QED BY <1>1, <1>2, <1>3 DEF Typed

\* A number of closes at each sector.
LEMMA OnceType ==
  ASSUME NEW f, \A s \in Sectors : f[s] \in BOOLEAN
  PROVE  [s \in Sectors |-> Once(f[s])] \in [Sectors -> Int]
  BY DEF Once

\* What inode_close does to one inode.
LEMMA CloseEffect ==
  ASSUME Typed, NEW c, Close(c)
  PROVE  /\ open_cnt' \in [Sectors -> Int]
         /\ \A s \in Sectors : open_cnt'[s] = open_cnt[s] - Once(s = c)
         /\ removed' \subseteq removed /\ used' \subseteq used
         /\ \A s \in used : s \notin used' <=> s \in removed /\ open_cnt'[s] = 0
         /\ \A s \in removed : s \notin removed' <=> open_cnt'[s] = 0
<1>. DEFINE n == [i \in Sectors |-> Once(i = c)]
<1>1. n \in [Sectors -> Int] /\ \A s \in Sectors : n[s] = Once(s = c)
  BY DEF Once
<1>2. Closes(n)
  BY DEF Close
<1>. HIDE DEF n
<1>3. \A s \in Sectors : open_cnt'[s] = open_cnt[s] - n[s]
  BY <1>1, <1>2, ClosesEffect
<1>4. \A s \in Sectors : open_cnt'[s] = open_cnt[s] - Once(s = c)
  BY <1>1, <1>3
<1>5. /\ open_cnt' \in [Sectors -> Int]
      /\ removed' \subseteq removed /\ used' \subseteq used
      /\ \A s \in used : s \notin used' <=> s \in removed /\ open_cnt'[s] = 0
      /\ \A s \in removed : s \notin removed' <=> open_cnt'[s] = 0
  BY <1>1, <1>2, ClosesEffect
<1>. QED BY <1>4, <1>5

\* No thread is nobody, and no sector is NULL.
LEMMA Names ==
  /\ NoThread \notin Threads /\ NoSector \notin Sectors /\ Root \in Sectors
  /\ Sectors \subseteq Nat
  BY DirectoryAssumption

\* A thread is only disturbed in its own variables, and in a lock that it holds.
LEMMA OtherLocals ==
  ASSUME NEW u \in Threads, LocalsOK(u),
         op'[u] = op[u], pc'[u] = pc[u], active_dir'[u] = active_dir[u],
         pc[u] \in Removing => wlock'[op[u].work] = wlock[op[u].work]
  PROVE  LocalsOK(u)'
  BY DEF LocalsOK, Idle

\* The types of the local variables of a thread.
LEMMA LocalTypes ==
  ASSUME Typed, NEW t \in Threads
  PROVE  /\ op[t].call \in Kinds \cup {"none"} /\ op[t].path \in Seq(STRING)
         /\ op[t].name \in FileNames /\ op[t].is_dir \in BOOLEAN
         /\ op[t].work \in Sectors \cup {NoSector}
         /\ op[t].next \in Sectors \cup {NoSector}
         /\ op[t].inode \in Sectors \cup {NoSector}
         /\ op[t] \in Op /\ pc[t] \in PC /\ active_dir[t] \in Sectors \cup {NoSector}
  BY DEF Typed, Op

\* What a call looks up is an entry.
LEMMA EntryTypes ==
  ASSUME Typed, NEW d \in Sectors, NEW name, NEW e \in Named(d, name)
  PROVE  /\ e \in entries[d] /\ e \in Entry /\ e.name = name
         /\ e.inode_sector \in Sectors /\ e.is_dir \in BOOLEAN
  BY DEF Typed, Named, Entry

\* A step changes only its own thread's place, call and directory.
LEMMA IdleType == Idle \in Op /\ Idle.work = NoSector /\ Idle.next = NoSector
                  /\ Idle.inode = NoSector /\ Idle.call = "none"
<1>1. << >> \in Seq(STRING) 
  OBVIOUS
<1>3. "" \in FileNames
  BY DEF FileNames
<1>4. "none" \in Kinds \cup {"none"}
  OBVIOUS
<1>2. NoSector \in Sectors \cup {NoSector}
  OBVIOUS
<1>. QED BY <1>1, <1>2, <1>3, <1>4 DEF Idle, Op

\* A call begins or ends.
LEMMA SetAll ==
  ASSUME Typed, NEW t \in Threads, NEW o \in Op, op' = [op EXCEPT ![t] = o]
  PROVE  op' \in [Threads -> Op] /\ op'[t] = o /\ \A u \in Threads \ {t} : op'[u] = op[u]
  BY DEF Typed

\* A call stores an inode as its next one.
LEMMA SetNext ==
  ASSUME Typed, NEW t \in Threads, NEW s \in Sectors \cup {NoSector},
         op' = [op EXCEPT ![t].next = s]
  PROVE  /\ op' \in [Threads -> Op] /\ \A u \in Threads \ {t} : op'[u] = op[u]
         /\ op'[t].next = s
         /\ op'[t].call = op[t].call /\ op'[t].path = op[t].path /\ op'[t].name = op[t].name
         /\ op'[t].work = op[t].work /\ op'[t].inode = op[t].inode /\ op'[t].is_dir = op[t].is_dir
<1>. DEFINE o == [op[t] EXCEPT !.next = s]
<1>1. /\ o \in Op
      /\ o.call = op[t].call /\ o.path = op[t].path /\ o.name = op[t].name
      /\ o.work = op[t].work /\ o.next = s /\ o.inode = op[t].inode
      /\ o.is_dir = op[t].is_dir
  BY LocalTypes DEF Op
<1>. HIDE DEF o
<1>2. op' = [op EXCEPT ![t] = o]
  BY DEF Typed, o
<1>3. op' \in [Threads -> Op] /\ op'[t] = o /\ \A u \in Threads \ {t} : op'[u] = op[u]
  BY <1>1, <1>2, SetAll
<1>. QED BY <1>1, <1>3

\* A call stores the inode it works for.
LEMMA SetInode ==
  ASSUME Typed, NEW t \in Threads, NEW s \in Sectors \cup {NoSector},
         op' = [op EXCEPT ![t].inode = s]
  PROVE  /\ op' \in [Threads -> Op] /\ \A u \in Threads \ {t} : op'[u] = op[u]
         /\ op'[t].inode = s
         /\ op'[t].call = op[t].call /\ op'[t].path = op[t].path /\ op'[t].name = op[t].name
         /\ op'[t].work = op[t].work /\ op'[t].next = op[t].next /\ op'[t].is_dir = op[t].is_dir
<1>. DEFINE o == [op[t] EXCEPT !.inode = s]
<1>1. /\ o \in Op
      /\ o.call = op[t].call /\ o.path = op[t].path /\ o.name = op[t].name
      /\ o.work = op[t].work /\ o.next = op[t].next /\ o.inode = s
      /\ o.is_dir = op[t].is_dir
  BY LocalTypes DEF Op
<1>. HIDE DEF o
<1>2. op' = [op EXCEPT ![t] = o]
  BY DEF Typed, o
<1>3. op' \in [Threads -> Op] /\ op'[t] = o /\ \A u \in Threads \ {t} : op'[u] = op[u]
  BY <1>1, <1>2, SetAll
<1>. QED BY <1>1, <1>3

\* A call stores an entry it has found.
LEMMA SetFound ==
  ASSUME Typed, NEW t \in Threads, NEW s \in Sectors \cup {NoSector}, NEW b \in BOOLEAN,
         op' = [op EXCEPT ![t].next = s, ![t].is_dir = b]
  PROVE  /\ op' \in [Threads -> Op] /\ \A u \in Threads \ {t} : op'[u] = op[u]
         /\ op'[t].next = s /\ op'[t].is_dir = b
         /\ op'[t].call = op[t].call /\ op'[t].path = op[t].path /\ op'[t].name = op[t].name
         /\ op'[t].work = op[t].work /\ op'[t].inode = op[t].inode
<1>. DEFINE o == [op[t] EXCEPT !.next = s, !.is_dir = b]
<1>1. /\ o \in Op
      /\ o.call = op[t].call /\ o.path = op[t].path /\ o.name = op[t].name
      /\ o.work = op[t].work /\ o.next = s /\ o.inode = op[t].inode
      /\ o.is_dir = b
  BY LocalTypes DEF Op
<1>. HIDE DEF o
<1>2. op' = [op EXCEPT ![t] = o]
  BY DEF Typed, o
<1>3. op' \in [Threads -> Op] /\ op'[t] = o /\ \A u \in Threads \ {t} : op'[u] = op[u]
  BY <1>1, <1>2, SetAll
<1>. QED BY <1>1, <1>3

\* A call goes from the directory it is in to the next.
LEMMA SetStep ==
  ASSUME Typed, NEW t \in Threads, NEW s \in Sectors \cup {NoSector},
         op' = [op EXCEPT ![t].work = s, ![t].next = NoSector]
  PROVE  /\ op' \in [Threads -> Op] /\ \A u \in Threads \ {t} : op'[u] = op[u]
         /\ op'[t].work = s /\ op'[t].next = NoSector
         /\ op'[t].call = op[t].call /\ op'[t].path = op[t].path /\ op'[t].name = op[t].name
         /\ op'[t].inode = op[t].inode /\ op'[t].is_dir = op[t].is_dir
<1>. DEFINE o == [op[t] EXCEPT !.work = s, !.next = NoSector]
<1>1. /\ o \in Op
      /\ o.call = op[t].call /\ o.path = op[t].path /\ o.name = op[t].name
      /\ o.work = s /\ o.next = NoSector /\ o.inode = op[t].inode
      /\ o.is_dir = op[t].is_dir
  BY LocalTypes DEF Op
<1>. HIDE DEF o
<1>2. op' = [op EXCEPT ![t] = o]
  BY DEF Typed, o
<1>3. op' \in [Threads -> Op] /\ op'[t] = o /\ \A u \in Threads \ {t} : op'[u] = op[u]
  BY <1>1, <1>2, SetAll
<1>. QED BY <1>1, <1>3

\* A thread goes on at a label.
LEMMA SetPC ==
  ASSUME Typed, NEW t \in Threads, NEW label \in PC, Goto(t, label)
  PROVE  pc' \in [Threads -> PC] /\ pc'[t] = label /\ \A u \in Threads \ {t} : pc'[u] = pc[u]
  BY DEF Typed, Goto

\* inode_open counts one more.
LEMMA OpensEffect ==
  ASSUME Typed, NEW c, Opens(c)
  PROVE  /\ open_cnt' \in [Sectors -> Int]
         /\ \A s \in Sectors : open_cnt'[s] = open_cnt[s] + Once(s = c)
<1>1. open_cnt' \in [Sectors -> Int]
  <2>1. CASE c \in Sectors
    BY <2>1 DEF Typed, Opens
  <2>2. CASE c \notin Sectors
    BY <2>2 DEF Typed, Opens
  <2>. QED BY <2>1, <2>2
<1>2. ASSUME NEW s \in Sectors PROVE open_cnt'[s] = open_cnt[s] + Once(s = c)
  <2>1. CASE s = c
    BY <2>1 DEF Typed, Opens, Once
  <2>2. CASE s # c
    BY <2>2 DEF Typed, Opens, Once
  <2>. QED BY <2>1, <2>2
<1>. QED BY <1>1, <1>2

-----------------------------------------------------------------------------
\* The effect of each step on its thread: types, local variables and the
\* balance of references and counts.

\* A step of t leaves the variables of the other threads alone.
Own(t) ==
  \A u \in Threads \ {t} :
    /\ op'[u] = op[u] /\ pc'[u] = pc[u]
    /\ active_dir'[u] = active_dir[u] /\ open_files'[u] = open_files[u]

\* A step of t opens and closes what its references gain and lose.
Balanced(t) ==
  \A s \in Sectors : open_cnt'[s] - Refs(t, s)' = open_cnt[s] - Refs(t, s)

\* How the references of t change, the descriptors aside.
Shift(t, s) ==
  Once(active_dir'[t] = s) - Once(active_dir[t] = s)
  + Once(op'[t].work = s) - Once(op[t].work = s)
  + Once(op'[t].next = s) - Once(op[t].next = s)
  + Once(op'[t].inode = s /\ op'[t].call = "remove")
  - Once(op[t].inode = s /\ op[t].call = "remove")

\* The references of a thread, by where they are kept.
LEMMA RefsParts ==
  ASSUME Typed, NEW t \in Threads, NEW s \in Sectors
  PROVE  /\ FilesAt(t, s) \in Nat /\ DirsAt(t, s) \in Nat /\ Refs(t, s) \in Nat
         /\ Refs(t, s) = Once(active_dir[t] = s) + FilesAt(t, s) + 2 * DirsAt(t, s)
                         + Once(op[t].work = s) + Once(op[t].next = s)
                         + Once(op[t].inode = s /\ op[t].call = "remove")
<1>1. FilesAt(t, s) \in Nat /\ DirsAt(t, s) \in Nat
  BY DEF Typed, FilesAt, DirsAt, Descriptors
<1>. QED BY <1>1 DEF Refs, Once

\* A step that leaves the descriptors alone.
LEMMA BalancedStep ==
  ASSUME Typed, Typed', NEW t \in Threads, open_files'[t] = open_files[t],
         \A s \in Sectors : open_cnt'[s] - open_cnt[s] = Shift(t, s)
  PROVE  Balanced(t)
<1>. SUFFICES ASSUME NEW s \in Sectors
              PROVE  open_cnt'[s] - Refs(t, s)' = open_cnt[s] - Refs(t, s)
  BY DEF Balanced
<1>1. FilesAt(t, s)' = FilesAt(t, s) /\ DirsAt(t, s)' = DirsAt(t, s)
  BY DEF FilesAt, DirsAt
<1>2. FilesAt(t, s) \in Nat /\ DirsAt(t, s) \in Nat
  BY RefsParts
<1>3. open_cnt[s] \in Int /\ open_cnt'[s] \in Int
  BY DEF Typed
<1>. QED BY <1>1, <1>2, <1>3 DEF Refs, Once, Shift

\* A step that opens and closes nothing and keeps its references.
LEMMA BalancedQuiet ==
  ASSUME Typed, Typed', NEW t \in Threads, open_files'[t] = open_files[t],
         open_cnt' = open_cnt, active_dir'[t] = active_dir[t],
         op'[t].work = op[t].work, op'[t].next = op[t].next,
         \/ op'[t].inode = op[t].inode /\ op'[t].call = op[t].call
         \/ op[t].call # "remove" /\ op'[t].call # "remove"
  PROVE  Balanced(t)
<1>1. ASSUME NEW s \in Sectors
      PROVE  open_cnt'[s] - open_cnt[s] = Shift(t, s)
  <2>1. open_cnt[s] \in Int
    BY DEF Typed
  <2>. QED BY <2>1 DEF Once, Shift
<1>. QED BY <1>1, BalancedStep

\* Begin: types, locals, and as many references as open_cnt counts.
LEMMA BeginStep ==
  ASSUME Typed, Locals, NEW t \in Threads, Begin(t)
  PROVE  Typed' /\ LocalsOK(t)' /\ Own(t) /\ Balanced(t)
<1>1. PICK c \in Calls :
        LET start == IF c.absolute THEN Root ELSE active_dir[t]
        IN /\ op' = [op EXCEPT ![t] =
                [call |-> c.call, path |-> c.path, name |-> c.name, work |-> start,
                 next |-> NoSector, inode |-> NoSector, is_dir |-> FALSE]]
           /\ Opens(start)
  BY DEF Begin
<1>. DEFINE start == IF c.absolute THEN Root ELSE active_dir[t]
            new == [call |-> c.call, path |-> c.path, name |-> c.name, work |-> start,
                    next |-> NoSector, inode |-> NoSector, is_dir |-> FALSE]
<1>2. /\ c.call \in Kinds /\ c.path \in Seq(STRING) /\ c.name \in FileNames
      /\ c.absolute \in BOOLEAN
  BY DirectoryAssumption DEF FileNames
<1>3. pc[t] = "idle" /\ LocalsOK(t)
  BY DEF Begin, Locals
<1>4. start \in Sectors
  BY <1>3, Names, LocalTypes DEF LocalsOK
<1>5. op' = [op EXCEPT ![t] = new]
  BY <1>1
<1>6. new \in Op
  BY <1>2, <1>4 DEF Op
<1>7. /\ new.work = start /\ new.next = NoSector /\ new.inode = NoSector
      /\ new.call \in Kinds /\ new.is_dir = FALSE
  BY <1>2
<1>8. Opens(start)
  BY <1>1
<1>. HIDE DEF new, start
<1>9. op' \in [Threads -> Op] /\ op'[t] = new /\ \A u \in Threads \ {t} : op'[u] = op[u]
  BY <1>5, <1>6, SetAll
<1>10. pc' \in [Threads -> PC] /\ pc'[t] = "walk" /\ \A u \in Threads \ {t} : pc'[u] = pc[u]
  BY SetPC DEF Begin, PC
<1>11. /\ open_cnt' \in [Sectors -> Int]
       /\ \A s \in Sectors : open_cnt'[s] = open_cnt[s] + Once(s = start)
  BY <1>8, OpensEffect
<1>12. UNCHANGED <<used, entries, parent, removed, wlock, active_dir, open_files, balance, past>>
  BY DEF Begin, diskVars
<1>13. calls' \in 0 .. MaxCalls
  BY DirectoryAssumption DEF Begin, Typed
<1>14. Typed'
  BY <1>9, <1>10, <1>11, <1>12, <1>13 DEF Typed
<1>15. LocalsOK(t)'
  BY <1>3, <1>4, <1>7, <1>9, <1>10, <1>12, Names DEF LocalsOK, Removing, Choosing, Kinds
<1>16. Balanced(t)
  <2>1. op[t].work = NoSector /\ op[t] = Idle
    BY <1>3 DEF LocalsOK
  <2>2. ASSUME NEW s \in Sectors
        PROVE  open_cnt'[s] - open_cnt[s] = Shift(t, s)
    <3>1. s # NoSector /\ open_cnt[s] \in Int /\ active_dir'[t] = active_dir[t]
      BY <1>12, Names DEF Typed
    <3>2. open_cnt'[s] = open_cnt[s] + Once(s = start)
      BY <1>11
    <3>. QED BY <1>7, <1>9, <2>1, <3>1, <3>2, IdleType DEF Once, Shift
  <2>3. open_files'[t] = open_files[t]
    BY <1>12
  <2>. QED BY <1>14, <2>2, <2>3, BalancedStep
<1>. QED BY <1>9, <1>10, <1>12, <1>14, <1>15, <1>16 DEF Own

\* Leave: types, locals, and as many references as open_cnt counts.
LEMMA LeaveStep ==
  ASSUME Typed, Locals, NEW t \in Threads, Leave(t)
  PROVE  Typed' /\ LocalsOK(t)' /\ Own(t) /\ Balanced(t)
<1>0. LocalsOK(t)
  BY DEF Locals
<1>1. pc[t] = "leave" /\ Close(op[t].work)
  BY DEF Leave
<1>9. op' \in [Threads -> Op] /\ (\A u \in Threads \ {t} : op'[u] = op[u]) /\ op'[t] = Idle
  BY SetAll, IdleType DEF Leave
<1>10. pc' \in [Threads -> PC] /\ (\A u \in Threads \ {t} : pc'[u] = pc[u]) /\ pc'[t] = "idle"
  BY SetPC DEF Leave, PC
<1>11. /\ open_cnt' \in [Sectors -> Int]
       /\ \A s \in Sectors : open_cnt'[s] = open_cnt[s] - Once(s = op[t].work)
       /\ removed' \subseteq removed /\ used' \subseteq used
  BY <1>1, CloseEffect
<1>12. UNCHANGED <<entries, parent, wlock, active_dir, open_files, calls, balance, past>>
  BY DEF Leave, ghostVars
<1>14. Typed'
  BY <1>9, <1>10, <1>11, <1>12 DEF Typed
<1>15. LocalsOK(t)'
  BY <1>0, <1>9, <1>10, <1>12, Names, IdleType, <1>1 DEF LocalsOK, Removing, Choosing, Kinds
<1>16. Balanced(t)
  <2>1. ASSUME NEW s \in Sectors PROVE open_cnt'[s] - open_cnt[s] = Shift(t, s)
    <3>1. s # NoSector /\ open_cnt[s] \in Int
      BY Names DEF Typed
    <3>2. open_cnt'[s] = open_cnt[s] - Once(s = op[t].work)
      BY <1>11
    <3>. QED BY <1>1, <1>0, <1>9, <1>12, <3>1, <3>2, IdleType DEF Once, Shift, LocalsOK, Removing, Choosing
  <2>2. open_files'[t] = open_files[t]
    BY <1>12
  <2>. QED BY <1>14, <2>1, <2>2, BalancedStep
<1>. QED BY <1>9, <1>10, <1>12, <1>14, <1>15, <1>16 DEF Own

\* CloseDir: types, locals, and as many references as open_cnt counts.
LEMMA CloseDirStep ==
  ASSUME Typed, Locals, NEW t \in Threads, CloseDir(t)
  PROVE  Typed' /\ LocalsOK(t)' /\ Own(t) /\ Balanced(t)
<1>0. LocalsOK(t)
  BY DEF Locals
<1>1. pc[t] = "close_dir" /\ Close(op[t].inode)
  BY DEF CloseDir
<1>9. op' \in [Threads -> Op] /\ (\A u \in Threads \ {t} : op'[u] = op[u]) /\ /\ op'[t].inode = NoSector /\ op'[t].call = op[t].call /\ op'[t].work = op[t].work
      /\ op'[t].next = op[t].next
  BY SetInode DEF CloseDir
<1>10. pc' \in [Threads -> PC] /\ (\A u \in Threads \ {t} : pc'[u] = pc[u]) /\ pc'[t] = "remove"
  BY SetPC DEF CloseDir, PC
<1>11. /\ open_cnt' \in [Sectors -> Int]
       /\ \A s \in Sectors : open_cnt'[s] = open_cnt[s] - Once(s = op[t].inode)
       /\ removed' \subseteq removed /\ used' \subseteq used
  BY <1>1, CloseEffect
<1>12. UNCHANGED <<entries, parent, wlock, active_dir, open_files, calls, balance, past>>
  BY DEF CloseDir, ghostVars
<1>14. Typed'
  BY <1>9, <1>10, <1>11, <1>12 DEF Typed
<1>15. LocalsOK(t)'
  BY <1>0, <1>9, <1>10, <1>12, Names, IdleType, <1>1 DEF LocalsOK, Removing, Choosing, Kinds
<1>16. Balanced(t)
  <2>1. ASSUME NEW s \in Sectors PROVE open_cnt'[s] - open_cnt[s] = Shift(t, s)
    <3>1. s # NoSector /\ open_cnt[s] \in Int
      BY Names DEF Typed
    <3>2. open_cnt'[s] = open_cnt[s] - Once(s = op[t].inode)
      BY <1>11
    <3>. QED BY <1>1, <1>0, <1>9, <1>12, <3>1, <3>2, IdleType DEF Once, Shift, LocalsOK, Removing, Choosing
  <2>2. open_files'[t] = open_files[t]
    BY <1>12
  <2>. QED BY <1>14, <2>1, <2>2, BalancedStep
<1>. QED BY <1>9, <1>10, <1>12, <1>14, <1>15, <1>16 DEF Own

\* Forget: types, locals, and as many references as open_cnt counts.
LEMMA ForgetStep ==
  ASSUME Typed, Locals, NEW t \in Threads, Forget(t)
  PROVE  Typed' /\ LocalsOK(t)' /\ Own(t) /\ Balanced(t)
<1>0. LocalsOK(t)
  BY DEF Locals
<1>1. pc[t] = "forget" /\ Close(op[t].inode)
  BY DEF Forget
<1>9. op' \in [Threads -> Op] /\ (\A u \in Threads \ {t} : op'[u] = op[u]) /\ /\ op'[t].inode = NoSector /\ op'[t].call = op[t].call /\ op'[t].work = op[t].work
      /\ op'[t].next = op[t].next
  BY SetInode DEF Forget
<1>10. pc' \in [Threads -> PC] /\ (\A u \in Threads \ {t} : pc'[u] = pc[u]) /\ pc'[t] = "leave"
  BY SetPC DEF Forget, PC
<1>11. /\ open_cnt' \in [Sectors -> Int]
       /\ \A s \in Sectors : open_cnt'[s] = open_cnt[s] - Once(s = op[t].inode)
       /\ removed' \subseteq removed /\ used' \subseteq used
  BY <1>1, CloseEffect
<1>12. UNCHANGED <<entries, parent, wlock, active_dir, open_files, calls, balance, past>>
  BY DEF Forget, ghostVars
<1>14. Typed'
  BY <1>9, <1>10, <1>11, <1>12 DEF Typed
<1>15. LocalsOK(t)'
  BY <1>0, <1>9, <1>10, <1>12, Names, IdleType, <1>1 DEF LocalsOK, Removing, Choosing, Kinds
<1>16. Balanced(t)
  <2>1. ASSUME NEW s \in Sectors PROVE open_cnt'[s] - open_cnt[s] = Shift(t, s)
    <3>1. s # NoSector /\ open_cnt[s] \in Int
      BY Names DEF Typed
    <3>2. open_cnt'[s] = open_cnt[s] - Once(s = op[t].inode)
      BY <1>11
    <3>. QED BY <1>1, <1>0, <1>9, <1>12, <3>1, <3>2, IdleType DEF Once, Shift, LocalsOK, Removing, Choosing
  <2>2. open_files'[t] = open_files[t]
    BY <1>12
  <2>. QED BY <1>14, <2>1, <2>2, BalancedStep
<1>. QED BY <1>9, <1>10, <1>12, <1>14, <1>15, <1>16 DEF Own

\* Readdir: types, locals, and as many references as open_cnt counts.
LEMMA ReaddirStep ==
  ASSUME Typed, Locals, NEW t \in Threads, Readdir(t)
  PROVE  Typed' /\ LocalsOK(t)' /\ Own(t) /\ Balanced(t)
<1>0. LocalsOK(t)
  BY DEF Locals
<1>9. op' \in [Threads -> Op] /\ (\A u \in Threads \ {t} : op'[u] = op[u]) /\ op'[t] = op[t]
  BY DEF Readdir, Typed
<1>10. pc' \in [Threads -> PC] /\ (\A u \in Threads \ {t} : pc'[u] = pc[u]) /\ pc[t] = "readdir" /\ pc'[t] \in {"close_dir", "forget"}
  BY SetPC DEF Readdir, PC
<1>11. open_cnt' = open_cnt
  BY DEF Readdir
<1>12. UNCHANGED <<used, entries, parent, removed, wlock, active_dir, open_files, calls, balance, past>>
  BY DEF Readdir, diskVars, ghostVars
<1>14. Typed'
  BY <1>9, <1>10, <1>11, <1>12 DEF Typed
<1>15. LocalsOK(t)'
  BY <1>0, <1>9, <1>10, <1>12, Names, IdleType DEF LocalsOK, Removing, Choosing, Kinds
<1>16. Balanced(t)
  BY <1>0, <1>9, <1>11, <1>12, <1>14, BalancedQuiet DEF LocalsOK
<1>. QED BY <1>9, <1>10, <1>12, <1>14, <1>15, <1>16 DEF Own

\* RemoveCheck: types, locals, and as many references as open_cnt counts.
LEMMA RemoveCheckStep ==
  ASSUME Typed, Locals, NEW t \in Threads, RemoveCheck(t)
  PROVE  Typed' /\ LocalsOK(t)' /\ Own(t) /\ Balanced(t)
<1>0. LocalsOK(t)
  BY DEF Locals
<1>9. op' \in [Threads -> Op] /\ (\A u \in Threads \ {t} : op'[u] = op[u]) /\ op'[t] = op[t]
  BY DEF RemoveCheck, Typed
<1>10. pc' \in [Threads -> PC] /\ (\A u \in Threads \ {t} : pc'[u] = pc[u]) /\ pc[t] = "check" /\ pc'[t] \in {"release", "erase"}
  BY SetPC DEF RemoveCheck, PC
<1>11. open_cnt' = open_cnt
  BY DEF RemoveCheck
<1>12. UNCHANGED <<used, entries, parent, removed, wlock, active_dir, open_files, calls, balance>>
  BY DEF RemoveCheck, diskVars
<1>13. past' \subseteq Events
  BY DEF RemoveCheck, Typed, Events
<1>14. Typed'
  BY <1>9, <1>10, <1>11, <1>12, <1>13 DEF Typed
<1>15. LocalsOK(t)'
  BY <1>0, <1>9, <1>10, <1>12, Names, IdleType, <1>13 DEF LocalsOK, Removing, Choosing, Kinds
<1>16. Balanced(t)
  BY <1>0, <1>9, <1>11, <1>12, <1>14, BalancedQuiet DEF LocalsOK
<1>. QED BY <1>9, <1>10, <1>12, <1>14, <1>15, <1>16 DEF Own

\* Add: types, locals, and as many references as open_cnt counts.
LEMMA AddStep ==
  ASSUME Typed, Locals, NEW t \in Threads, Add(t)
  PROVE  Typed' /\ LocalsOK(t)' /\ Own(t) /\ Balanced(t)
<1>0. LocalsOK(t)
  BY DEF Locals
<1>1. pc[t] = "add"
  BY DEF Add
<1>2. op[t].inode \in Sectors /\ op[t].work \in Sectors /\ op[t].name \in FileNames
  BY <1>0, <1>1, LocalTypes DEF LocalsOK
<1>. DEFINE is_dir == op[t].call = "mkdir"
            new == [name |-> op[t].name, inode_sector |-> op[t].inode, is_dir |-> is_dir]
<1>3. new \in Entry
  BY <1>2 DEF Entry
<1>4. \/ /\ entries' = [entries EXCEPT ![op[t].work] = @ \cup {new}]
         /\ parent' = [parent EXCEPT ![op[t].inode] = IF is_dir THEN op[t].work ELSE @]
         /\ used' = used
      \/ /\ used' = used \ {op[t].inode}
         /\ entries' = entries /\ parent' = parent
  BY DEF Add
<1>. HIDE DEF new
<1>8. /\ used' \subseteq Sectors /\ entries' \in [Sectors -> SUBSET Entry]
      /\ parent' \in [Sectors -> Sectors \cup {NoSector}]
  <2>1. CASE /\ entries' = [entries EXCEPT ![op[t].work] = @ \cup {new}]
             /\ parent' = [parent EXCEPT ![op[t].inode] = IF is_dir THEN op[t].work ELSE @]
             /\ used' = used
    <3>1. entries[op[t].work] \cup {new} \in SUBSET Entry
      BY <1>2, <1>3 DEF Typed
    <3>2. entries' \in [Sectors -> SUBSET Entry]
      BY <2>1, <3>1 DEF Typed
    <3>. QED BY <1>2, <2>1, <3>2 DEF Typed
  <2>2. CASE used' = used \ {op[t].inode} /\ entries' = entries /\ parent' = parent
    BY <2>2 DEF Typed
  <2>. QED BY <1>4, <2>1, <2>2
<1>9. op' \in [Threads -> Op] /\ (\A u \in Threads \ {t} : op'[u] = op[u]) /\ op'[t] = op[t]
  BY DEF Add, Typed
<1>10. pc' \in [Threads -> PC] /\ (\A u \in Threads \ {t} : pc'[u] = pc[u]) /\ pc[t] = "add" /\ pc'[t] = "leave"
  BY SetPC DEF Add, PC
<1>11. open_cnt' = open_cnt
  BY DEF Add
<1>12. UNCHANGED <<removed, wlock, active_dir, open_files, calls, past>>
  BY DEF Add
<1>13. /\ used' \subseteq Sectors /\ entries' \in [Sectors -> SUBSET Entry]
       /\ parent' \in [Sectors -> Sectors \cup {NoSector}]
  BY <1>8
<1>14. Typed'
  BY <1>9, <1>10, <1>11, <1>12, <1>13 DEF Typed
<1>15. LocalsOK(t)'
  BY <1>0, <1>9, <1>10, <1>12, Names, IdleType, <1>13 DEF LocalsOK, Removing, Choosing, Kinds
<1>16. Balanced(t)
  BY <1>0, <1>9, <1>11, <1>12, <1>14, BalancedQuiet DEF LocalsOK
<1>. QED BY <1>9, <1>10, <1>12, <1>14, <1>15, <1>16 DEF Own

\* RemoveErase: types, locals, and as many references as open_cnt counts.
LEMMA RemoveEraseStep ==
  ASSUME Typed, Locals, NEW t \in Threads, RemoveErase(t)
  PROVE  Typed' /\ LocalsOK(t)' /\ Own(t) /\ Balanced(t)
<1>0. LocalsOK(t)
  BY DEF Locals
<1>1. pc[t] = "erase"
  BY DEF RemoveErase
<1>2. op[t].next \in Sectors /\ op[t].work \in Sectors
  BY <1>0, <1>1, LocalTypes DEF LocalsOK, Removing
<1>8. removed' \subseteq Sectors /\ entries' \in [Sectors -> SUBSET Entry]
  <2>1. entries[op[t].work] \ Named(op[t].work, op[t].name) \in SUBSET Entry
    BY <1>2 DEF Typed
  <2>2. entries' = [entries EXCEPT ![op[t].work] = @ \ Named(op[t].work, op[t].name)]
    BY DEF RemoveErase
  <2>3. entries' \in [Sectors -> SUBSET Entry]
    BY <2>1, <2>2 DEF Typed
  <2>. QED BY <1>2, <2>3 DEF RemoveErase, Typed
<1>9. op' \in [Threads -> Op] /\ (\A u \in Threads \ {t} : op'[u] = op[u]) /\ op'[t] = op[t]
  BY DEF RemoveErase, Typed
<1>10. pc' \in [Threads -> PC] /\ (\A u \in Threads \ {t} : pc'[u] = pc[u]) /\ pc[t] = "erase" /\ pc'[t] = "release"
  BY SetPC DEF RemoveErase, PC
<1>11. open_cnt' = open_cnt
  BY DEF RemoveErase
<1>12. UNCHANGED <<used, parent, wlock, active_dir, open_files, calls, past>>
  BY DEF RemoveErase
<1>13. removed' \subseteq Sectors /\ entries' \in [Sectors -> SUBSET Entry]
  BY <1>8
<1>14. Typed'
  BY <1>9, <1>10, <1>11, <1>12, <1>13 DEF Typed
<1>15. LocalsOK(t)'
  BY <1>0, <1>9, <1>10, <1>12, Names, IdleType, <1>13 DEF LocalsOK, Removing, Choosing, Kinds
<1>16. Balanced(t)
  BY <1>0, <1>9, <1>11, <1>12, <1>14, BalancedQuiet DEF LocalsOK
<1>. QED BY <1>9, <1>10, <1>12, <1>14, <1>15, <1>16 DEF Own

\* Chdir: types, locals, and as many references as open_cnt counts.
LEMMA ChdirStep ==
  ASSUME Typed, Locals, NEW t \in Threads, chdir(t)
  PROVE  Typed' /\ LocalsOK(t)' /\ Own(t) /\ Balanced(t)
<1>0. LocalsOK(t)
  BY DEF Locals
<1>1. pc[t] = "walk" /\ Close(active_dir[t])
  BY DEF chdir, Arrived
<1>2. op[t].work \in Sectors
  BY <1>0, <1>1, LocalTypes DEF LocalsOK
<1>9. op' \in [Threads -> Op] /\ (\A u \in Threads \ {t} : op'[u] = op[u]) /\ op'[t] = Idle
  BY SetAll, IdleType DEF chdir
<1>10. pc' \in [Threads -> PC] /\ (\A u \in Threads \ {t} : pc'[u] = pc[u]) /\ pc'[t] = "idle"
  BY SetPC DEF chdir, PC
<1>11. /\ open_cnt' \in [Sectors -> Int]
       /\ \A s \in Sectors : open_cnt'[s] = open_cnt[s] - Once(s = active_dir[t])
       /\ removed' \subseteq removed /\ used' \subseteq used
  BY <1>1, CloseEffect
<1>12. UNCHANGED <<entries, parent, wlock, open_files, calls, balance, past>>
  BY DEF chdir, ghostVars
<1>13. /\ active_dir' \in [Threads -> Sectors \cup {NoSector}]
       /\ active_dir'[t] = op[t].work
       /\ \A u \in Threads \ {t} : active_dir'[u] = active_dir[u]
  BY <1>2 DEF chdir, Typed
<1>14. Typed'
  BY <1>9, <1>10, <1>11, <1>12, <1>13 DEF Typed
<1>15. LocalsOK(t)'
  BY <1>0, <1>9, <1>10, <1>12, Names, IdleType, <1>13, <1>1, <1>2 DEF LocalsOK, Removing, Choosing, Kinds
<1>16. Balanced(t)
  <2>1. ASSUME NEW s \in Sectors PROVE open_cnt'[s] - open_cnt[s] = Shift(t, s)
    <3>1. s # NoSector /\ open_cnt[s] \in Int
      BY Names DEF Typed
    <3>2. open_cnt'[s] = open_cnt[s] - Once(s = active_dir[t])
      BY <1>11
    <3>. QED BY <1>1, <1>2, <1>13, <1>0, <1>9, <1>12, <3>1, <3>2, IdleType DEF Once, Shift, LocalsOK, Removing, Choosing
  <2>2. open_files'[t] = open_files[t]
    BY <1>12
  <2>. QED BY <1>14, <2>1, <2>2, BalancedStep
<1>. QED BY <1>9, <1>10, <1>12, <1>13, <1>14, <1>15, <1>16 DEF Own

\* RemoveRelease: types, locals, and as many references as open_cnt counts.
LEMMA RemoveReleaseStep ==
  ASSUME Typed, Locals, NEW t \in Threads, RemoveRelease(t)
  PROVE  Typed' /\ LocalsOK(t)' /\ Own(t) /\ Balanced(t)
<1>0. LocalsOK(t)
  BY DEF Locals
<1>1. pc[t] = "release" /\ Close(op[t].next)
  BY DEF RemoveRelease
<1>2. op[t].work \in Sectors
  BY <1>0, <1>1, LocalTypes DEF LocalsOK
<1>9. op' \in [Threads -> Op] /\ (\A u \in Threads \ {t} : op'[u] = op[u]) /\ /\ op'[t].next = NoSector /\ op'[t].call = op[t].call /\ op'[t].work = op[t].work
      /\ op'[t].inode = op[t].inode
  BY SetNext DEF RemoveRelease
<1>10. pc' \in [Threads -> PC] /\ (\A u \in Threads \ {t} : pc'[u] = pc[u]) /\ pc'[t] = Returned(t)
  BY SetPC DEF RemoveRelease, PC, Returned
<1>11. /\ open_cnt' \in [Sectors -> Int]
       /\ \A s \in Sectors : open_cnt'[s] = open_cnt[s] - Once(s = op[t].next)
       /\ removed' \subseteq removed /\ used' \subseteq used
  BY <1>1, CloseEffect
<1>12. UNCHANGED <<entries, parent, active_dir, open_files, calls, balance, past>>
  BY DEF RemoveRelease, ghostVars
<1>13. wlock' \in [Sectors -> Threads \cup {NoThread}]
  BY DEF RemoveRelease, Typed
<1>14. Typed'
  BY <1>9, <1>10, <1>11, <1>12, <1>13 DEF Typed
<1>15. LocalsOK(t)'
  BY <1>0, <1>9, <1>10, <1>12, Names, IdleType, <1>13, <1>1 DEF Returned, LocalsOK, Removing, Choosing, Kinds
<1>16. Balanced(t)
  <2>1. ASSUME NEW s \in Sectors PROVE open_cnt'[s] - open_cnt[s] = Shift(t, s)
    <3>1. s # NoSector /\ open_cnt[s] \in Int
      BY Names DEF Typed
    <3>2. open_cnt'[s] = open_cnt[s] - Once(s = op[t].next)
      BY <1>11
    <3>. QED BY <1>1, <1>0, <1>9, <1>12, <3>1, <3>2, IdleType DEF Once, Shift, LocalsOK, Removing, Choosing
  <2>2. open_files'[t] = open_files[t]
    BY <1>12
  <2>. QED BY <1>14, <2>1, <2>2, BalancedStep
<1>. QED BY <1>9, <1>10, <1>12, <1>14, <1>15, <1>16 DEF Own

\* CreateInode: types, locals, and as many references as open_cnt counts.
LEMMA CreateInodeStep ==
  ASSUME Typed, Locals, NEW t \in Threads, CreateInode(t)
  PROVE  Typed' /\ LocalsOK(t)' /\ Own(t) /\ Balanced(t)
<1>0. LocalsOK(t)
  BY DEF Locals
<1>1. pc[t] = "walk" /\ op[t].call \in {"create", "mkdir"}
  BY DEF CreateInode, Arrived
<1>2. op[t].work # NoSector
  BY <1>0, <1>1 DEF LocalsOK
<1>3. \/ /\ used # Sectors
         /\ LET s == Min(Sectors \ used)
            IN /\ used' = used \cup {s}
               /\ entries' = [entries EXCEPT ![s] = {}]
               /\ parent' = [parent EXCEPT ![s] = NoSector]
               /\ op' = [op EXCEPT ![t].inode = s]
         /\ Goto(t, "add")
      \/ Goto(t, "leave") /\ UNCHANGED <<used, entries, parent, op>>
  BY DEF CreateInode, diskVars
<1>4. used # Sectors => Min(Sectors \ used) \in Sectors \ used
  BY LeastElement, Names DEF Typed
<1>. DEFINE new == Min(Sectors \ used)
<1>. HIDE DEF new
<1>5. new = Min(Sectors \ used)
  BY DEF new
<1>9. /\ op' \in [Threads -> Op] /\ pc' \in [Threads -> PC]
      /\ \A u \in Threads \ {t} : op'[u] = op[u] /\ pc'[u] = pc[u]
      /\ op'[t].call = op[t].call /\ op'[t].work = op[t].work /\ op'[t].next = op[t].next
      /\ pc'[t] = "leave" \/ (pc'[t] = "add" /\ op'[t].inode # NoSector)
      /\ used' \subseteq Sectors /\ entries' \in [Sectors -> SUBSET Entry]
      /\ parent' \in [Sectors -> Sectors \cup {NoSector}]
  <2>6. CASE /\ new \in Sectors /\ used' = used \cup {new}
             /\ entries' = [entries EXCEPT ![new] = {}]
             /\ parent' = [parent EXCEPT ![new] = NoSector]
             /\ op' = [op EXCEPT ![t].inode = new] /\ Goto(t, "add")
    <3>1. /\ op' \in [Threads -> Op] /\ \A u \in Threads \ {t} : op'[u] = op[u]
          /\ op'[t].inode = new /\ op'[t].call = op[t].call /\ op'[t].work = op[t].work
          /\ op'[t].next = op[t].next
      BY <2>6, SetInode
    <3>2. pc' \in [Threads -> PC] /\ (\A u \in Threads \ {t} : pc'[u] = pc[u]) /\ pc'[t] = "add"
      BY <2>6, SetPC DEF PC
    <3>3. /\ used' \subseteq Sectors /\ entries' \in [Sectors -> SUBSET Entry]
          /\ parent' \in [Sectors -> Sectors \cup {NoSector}]
      BY <2>6 DEF Typed
    <3>. QED BY <2>6, <3>1, <3>2, <3>3, Names
  <2>7. CASE Goto(t, "leave") /\ UNCHANGED <<used, entries, parent, op>>
    <3>1. pc' \in [Threads -> PC] /\ (\A u \in Threads \ {t} : pc'[u] = pc[u]) /\ pc'[t] = "leave"
      BY <2>7, SetPC DEF PC
    <3>. QED BY <2>7, <3>1 DEF Typed
  <2>. QED BY <1>3, <1>4, <1>5, <2>6, <2>7
<1>11. open_cnt' = open_cnt
  BY DEF CreateInode
<1>12. UNCHANGED <<removed, wlock, active_dir, open_files, calls, balance, past>>
  BY DEF CreateInode, ghostVars
<1>14. Typed'
  BY <1>9, <1>11, <1>12 DEF Typed
<1>15. LocalsOK(t)'
  BY <1>0, <1>1, <1>2, <1>9, <1>12 DEF LocalsOK, Removing, Choosing
<1>16. Balanced(t)
  BY <1>1, <1>9, <1>11, <1>12, <1>14, BalancedQuiet
<1>. QED BY <1>9, <1>12, <1>14, <1>15, <1>16 DEF Own

\* Stepped: types, locals, and as many references as open_cnt counts.
LEMMA SteppedStep ==
  ASSUME Typed, Locals, NEW t \in Threads, Stepped(t)
  PROVE  Typed' /\ LocalsOK(t)' /\ Own(t) /\ Balanced(t)
<1>1. LocalsOK(t) /\ pc[t] = "step"
  BY DEF Locals, Stepped
<1>2. UNCHANGED <<entries, parent, wlock, active_dir, open_files, calls, balance, past>>
  BY DEF Stepped, ghostVars
<1>3. op[t].next \in Sectors \cup {NoSector} /\ op[t].is_dir \in BOOLEAN
  BY LocalTypes
<1>4. CASE /\ op[t].is_dir /\ Close(op[t].work)
           /\ op' = [op EXCEPT ![t].work = op[t].next, ![t].next = NoSector]
           /\ Goto(t, "walk")
  <2>1. /\ op' \in [Threads -> Op] /\ \A u \in Threads \ {t} : op'[u] = op[u]
        /\ op'[t].work = op[t].next /\ op'[t].next = NoSector
        /\ op'[t].call = op[t].call /\ op'[t].inode = op[t].inode
    BY <1>3, <1>4, SetStep
  <2>2. pc' \in [Threads -> PC] /\ (\A u \in Threads \ {t} : pc'[u] = pc[u]) /\ pc'[t] = "walk"
    BY <1>4, SetPC DEF PC
  <2>3. /\ open_cnt' \in [Sectors -> Int] /\ removed' \subseteq removed /\ used' \subseteq used
        /\ \A s \in Sectors : open_cnt'[s] = open_cnt[s] - Once(s = op[t].work)
    BY <1>4, CloseEffect
  <2>4. Typed'
    BY <1>2, <2>1, <2>2, <2>3 DEF Typed
  <2>5. LocalsOK(t)'
    BY <1>1, <1>2, <1>4, <2>1, <2>2 DEF LocalsOK, Removing, Choosing
  <2>6. ASSUME NEW s \in Sectors PROVE open_cnt'[s] - open_cnt[s] = Shift(t, s)
    <3>1. s # NoSector /\ open_cnt[s] \in Int
      BY Names DEF Typed
    <3>2. open_cnt'[s] = open_cnt[s] - Once(s = op[t].work)
      BY <2>3
    <3>. QED BY <1>2, <2>1, <3>1, <3>2 DEF Once, Shift
  <2>7. Balanced(t)
    BY <1>2, <2>4, <2>6, BalancedStep
  <2>. QED BY <1>2, <2>1, <2>2, <2>4, <2>5, <2>7 DEF Own
<1>5. CASE /\ Closes([i \in Sectors |-> Once(i = op[t].work) + Once(i = op[t].next)])
           /\ op' = [op EXCEPT ![t] = Idle] /\ Goto(t, "idle")
  <2>. DEFINE n == [i \in Sectors |-> Once(i = op[t].work) + Once(i = op[t].next)]
  <2>1. op' \in [Threads -> Op] /\ (\A u \in Threads \ {t} : op'[u] = op[u]) /\ op'[t] = Idle
    BY <1>5, SetAll, IdleType
  <2>2. pc' \in [Threads -> PC] /\ (\A u \in Threads \ {t} : pc'[u] = pc[u]) /\ pc'[t] = "idle"
    BY <1>5, SetPC DEF PC
  <2>3. /\ n \in [Sectors -> Int]
        /\ \A s \in Sectors : n[s] = Once(s = op[t].work) + Once(s = op[t].next)
    BY DEF Once
  <2>4. Closes(n)
    BY <1>5
  <2>. HIDE DEF n
  <2>5. /\ open_cnt' \in [Sectors -> Int] /\ removed' \subseteq removed /\ used' \subseteq used
        /\ \A s \in Sectors : open_cnt'[s] = open_cnt[s] - n[s]
    BY <2>3, <2>4, ClosesEffect
  <2>6. Typed'
    BY <1>2, <2>1, <2>2, <2>5 DEF Typed
  <2>7. LocalsOK(t)'
    BY <1>1, <1>2, <2>1, <2>2, IdleType, Names DEF LocalsOK, Removing, Choosing
  <2>8. ASSUME NEW s \in Sectors PROVE open_cnt'[s] - open_cnt[s] = Shift(t, s)
    <3>1. s # NoSector /\ open_cnt[s] \in Int
      BY Names DEF Typed
    <3>2. open_cnt'[s] = open_cnt[s] - n[s] /\ n[s] = Once(s = op[t].work) + Once(s = op[t].next)
      BY <2>3, <2>5
    <3>3. op[t].call = "remove" => op[t].inode # s
      BY <1>1, <3>1 DEF LocalsOK
    <3>. QED BY <1>2, <2>1, <3>1, <3>2, <3>3, IdleType DEF Once, Shift
  <2>9. Balanced(t)
    BY <1>2, <2>6, <2>8, BalancedStep
  <2>. QED BY <1>2, <2>1, <2>2, <2>6, <2>7, <2>9 DEF Own
<1>. QED BY <1>4, <1>5 DEF Stepped

\* Walk: types, locals, and as many references as open_cnt counts.
LEMMA WalkStep ==
  ASSUME Typed, Locals, NEW t \in Threads, Walk(t)
  PROVE  Typed' /\ LocalsOK(t)' /\ Own(t) /\ Balanced(t)
<1>1. LocalsOK(t) /\ pc[t] = "walk"
  BY DEF Locals, Walk
<1>2. UNCHANGED <<used, entries, parent, removed, wlock, active_dir, open_files, calls, balance, past>>
  BY DEF Walk, ghostVars, diskVars
<1>3. /\ op[t].work \in Sectors /\ op[t].next = NoSector
      /\ op[t].path \in Seq(STRING) /\ op[t].path # << >>
  BY <1>1, LocalTypes DEF LocalsOK, Removing, Walk
<1>4. PICK p \in Seq(STRING) : p = Tail(op[t].path)
  BY <1>3, HeadTailProperties
<1>5. pc' \in [Threads -> PC] /\ (\A u \in Threads \ {t} : pc'[u] = pc[u]) /\ pc'[t] = "step"
  BY SetPC DEF PC, Walk
<1>6. ASSUME NEW next \in Sectors \cup {NoSector}, NEW is_dir \in BOOLEAN,
             op' = [op EXCEPT ![t].path = Tail(@), ![t].next = next, ![t].is_dir = is_dir],
             is_dir => next # NoSector,
             \/ next \in Sectors /\ Opens(next)
             \/ next = NoSector /\ open_cnt' = open_cnt
      PROVE  Typed' /\ LocalsOK(t)' /\ Own(t) /\ Balanced(t)
  <2>1. op' = [op EXCEPT ![t].path = p, ![t].next = next, ![t].is_dir = is_dir]
    BY <1>4, <1>6 DEF Typed, Op
  <2>2. /\ op' \in [Threads -> Op] /\ \A u \in Threads \ {t} : op'[u] = op[u]
        /\ op'[t].next = next /\ op'[t].is_dir = is_dir
        /\ op'[t].work = op[t].work /\ op'[t].call = op[t].call /\ op'[t].inode = op[t].inode
    <3>. DEFINE o == [op[t] EXCEPT !.path = p, !.next = next, !.is_dir = is_dir]
    <3>1. /\ o \in Op
          /\ o.next = next /\ o.is_dir = is_dir
          /\ o.work = op[t].work /\ o.call = op[t].call /\ o.inode = op[t].inode
      BY LocalTypes DEF Op
    <3>. HIDE DEF o
    <3>2. op' = [op EXCEPT ![t] = o]
      BY <2>1 DEF Typed, o
    <3>3. op' \in [Threads -> Op] /\ op'[t] = o /\ \A u \in Threads \ {t} : op'[u] = op[u]
      BY <3>1, <3>2, SetAll
    <3>. QED BY <3>1, <3>3
  <2>3. /\ open_cnt' \in [Sectors -> Int]
        /\ \A s \in Sectors : open_cnt'[s] = open_cnt[s] + Once(s = next)
    <3>1. CASE next \in Sectors /\ Opens(next)
      BY <3>1, OpensEffect
    <3>2. CASE next = NoSector /\ open_cnt' = open_cnt
      BY <3>2, Names DEF Once, Typed
    <3>. QED BY <1>6, <3>1, <3>2
  <2>4. Typed'
    BY <1>2, <1>5, <2>2, <2>3 DEF Typed
  <2>5. LocalsOK(t)'
    BY <1>1, <1>2, <1>5, <1>6, <2>2 DEF LocalsOK, Removing, Choosing
  <2>6. ASSUME NEW s \in Sectors PROVE open_cnt'[s] - open_cnt[s] = Shift(t, s)
    <3>1. s # NoSector /\ open_cnt[s] \in Int
      BY Names DEF Typed
    <3>2. open_cnt'[s] = open_cnt[s] + Once(s = next)
      BY <2>3
    <3>. QED BY <1>2, <1>3, <2>2, <3>1, <3>2 DEF Once, Shift
  <2>7. Balanced(t)
    BY <1>2, <2>4, <2>6, BalancedStep
  <2>. QED BY <1>2, <1>5, <2>2, <2>4, <2>5, <2>7 DEF Own
<1>. DEFINE token == Head(op[t].path)
<1>7. CASE \/ token = ".." /\ op[t].work = Root
           \/ token = ".." /\ op[t].work # Root /\ parent[op[t].work] # NoSector
           \/ token = "."
  <2>1. PICK next \in Sectors :
          /\ op' = [op EXCEPT ![t].path = Tail(@), ![t].next = next, ![t].is_dir = TRUE]
          /\ Opens(next)
    <3>1. parent[op[t].work] # NoSector => parent[op[t].work] \in Sectors
      BY <1>3 DEF Typed
    <3>. QED BY <1>3, <1>7, <3>1, Names DEF Walk
  <2>. QED BY <1>6, <2>1, Names
<1>8. CASE token \notin {".", ".."}
  <2>1. CASE \E e \in Named(op[t].work, token) :
          /\ op' = [op EXCEPT ![t].path = Tail(@), ![t].next = e.inode_sector,
                              ![t].is_dir = e.is_dir]
          /\ Opens(e.inode_sector)
    <3>1. PICK e \in Named(op[t].work, token) :
          /\ op' = [op EXCEPT ![t].path = Tail(@), ![t].next = e.inode_sector,
                              ![t].is_dir = e.is_dir]
          /\ Opens(e.inode_sector)
      BY <2>1
    <3>2. e.inode_sector \in Sectors /\ e.is_dir \in BOOLEAN
      BY <1>3, EntryTypes
    <3>. QED BY <1>6, <3>1, <3>2, Names
  <2>2. CASE /\ op' = [op EXCEPT ![t].path = Tail(@), ![t].next = NoSector, ![t].is_dir = FALSE]
             /\ UNCHANGED open_cnt
    BY <1>6, <2>2
  <2>. QED BY <1>8, <2>1, <2>2 DEF Walk
<1>. QED BY <1>7, <1>8 DEF Walk

\* RemoveLookup: types, locals, and as many references as open_cnt counts.
LEMMA RemoveLookupStep ==
  ASSUME Typed, Locals, NEW t \in Threads, RemoveLookup(t)
  PROVE  Typed' /\ LocalsOK(t)' /\ Own(t) /\ Balanced(t)
<1>1. LocalsOK(t) /\ pc[t] = "walk" /\ op[t].call = "remove"
  BY DEF Locals, RemoveLookup, Arrived
<1>2. UNCHANGED <<used, entries, parent, removed, wlock, active_dir, open_files, calls, balance, past>>
  BY DEF RemoveLookup, ghostVars, diskVars
<1>3. op[t].work \in Sectors /\ op[t].inode = NoSector /\ op[t].next = NoSector
  BY <1>1, LocalTypes DEF LocalsOK, Removing
<1>4. CASE \E e \in Named(op[t].work, op[t].name) :
             /\ Opens(e.inode_sector)
             /\ op' = [op EXCEPT ![t].inode = e.inode_sector]
             /\ Goto(t, IF ~ e.is_dir THEN "remove"
                        ELSE IF \E f \in Open(t) : f.inode = e.inode_sector
                        THEN "forget" ELSE "readdir")
  <2>1. PICK e \in Named(op[t].work, op[t].name) :
             /\ Opens(e.inode_sector)
             /\ op' = [op EXCEPT ![t].inode = e.inode_sector]
             /\ Goto(t, IF ~ e.is_dir THEN "remove"
                        ELSE IF \E f \in Open(t) : f.inode = e.inode_sector
                        THEN "forget" ELSE "readdir")
    BY <1>4
  <2>2. e.inode_sector \in Sectors
    BY <1>3, EntryTypes
  <2>3. /\ op' \in [Threads -> Op] /\ \A u \in Threads \ {t} : op'[u] = op[u]
        /\ op'[t].inode = e.inode_sector
        /\ op'[t].work = op[t].work /\ op'[t].call = op[t].call /\ op'[t].next = op[t].next
    BY <2>1, <2>2, SetInode
  <2>4. /\ pc' \in [Threads -> PC] /\ (\A u \in Threads \ {t} : pc'[u] = pc[u])
        /\ pc'[t] \in {"remove", "forget", "readdir"}
    <3>. DEFINE label == IF ~ e.is_dir THEN "remove"
                         ELSE IF \E f \in Open(t) : f.inode = e.inode_sector
                         THEN "forget" ELSE "readdir"
    <3>1. label \in {"remove", "forget", "readdir"} /\ Goto(t, label)
      BY <2>1
    <3>. HIDE DEF label
    <3>2. label \in PC
      BY <3>1 DEF PC
    <3>. QED BY <3>1, <3>2, SetPC
  <2>5. /\ open_cnt' \in [Sectors -> Int]
        /\ \A s \in Sectors : open_cnt'[s] = open_cnt[s] + Once(s = e.inode_sector)
    BY <2>1, OpensEffect
  <2>6. Typed'
    BY <1>2, <2>3, <2>4, <2>5 DEF Typed
  <2>7. LocalsOK(t)'
    BY <1>1, <1>2, <1>3, <2>2, <2>3, <2>4, Names DEF LocalsOK, Removing, Choosing
  <2>8. ASSUME NEW s \in Sectors PROVE open_cnt'[s] - open_cnt[s] = Shift(t, s)
    <3>1. s # NoSector /\ open_cnt[s] \in Int
      BY Names DEF Typed
    <3>2. open_cnt'[s] = open_cnt[s] + Once(s = e.inode_sector)
      BY <2>5
    <3>. QED BY <1>1, <1>2, <1>3, <2>3, <3>1, <3>2 DEF Once, Shift
  <2>9. Balanced(t)
    BY <1>2, <2>6, <2>8, BalancedStep
  <2>. QED BY <1>2, <2>3, <2>4, <2>6, <2>7, <2>9 DEF Own
<1>5. CASE Goto(t, "leave") /\ UNCHANGED <<open_cnt, op>>
  <2>1. pc' \in [Threads -> PC] /\ (\A u \in Threads \ {t} : pc'[u] = pc[u]) /\ pc'[t] = "leave"
    BY <1>5, SetPC DEF PC
  <2>2. Typed'
    BY <1>2, <1>5, <2>1 DEF Typed
  <2>3. LocalsOK(t)'
    BY <1>1, <1>2, <1>3, <1>5, <2>1 DEF LocalsOK, Removing, Choosing
  <2>4. Balanced(t)
    BY <1>2, <1>5, <2>2, BalancedQuiet
  <2>. QED BY <1>2, <1>5, <2>1, <2>2, <2>3, <2>4 DEF Own
<1>. QED BY <1>4, <1>5 DEF RemoveLookup

\* dir_remove: types, locals, and as many references as open_cnt counts.
LEMMA Dir_removeStep ==
  ASSUME Typed, Locals, NEW t \in Threads, dir_remove(t)
  PROVE  Typed' /\ LocalsOK(t)' /\ Own(t) /\ Balanced(t)
<1>1. LocalsOK(t) /\ pc[t] = "remove" /\ op[t].call = "remove"
  BY DEF Locals, LocalsOK, dir_remove
<1>2. UNCHANGED <<used, entries, parent, removed, active_dir, open_files, calls, balance, past>>
  BY DEF dir_remove, ghostVars, diskVars
<1>3. op[t].work \in Sectors /\ op[t].next = NoSector
  BY <1>1, LocalTypes DEF LocalsOK, Removing
<1>4. CASE \E e \in Named(op[t].work, op[t].name) :
             /\ wlock' = [wlock EXCEPT ![op[t].work] = t]
             /\ Opens(e.inode_sector)
             /\ op' = [op EXCEPT ![t].next = e.inode_sector, ![t].is_dir = e.is_dir]
             /\ Goto(t, "check")
  <2>1. PICK e \in Named(op[t].work, op[t].name) :
             /\ wlock' = [wlock EXCEPT ![op[t].work] = t]
             /\ Opens(e.inode_sector)
             /\ op' = [op EXCEPT ![t].next = e.inode_sector, ![t].is_dir = e.is_dir]
             /\ Goto(t, "check")
    BY <1>4
  <2>2. e.inode_sector \in Sectors /\ e.is_dir \in BOOLEAN
    BY <1>3, EntryTypes
  <2>3. /\ op' \in [Threads -> Op] /\ \A u \in Threads \ {t} : op'[u] = op[u]
        /\ op'[t].next = e.inode_sector
        /\ op'[t].work = op[t].work /\ op'[t].call = op[t].call /\ op'[t].inode = op[t].inode
    BY <2>1, <2>2, SetFound
  <2>4. pc' \in [Threads -> PC] /\ (\A u \in Threads \ {t} : pc'[u] = pc[u]) /\ pc'[t] = "check"
    BY <2>1, SetPC DEF PC
  <2>5. /\ open_cnt' \in [Sectors -> Int]
        /\ \A s \in Sectors : open_cnt'[s] = open_cnt[s] + Once(s = e.inode_sector)
    BY <2>1, OpensEffect
  <2>6. wlock' \in [Sectors -> Threads \cup {NoThread}] /\ wlock'[op[t].work] = t
    BY <1>3, <2>1 DEF Typed
  <2>7. Typed'
    BY <1>2, <2>3, <2>4, <2>5, <2>6 DEF Typed
  <2>8. LocalsOK(t)'
    BY <1>1, <1>2, <1>3, <2>2, <2>3, <2>4, <2>6, Names DEF LocalsOK, Removing, Choosing
  <2>9. ASSUME NEW s \in Sectors PROVE open_cnt'[s] - open_cnt[s] = Shift(t, s)
    <3>1. s # NoSector /\ open_cnt[s] \in Int
      BY Names DEF Typed
    <3>2. open_cnt'[s] = open_cnt[s] + Once(s = e.inode_sector)
      BY <2>5
    <3>. QED BY <1>2, <1>3, <2>3, <3>1, <3>2 DEF Once, Shift
  <2>10. Balanced(t)
    BY <1>2, <2>7, <2>9, BalancedStep
  <2>. QED BY <1>2, <2>3, <2>4, <2>7, <2>8, <2>10 DEF Own
<1>5. CASE Goto(t, Returned(t)) /\ UNCHANGED <<wlock, open_cnt, op>>
  <2>1. /\ pc' \in [Threads -> PC] /\ (\A u \in Threads \ {t} : pc'[u] = pc[u])
        /\ pc'[t] = Returned(t)
    BY <1>5, SetPC DEF PC, Returned
  <2>2. Typed'
    BY <1>2, <1>5, <2>1 DEF Typed
  <2>3. LocalsOK(t)'
    BY <1>1, <1>2, <1>3, <1>5, <2>1 DEF LocalsOK, Removing, Choosing, Returned
  <2>4. Balanced(t)
    BY <1>2, <1>5, <2>2, BalancedQuiet
  <2>. QED BY <1>2, <1>5, <2>1, <2>2, <2>3, <2>4 DEF Own
<1>. QED BY <1>4, <1>5 DEF dir_remove

\* A descriptor more counts what it holds.
LEMMA AddFileEffect ==
  ASSUME Typed, NEW t \in Threads, NEW f \in Descriptors, AddFile(t, f)
  PROVE  /\ open_cnt' \in [Sectors -> Int]
         /\ open_files' \in [Threads -> [Descriptors -> Nat]]
         /\ \A u \in Threads \ {t} : open_files'[u] = open_files[u]
         /\ \A s \in Sectors :
              /\ open_cnt'[s] = open_cnt[s] + Held(f) * Once(s = f.inode)
              /\ FilesAt(t, s)' = FilesAt(t, s) + Once(s = f.inode /\ ~ f.is_dir)
              /\ DirsAt(t, s)' = DirsAt(t, s) + Once(s = f.inode /\ f.is_dir)
<1>1. f.inode \in Sectors /\ f.is_dir \in BOOLEAN /\ f = [inode |-> f.inode, is_dir |-> f.is_dir]
  BY DEF Descriptors
<1>2. Held(f) \in {1, 2}
  BY DEF Held
<1>3. /\ open_cnt' = [open_cnt EXCEPT ![f.inode] = @ + Held(f)]
      /\ open_files' = [open_files EXCEPT ![t] = [open_files[t] EXCEPT ![f] = @ + 1]]
  BY DEF AddFile, Typed
<1>4. open_cnt' \in [Sectors -> Int]
  BY <1>1, <1>2, <1>3 DEF Typed
<1>. DEFINE new == [open_files[t] EXCEPT ![f] = @ + 1]
<1>5. open_files[t] \in [Descriptors -> Nat]
  BY DEF Typed
<1>6. /\ new \in [Descriptors -> Nat] /\ new[f] = open_files[t][f] + 1
      /\ \A g \in Descriptors \ {f} : new[g] = open_files[t][g]
  BY <1>5
<1>. HIDE DEF new
<1>7. open_files' = [open_files EXCEPT ![t] = new]
  BY <1>3 DEF new
<1>8. /\ open_files' \in [Threads -> [Descriptors -> Nat]] /\ open_files'[t] = new
      /\ \A u \in Threads \ {t} : open_files'[u] = open_files[u]
  BY <1>6, <1>7 DEF Typed
<1>9. ASSUME NEW s \in Sectors
      PROVE  /\ open_cnt'[s] = open_cnt[s] + Held(f) * Once(s = f.inode)
             /\ FilesAt(t, s)' = FilesAt(t, s) + Once(s = f.inode /\ ~ f.is_dir)
             /\ DirsAt(t, s)' = DirsAt(t, s) + Once(s = f.inode /\ f.is_dir)
  <2>1. open_cnt'[s] = open_cnt[s] + Held(f) * Once(s = f.inode)
    <3>1. CASE s = f.inode
      BY <1>1, <1>2, <1>3, <3>1 DEF Typed, Once
    <3>2. CASE s # f.inode
      BY <1>1, <1>2, <1>3, <3>2 DEF Typed, Once
    <3>. QED BY <3>1, <3>2
  <2>2. FilesAt(t, s)' = FilesAt(t, s) + Once(s = f.inode /\ ~ f.is_dir)
    <3>. DEFINE g == [inode |-> s, is_dir |-> FALSE]
    <3>1. g \in Descriptors /\ (g = f <=> s = f.inode /\ ~ f.is_dir)
      BY <1>1 DEF Descriptors
    <3>2. FilesAt(t, s)' = new[g] /\ FilesAt(t, s) = open_files[t][g]
      BY <1>8 DEF FilesAt
    <3>3. open_files[t][g] \in Nat
      BY <1>5, <3>1
    <3>. HIDE DEF g
    <3>. QED BY <1>6, <3>1, <3>2, <3>3 DEF Once
  <2>3. DirsAt(t, s)' = DirsAt(t, s) + Once(s = f.inode /\ f.is_dir)
    <3>. DEFINE g == [inode |-> s, is_dir |-> TRUE]
    <3>1. g \in Descriptors /\ (g = f <=> s = f.inode /\ f.is_dir)
      BY <1>1 DEF Descriptors
    <3>2. DirsAt(t, s)' = new[g] /\ DirsAt(t, s) = open_files[t][g]
      BY <1>8 DEF DirsAt
    <3>3. open_files[t][g] \in Nat
      BY <1>5, <3>1
    <3>. HIDE DEF g
    <3>. QED BY <1>6, <3>1, <3>2, <3>3 DEF Once
  <2>. QED BY <2>1, <2>2, <2>3
<1>. QED BY <1>4, <1>8, <1>9

\* ... and its references are the ones it counts.
LEMMA AddFileBalanced ==
  ASSUME Typed, Typed', NEW t \in Threads, NEW f \in Descriptors, AddFile(t, f),
         op'[t] = op[t], active_dir'[t] = active_dir[t]
  PROVE  Balanced(t)
<1>. SUFFICES ASSUME NEW s \in Sectors
              PROVE  open_cnt'[s] - Refs(t, s)' = open_cnt[s] - Refs(t, s)
  BY DEF Balanced
<1>1. /\ open_cnt'[s] = open_cnt[s] + Held(f) * Once(s = f.inode)
      /\ FilesAt(t, s)' = FilesAt(t, s) + Once(s = f.inode /\ ~ f.is_dir)
      /\ DirsAt(t, s)' = DirsAt(t, s) + Once(s = f.inode /\ f.is_dir)
  BY AddFileEffect
<1>2. FilesAt(t, s) \in Nat /\ DirsAt(t, s) \in Nat
  BY RefsParts
<1>3. open_cnt[s] \in Int
  BY DEF Typed
<1>4. f.is_dir \in BOOLEAN
  BY DEF Descriptors
<1>. QED BY <1>1, <1>2, <1>3, <1>4 DEF Refs, Once, Held

\* filesys_open: types, locals, and as many references as open_cnt counts.
LEMMA Filesys_openStep ==
  ASSUME Typed, Locals, NEW t \in Threads, filesys_open(t)
  PROVE  Typed' /\ LocalsOK(t)' /\ Own(t) /\ Balanced(t)
<1>1. LocalsOK(t) /\ pc[t] = "walk" /\ op[t].call = "open"
  BY DEF Locals, filesys_open, Arrived
<1>2. UNCHANGED <<used, entries, parent, removed, wlock, op, active_dir, calls, balance, past>>
  BY DEF filesys_open, ghostVars, diskVars
<1>3. op[t].work \in Sectors
  BY <1>1, LocalTypes DEF LocalsOK
<1>4. pc' \in [Threads -> PC] /\ (\A u \in Threads \ {t} : pc'[u] = pc[u]) /\ pc'[t] = "leave"
  BY SetPC DEF PC, filesys_open
<1>5. LocalsOK(t)'
  BY <1>1, <1>2, <1>3, <1>4, Names DEF LocalsOK, Removing, Choosing
<1>6. ASSUME NEW f \in Descriptors, AddFile(t, f)
      PROVE  Typed' /\ Own(t) /\ Balanced(t)
  <2>1. Typed'
    BY <1>2, <1>4, <1>6, AddFileEffect DEF Typed
  <2>2. Balanced(t)
    BY <1>2, <1>6, <2>1, AddFileBalanced
  <2>3. Own(t)
    BY <1>2, <1>4, <1>6, AddFileEffect DEF Own
  <2>. QED BY <2>1, <2>2, <2>3
<1>7. CASE UNCHANGED <<open_cnt, open_files>>
  <2>1. Typed'
    BY <1>2, <1>4, <1>7 DEF Typed
  <2>2. Balanced(t)
    BY <1>2, <1>7, <2>1, BalancedQuiet
  <2>. QED BY <1>2, <1>4, <1>5, <1>7, <2>1, <2>2 DEF Own
<1>. DEFINE Found == {[inode |-> e.inode_sector, is_dir |-> e.is_dir] :
                        e \in Named(op[t].work, op[t].name)}
                     \cup {[inode |-> op[t].work, is_dir |-> TRUE] :
                             n \in {op[t].name} \cap {"", "."}}
<1>8. ASSUME NEW f \in Found PROVE f \in Descriptors
  <2>1. CASE f \in {[inode |-> e.inode_sector, is_dir |-> e.is_dir] :
                      e \in Named(op[t].work, op[t].name)}
    <3>1. PICK e \in Named(op[t].work, op[t].name) :
            f = [inode |-> e.inode_sector, is_dir |-> e.is_dir]
      BY <2>1
    <3>2. e.inode_sector \in Sectors /\ e.is_dir \in BOOLEAN
      BY <1>3, EntryTypes
    <3>. QED BY <3>1, <3>2 DEF Descriptors
  <2>2. CASE f = [inode |-> op[t].work, is_dir |-> TRUE]
    BY <1>3, <2>2 DEF Descriptors
  <2>. QED BY <2>1, <2>2
<1>9. \/ \E f \in Found : AddFile(t, f)
      \/ UNCHANGED <<open_cnt, open_files>>
  BY DEF filesys_open
<1>. HIDE DEF Found
<1>. QED BY <1>5, <1>6, <1>7, <1>8, <1>9

\* file_reopen_sys: types, locals, and as many references as open_cnt counts.
LEMMA File_reopen_sysStep ==
  ASSUME Typed, Locals, NEW t \in Threads, file_reopen_sys(t)
  PROVE  Typed' /\ LocalsOK(t)' /\ Own(t) /\ Balanced(t)
<1>1. LocalsOK(t) /\ pc[t] = "idle" /\ calls' \in 0 .. MaxCalls
  BY DirectoryAssumption DEF Locals, file_reopen_sys, Typed
<1>2. UNCHANGED <<used, entries, parent, removed, wlock, pc, op, active_dir, balance, past>>
  BY DEF file_reopen_sys, diskVars
<1>3. PICK f \in Descriptors : AddFile(t, f)
  BY DEF file_reopen_sys, Open
<1>4. Typed'
  BY <1>1, <1>2, <1>3, AddFileEffect DEF Typed
<1>5. Balanced(t)
  BY <1>2, <1>3, <1>4, AddFileBalanced
<1>6. LocalsOK(t)'
  BY <1>1, <1>2 DEF LocalsOK
<1>. QED BY <1>2, <1>3, <1>4, <1>5, <1>6, AddFileEffect DEF Own

\* close_sys: types, locals, and as many references as open_cnt counts.
LEMMA Close_sysStep ==
  ASSUME Typed, Locals, NEW t \in Threads, close_sys(t)
  PROVE  Typed' /\ LocalsOK(t)' /\ Own(t) /\ Balanced(t)
<1>1. LocalsOK(t) /\ pc[t] = "idle"
  BY DEF Locals, close_sys
<1>2. UNCHANGED <<entries, parent, wlock, pc, op, active_dir, calls, balance, past>>
  BY DEF close_sys, ghostVars
<1>3. PICK f \in Descriptors :
        /\ open_files[t][f] > 0
        /\ Closes([i \in Sectors |-> Held(f) * Once(i = f.inode)])
        /\ open_files' = [open_files EXCEPT ![t][f] = @ - 1]
  BY DEF close_sys, Open
<1>4. f.inode \in Sectors /\ f.is_dir \in BOOLEAN /\ f = [inode |-> f.inode, is_dir |-> f.is_dir]
  BY DEF Descriptors
<1>. DEFINE n == [i \in Sectors |-> Held(f) * Once(i = f.inode)]
<1>5. n \in [Sectors -> Int] /\ \A s \in Sectors : n[s] = Held(f) * Once(s = f.inode)
  BY DEF Held, Once
<1>. HIDE DEF n
<1>6. Closes(n)
  BY <1>3 DEF n
<1>7. /\ open_cnt' \in [Sectors -> Int] /\ removed' \subseteq removed /\ used' \subseteq used
      /\ \A s \in Sectors : open_cnt'[s] = open_cnt[s] - n[s]
  BY <1>5, <1>6, ClosesEffect
<1>. DEFINE new == [open_files[t] EXCEPT ![f] = @ - 1]
<1>8. open_files[t] \in [Descriptors -> Nat]
  BY DEF Typed
<1>9. /\ new \in [Descriptors -> Nat] /\ new[f] = open_files[t][f] - 1
      /\ \A g \in Descriptors \ {f} : new[g] = open_files[t][g]
  BY <1>3, <1>8
<1>. HIDE DEF new
<1>10. open_files' = [open_files EXCEPT ![t] = new]
  BY <1>3 DEF new, Typed
<1>11. /\ open_files' \in [Threads -> [Descriptors -> Nat]] /\ open_files'[t] = new
       /\ \A u \in Threads \ {t} : open_files'[u] = open_files[u]
  BY <1>9, <1>10 DEF Typed
<1>12. Typed'
  BY <1>2, <1>7, <1>11 DEF Typed
<1>13. LocalsOK(t)'
  BY <1>1, <1>2 DEF LocalsOK
<1>14. ASSUME NEW s \in Sectors
       PROVE  open_cnt'[s] - Refs(t, s)' = open_cnt[s] - Refs(t, s)
  <2>1. FilesAt(t, s)' = FilesAt(t, s) - Once(s = f.inode /\ ~ f.is_dir)
    <3>. DEFINE g == [inode |-> s, is_dir |-> FALSE]
    <3>1. g \in Descriptors /\ (g = f <=> s = f.inode /\ ~ f.is_dir)
      BY <1>4 DEF Descriptors
    <3>2. FilesAt(t, s)' = new[g] /\ FilesAt(t, s) = open_files[t][g]
      BY <1>11 DEF FilesAt
    <3>3. open_files[t][g] \in Nat
      BY <1>8, <3>1
    <3>. HIDE DEF g
    <3>. QED BY <1>9, <3>1, <3>2, <3>3 DEF Once
  <2>2. DirsAt(t, s)' = DirsAt(t, s) - Once(s = f.inode /\ f.is_dir)
    <3>. DEFINE g == [inode |-> s, is_dir |-> TRUE]
    <3>1. g \in Descriptors /\ (g = f <=> s = f.inode /\ f.is_dir)
      BY <1>4 DEF Descriptors
    <3>2. DirsAt(t, s)' = new[g] /\ DirsAt(t, s) = open_files[t][g]
      BY <1>11 DEF DirsAt
    <3>3. open_files[t][g] \in Nat
      BY <1>8, <3>1
    <3>. HIDE DEF g
    <3>. QED BY <1>9, <3>1, <3>2, <3>3 DEF Once
  <2>3. open_cnt'[s] = open_cnt[s] - n[s] /\ n[s] = Held(f) * Once(s = f.inode)
    BY <1>5, <1>7
  <2>4. FilesAt(t, s) \in Nat /\ DirsAt(t, s) \in Nat /\ open_cnt[s] \in Int
    BY RefsParts DEF Typed
  <2>. QED BY <1>2, <1>4, <2>1, <2>2, <2>3, <2>4 DEF Refs, Once, Held
<1>. QED BY <1>2, <1>11, <1>12, <1>13, <1>14 DEF Own, Balanced

\* The end of a process closes what it refers to, and the directories it has
\* open once instead of twice.
LEMMA Thread_exitStep ==
  ASSUME Typed, Locals, NEW t \in Threads, thread_exit(t)
  PROVE  /\ Typed' /\ LocalsOK(t)' /\ Own(t)
         /\ \A s \in Sectors :
              /\ Refs(t, s)' = 0
              /\ open_cnt'[s] = open_cnt[s] - Refs(t, s) + DirsAt(t, s)
              /\ "leaked" \notin past' => DirsAt(t, s) = 0
<1>1. LocalsOK(t) /\ pc[t] = "idle" /\ op[t] = Idle
  BY DEF Locals, LocalsOK, thread_exit
<1>2. UNCHANGED <<entries, parent, wlock, op, calls, balance>>
  BY DEF thread_exit
<1>. DEFINE n == [s \in Sectors |-> FilesAt(t, s) + DirsAt(t, s) + Once(s = active_dir[t])]
<1>3. /\ n \in [Sectors -> Int]
      /\ \A s \in Sectors : n[s] = FilesAt(t, s) + DirsAt(t, s) + Once(s = active_dir[t])
  BY RefsParts DEF Once
<1>. HIDE DEF n
<1>4. Closes(n)
  BY DEF thread_exit, n
<1>5. /\ open_cnt' \in [Sectors -> Int] /\ removed' \subseteq removed /\ used' \subseteq used
      /\ \A s \in Sectors : open_cnt'[s] = open_cnt[s] - n[s]
  BY <1>3, <1>4, ClosesEffect
<1>6. /\ pc' \in [Threads -> PC] /\ (\A u \in Threads \ {t} : pc'[u] = pc[u])
      /\ pc'[t] = "exited"
  BY SetPC DEF thread_exit, PC
<1>. DEFINE none == [f \in Descriptors |-> 0]
<1>7. none \in [Descriptors -> Nat] /\ \A f \in Descriptors : none[f] = 0
  OBVIOUS
<1>. HIDE DEF none
<1>8. open_files' = [open_files EXCEPT ![t] = none]
  BY DEF thread_exit, none
<1>9. /\ open_files' \in [Threads -> [Descriptors -> Nat]] /\ open_files'[t] = none
      /\ \A u \in Threads \ {t} : open_files'[u] = open_files[u]
  BY <1>7, <1>8 DEF Typed
<1>10. /\ active_dir' \in [Threads -> Sectors \cup {NoSector}] /\ active_dir'[t] = NoSector
       /\ \A u \in Threads \ {t} : active_dir'[u] = active_dir[u]
  BY DEF thread_exit, Typed
<1>11. past' \subseteq Events /\ past \subseteq past'
  BY DEF thread_exit, Typed, Events
<1>12. Typed'
  BY <1>2, <1>5, <1>6, <1>9, <1>10, <1>11 DEF Typed
<1>13. LocalsOK(t)'
  BY <1>1, <1>2, <1>6, <1>10, IdleType DEF LocalsOK, Removing, Choosing
<1>14. ASSUME NEW s \in Sectors
       PROVE  /\ Refs(t, s)' = 0
              /\ open_cnt'[s] = open_cnt[s] - Refs(t, s) + DirsAt(t, s)
              /\ "leaked" \notin past' => DirsAt(t, s) = 0
  <2>1. s # NoSector /\ open_cnt[s] \in Int
    BY Names DEF Typed
  <2>2. FilesAt(t, s)' = 0 /\ DirsAt(t, s)' = 0
    BY <1>7, <1>9 DEF FilesAt, DirsAt, Descriptors
  <2>3. Refs(t, s)' = 0
    BY <1>1, <1>2, <1>10, <2>1, <2>2, IdleType DEF Refs, Once
  <2>4. FilesAt(t, s) \in Nat /\ DirsAt(t, s) \in Nat
    BY RefsParts
  <2>5. open_cnt'[s] = open_cnt[s] - Refs(t, s) + DirsAt(t, s)
    <3>1. open_cnt'[s] = open_cnt[s] - (FilesAt(t, s) + DirsAt(t, s) + Once(s = active_dir[t]))
      BY <1>3, <1>5
    <3>. QED BY <1>1, <2>1, <2>4, <3>1, IdleType DEF Refs, Once
  <2>6. ASSUME "leaked" \notin past' PROVE DirsAt(t, s) = 0
    <3>. DEFINE g == [inode |-> s, is_dir |-> TRUE]
    <3>1. g \in Descriptors /\ g.is_dir = TRUE
      BY DEF Descriptors
    <3>2. ~ \E f \in Open(t) : f.is_dir
      BY <2>6 DEF thread_exit
    <3>3. ~ (open_files[t][g] > 0)
      BY <3>1, <3>2 DEF Open
    <3>. QED BY <2>4, <3>3 DEF DirsAt
  <2>. QED BY <2>3, <2>5, <2>6
<1>. QED BY <1>2, <1>6, <1>9, <1>10, <1>12, <1>13, <1>14 DEF Own


-----------------------------------------------------------------------------
\* Counting.

\* What thread t does next.
Acts(t) == Begin(t) \/ close_sys(t) \/ file_reopen_sys(t) \/ thread_exit(t) \/ Step(t)

\* A lock that another thread holds is left alone.
LEMMA LocksKept ==
  ASSUME Typed, Locals, NEW t \in Threads, Acts(t),
         NEW d \in Sectors, wlock[d] # NoThread, wlock[d] # t
  PROVE  wlock'[d] = wlock[d]
<1>1. CASE dir_remove(t)
  <2>1. \/ wlock' = wlock
        \/ wlock[op[t].work] = NoThread /\ wlock' = [wlock EXCEPT ![op[t].work] = t]
    BY <1>1 DEF dir_remove
  <2>. QED BY <2>1 DEF Typed
<1>2. CASE RemoveRelease(t)
  <2>1. pc[t] = "release" /\ wlock' = [wlock EXCEPT ![op[t].work] = NoThread]
    BY <1>2 DEF RemoveRelease
  <2>2. wlock[op[t].work] = t
    BY <2>1 DEF Locals, LocalsOK, Removing
  <2>. QED BY <2>1, <2>2 DEF Typed
<1>3. CASE UNCHANGED wlock
  BY <1>3
<1>4. dir_remove(t) \/ RemoveRelease(t) \/ UNCHANGED wlock
  <2>1. CASE Begin(t) \/ close_sys(t) \/ file_reopen_sys(t) \/ thread_exit(t)
    BY <2>1 DEF Begin, close_sys, file_reopen_sys, thread_exit
  <2>2. CASE Walk(t) \/ Stepped(t) \/ Leave(t) \/ CreateInode(t) \/ Add(t)
    BY <2>2 DEF Walk, Stepped, Leave, CreateInode, Add
  <2>3. CASE filesys_open(t) \/ chdir(t) \/ RemoveLookup(t) \/ Readdir(t)
    BY <2>3 DEF filesys_open, chdir, RemoveLookup, Readdir
  <2>4. CASE CloseDir(t) \/ Forget(t) \/ RemoveCheck(t) \/ RemoveErase(t)
    BY <2>4 DEF CloseDir, Forget, RemoveCheck, RemoveErase
  <2>. QED BY <2>1, <2>2, <2>3, <2>4 DEF Acts, Step
<1>. QED BY <1>1, <1>2, <1>3, <1>4

\* Once a process has left a directory open, this is remembered.
LEMMA PastGrows ==
  ASSUME NEW t \in Threads, Acts(t)
  PROVE  past \subseteq past'
<1>1. CASE Begin(t) \/ close_sys(t) \/ file_reopen_sys(t)
  BY <1>1 DEF Begin, close_sys, file_reopen_sys, ghostVars
<1>2. CASE thread_exit(t)
  BY <1>2 DEF thread_exit
<1>3. CASE RemoveCheck(t)
  BY <1>3 DEF RemoveCheck
<1>4. CASE Walk(t) \/ Stepped(t) \/ Leave(t) \/ CreateInode(t) \/ Add(t)
  BY <1>4 DEF Walk, Stepped, Leave, CreateInode, Add, ghostVars
<1>5. CASE filesys_open(t) \/ chdir(t) \/ RemoveLookup(t) \/ Readdir(t)
  BY <1>5 DEF filesys_open, chdir, RemoveLookup, Readdir, ghostVars
<1>6. CASE CloseDir(t) \/ Forget(t) \/ dir_remove(t) \/ RemoveErase(t) \/ RemoveRelease(t)
  BY <1>6 DEF CloseDir, Forget, dir_remove, RemoveErase, RemoveRelease, ghostVars
<1>. QED BY <1>1, <1>2, <1>3, <1>4, <1>5, <1>6 DEF Acts, Step

\* The effect of any step: what it opens and closes is what its references gain
\* and lose, except that the end of a process may leave a directory open.
LEMMA AnyStep ==
  ASSUME Typed, Locals, NEW t \in Threads, Acts(t)
  PROVE  /\ Typed' /\ Locals' /\ Own(t)
         /\ \A s \in Sectors :
              /\ open_cnt'[s] - Refs(t, s)' >= open_cnt[s] - Refs(t, s)
              /\ "leaked" \notin past' =>
                   open_cnt'[s] - Refs(t, s)' = open_cnt[s] - Refs(t, s)
<1>. DEFINE Counts ==
       \A s \in Sectors :
         /\ open_cnt'[s] - Refs(t, s)' >= open_cnt[s] - Refs(t, s)
         /\ "leaked" \notin past' =>
              open_cnt'[s] - Refs(t, s)' = open_cnt[s] - Refs(t, s)
<1>1. ASSUME thread_exit(t) PROVE Typed' /\ LocalsOK(t)' /\ Own(t) /\ Counts
  <2>1. /\ Typed' /\ LocalsOK(t)' /\ Own(t)
        /\ \A s \in Sectors :
              /\ Refs(t, s)' = 0
              /\ open_cnt'[s] = open_cnt[s] - Refs(t, s) + DirsAt(t, s)
              /\ "leaked" \notin past' => DirsAt(t, s) = 0
    BY <1>1, Thread_exitStep
  <2>2. ASSUME NEW s \in Sectors
        PROVE  /\ open_cnt'[s] - Refs(t, s)' >= open_cnt[s] - Refs(t, s)
               /\ "leaked" \notin past' =>
                    open_cnt'[s] - Refs(t, s)' = open_cnt[s] - Refs(t, s)
    <3>1. open_cnt[s] \in Int /\ Refs(t, s) \in Nat /\ DirsAt(t, s) \in Nat
      BY RefsParts DEF Typed
    <3>2. /\ Refs(t, s)' = 0
          /\ open_cnt'[s] = open_cnt[s] - Refs(t, s) + DirsAt(t, s)
          /\ "leaked" \notin past' => DirsAt(t, s) = 0
      BY <2>1
    <3>. QED BY <3>1, <3>2
  <2>. QED BY <2>1, <2>2
<1>2. ASSUME ~ thread_exit(t) PROVE Typed' /\ LocalsOK(t)' /\ Own(t) /\ Counts
  <2>1. Typed' /\ LocalsOK(t)' /\ Own(t) /\ Balanced(t)
    <3>1. CASE Begin(t) \/ close_sys(t) \/ file_reopen_sys(t)
      BY <3>1, BeginStep, Close_sysStep, File_reopen_sysStep
    <3>2. CASE Walk(t) \/ Stepped(t) \/ Leave(t) \/ CreateInode(t) \/ Add(t)
      BY <3>2, WalkStep, SteppedStep, LeaveStep, CreateInodeStep, AddStep
    <3>3. CASE filesys_open(t) \/ chdir(t) \/ RemoveLookup(t) \/ Readdir(t)
      BY <3>3, Filesys_openStep, ChdirStep, RemoveLookupStep, ReaddirStep
    <3>4. CASE CloseDir(t) \/ Forget(t) \/ dir_remove(t)
      BY <3>4, CloseDirStep, ForgetStep, Dir_removeStep
    <3>5. CASE RemoveCheck(t) \/ RemoveErase(t) \/ RemoveRelease(t)
      BY <3>5, RemoveCheckStep, RemoveEraseStep, RemoveReleaseStep
    <3>. QED BY <1>2, <3>1, <3>2, <3>3, <3>4, <3>5 DEF Acts, Step
  <2>2. ASSUME NEW s \in Sectors
        PROVE  /\ open_cnt'[s] - Refs(t, s)' >= open_cnt[s] - Refs(t, s)
               /\ "leaked" \notin past' =>
                    open_cnt'[s] - Refs(t, s)' = open_cnt[s] - Refs(t, s)
    <3>1. open_cnt[s] \in Int /\ Refs(t, s) \in Nat
      BY RefsParts DEF Typed
    <3>2. open_cnt'[s] - Refs(t, s)' = open_cnt[s] - Refs(t, s)
      BY <2>1 DEF Balanced
    <3>. QED BY <3>1, <3>2
  <2>. QED BY <2>1, <2>2
<1>3. Typed' /\ LocalsOK(t)' /\ Own(t) /\ Counts
  BY <1>1, <1>2
<1>4. ASSUME NEW u \in Threads \ {t} PROVE LocalsOK(u)'
  <2>1. op'[u] = op[u] /\ pc'[u] = pc[u] /\ active_dir'[u] = active_dir[u] /\ LocalsOK(u)
    BY <1>3 DEF Own, Locals
  <2>2. pc[u] \in Removing => wlock'[op[u].work] = wlock[op[u].work]
    <3>1. ASSUME pc[u] \in Removing
          PROVE  op[u].work \in Sectors /\ wlock[op[u].work] = u
      BY <2>1, <3>1, LocalTypes DEF LocalsOK, Removing
    <3>. QED BY <3>1, LocksKept, Names
  <2>. QED BY <2>1, <2>2, OtherLocals
<1>. QED BY <1>3, <1>4 DEF Locals

\* The number of references to a sector.
LEMMA ReferencesSum ==
  ASSUME Typed, NEW s \in Sectors
  PROVE  /\ [t \in Threads |-> Refs(t, s)] \in [Threads -> Nat]
         /\ References(s) = Copies([t \in Threads |-> Refs(t, s)])
         /\ Cardinality(References(s)) \in Nat
<1>1. [t \in Threads |-> Refs(t, s)] \in [Threads -> Nat]
  BY RefsParts
<1>2. References(s) = Copies([t \in Threads |-> Refs(t, s)])
  BY DEF References, Copies
<1>. QED BY <1>1, <1>2, CopiesFinite

\* The number of references to a sector after a step of t.
LEMMA ReferencesChange ==
  ASSUME Typed, Typed', NEW t \in Threads, Own(t), NEW s \in Sectors
  PROVE  Cardinality(References(s)') - Refs(t, s)' = Cardinality(References(s)) - Refs(t, s)
<1>. DEFINE r == [u \in Threads |-> Refs(u, s)]
            q == [u \in Threads |-> Refs(u, s)']
<1>1. /\ r \in [Threads -> Nat] /\ References(s) = Copies(r)
      /\ \A u \in Threads : r[u] = Refs(u, s)
  BY ReferencesSum
<1>2. /\ q \in [Threads -> Nat] /\ References(s)' = Copies(q)
      /\ \A u \in Threads : q[u] = Refs(u, s)'
  <2>1. ASSUME NEW u \in Threads PROVE Refs(u, s)' \in Nat
    <3>1. FilesAt(u, s)' \in Nat /\ DirsAt(u, s)' \in Nat
      BY DEF Typed, FilesAt, DirsAt, Descriptors
    <3>. QED BY <3>1 DEF Refs, Once
  <2>. QED BY <2>1 DEF References, Copies
<1>3. \A u \in Threads \ {t} : q[u] = r[u]
  <2>1. ASSUME NEW u \in Threads \ {t} PROVE Refs(u, s)' = Refs(u, s)
    BY DEF Own, Refs, FilesAt, DirsAt
  <2>. QED BY <2>1
<1>. HIDE DEF r, q
<1>4. Cardinality(Copies(q)) - q[t] = Cardinality(Copies(r)) - r[t]
  BY <1>1, <1>2, <1>3, CopiesChange
<1>. QED BY <1>1, <1>2, <1>4

\* The counts stay right.
LEMMA CountsStay ==
  ASSUME Typed, Locals, ReferencesCounted, NEW t \in Threads, Acts(t)
  PROVE  /\ Typed' /\ Locals' /\ ReferencesCounted'
         /\ \A s \in Sectors : open_cnt'[s] >= 0
<1>1. /\ Typed' /\ Locals' /\ Own(t)
      /\ \A s \in Sectors :
              /\ open_cnt'[s] - Refs(t, s)' >= open_cnt[s] - Refs(t, s)
              /\ "leaked" \notin past' =>
                   open_cnt'[s] - Refs(t, s)' = open_cnt[s] - Refs(t, s)
  BY AnyStep
<1>2. ASSUME NEW s \in Sectors
      PROVE  /\ open_cnt'[s] >= Cardinality(References(s)')
             /\ "leaked" \notin past' => open_cnt'[s] = Cardinality(References(s)')
             /\ open_cnt'[s] >= 0
  <2>1. Cardinality(References(s)') - Refs(t, s)' = Cardinality(References(s)) - Refs(t, s)
    BY <1>1, ReferencesChange
  <2>2. /\ open_cnt[s] >= Cardinality(References(s))
        /\ "leaked" \notin past' => open_cnt[s] = Cardinality(References(s))
    BY PastGrows DEF ReferencesCounted
  <2>3. /\ open_cnt'[s] - Refs(t, s)' >= open_cnt[s] - Refs(t, s)
        /\ "leaked" \notin past' =>
             open_cnt'[s] - Refs(t, s)' = open_cnt[s] - Refs(t, s)
    BY <1>1
  <2>4. open_cnt[s] \in Int /\ Cardinality(References(s)) \in Int /\ Refs(t, s) \in Int
    <3>1. open_cnt[s] \in Int
      BY DEF Typed
    <3>2. Cardinality(References(s)) \in Nat /\ Refs(t, s) \in Nat
      BY ReferencesSum, RefsParts
    <3>. QED BY <3>1, <3>2
  <2>5. open_cnt'[s] \in Int /\ Refs(t, s)' \in Int /\ Cardinality(References(s)') \in Nat
    <3>0. Typed'
      BY <1>1
    <3>1. ASSUME NEW u \in Threads PROVE Refs(u, s)' \in Nat
      <4>1. FilesAt(u, s)' \in Nat /\ DirsAt(u, s)' \in Nat
        BY <3>0 DEF Typed, FilesAt, DirsAt, Descriptors
      <4>. QED BY <4>1 DEF Refs, Once
    <3>2. Refs(t, s)' \in Nat
      BY <3>1
    <3>3. open_cnt'[s] \in Int
      BY <3>0 DEF Typed
    <3>. DEFINE q == [u \in Threads |-> Refs(u, s)']
    <3>4. q \in [Threads -> Nat]
      BY <3>1
    <3>5. References(s)' = Copies(q)
      BY DEF References, Copies
    <3>. HIDE DEF q
    <3>6. Cardinality(References(s)') \in Nat
      BY <3>4, <3>5, CopiesFinite
    <3>. QED BY <3>2, <3>3, <3>6
  <2>. HIDE DEF References, Refs
  <2>. QED BY ONLY <2>1, <2>2, <2>3, <2>4, <2>5
<1>. QED BY <1>1, <1>2 DEF ReferencesCounted

\* The type invariant holds of counts that are right.
LEMMA CountedTypes ==
  ASSUME Typed, ReferencesCounted
  PROVE  TypeOK
<1>1. ASSUME NEW s \in Sectors PROVE open_cnt[s] \in Nat
  <2>1. open_cnt[s] \in Int /\ Cardinality(References(s)) \in Nat
    BY ReferencesSum DEF Typed
  <2>2. open_cnt[s] >= Cardinality(References(s))
    BY DEF ReferencesCounted
  <2>. QED BY <2>1, <2>2
<1>. QED BY <1>1 DEF Typed, TypeOK

-----------------------------------------------------------------------------
\* What the steps do to the directories and to the free map.

\* A step that neither names nor unnames an inode, nor begins or ends to do so.
\* It may close removed inodes for the last time.
Plain(t) ==
  /\ entries' = entries /\ parent' = parent /\ balance' = balance
  /\ pc[t] \notin {"add", "check", "erase"} /\ pc'[t] \notin {"add", "check", "erase"}
  /\ removed' \subseteq removed /\ used' \subseteq used
  /\ \A s \in used : s \notin used' => s \in removed \ removed' /\ open_cnt'[s] = 0
  /\ \A s \in removed : s \notin removed' => s \notin used'
  /\ \A s \in removed' : open_cnt'[s] = 0 => open_cnt'[s] >= open_cnt[s]

Created(t) == CreateInode(t) /\ pc'[t] = "add"
Chosen(t) == dir_remove(t) /\ pc'[t] = "check"

\* A step that closes.
LEMMA PlainClose ==
  ASSUME Typed, removed \subseteq used, NEW t \in Threads, NEW n \in [Sectors -> Int], Closes(n),
         entries' = entries, parent' = parent, balance' = balance,
         pc[t] \notin {"add", "check", "erase"}, pc'[t] \notin {"add", "check", "erase"}
  PROVE  Plain(t)
<1>1. /\ removed' \subseteq removed /\ used' \subseteq used
      /\ \A s \in used : s \notin used' <=> s \in removed /\ open_cnt'[s] = 0
      /\ \A s \in removed : s \notin removed' <=> open_cnt'[s] = 0
  BY ClosesEffect
<1>. QED BY <1>1 DEF Plain

\* A step that closes one inode is plain.
LEMMA PlainOneClose ==
  ASSUME Typed, removed \subseteq used, NEW t \in Threads, NEW c, Close(c),
         entries' = entries, parent' = parent, balance' = balance,
         pc[t] \notin {"add", "check", "erase"}, pc'[t] \notin {"add", "check", "erase"}
  PROVE  Plain(t)
<1>1. /\ removed' \subseteq removed /\ used' \subseteq used
      /\ \A s \in used : s \notin used' <=> s \in removed /\ open_cnt'[s] = 0
      /\ \A s \in removed : s \notin removed' <=> open_cnt'[s] = 0
  BY CloseEffect
<1>. QED BY <1>1 DEF Plain

\* A step that only opens.
LEMMA PlainOpen ==
  ASSUME Typed, removed \subseteq used, NEW t \in Threads,
         UNCHANGED <<diskVars, removed, balance>>,
         \A s \in Sectors : open_cnt'[s] >= open_cnt[s],
         pc[t] \notin {"add", "check", "erase"}, pc'[t] \notin {"add", "check", "erase"}
  PROVE  Plain(t)
  BY DEF Plain, Typed, diskVars

\* An inode that is opened once more.
LEMMA OpensMore ==
  ASSUME Typed, NEW c, Opens(c) \/ UNCHANGED open_cnt
  PROVE  \A s \in Sectors : open_cnt'[s] >= open_cnt[s]
  BY DEF Typed, Opens

\* A new descriptor takes no reference away.
LEMMA AddFileMore ==
  ASSUME Typed, NEW t, NEW f, AddFile(t, f)
  PROVE  \A s \in Sectors : open_cnt'[s] >= open_cnt[s]
  BY DEF Typed, AddFile, Held

\* Every action is one of the six classes.
LEMMA Classes ==
  ASSUME Typed, removed \subseteq used, NEW t \in Threads, Acts(t)
  PROVE  \/ Plain(t) \/ Created(t) \/ Add(t) \/ Chosen(t)
         \/ RemoveCheck(t) \/ RemoveErase(t)
<1>. USE DEF Goto
<1>0. pc \in [Threads -> PC]
  BY DEF Typed
<1>1. CASE Begin(t)
  <2>1. \A s \in Sectors : open_cnt'[s] >= open_cnt[s]
    <3>1. PICK c \in Calls : Opens(IF c.absolute THEN Root ELSE active_dir[t])
      BY <1>1 DEF Begin
    <3>. QED BY <3>1, OpensMore
  <2>2. UNCHANGED <<diskVars, removed, balance>> /\ pc[t] = "idle" /\ pc'[t] = "walk"
    BY <1>0, <1>1 DEF Begin
  <2>. QED BY <2>1, <2>2, PlainOpen
<1>2. CASE Walk(t)
  <2>1. \A s \in Sectors : open_cnt'[s] >= open_cnt[s]
    <3>1. UNCHANGED open_cnt \/ \E c : Opens(c)
      BY <1>2 DEF Walk
    <3>. QED BY <3>1, OpensMore
  <2>2. UNCHANGED <<diskVars, removed, balance>> /\ pc[t] = "walk" /\ pc'[t] = "step"
    BY <1>0, <1>2 DEF Walk, ghostVars
  <2>. QED BY <2>1, <2>2, PlainOpen
<1>3. CASE filesys_open(t)
  <2>1. \A s \in Sectors : open_cnt'[s] >= open_cnt[s]
    <3>1. UNCHANGED open_cnt \/ \E f : AddFile(t, f)
      BY <1>3 DEF filesys_open
    <3>. QED BY <3>1, OpensMore, AddFileMore
  <2>2. UNCHANGED <<diskVars, removed, balance>> /\ pc[t] = "walk" /\ pc'[t] = "leave"
    BY <1>0, <1>3 DEF filesys_open, Arrived, ghostVars
  <2>. QED BY <2>1, <2>2, PlainOpen
<1>4. CASE file_reopen_sys(t)
  <2>1. \A s \in Sectors : open_cnt'[s] >= open_cnt[s]
    BY <1>4, AddFileMore DEF file_reopen_sys
  <2>2. UNCHANGED <<diskVars, removed, balance>> /\ pc[t] = "idle" /\ pc'[t] = "idle"
    BY <1>4 DEF file_reopen_sys
  <2>. QED BY <2>1, <2>2, PlainOpen
<1>5. CASE RemoveLookup(t)
  <2>1. \A s \in Sectors : open_cnt'[s] >= open_cnt[s]
    <3>1. UNCHANGED open_cnt \/ \E c : Opens(c)
      BY <1>5 DEF RemoveLookup
    <3>. QED BY <3>1, OpensMore
  <2>2. UNCHANGED <<diskVars, removed, balance>> /\ pc[t] = "walk"
    BY <1>5 DEF RemoveLookup, Arrived, ghostVars
  <2>3. pc'[t] \in {"remove", "forget", "readdir", "leave"}
    BY <1>0, <1>5 DEF RemoveLookup
  <2>. QED BY <2>1, <2>2, <2>3, PlainOpen
<1>6. CASE Readdir(t)
  <2>1. \A s \in Sectors : open_cnt'[s] >= open_cnt[s]
    BY <1>6, OpensMore DEF Readdir
  <2>2. UNCHANGED <<diskVars, removed, balance>> /\ pc[t] = "readdir"
    BY <1>6 DEF Readdir, ghostVars
  <2>3. pc'[t] \in {"close_dir", "forget"}
    BY <1>0, <1>6 DEF Readdir
  <2>. QED BY <2>1, <2>2, <2>3, PlainOpen
<1>7. CASE CreateInode(t)
  <2>1. ASSUME pc'[t] # "add" PROVE Plain(t)
    <3>1. UNCHANGED diskVars /\ pc'[t] = "leave"
      BY <1>0, <1>7, <2>1 DEF CreateInode
    <3>2. UNCHANGED <<removed, balance, open_cnt>> /\ pc[t] = "walk"
      BY <1>7 DEF CreateInode, Arrived, ghostVars
    <3>. QED BY <3>1, <3>2, PlainOpen, OpensMore
  <2>. QED BY <1>7, <2>1 DEF Created
<1>8. CASE dir_remove(t)
  <2>1. ASSUME pc'[t] # "check" PROVE Plain(t)
    <3>1. UNCHANGED open_cnt /\ pc'[t] = Returned(t)
      BY <1>0, <1>8, <2>1 DEF dir_remove
    <3>2. UNCHANGED <<diskVars, removed, balance>> /\ pc[t] = "remove"
      BY <1>8 DEF dir_remove, ghostVars
    <3>3. Returned(t) \in {"leave", "forget"}
      BY DEF Returned
    <3>4. \A s \in Sectors : open_cnt'[s] >= open_cnt[s]
      BY <3>1, OpensMore
    <3>. QED BY <3>1, <3>2, <3>3, <3>4, PlainOpen
  <2>. QED BY <1>8, <2>1 DEF Chosen
<1>9. CASE Stepped(t)
  <2>1. pc[t] = "step" /\ UNCHANGED <<entries, parent, balance>> /\ pc'[t] \in {"walk", "idle"}
    BY <1>0, <1>9 DEF Stepped, ghostVars
  <2>2. CASE Close(op[t].work)
    BY <2>1, <2>2, PlainOneClose
  <2>. DEFINE n == [i \in Sectors |-> Once(i = op[t].work) + Once(i = op[t].next)]
  <2>3. n \in [Sectors -> Int]
    BY DEF Once
  <2>4. Close(op[t].work) \/ Closes(n)
    BY <1>9 DEF Stepped
  <2>. HIDE DEF n
  <2>. QED BY <2>1, <2>2, <2>3, <2>4, PlainClose
<1>10. CASE Leave(t)
  BY <1>0, <1>10, PlainOneClose DEF Leave, ghostVars
<1>11. CASE CloseDir(t)
  BY <1>0, <1>11, PlainOneClose DEF CloseDir, ghostVars
<1>12. CASE Forget(t)
  BY <1>0, <1>12, PlainOneClose DEF Forget, ghostVars
<1>13. CASE chdir(t)
  BY <1>0, <1>13, PlainOneClose DEF chdir, Arrived, ghostVars
<1>14. CASE RemoveRelease(t)
  <2>1. pc[t] = "release" /\ UNCHANGED <<entries, parent, balance>> /\ pc'[t] = Returned(t)
    BY <1>0, <1>14 DEF RemoveRelease, ghostVars
  <2>2. Returned(t) \in {"leave", "forget"}
    BY DEF Returned
  <2>3. Close(op[t].next)
    BY <1>14 DEF RemoveRelease
  <2>. QED BY <2>1, <2>2, <2>3, PlainOneClose
<1>15. CASE close_sys(t)
  <2>1. pc[t] = "idle" /\ UNCHANGED <<entries, parent, balance, pc>>
    BY <1>15 DEF close_sys, ghostVars
  <2>2. PICK f \in Open(t) : Closes([i \in Sectors |-> Held(f) * Once(i = f.inode)])
    BY <1>15 DEF close_sys
  <2>. DEFINE n == [i \in Sectors |-> Held(f) * Once(i = f.inode)]
  <2>3. n \in [Sectors -> Int]
    BY DEF Once, Held
  <2>4. Closes(n)
    BY <2>2
  <2>. HIDE DEF n
  <2>. QED BY <2>1, <2>3, <2>4, PlainClose
<1>16. CASE thread_exit(t)
  <2>1. pc[t] = "idle" /\ UNCHANGED <<entries, parent, balance>> /\ pc'[t] = "exited"
    BY <1>0, <1>16 DEF thread_exit
  <2>. DEFINE n == [s \in Sectors |-> FilesAt(t, s) + DirsAt(t, s) + Once(s = active_dir[t])]
  <2>3. n \in [Sectors -> Int]
    BY RefsParts DEF Once
  <2>4. Closes(n)
    BY <1>16 DEF thread_exit
  <2>. HIDE DEF n
  <2>. QED BY <2>1, <2>3, <2>4, PlainClose
<1>17. CASE RemoveCheck(t) \/ RemoveErase(t) \/ Add(t)
  BY <1>17
<1>. QED BY <1>1, <1>2, <1>3, <1>4, <1>5, <1>6, <1>7, <1>8, <1>9, <1>10, <1>11, <1>12,
            <1>13, <1>14, <1>15, <1>16, <1>17 DEF Acts, Step

-----------------------------------------------------------------------------
\* Names.

\* Every entry leads to an inode that is allocated and not marked; names are
\* unique in a directory, and no inode has two.
NamesOK ==
  /\ removed \subseteq used /\ Root \in used \ removed
  /\ \A d \in Sectors : \A e \in entries[d] :
       /\ e.inode_sector \in used \ removed /\ e.inode_sector # Root
       /\ \A c \in Sectors : \A f \in entries[c] :
            /\ e.inode_sector = f.inode_sector => c = d /\ e = f
            /\ c = d /\ e.name = f.name => e = f

\* An inode that is about to get a name is allocated, has none, and is nobody
\* else's.
ComingOK ==
  \A t \in Threads : pc[t] = "add" =>
    /\ op[t].inode \in used \ removed /\ op[t].inode # Root
    /\ \A d \in Sectors : \A e \in entries[d] : e.inode_sector # op[t].inode
    /\ \A u \in Threads : pc[u] = "add" /\ op[u].inode = op[t].inode => u = t

\* An inode that dir_remove is about to mark is allocated, has no other name,
\* and no other dir_remove has chosen it.
VictimsOK ==
  \A t \in Threads : pc[t] \in {"check", "erase"} =>
    /\ op[t].next \in used \ removed /\ op[t].next # Root
    /\ \A d \in Sectors : \A e \in entries[d] :
         e.inode_sector = op[t].next => d = op[t].work /\ e.name = op[t].name
    /\ \A u \in Threads :
         /\ pc[u] \in {"check", "erase"} /\ op[u].next = op[t].next => u = t
         /\ pc[u] = "add" => op[u].inode # op[t].next

NamesInv == NamesOK /\ ComingOK /\ VictimsOK

\* A plain step leaves the allocated inodes alone that are not marked.
LEMMA PlainLive ==
  ASSUME NamesOK, NEW t \in Threads, Plain(t)
  PROVE  /\ used' \ removed' = used \ removed /\ removed' \subseteq used'
         /\ entries' = entries
<1>1. ASSUME NEW s PROVE s \in used' \ removed' <=> s \in used \ removed
  BY DEF Plain, NamesOK
<1>2. removed' \subseteq used'
  BY DEF Plain, NamesOK
<1>. QED BY <1>1, <1>2 DEF Plain

\* A plain step keeps names and victims right.
LEMMA PlainNames ==
  ASSUME Typed, NamesInv, NEW t \in Threads, Plain(t), Own(t)
  PROVE  NamesInv'
<1>1. /\ used' \ removed' = used \ removed /\ removed' \subseteq used'
      /\ entries' = entries
  BY PlainLive DEF NamesInv
<1>2. /\ \A u \in Threads : pc'[u] = "add" => u # t
      /\ \A u \in Threads : pc'[u] \in {"check", "erase"} => u # t
  BY DEF Plain
<1>3. \A u \in Threads \ {t} : op'[u] = op[u] /\ pc'[u] = pc[u]
  BY DEF Own
<1>4. NamesOK'
  BY <1>1 DEF NamesOK, NamesInv
<1>5. ComingOK'
  BY <1>1, <1>2, <1>3 DEF ComingOK, NamesInv
<1>6. VictimsOK'
  <2>1. ASSUME NEW u \in Threads, pc'[u] \in {"check", "erase"}
        PROVE  /\ op'[u].next \in used' \ removed' /\ op'[u].next # Root
               /\ \A d \in Sectors : \A e \in entries'[d] :
                    e.inode_sector = op'[u].next => d = op'[u].work /\ e.name = op'[u].name
    BY <1>1, <1>2, <1>3, <2>1 DEF VictimsOK, NamesInv
  <2>2. ASSUME NEW u \in Threads, pc'[u] \in {"check", "erase"}, NEW v \in Threads
        PROVE  /\ pc'[v] \in {"check", "erase"} /\ op'[v].next = op'[u].next => v = u
               /\ pc'[v] = "add" => op'[v].inode # op'[u].next
    BY <1>2, <1>3, <2>2 DEF VictimsOK, NamesInv
  <2>. QED BY <2>1, <2>2 DEF VictimsOK
<1>. QED BY <1>4, <1>5, <1>6 DEF NamesInv

\* The sector that filesys_create takes was free.
LEMMA CreatedEffect ==
  ASSUME Typed, NEW t \in Threads, Created(t)
  PROVE  \E s \in Sectors \ used :
           /\ used' = used \cup {s} /\ entries' = [entries EXCEPT ![s] = {}]
           /\ parent' = [parent EXCEPT ![s] = NoSector]
           /\ op'[t].inode = s /\ pc[t] = "walk" /\ pc'[t] = "add"
           /\ op'[t].work = op[t].work /\ op'[t].next = op[t].next
           /\ UNCHANGED <<removed, open_cnt, wlock, active_dir, open_files, balance>>
<1>. DEFINE s == Min(Sectors \ used)
<1>1. pc'[t] = "add" /\ pc[t] = "walk"
  BY DEF Created, CreateInode, Arrived
<1>2. /\ used # Sectors
      /\ used' = used \cup {s} /\ entries' = [entries EXCEPT ![s] = {}]
      /\ parent' = [parent EXCEPT ![s] = NoSector]
      /\ op' = [op EXCEPT ![t].inode = s]
  BY <1>1 DEF Created, CreateInode, Goto, Typed
<1>3. s \in Sectors \ used
  BY <1>2, LeastElement, DirectoryAssumption DEF Typed
<1>4. UNCHANGED <<removed, open_cnt, wlock, active_dir, open_files, balance>>
  BY DEF Created, CreateInode, ghostVars
<1>. HIDE DEF s
<1>5. op'[t].inode = s /\ op'[t].work = op[t].work /\ op'[t].next = op[t].next
  BY <1>2, <1>3, SetInode
<1>. QED BY <1>1, <1>2, <1>3, <1>4, <1>5

\* A new inode keeps names and victims right.
LEMMA CreatedNames ==
  ASSUME Typed, NamesInv, NEW t \in Threads, Created(t), Own(t)
  PROVE  NamesInv'
<1>1. PICK s \in Sectors \ used :
        /\ used' = used \cup {s} /\ entries' = [entries EXCEPT ![s] = {}]
        /\ op'[t].inode = s /\ pc[t] = "walk" /\ pc'[t] = "add"
        /\ UNCHANGED removed
  BY CreatedEffect
<1>2. \A d \in Sectors : entries'[d] \subseteq entries[d]
  BY <1>1 DEF Typed
<1>3. \A u \in Threads \ {t} : op'[u] = op[u] /\ pc'[u] = pc[u]
  BY DEF Own
<1>4. s \notin removed /\ s # Root /\ \A d \in Sectors : \A e \in entries[d] : e.inode_sector # s
  BY <1>1 DEF NamesInv, NamesOK
<1>5. NamesOK'
  <2>1. removed' \subseteq used' /\ Root \in used' \ removed'
    BY <1>1 DEF NamesInv, NamesOK
  <2>2. ASSUME NEW d \in Sectors, NEW e \in entries'[d]
        PROVE  /\ e.inode_sector \in used' \ removed' /\ e.inode_sector # Root
               /\ \A c \in Sectors : \A f \in entries'[c] :
                    /\ e.inode_sector = f.inode_sector => c = d /\ e = f
                    /\ c = d /\ e.name = f.name => e = f
    <3>1. e \in entries[d]
      BY <1>2
    <3>. QED BY <1>1, <1>2, <3>1 DEF NamesInv, NamesOK
  <2>. QED BY <2>1, <2>2 DEF NamesOK
<1>6. ComingOK'
  <2>1. ASSUME NEW u \in Threads, pc'[u] = "add"
        PROVE  /\ op'[u].inode \in used' \ removed' /\ op'[u].inode # Root
               /\ \A d \in Sectors : \A e \in entries'[d] : e.inode_sector # op'[u].inode
    <3>1. CASE u = t
      BY <1>1, <1>2, <1>4, <3>1
    <3>2. CASE u # t
      BY <1>1, <1>2, <1>3, <2>1, <3>2 DEF NamesInv, ComingOK
    <3>. QED BY <3>1, <3>2
  <2>2. ASSUME NEW u \in Threads, pc'[u] = "add", NEW v \in Threads, pc'[v] = "add",
               op'[v].inode = op'[u].inode
        PROVE  v = u
    <3>1. \A w \in Threads \ {t} : pc'[w] = "add" => op'[w].inode # s
      BY <1>1, <1>3 DEF NamesInv, ComingOK
    <3>. QED BY <1>1, <1>3, <2>2, <3>1 DEF NamesInv, ComingOK
  <2>. QED BY <2>1, <2>2 DEF ComingOK
<1>7. VictimsOK'
  <2>1. ASSUME NEW u \in Threads, pc'[u] \in {"check", "erase"}
        PROVE  /\ u # t /\ pc[u] \in {"check", "erase"} /\ op'[u] = op[u]
               /\ op[u].next \in used \ removed
    BY <1>1, <1>3, <2>1 DEF NamesInv, VictimsOK
  <2>2. ASSUME NEW u \in Threads, pc'[u] \in {"check", "erase"}
        PROVE  /\ op'[u].next \in used' \ removed' /\ op'[u].next # Root
               /\ \A d \in Sectors : \A e \in entries'[d] :
                    e.inode_sector = op'[u].next => d = op'[u].work /\ e.name = op'[u].name
    BY <1>1, <1>2, <2>1, <2>2 DEF NamesInv, VictimsOK
  <2>3. ASSUME NEW u \in Threads, pc'[u] \in {"check", "erase"}, NEW v \in Threads
        PROVE  /\ pc'[v] \in {"check", "erase"} /\ op'[v].next = op'[u].next => v = u
               /\ pc'[v] = "add" => op'[v].inode # op'[u].next
    <3>1. CASE v = t
      BY <1>1, <2>1, <2>3, <3>1
    <3>2. CASE v # t
      BY <1>3, <2>1, <2>3, <3>2 DEF NamesInv, VictimsOK
    <3>. QED BY <3>1, <3>2
  <2>. QED BY <2>2, <2>3 DEF VictimsOK
<1>. QED BY <1>5, <1>6, <1>7 DEF NamesInv

\* dir_add writes an entry for the inode of its call, or gives the sector back.
LEMMA AddEffect ==
  ASSUME Typed, Locals, NEW t \in Threads, Add(t)
  PROVE  /\ pc[t] = "add" /\ pc'[t] = "leave" /\ op' = op
         /\ op[t].work \in Sectors /\ op[t].inode \in Sectors /\ wlock[op[t].work] = NoThread
         /\ UNCHANGED <<removed, open_cnt, wlock, active_dir, open_files>>
         /\ \/ \E e \in Entry :
                 /\ e.name = op[t].name /\ e.inode_sector = op[t].inode
                 /\ e.is_dir = (op[t].call = "mkdir")
                 /\ \A f \in entries[op[t].work] : f.name # e.name
                 /\ entries' = [entries EXCEPT ![op[t].work] = @ \cup {e}]
                 /\ parent' = [parent EXCEPT ![op[t].inode] =
                                 IF e.is_dir THEN op[t].work ELSE @]
                 /\ balance' = balance + 1 /\ used' = used
            \/ used' = used \ {op[t].inode} /\ UNCHANGED <<entries, parent, balance>>
<1>1. pc[t] = "add" /\ op[t].work \in Sectors /\ op[t].inode \in Sectors
  BY LocalTypes DEF Add, Locals, LocalsOK
<1>2. /\ pc'[t] = "leave" /\ op' = op /\ wlock[op[t].work] = NoThread
      /\ UNCHANGED <<removed, open_cnt, wlock, active_dir, open_files>>
  BY DEF Add, Goto, Typed
<1>. DEFINE e == [name |-> op[t].name, inode_sector |-> op[t].inode,
                  is_dir |-> op[t].call = "mkdir"]
<1>3. /\ e \in Entry /\ e.name = op[t].name /\ e.inode_sector = op[t].inode
      /\ e.is_dir = (op[t].call = "mkdir")
  BY <1>1, LocalTypes DEF Entry
<1>4. CASE /\ Named(op[t].work, op[t].name) = {}
           /\ entries' = [entries EXCEPT ![op[t].work] = @ \cup {e}]
           /\ parent' = [parent EXCEPT ![op[t].inode] =
                           IF op[t].call = "mkdir" THEN op[t].work ELSE @]
           /\ balance' = balance + 1 /\ UNCHANGED used
  <2>1. \A f \in entries[op[t].work] : f.name # e.name
    BY <1>3, <1>4 DEF Named
  <2>. QED BY <1>1, <1>2, <1>3, <1>4, <2>1
<1>5. CASE used' = used \ {op[t].inode} /\ UNCHANGED <<entries, parent, balance>>
  BY <1>1, <1>2, <1>5
<1>. QED BY <1>4, <1>5 DEF Add

\* dir_add keeps names and victims right.
LEMMA AddNames ==
  ASSUME Typed, Locals, NamesInv, NEW t \in Threads, Add(t), Own(t)
  PROVE  NamesInv'
<1>1. /\ pc[t] = "add" /\ pc'[t] = "leave" /\ op' = op /\ removed' = removed
      /\ op[t].work \in Sectors
  BY AddEffect
<1>2. \A u \in Threads \ {t} : pc'[u] = pc[u]
  BY DEF Own
<1>3. /\ op[t].inode \in used \ removed /\ op[t].inode # Root
      /\ \A d \in Sectors : \A e \in entries[d] : e.inode_sector # op[t].inode
      /\ \A u \in Threads \ {t} : pc[u] = "add" => op[u].inode # op[t].inode
      /\ \A u \in Threads : pc[u] \in {"check", "erase"} => op[u].next # op[t].inode
  BY <1>1 DEF NamesInv, ComingOK, VictimsOK
<1>4. CASE used' = used \ {op[t].inode} /\ UNCHANGED entries
  <2>1. NamesOK'
    BY <1>1, <1>3, <1>4 DEF NamesInv, NamesOK
  <2>2. ComingOK'
    BY <1>1, <1>2, <1>3, <1>4 DEF NamesInv, ComingOK
  <2>3. ASSUME NEW u \in Threads, pc'[u] \in {"check", "erase"}
        PROVE  u # t /\ pc[u] \in {"check", "erase"} /\ op[u].next # op[t].inode
    BY <1>1, <1>2, <1>3, <2>3
  <2>4. VictimsOK'
    <3>1. ASSUME NEW u \in Threads, pc'[u] \in {"check", "erase"}
          PROVE  /\ op'[u].next \in used' \ removed' /\ op'[u].next # Root
                 /\ \A d \in Sectors : \A e \in entries'[d] :
                      e.inode_sector = op'[u].next => d = op'[u].work /\ e.name = op'[u].name
      BY <1>1, <1>4, <2>3, <3>1 DEF NamesInv, VictimsOK
    <3>2. ASSUME NEW u \in Threads, pc'[u] \in {"check", "erase"}, NEW v \in Threads
          PROVE  /\ pc'[v] \in {"check", "erase"} /\ op'[v].next = op'[u].next => v = u
                 /\ pc'[v] = "add" => op'[v].inode # op'[u].next
      BY <1>1, <1>2, <2>3, <3>2 DEF NamesInv, VictimsOK
    <3>. QED BY <3>1, <3>2 DEF VictimsOK
  <2>. QED BY <2>1, <2>2, <2>4 DEF NamesInv
<1>5. CASE \E e \in Entry :
             /\ e.name = op[t].name /\ e.inode_sector = op[t].inode
             /\ \A f \in entries[op[t].work] : f.name # e.name
             /\ entries' = [entries EXCEPT ![op[t].work] = @ \cup {e}]
             /\ used' = used
  <2>1. PICK n \in Entry :
             /\ n.name = op[t].name /\ n.inode_sector = op[t].inode
             /\ \A f \in entries[op[t].work] : f.name # n.name
             /\ entries' = [entries EXCEPT ![op[t].work] = @ \cup {n}]
             /\ used' = used
    BY <1>5
  <2>2. \A d \in Sectors : \A e \in entries'[d] :
          e \in entries[d] \/ (d = op[t].work /\ e = n)
    BY <1>1, <2>1 DEF Typed
  <2>3. NamesOK'
    <3>1. removed' \subseteq used' /\ Root \in used' \ removed'
      BY <1>1, <2>1 DEF NamesInv, NamesOK
    <3>2. ASSUME NEW d \in Sectors, NEW e \in entries'[d]
          PROVE  e.inode_sector \in used' \ removed' /\ e.inode_sector # Root
      <4>1. CASE e \in entries[d]
        BY <1>1, <2>1, <4>1 DEF NamesInv, NamesOK
      <4>2. CASE e = n
        BY <1>1, <1>3, <2>1, <4>2
      <4>. QED BY <2>2, <4>1, <4>2
    <3>3. ASSUME NEW d \in Sectors, NEW e \in entries'[d],
                 NEW c \in Sectors, NEW f \in entries'[c]
          PROVE  /\ e.inode_sector = f.inode_sector => c = d /\ e = f
                 /\ c = d /\ e.name = f.name => e = f
      <4>1. CASE e \in entries[d] /\ f \in entries[c]
        BY <4>1 DEF NamesInv, NamesOK
      <4>2. CASE e \in entries[d] /\ c = op[t].work /\ f = n
        BY <1>3, <2>1, <4>2
      <4>3. CASE f \in entries[c] /\ d = op[t].work /\ e = n
        BY <1>3, <2>1, <4>3
      <4>4. CASE d = op[t].work /\ e = n /\ c = op[t].work /\ f = n
        BY <4>4
      <4>. QED BY <2>2, <4>1, <4>2, <4>3, <4>4
    <3>. QED BY <3>1, <3>2, <3>3 DEF NamesOK
  <2>4. ComingOK'
    <3>1. ASSUME NEW u \in Threads, pc'[u] = "add"
          PROVE  u # t /\ pc[u] = "add" /\ op'[u] = op[u] /\ op[u].inode # op[t].inode
      BY <1>1, <1>2, <1>3, <3>1
    <3>2. ASSUME NEW u \in Threads, pc'[u] = "add"
          PROVE  /\ op'[u].inode \in used' \ removed' /\ op'[u].inode # Root
                 /\ \A v \in Threads : pc'[v] = "add" /\ op'[v].inode = op'[u].inode => v = u
      BY <1>1, <2>1, <3>1, <3>2 DEF NamesInv, ComingOK
    <3>3. ASSUME NEW u \in Threads, pc'[u] = "add", NEW d \in Sectors, NEW e \in entries'[d]
          PROVE  e.inode_sector # op'[u].inode
      BY <2>1, <2>2, <3>1, <3>3 DEF NamesInv, ComingOK
    <3>. QED BY <3>2, <3>3 DEF ComingOK
  <2>5. VictimsOK'
    <3>1. ASSUME NEW u \in Threads, pc'[u] \in {"check", "erase"}
          PROVE  /\ u # t /\ pc[u] \in {"check", "erase"} /\ op'[u] = op[u]
                 /\ op[u].next # op[t].inode
      BY <1>1, <1>2, <1>3, <3>1
    <3>2. ASSUME NEW u \in Threads, pc'[u] \in {"check", "erase"}
          PROVE  op'[u].next \in used' \ removed' /\ op'[u].next # Root
      BY <1>1, <2>1, <3>1, <3>2 DEF NamesInv, VictimsOK
    <3>3. ASSUME NEW u \in Threads, pc'[u] \in {"check", "erase"},
                 NEW d \in Sectors, NEW e \in entries'[d], e.inode_sector = op'[u].next
          PROVE  d = op'[u].work /\ e.name = op'[u].name
      BY <2>1, <2>2, <3>1, <3>3 DEF NamesInv, VictimsOK
    <3>4. ASSUME NEW u \in Threads, pc'[u] \in {"check", "erase"}, NEW v \in Threads
          PROVE  /\ pc'[v] \in {"check", "erase"} /\ op'[v].next = op'[u].next => v = u
                 /\ pc'[v] = "add" => op'[v].inode # op'[u].next
      BY <1>1, <1>2, <3>1, <3>4 DEF NamesInv, VictimsOK
    <3>. QED BY <3>2, <3>3, <3>4 DEF VictimsOK
  <2>. QED BY <2>3, <2>4, <2>5 DEF NamesInv
<1>. QED BY <1>4, <1>5, AddEffect

\* dir_remove takes the lock and chooses the inode that the entry names.
LEMMA ChosenEffect ==
  ASSUME Typed, Locals, NEW t \in Threads, Chosen(t)
  PROVE  /\ pc[t] = "remove" /\ pc'[t] = "check" /\ op[t].work \in Sectors
         /\ wlock[op[t].work] = NoThread
         /\ \E e \in entries[op[t].work] :
              /\ e.name = op[t].name /\ e.inode_sector \in Sectors
              /\ op'[t].next = e.inode_sector /\ op'[t].is_dir = e.is_dir
              /\ op'[t].work = op[t].work /\ op'[t].name = op[t].name
              /\ Opens(e.inode_sector)
         /\ UNCHANGED <<used, entries, parent, removed, active_dir, open_files, balance>>
<1>1. pc[t] = "remove" /\ pc'[t] = "check" /\ wlock[op[t].work] = NoThread
  BY DEF Chosen, dir_remove
<1>2. op[t].work \in Sectors
  BY <1>1, LocalTypes DEF Locals, LocalsOK
<1>3. UNCHANGED <<used, entries, parent, removed, active_dir, open_files, balance>>
  BY DEF Chosen, dir_remove, diskVars, ghostVars
<1>4. PICK e \in Named(op[t].work, op[t].name) :
        /\ Opens(e.inode_sector)
        /\ op' = [op EXCEPT ![t].next = e.inode_sector, ![t].is_dir = e.is_dir]
  <2>1. ~ Goto(t, Returned(t))
    BY <1>1 DEF Goto, Returned, Typed
  <2>. QED BY <2>1 DEF Chosen, dir_remove
<1>5. e \in entries[op[t].work] /\ e.name = op[t].name
      /\ e.inode_sector \in Sectors /\ e.is_dir \in BOOLEAN
  BY <1>2, EntryTypes
<1>6. /\ op'[t].next = e.inode_sector /\ op'[t].is_dir = e.is_dir
      /\ op'[t].work = op[t].work /\ op'[t].name = op[t].name
  BY <1>4, <1>5, SetFound
<1>. QED BY <1>1, <1>2, <1>3, <1>4, <1>5, <1>6

\* The locks keep the directories of two removals apart.
LEMMA OneRemover ==
  ASSUME Typed, Locals, NEW u \in Threads, pc[u] \in Removing
  PROVE  /\ op[u].work \in Sectors /\ op[u].next \in Sectors
         /\ wlock[op[u].work] = u /\ u # NoThread
  BY LocalTypes, Names DEF Locals, LocalsOK, Removing

\* The choice of a victim keeps names and victims right.
LEMMA ChosenNames ==
  ASSUME Typed, Locals, NamesInv, NEW t \in Threads, Chosen(t), Own(t)
  PROVE  NamesInv'
<1>1. PICK e \in entries[op[t].work] :
        /\ e.name = op[t].name /\ e.inode_sector \in Sectors
        /\ op'[t].next = e.inode_sector
        /\ op'[t].work = op[t].work /\ op'[t].name = op[t].name
  BY ChosenEffect
<1>2. /\ pc[t] = "remove" /\ pc'[t] = "check" /\ op[t].work \in Sectors
      /\ wlock[op[t].work] = NoThread
      /\ used' = used /\ entries' = entries /\ removed' = removed
  BY ChosenEffect
<1>3. \A u \in Threads \ {t} : op'[u] = op[u] /\ pc'[u] = pc[u]
  BY DEF Own
<1>4. NamesOK'
  BY <1>2 DEF NamesInv, NamesOK
<1>5. ComingOK'
  <2>1. ASSUME NEW u \in Threads, pc'[u] = "add" PROVE u # t /\ pc[u] = "add" /\ op'[u] = op[u]
    BY <1>2, <1>3, <2>1
  <2>. QED BY <1>2, <2>1 DEF NamesInv, ComingOK
<1>6. /\ e.inode_sector \in used \ removed /\ e.inode_sector # Root
      /\ \A c \in Sectors : \A f \in entries[c] :
           f.inode_sector = e.inode_sector => c = op[t].work /\ f = e
  BY <1>2 DEF NamesInv, NamesOK
<1>7. \A u \in Threads : pc[u] = "add" => op[u].inode # e.inode_sector
  BY <1>2 DEF NamesInv, ComingOK
<1>8. ASSUME NEW u \in Threads, pc[u] \in {"check", "erase"}
      PROVE  op[u].next # e.inode_sector
  <2>1. wlock[op[u].work] = u /\ u # NoThread
    BY <1>8, OneRemover DEF Removing
  <2>2. ASSUME op[u].next = e.inode_sector PROVE op[t].work = op[u].work
    BY <1>2, <1>8, <2>2 DEF NamesInv, VictimsOK
  <2>. QED BY <1>2, <2>1, <2>2
<1>9. VictimsOK'
  <2>1. ASSUME NEW u \in Threads, pc'[u] \in {"check", "erase"}
        PROVE  /\ op'[u].next \in used' \ removed' /\ op'[u].next # Root
               /\ \A d \in Sectors : \A f \in entries'[d] :
                    f.inode_sector = op'[u].next => d = op'[u].work /\ f.name = op'[u].name
    <3>1. CASE u = t
      BY <1>1, <1>2, <1>6, <3>1
    <3>2. CASE u # t
      BY <1>2, <1>3, <2>1, <3>2 DEF NamesInv, VictimsOK
    <3>. QED BY <3>1, <3>2
  <2>2. ASSUME NEW u \in Threads, pc'[u] \in {"check", "erase"}, NEW v \in Threads
        PROVE  /\ pc'[v] \in {"check", "erase"} /\ op'[v].next = op'[u].next => v = u
               /\ pc'[v] = "add" => op'[v].inode # op'[u].next
    <3>1. CASE u = t /\ v = t
      BY <1>2, <3>1
    <3>2. CASE u = t /\ v # t
      BY <1>1, <1>3, <1>7, <1>8, <3>2
    <3>3. CASE u # t /\ v = t
      BY <1>1, <1>2, <1>3, <1>8, <2>2, <3>3
    <3>4. CASE u # t /\ v # t
      BY <1>3, <2>2, <3>4 DEF NamesInv, VictimsOK
    <3>. QED BY <3>1, <3>2, <3>3, <3>4
  <2>. QED BY <2>1, <2>2 DEF VictimsOK
<1>. QED BY <1>4, <1>5, <1>9 DEF NamesInv

\* The check of dir_remove, with the ghost.
LEMMA CheckEffect ==
  ASSUME Typed, NEW t \in Threads, RemoveCheck(t)
  PROVE  /\ pc[t] = "check" /\ pc'[t] \in {"erase", "release"}
         /\ UNCHANGED <<used, entries, parent, open_cnt, removed, wlock, op, active_dir,
                        open_files, balance>>
         /\ pc'[t] = "erase" /\ op[t].is_dir => ~ (open_cnt[op[t].next] > 1)
         /\ pc'[t] = "erase" /\ op[t].is_dir /\ entries[op[t].next] # {} => "nonempty" \in past'
  BY DEF RemoveCheck, Goto, Typed, diskVars

\* The check of dir_remove keeps names and victims right.
LEMMA CheckNames ==
  ASSUME Typed, NamesInv, NEW t \in Threads, RemoveCheck(t), Own(t)
  PROVE  NamesInv'
<1>1. /\ pc[t] = "check" /\ pc'[t] \in {"erase", "release"}
      /\ UNCHANGED <<used, entries, removed, op>>
  BY CheckEffect
<1>2. \A u \in Threads \ {t} : pc'[u] = pc[u]
  BY DEF Own
<1>3. NamesOK'
  BY <1>1 DEF NamesInv, NamesOK
<1>4. ComingOK'
  <2>1. ASSUME NEW u \in Threads, pc'[u] = "add" PROVE pc[u] = "add"
    BY <1>1, <1>2, <2>1
  <2>. QED BY <1>1, <2>1 DEF NamesInv, ComingOK
<1>5. VictimsOK'
  <2>1. ASSUME NEW u \in Threads
        PROVE  /\ pc'[u] \in {"check", "erase"} => pc[u] \in {"check", "erase"}
               /\ pc'[u] = "add" => pc[u] = "add"
    BY <1>1, <1>2
  <2>. QED BY <1>1, <2>1 DEF NamesInv, VictimsOK
<1>. QED BY <1>3, <1>4, <1>5 DEF NamesInv

\* What dir_remove erases and marks.
LEMMA EraseEffect ==
  ASSUME Typed, Locals, NEW t \in Threads, RemoveErase(t)
  PROVE  /\ pc[t] = "erase" /\ pc'[t] = "release" /\ op[t].work \in Sectors
         /\ \A d \in Sectors \ {op[t].work} : entries'[d] = entries[d]
         /\ \A e : e \in entries'[op[t].work] <=>
                     e \in entries[op[t].work] /\ e.name # op[t].name
         /\ removed' = removed \cup {op[t].next} /\ balance' = balance - 1
         /\ UNCHANGED <<used, parent, open_cnt, wlock, op, active_dir, open_files>>
<1>1. pc[t] = "erase" /\ pc'[t] = "release"
  BY DEF RemoveErase, Goto, Typed
<1>2. op[t].work \in Sectors
  BY <1>1, OneRemover DEF Removing
<1>3. entries' = [entries EXCEPT ![op[t].work] = @ \ Named(op[t].work, op[t].name)]
  BY DEF RemoveErase
<1>4. \A e : e \in Named(op[t].work, op[t].name) <=>
               e \in entries[op[t].work] /\ e.name = op[t].name
  BY DEF Named
<1>5. /\ \A d \in Sectors \ {op[t].work} : entries'[d] = entries[d]
      /\ entries'[op[t].work] = entries[op[t].work] \ Named(op[t].work, op[t].name)
  BY <1>2, <1>3 DEF Typed
<1>6. /\ removed' = removed \cup {op[t].next} /\ balance' = balance - 1
      /\ UNCHANGED <<used, parent, open_cnt, wlock, op, active_dir, open_files>>
  BY DEF RemoveErase
<1>. QED BY <1>1, <1>2, <1>4, <1>5, <1>6

\* The erasure of an entry keeps names and victims right.
LEMMA EraseNames ==
  ASSUME Typed, Locals, NamesInv, NEW t \in Threads, RemoveErase(t), Own(t)
  PROVE  NamesInv'
<1>1. /\ pc[t] = "erase" /\ pc'[t] = "release" /\ op[t].work \in Sectors
      /\ removed' = removed \cup {op[t].next} /\ used' = used /\ op' = op
  BY EraseEffect
<1>2. ASSUME NEW d \in Sectors, NEW e \in entries'[d]
      PROVE  e \in entries[d] /\ (d = op[t].work => e.name # op[t].name)
  BY <1>1, EraseEffect
<1>3. \A u \in Threads \ {t} : pc'[u] = pc[u]
  BY DEF Own
<1>4. /\ op[t].next \in used \ removed /\ op[t].next # Root
      /\ \A d \in Sectors : \A e \in entries[d] :
           e.inode_sector = op[t].next => d = op[t].work /\ e.name = op[t].name
      /\ \A u \in Threads : pc[u] = "add" => op[u].inode # op[t].next
      /\ \A u \in Threads \ {t} : pc[u] \in {"check", "erase"} => op[u].next # op[t].next
  BY <1>1 DEF NamesInv, VictimsOK
<1>5. NamesOK'
  <2>1. removed' \subseteq used' /\ Root \in used' \ removed'
    BY <1>1, <1>4 DEF NamesInv, NamesOK
  <2>2. ASSUME NEW d \in Sectors, NEW e \in entries'[d]
        PROVE  /\ e.inode_sector \in used' \ removed' /\ e.inode_sector # Root
               /\ \A c \in Sectors : \A f \in entries'[c] :
                    /\ e.inode_sector = f.inode_sector => c = d /\ e = f
                    /\ c = d /\ e.name = f.name => e = f
    <3>1. e \in entries[d] /\ e.inode_sector # op[t].next
      BY <1>2, <1>4
    <3>2. e.inode_sector \in used' \ removed' /\ e.inode_sector # Root
      BY <1>1, <3>1 DEF NamesInv, NamesOK
    <3>3. ASSUME NEW c \in Sectors, NEW f \in entries'[c]
          PROVE  /\ e.inode_sector = f.inode_sector => c = d /\ e = f
                 /\ c = d /\ e.name = f.name => e = f
      <4>1. f \in entries[c]
        BY <1>2
      <4>. QED BY <3>1, <4>1 DEF NamesInv, NamesOK
    <3>. QED BY <3>2, <3>3
  <2>. QED BY <2>1, <2>2 DEF NamesOK
<1>6. ComingOK'
  <2>1. ASSUME NEW u \in Threads, pc'[u] = "add" PROVE pc[u] = "add" /\ op[u].inode # op[t].next
    BY <1>1, <1>3, <1>4, <2>1
  <2>. QED BY <1>1, <1>2, <2>1 DEF NamesInv, ComingOK
<1>7. VictimsOK'
  <2>1. ASSUME NEW u \in Threads
        PROVE  /\ pc'[u] \in {"check", "erase"} =>
                    pc[u] \in {"check", "erase"} /\ op[u].next # op[t].next
               /\ pc'[u] = "add" => pc[u] = "add"
    BY <1>1, <1>3, <1>4
  <2>. QED BY <1>1, <1>2, <2>1 DEF NamesInv, VictimsOK
<1>. QED BY <1>5, <1>6, <1>7 DEF NamesInv

\* Names stay valid.
LEMMA NamesStay ==
  ASSUME Typed, Locals, NamesInv, NEW t \in Threads, Acts(t)
  PROVE  NamesInv'
<1>1. Own(t)
  BY AnyStep
<1>2. removed \subseteq used
  BY DEF NamesInv, NamesOK
<1>. QED BY <1>1, <1>2, Classes, PlainNames, CreatedNames, AddNames, ChosenNames,
            CheckNames, EraseNames

-----------------------------------------------------------------------------
\* Inodes and directories, as long as no directory is removed that had entries.

\* Open inodes are allocated and marked ones are open; what is allocated has a
\* name, is marked or is about to get a name.
UsedOK ==
  /\ \A s \in Sectors : open_cnt[s] > 0 => s \in used
  /\ \A s \in removed : open_cnt[s] > 0
  /\ \A s \in used : \/ s = Root \/ s \in removed
                     \/ \E d \in Sectors : \E e \in entries[d] : e.inode_sector = s
                     \/ \E t \in Threads : pc[t] = "add" /\ op[t].inode = s
  /\ \A t \in Threads : pc[t] = "add" =>
       open_cnt[op[t].inode] = 0 /\ parent[op[t].inode] = NoSector

\* Only directories that are allocated and not marked have entries; an entry
\* tells what its inode is, and a directory knows where its entry is.
DirsOK ==
  \A d \in Sectors : \A e \in entries[d] :
    /\ d \in used \ removed /\ IsDir(d)
    /\ e.is_dir = IsDir(e.inode_sector)
    /\ e.is_dir => parent[e.inode_sector] = d

\* A call is at a directory, and a process in one.
PlacesOK ==
  \A t \in Threads :
    /\ op[t].work # NoSector => IsDir(op[t].work)
    /\ active_dir[t] # NoSector => IsDir(active_dir[t])
    /\ pc[t] = "step" /\ op[t].is_dir => IsDir(op[t].next)

\* A directory that is marked is referred to by the thread that removes it
\* only, and one that is about to be marked is empty, too; what dir_remove
\* chose stays where it was.
StayOK ==
  /\ \A s \in removed : IsDir(s) =>
       \A t \in Threads : Refs(t, s) > 0 =>
         pc[t] = "release" /\ op[t].next = s /\ Refs(t, s) = 1
  /\ \A t \in Threads : pc[t] \in {"check", "erase"} =>
       /\ op[t].is_dir = IsDir(op[t].next)
       /\ \E e \in entries[op[t].work] :
            e.name = op[t].name /\ e.inode_sector = op[t].next
  /\ \A t \in Threads : pc[t] = "erase" /\ op[t].is_dir =>
       /\ entries[op[t].next] = {} /\ Refs(t, op[t].next) = 1
       /\ \A u \in Threads \ {t} : Refs(u, op[t].next) = 0

\* The entries of directories F, each with its directory.
All(F) == UNION {{d} \X F[d] : d \in Sectors}
Listing == All(entries)

\* The entries are as many as the successful creations that were not undone.
BalanceOK == IsFiniteSet(Listing) /\ balance = Cardinality(Listing)

IntactInv == UsedOK /\ DirsOK /\ PlacesOK /\ StayOK /\ BalanceOK

CommonInv == Typed /\ Locals /\ ReferencesCounted /\ NamesInv

\* What counts as a reference.
LEMMA RefsHeld ==
  ASSUME Typed, NEW t \in Threads, NEW s \in Sectors,
         \/ active_dir[t] = s \/ op[t].work = s \/ op[t].next = s
         \/ op[t].inode = s /\ op[t].call = "remove"
         \/ FilesAt(t, s) > 0 \/ DirsAt(t, s) > 0
  PROVE  Refs(t, s) > 0
  BY RefsParts DEF Once

\* An inode to which a thread refers is open.
LEMMA Referenced ==
  ASSUME Typed, ReferencesCounted, NEW t \in Threads, NEW s \in Sectors
  PROVE  /\ open_cnt[s] >= Refs(t, s)
         /\ \A u \in Threads \ {t} : open_cnt[s] >= Refs(t, s) + Refs(u, s)
<1>. DEFINE r == [u \in Threads |-> Refs(u, s)]
<1>1. /\ r \in [Threads -> Nat] /\ References(s) = Copies(r)
      /\ Cardinality(References(s)) \in Nat
  BY ReferencesSum
<1>2. \A u \in Threads : r[u] = Refs(u, s) /\ Refs(u, s) \in Nat
  BY RefsParts
<1>. HIDE DEF r
<1>3. /\ Cardinality(Copies(r)) >= r[t]
      /\ \A u \in Threads \ {t} : Cardinality(Copies(r)) >= r[t] + r[u]
  BY <1>1, CopiesBound
<1>4. open_cnt[s] >= Cardinality(References(s)) /\ open_cnt[s] \in Int
  BY DEF ReferencesCounted, Typed
<1>5. open_cnt[s] >= Refs(t, s)
  BY <1>1, <1>2, <1>3, <1>4
<1>6. ASSUME NEW u \in Threads \ {t} PROVE open_cnt[s] >= Refs(t, s) + Refs(u, s)
  <2>1. Cardinality(Copies(r)) >= r[t] + r[u]
    BY <1>3
  <2>2. r[t] = Refs(t, s) /\ Refs(t, s) \in Nat /\ r[u] = Refs(u, s) /\ Refs(u, s) \in Nat
    BY <1>2
  <2>. QED BY <1>1, <1>4, <2>1, <2>2
<1>. QED BY <1>5, <1>6

\* What a step of t can open: the root, what it refers to already, what the
\* directory of its call names, and the parent of that directory.
Opened(t, s) ==
  \/ s = Root \/ Refs(t, s) > 0
  \/ /\ op[t].work \in Sectors
     /\ \/ /\ wlock[op[t].work] = NoThread
           /\ \E e \in entries[op[t].work] : e.inode_sector = s
        \/ op[t].work # Root /\ parent[op[t].work] = s

\* A step that closes does not open.
LEMMA ClosesNone ==
  ASSUME Typed, NEW n \in [Sectors -> Int], \A s \in Sectors : n[s] >= 0, Closes(n)
  PROVE  \A s \in Sectors : ~ (open_cnt'[s] > open_cnt[s])
<1>1. \A s \in Sectors : open_cnt'[s] = open_cnt[s] - n[s]
  BY ClosesEffect
<1>2. \A s \in Sectors : open_cnt[s] \in Int
  BY DEF Typed
<1>. QED BY <1>1, <1>2

\* A close gives no new reference.
LEMMA CloseNone ==
  ASSUME Typed, NEW c, Close(c)
  PROVE  \A s \in Sectors : ~ (open_cnt'[s] > open_cnt[s])
<1>1. \A s \in Sectors : open_cnt'[s] = open_cnt[s] - Once(s = c)
  BY CloseEffect
<1>2. \A s \in Sectors : open_cnt[s] \in Int
  BY DEF Typed
<1>. QED BY <1>1, <1>2 DEF Once

\* inode_open and inode_reopen are about one inode.
LEMMA OpensOne ==
  ASSUME Typed, NEW c, Opens(c), NEW s \in Sectors, open_cnt'[s] > open_cnt[s]
  PROVE  s = c
  BY DEF Typed, Opens

\* add_file is about one inode.
LEMMA AddFileOne ==
  ASSUME Typed, NEW t, NEW f, AddFile(t, f), NEW s \in Sectors, open_cnt'[s] > open_cnt[s]
  PROVE  s = f.inode
  BY DEF Typed, AddFile

\* Which inode a step may open, by where the thread is.
LEMMA OpensWhat ==
  ASSUME Typed, Locals, NEW t \in Threads, Acts(t),
         NEW s \in Sectors, open_cnt'[s] > open_cnt[s]
  PROVE  pc[t] # "release" /\ Opened(t, s)
<1>0. open_cnt[s] \in Int
  BY DEF Typed
<1>1. CASE Begin(t)
  <2>1. PICK c \in Calls : Opens(IF c.absolute THEN Root ELSE active_dir[t])
    BY <1>1 DEF Begin
  <2>2. s = Root \/ s = active_dir[t]
    BY <2>1, OpensOne
  <2>. QED BY <1>1, <2>2, RefsHeld DEF Begin, Opened
<1>2. CASE Walk(t)
  <2>1. pc[t] = "walk" /\ op[t].work \in Sectors
    BY <1>2, LocalTypes DEF Walk, Locals, LocalsOK
  <2>2. \/ Opens(Root)
        \/ op[t].work # Root /\ Opens(parent[op[t].work])
        \/ Opens(op[t].work)
        \/ /\ wlock[op[t].work] = NoThread
           /\ \E e \in entries[op[t].work] : Opens(e.inode_sector)
        \/ UNCHANGED open_cnt
    BY <1>2 DEF Walk, Named
  <2>3. \/ s = Root
        \/ op[t].work # Root /\ s = parent[op[t].work]
        \/ s = op[t].work
        \/ /\ wlock[op[t].work] = NoThread
           /\ \E e \in entries[op[t].work] : s = e.inode_sector
    BY <1>0, <2>2, OpensOne
  <2>. QED BY <2>1, <2>3, RefsHeld DEF Opened
<1>3. CASE filesys_open(t)
  <2>1. pc[t] = "walk" /\ op[t].work \in Sectors /\ wlock[op[t].work] = NoThread
    BY <1>3, LocalTypes DEF filesys_open, Arrived, Locals, LocalsOK
  <2>2. PICK f \in {[inode |-> e.inode_sector, is_dir |-> e.is_dir] :
                       e \in Named(op[t].work, op[t].name)}
                   \cup {[inode |-> op[t].work, is_dir |-> TRUE] :
                            n \in {op[t].name} \cap {"", "."}} :
               AddFile(t, f)
    BY <1>0, <1>3 DEF filesys_open
  <2>3. s = f.inode
    BY <2>2, AddFileOne
  <2>4. f.inode = op[t].work \/ \E e \in entries[op[t].work] : e.inode_sector = f.inode
    BY <2>2 DEF Named
  <2>. QED BY <2>1, <2>3, <2>4, RefsHeld DEF Opened
<1>4. CASE file_reopen_sys(t)
  <2>1. PICK f \in Open(t) : AddFile(t, f)
    BY <1>4 DEF file_reopen_sys
  <2>2. s = f.inode
    BY <2>1, AddFileOne
  <2>3. f \in Descriptors /\ open_files[t][f] > 0
    BY DEF Open
  <2>4. FilesAt(t, s) > 0 \/ DirsAt(t, s) > 0
    <3>1. \/ f = [inode |-> s, is_dir |-> FALSE]
          \/ f = [inode |-> s, is_dir |-> TRUE]
      BY <2>2, <2>3 DEF Descriptors
    <3>. QED BY <2>3, <3>1 DEF FilesAt, DirsAt
  <2>. QED BY <1>4, <2>4, RefsHeld DEF Opened, file_reopen_sys
<1>5. CASE RemoveLookup(t)
  <2>1. pc[t] = "walk" /\ op[t].work \in Sectors /\ wlock[op[t].work] = NoThread
    BY <1>5, LocalTypes DEF RemoveLookup, Arrived, Locals, LocalsOK
  <2>2. PICK e \in entries[op[t].work] : Opens(e.inode_sector)
    BY <1>0, <1>5 DEF RemoveLookup, Named
  <2>3. s = e.inode_sector
    BY <2>2, OpensOne
  <2>. QED BY <2>1, <2>3 DEF Opened
<1>6. CASE dir_remove(t)
  <2>1. pc[t] = "remove" /\ op[t].work \in Sectors /\ wlock[op[t].work] = NoThread
    BY <1>6, LocalTypes DEF dir_remove, Locals, LocalsOK
  <2>2. PICK e \in entries[op[t].work] : Opens(e.inode_sector)
    <3>1. open_cnt' # open_cnt
      BY <1>0
    <3>2. \E e \in Named(op[t].work, op[t].name) : Opens(e.inode_sector)
      BY <1>6, <3>1 DEF dir_remove
    <3>. QED BY <3>2 DEF Named
  <2>3. s = e.inode_sector
    BY <2>2, OpensOne
  <2>. QED BY <2>1, <2>3 DEF Opened
<1>7. CASE CreateInode(t) \/ Add(t) \/ Readdir(t) \/ RemoveCheck(t) \/ RemoveErase(t)
  <2>1. open_cnt' = open_cnt
    <3>1. CASE CreateInode(t)
      BY <3>1 DEF CreateInode
    <3>2. CASE Add(t)
      BY <3>2 DEF Add
    <3>3. CASE Readdir(t) \/ RemoveCheck(t) \/ RemoveErase(t)
      BY <3>3 DEF Readdir, RemoveCheck, RemoveErase
    <3>. QED BY <1>7, <3>1, <3>2, <3>3
  <2>. QED BY <1>0, <2>1
<1>8. CASE Stepped(t)
  <2>. DEFINE n == [i \in Sectors |-> Once(i = op[t].work) + Once(i = op[t].next)]
  <2>1. n \in [Sectors -> Int] /\ \A i \in Sectors : n[i] >= 0
    BY DEF Once
  <2>2. Close(op[t].work) \/ Closes(n)
    BY <1>8 DEF Stepped
  <2>. HIDE DEF n
  <2>. QED BY <2>1, <2>2, ClosesNone, CloseNone
<1>9. CASE Leave(t) \/ CloseDir(t) \/ Forget(t) \/ chdir(t) \/ RemoveRelease(t)
  <2>1. \E c : Close(c)
    BY <1>9 DEF Leave, CloseDir, Forget, chdir, RemoveRelease
  <2>. QED BY <2>1, CloseNone
<1>10. CASE close_sys(t)
  <2>1. PICK f \in Open(t) : Closes([i \in Sectors |-> Held(f) * Once(i = f.inode)])
    BY <1>10 DEF close_sys
  <2>. DEFINE n == [i \in Sectors |-> Held(f) * Once(i = f.inode)]
  <2>2. n \in [Sectors -> Int] /\ \A i \in Sectors : n[i] >= 0
    BY DEF Once, Held
  <2>3. Closes(n)
    BY <2>1
  <2>. HIDE DEF n
  <2>. QED BY <2>2, <2>3, ClosesNone
<1>11. CASE thread_exit(t)
  <2>. DEFINE n == [i \in Sectors |-> FilesAt(t, i) + DirsAt(t, i) + Once(i = active_dir[t])]
  <2>1. n \in [Sectors -> Int] /\ \A i \in Sectors : n[i] >= 0
    BY RefsParts DEF Once
  <2>2. Closes(n)
    BY <1>11 DEF thread_exit
  <2>. HIDE DEF n
  <2>. QED BY <2>1, <2>2, ClosesNone
<1>. QED BY <1>1, <1>2, <1>3, <1>4, <1>5, <1>6, <1>7, <1>8, <1>9, <1>10, <1>11 DEF Acts, Step

\* The parent of the directory that a call is at: allocated, not marked, a
\* directory, and not empty.
LEMMA ParentFacts ==
  ASSUME CommonInv, IntactInv, NEW t \in Threads, pc[t] # "release",
         op[t].work \in Sectors, op[t].work # Root
  PROVE  \E d \in Sectors :
           /\ d = parent[op[t].work] /\ d \in used \ removed /\ IsDir(d)
           /\ \E e \in entries[d] : e.inode_sector = op[t].work
<1>. DEFINE w == op[t].work
<1>1. Refs(t, w) > 0
  BY RefsHeld DEF CommonInv
<1>2. open_cnt[w] > 0
  <2>1. open_cnt[w] >= Refs(t, w) /\ Refs(t, w) \in Nat /\ open_cnt[w] \in Int
    BY Referenced, RefsParts DEF CommonInv, Typed
  <2>. QED BY <1>1, <2>1
<1>3. w \in used
  BY <1>2 DEF IntactInv, UsedOK
<1>4. IsDir(w)
  BY Names DEF IntactInv, PlacesOK
<1>5. w \notin removed
  BY <1>1, <1>4 DEF IntactInv, StayOK
<1>6. \A u \in Threads : ~ (pc[u] = "add" /\ op[u].inode = w)
  BY <1>2 DEF IntactInv, UsedOK
<1>7. PICK d \in Sectors : \E e \in entries[d] : e.inode_sector = w
  BY <1>3, <1>5, <1>6 DEF IntactInv, UsedOK
<1>8. PICK e \in entries[d] : e.inode_sector = w
  BY <1>7
<1>9. d \in used \ removed /\ IsDir(d) /\ e.is_dir = IsDir(w) /\ (e.is_dir => parent[w] = d)
  BY <1>8 DEF IntactInv, DirsOK
<1>. QED BY <1>4, <1>7, <1>9

\* What a step can open is allocated, not about to get a name, no directory
\* that is marked, and none that another thread is about to mark.
LEMMA OpenedFacts ==
  ASSUME CommonInv, IntactInv, NEW t \in Threads, NEW s \in Sectors,
         Opened(t, s), pc[t] # "release"
  PROVE  /\ s \in used /\ ~ (s \in removed /\ IsDir(s))
         /\ \A u \in Threads : pc[u] = "add" => op[u].inode # s
         /\ \A u \in Threads \ {t} : pc[u] = "erase" /\ op[u].is_dir => op[u].next # s
<1>1. CASE s = Root
  BY <1>1 DEF CommonInv, NamesInv, NamesOK, ComingOK, VictimsOK
<1>2. CASE Refs(t, s) > 0
  <2>1. open_cnt[s] > 0
    <3>1. open_cnt[s] >= Refs(t, s) /\ Refs(t, s) \in Nat /\ open_cnt[s] \in Int
      BY Referenced, RefsParts DEF CommonInv, Typed
    <3>. QED BY <1>2, <3>1
  <2>2. s \in used /\ \A u \in Threads : pc[u] = "add" => op[u].inode # s
    BY <2>1 DEF IntactInv, UsedOK
  <2>3. ~ (s \in removed /\ IsDir(s))
    BY <1>2 DEF IntactInv, StayOK
  <2>4. ASSUME NEW u \in Threads \ {t}, pc[u] = "erase" /\ op[u].is_dir
        PROVE  op[u].next # s
    BY <1>2, <2>4 DEF IntactInv, StayOK
  <2>. QED BY <2>2, <2>3, <2>4
<1>3. CASE /\ op[t].work \in Sectors /\ wlock[op[t].work] = NoThread
           /\ \E e \in entries[op[t].work] : e.inode_sector = s
  <2>1. s \in used \ removed
    BY <1>3 DEF CommonInv, NamesInv, NamesOK
  <2>2. \A u \in Threads : pc[u] = "add" => op[u].inode # s
    BY <1>3 DEF CommonInv, NamesInv, ComingOK
  <2>3. ASSUME NEW u \in Threads \ {t}, pc[u] = "erase", op[u].next = s
        PROVE  FALSE
    <3>1. wlock[op[u].work] = u /\ u # NoThread
      BY <2>3, OneRemover DEF Removing, CommonInv
    <3>2. op[t].work = op[u].work
      BY <1>3, <2>3 DEF CommonInv, NamesInv, VictimsOK
    <3>. QED BY <1>3, <3>1, <3>2
  <2>. QED BY <2>1, <2>2, <2>3
<1>4. CASE op[t].work \in Sectors /\ op[t].work # Root /\ parent[op[t].work] = s
  <2>1. s \in used \ removed /\ IsDir(s) /\ entries[s] # {} /\ s \in Sectors
    BY <1>4, ParentFacts
  <2>2. ASSUME NEW u \in Threads, pc[u] = "add", op[u].inode = s PROVE FALSE
    BY <2>1, <2>2 DEF IsDir, IntactInv, UsedOK, CommonInv, NamesInv, ComingOK
  <2>3. ASSUME NEW u \in Threads \ {t}, pc[u] = "erase", op[u].is_dir, op[u].next = s
        PROVE  FALSE
    BY <2>1, <2>3 DEF IntactInv, StayOK
  <2>. QED BY <2>1, <2>2, <2>3
<1>. QED BY <1>1, <1>2, <1>3, <1>4 DEF Opened

\* A thread gets a reference only by opening.
LEMMA RefsGrow ==
  ASSUME CommonInv, NEW t \in Threads, Acts(t), NEW s \in Sectors
  PROVE  /\ \A u \in Threads \ {t} : Refs(u, s)' = Refs(u, s)
         /\ Refs(t, s)' \in Nat
         /\ Refs(t, s)' > Refs(t, s) => pc[t] # "release" /\ Opened(t, s)
<1>1. Typed' /\ Own(t)
  BY AnyStep DEF CommonInv
<1>2. open_cnt'[s] - Refs(t, s)' >= open_cnt[s] - Refs(t, s)
  BY AnyStep DEF CommonInv
<1>3. ASSUME NEW u \in Threads \ {t} PROVE Refs(u, s)' = Refs(u, s)
  BY <1>1 DEF Own, Refs, FilesAt, DirsAt
<1>4. Refs(t, s)' \in Nat
  <2>1. FilesAt(t, s)' \in Nat /\ DirsAt(t, s)' \in Nat
    BY <1>1 DEF Typed, FilesAt, DirsAt, Descriptors
  <2>. QED BY <2>1 DEF Refs, Once
<1>5. open_cnt[s] \in Int
  BY DEF CommonInv, Typed
<1>6. open_cnt'[s] \in Int
  BY <1>1 DEF Typed
<1>7. Refs(t, s) \in Nat
  BY RefsParts DEF CommonInv
<1>8. Refs(t, s)' > Refs(t, s) => open_cnt'[s] > open_cnt[s]
  BY ONLY <1>2, <1>4, <1>5, <1>6, <1>7
<1>9. open_cnt'[s] > open_cnt[s] => pc[t] # "release" /\ Opened(t, s)
  BY OpensWhat DEF CommonInv
<1>. QED BY <1>3, <1>4, <1>8, <1>9

\* An inode that is allocated and a directory remains one while it is allocated.
LEMMA KeepsDir ==
  ASSUME CommonInv, UsedOK, NEW t \in Threads, Acts(t), NEW s \in Sectors, s \in used
  PROVE  /\ IsDir(s) => IsDir(s)'
         /\ ~ (pc[t] = "add" /\ s = op[t].inode) => IsDir(s)' = IsDir(s) /\ parent'[s] = parent[s]
<1>0. /\ Typed /\ Locals /\ removed \subseteq used
      /\ Plain(t) \/ Created(t) \/ Add(t) \/ Chosen(t) \/ RemoveCheck(t) \/ RemoveErase(t)
  BY Classes DEF CommonInv, NamesInv, NamesOK
<1>1. CASE parent' = parent
  BY <1>1 DEF IsDir
<1>2. CASE Created(t)
  <2>1. PICK n \in Sectors \ used : parent' = [parent EXCEPT ![n] = NoSector]
    BY <1>0, <1>2, CreatedEffect
  <2>2. parent'[s] = parent[s]
    BY <1>0, <2>1 DEF Typed
  <2>. QED BY <2>2 DEF IsDir
<1>3. CASE Add(t)
  <2>1. /\ pc[t] = "add" /\ op[t].inode \in Sectors /\ op[t].work \in Sectors
    BY <1>0, <1>3, AddEffect
  <2>2. \/ parent' = parent
        \/ \E b : parent' = [parent EXCEPT ![op[t].inode] = IF b THEN op[t].work ELSE @]
    BY <1>0, <1>3, AddEffect
  <2>3. s # op[t].inode => parent'[s] = parent[s]
    BY <1>0, <2>1, <2>2 DEF Typed
  <2>4. s = op[t].inode => parent[s] = NoSector /\ s # Root
    BY <2>1 DEF UsedOK, CommonInv, NamesInv, ComingOK
  <2>. QED BY <2>1, <2>3, <2>4 DEF IsDir
<1>4. Plain(t) \/ Chosen(t) \/ RemoveCheck(t) \/ RemoveErase(t) => parent' = parent
  BY <1>0, ChosenEffect, CheckEffect, EraseEffect DEF Plain
<1>. QED BY <1>0, <1>1, <1>2, <1>3, <1>4

\* What is allocated has a name, is open or is coming.
LEMMA UsedStays ==
  ASSUME CommonInv, IntactInv, NEW t \in Threads, Acts(t)
  PROVE  UsedOK'
<1>0. /\ Typed /\ Locals /\ NamesOK /\ ComingOK /\ VictimsOK /\ removed \subseteq used
      /\ UsedOK /\ DirsOK
  BY DEF CommonInv, NamesInv, NamesOK, IntactInv
<1>1. Own(t) /\ Typed'
  BY <1>0, AnyStep
<1>2. \A u \in Threads \ {t} : op'[u] = op[u] /\ pc'[u] = pc[u]
  BY <1>1 DEF Own
<1>3. \A s \in Sectors : open_cnt[s] \in Int /\ open_cnt'[s] \in Int /\ open_cnt'[s] >= 0
  <2>1. \A s \in Sectors : open_cnt'[s] >= 0
    BY CountsStay DEF CommonInv
  <2>. QED BY <1>0, <1>1, <2>1 DEF Typed
<1>4. \/ Plain(t) \/ Created(t) \/ Add(t) \/ Chosen(t) \/ RemoveCheck(t) \/ RemoveErase(t)
  BY <1>0, Classes
<1>5. ASSUME NEW s \in Sectors, open_cnt'[s] > open_cnt[s]
      PROVE  s \in used /\ \A u \in Threads : pc[u] = "add" => op[u].inode # s
  BY <1>0, <1>5, OpensWhat, OpenedFacts
<1>6. ASSUME NEW s \in Sectors, open_cnt'[s] > 0 PROVE s \in used'
  <2>1. s \in used
    BY <1>0, <1>3, <1>5, <1>6 DEF UsedOK
  <2>2. CASE Plain(t)
    BY <1>6, <2>1, <2>2 DEF Plain
  <2>3. CASE Created(t)
    BY <1>0, <2>1, <2>3, CreatedEffect
  <2>4. CASE Add(t)
    <3>1. /\ pc[t] = "add" /\ open_cnt' = open_cnt
          /\ used' = used \/ used' = used \ {op[t].inode}
      BY <1>0, <2>4, AddEffect
    <3>2. open_cnt[op[t].inode] = 0
      BY <1>0, <3>1 DEF UsedOK
    <3>. QED BY <1>6, <2>1, <3>1, <3>2
  <2>5. CASE Chosen(t) \/ RemoveCheck(t) \/ RemoveErase(t)
    BY <1>0, <2>1, <2>5, ChosenEffect, CheckEffect, EraseEffect
  <2>. QED BY <1>4, <2>2, <2>3, <2>4, <2>5
<1>7. ASSUME NEW s \in removed' PROVE open_cnt'[s] > 0
  <2>1. \A i \in removed : i \in Sectors /\ open_cnt[i] > 0
    BY <1>0 DEF UsedOK, Typed
  <2>2. CASE Plain(t)
    <3>1. s \in removed /\ (open_cnt'[s] = 0 => open_cnt'[s] >= open_cnt[s])
      BY <1>7, <2>2 DEF Plain
    <3>. QED BY <1>3, <2>1, <3>1
  <2>3. CASE Created(t) \/ Add(t) \/ RemoveCheck(t)
    <3>1. removed' = removed /\ open_cnt' = open_cnt
      BY <1>0, <2>3, CreatedEffect, AddEffect, CheckEffect
    <3>. QED BY <1>7, <2>1, <3>1
  <2>4. CASE Chosen(t)
    <3>1. PICK c : Opens(c)
      BY <1>0, <2>4, ChosenEffect
    <3>2. s \in removed
      BY <1>0, <1>7, <2>4, ChosenEffect
    <3>3. open_cnt'[s] >= open_cnt[s]
      BY <1>0, <2>1, <3>1, <3>2, OpensMore
    <3>. QED BY <1>3, <2>1, <3>2, <3>3
  <2>5. CASE RemoveErase(t)
    <3>1. /\ pc[t] = "erase" /\ removed' = removed \cup {op[t].next} /\ open_cnt' = open_cnt
      BY <1>0, <2>5, EraseEffect
    <3>2. op[t].next \in Sectors
      BY <1>0, <3>1, OneRemover DEF Removing
    <3>3. open_cnt[op[t].next] >= Refs(t, op[t].next) /\ Refs(t, op[t].next) \in Nat
      BY <3>2, Referenced, RefsParts DEF CommonInv
    <3>4. Refs(t, op[t].next) > 0
      BY <1>0, <3>2, RefsHeld
    <3>5. open_cnt[op[t].next] > 0
      BY <1>3, <3>2, <3>3, <3>4
    <3>. QED BY <1>7, <2>1, <3>1, <3>5
  <2>. QED BY <1>4, <2>2, <2>3, <2>4, <2>5
<1>8. ASSUME NEW s \in used'
      PROVE  \/ s = Root \/ s \in removed'
             \/ \E d \in Sectors : \E e \in entries'[d] : e.inode_sector = s
             \/ \E u \in Threads : pc'[u] = "add" /\ op'[u].inode = s
  <2>. DEFINE Kept == \/ s = Root \/ s \in removed
                      \/ \E d \in Sectors : \E e \in entries[d] : e.inode_sector = s
                      \/ \E u \in Threads : pc[u] = "add" /\ op[u].inode = s
  <2>1. s \in used => Kept
    BY <1>0 DEF UsedOK
  <2>2. CASE Plain(t)
    <3>1. s \in used /\ (s \in removed => s \in removed') /\ entries' = entries
      BY <1>0, <1>8, <2>2 DEF Plain
    <3>2. \A u \in Threads : pc[u] = "add" => pc'[u] = "add" /\ op'[u] = op[u]
      BY <1>2, <2>2 DEF Plain
    <3>. QED BY <2>1, <3>1, <3>2
  <2>3. CASE Created(t)
    <3>1. PICK n \in Sectors \ used :
            /\ used' = used \cup {n} /\ entries' = [entries EXCEPT ![n] = {}]
            /\ op'[t].inode = n /\ pc[t] = "walk" /\ pc'[t] = "add"
            /\ UNCHANGED removed
      BY <1>0, <2>3, CreatedEffect
    <3>2. CASE s = n
      BY <3>1, <3>2
    <3>3. CASE s \in used
      <4>1. CASE s = Root \/ s \in removed
        BY <3>1, <4>1
      <4>2. CASE \E d \in Sectors : \E e \in entries[d] : e.inode_sector = s
        <5>1. PICK d \in Sectors : \E e \in entries[d] : e.inode_sector = s
          BY <4>2
        <5>2. d \in used
          BY <1>0, <5>1 DEF DirsOK
        <5>3. entries'[d] = entries[d]
          BY <1>0, <3>1, <5>2 DEF Typed
        <5>. QED BY <5>1, <5>3
      <4>3. CASE \E u \in Threads : pc[u] = "add" /\ op[u].inode = s
        BY <1>2, <3>1, <4>3
      <4>. QED BY <2>1, <3>3, <4>1, <4>2, <4>3
    <3>. QED BY <1>8, <3>1, <3>2, <3>3
  <2>4. CASE Add(t)
    <3>1. /\ pc[t] = "add" /\ op[t].work \in Sectors /\ removed' = removed
          /\ \/ \E e \in Entry :
                  /\ e.inode_sector = op[t].inode /\ used' = used
                  /\ entries' = [entries EXCEPT ![op[t].work] = @ \cup {e}]
             \/ used' = used \ {op[t].inode} /\ UNCHANGED entries
      BY <1>0, <2>4, AddEffect
    <3>2. \A d \in Sectors : entries[d] \subseteq entries'[d]
      BY <1>0, <3>1 DEF Typed
    <3>3. s \in used
      BY <1>8, <3>1
    <3>4. CASE s = op[t].inode
      <4>1. PICK e \in Entry :
                  /\ e.inode_sector = op[t].inode
                  /\ entries' = [entries EXCEPT ![op[t].work] = @ \cup {e}]
        BY <1>8, <3>1, <3>4
      <4>2. e \in entries'[op[t].work]
        BY <1>0, <3>1, <4>1 DEF Typed
      <4>. QED BY <3>1, <3>4, <4>1, <4>2
    <3>5. CASE s # op[t].inode
      <4>1. \A u \in Threads : pc[u] = "add" /\ op[u].inode = s => pc'[u] = "add" /\ op'[u] = op[u]
        BY <1>2, <3>5
      <4>. QED BY <2>1, <3>1, <3>2, <3>3, <4>1
    <3>. QED BY <3>4, <3>5
  <2>5. CASE Chosen(t) \/ RemoveCheck(t)
    <3>1. /\ used' = used /\ removed' = removed /\ entries' = entries
          /\ pc[t] # "add"
      BY <1>0, <2>5, ChosenEffect, CheckEffect
    <3>2. \A u \in Threads : pc[u] = "add" => pc'[u] = "add" /\ op'[u] = op[u]
      BY <1>2, <3>1
    <3>. QED BY <1>8, <2>1, <3>1, <3>2
  <2>6. CASE RemoveErase(t)
    <3>1. /\ pc[t] = "erase" /\ used' = used /\ removed' = removed \cup {op[t].next}
          /\ op[t].work \in Sectors
          /\ \A d \in Sectors \ {op[t].work} : entries'[d] = entries[d]
          /\ \A e : e \in entries'[op[t].work] <=>
                     e \in entries[op[t].work] /\ e.name # op[t].name
      BY <1>0, <2>6, EraseEffect
    <3>2. \A u \in Threads : pc[u] = "add" => pc'[u] = "add" /\ op'[u] = op[u]
      BY <1>2, <3>1
    <3>3. CASE \E d \in Sectors : \E e \in entries[d] : e.inode_sector = s
      <4>1. PICK d \in Sectors : \E e \in entries[d] : e.inode_sector = s
        BY <3>3
      <4>2. PICK e \in entries[d] : e.inode_sector = s
        BY <4>1
      <4>3. CASE e \in entries'[d]
        BY <4>2, <4>3
      <4>4. CASE e \notin entries'[d]
        <5>1. d = op[t].work /\ e.name = op[t].name
          BY <3>1, <4>2, <4>4
        <5>2. PICK f \in entries[op[t].work] :
                f.name = op[t].name /\ f.inode_sector = op[t].next
          BY <3>1 DEF IntactInv, StayOK
        <5>3. e = f
          BY <1>0, <3>1, <4>2, <5>1, <5>2 DEF NamesOK
        <5>. QED BY <3>1, <4>2, <5>2, <5>3
      <4>. QED BY <4>3, <4>4
    <3>. QED BY <1>8, <2>1, <3>1, <3>2, <3>3
  <2>. QED BY <1>4, <2>2, <2>3, <2>4, <2>5, <2>6
<1>9. ASSUME NEW u \in Threads, pc'[u] = "add"
      PROVE  open_cnt'[op'[u].inode] = 0 /\ parent'[op'[u].inode] = NoSector
  <2>1. CASE u # t
    <3>1. /\ pc[u] = "add" /\ op'[u] = op[u] /\ op[u].inode \in used
          /\ open_cnt[op[u].inode] = 0 /\ parent[op[u].inode] = NoSector
      BY <1>0, <1>2, <1>9, <2>1 DEF UsedOK, ComingOK
    <3>2. PICK c \in Sectors : c = op[u].inode
      BY <1>0, <3>1 DEF Typed
    <3>3. ~ (open_cnt'[c] > open_cnt[c])
      BY <1>5, <3>1, <3>2
    <3>4. open_cnt'[c] = 0
      BY <1>3, <3>1, <3>2, <3>3
    <3>5. ~ (pc[t] = "add" /\ c = op[t].inode)
      BY <1>0, <2>1, <3>1, <3>2 DEF ComingOK
    <3>6. parent'[c] = parent[c]
      BY <1>0, <3>1, <3>2, <3>5, KeepsDir
    <3>. QED BY <3>1, <3>2, <3>4, <3>6
  <2>2. CASE u = t
    <3>1. Created(t)
      BY <1>0, <1>4, <1>9, <2>2, AddEffect, ChosenEffect, CheckEffect, EraseEffect DEF Plain
    <3>2. PICK n \in Sectors \ used :
            /\ parent' = [parent EXCEPT ![n] = NoSector] /\ op'[t].inode = n
            /\ open_cnt' = open_cnt
      BY <1>0, <3>1, CreatedEffect
    <3>3. open_cnt[n] = 0
      <4>1. ~ (open_cnt[n] > 0)
        BY <1>0, <3>2 DEF UsedOK
      <4>2. open_cnt[n] \in Int /\ open_cnt[n] >= 0
        BY <1>3, <3>2
      <4>. QED BY <4>1, <4>2
    <3>4. parent'[n] = NoSector
      BY <1>0, <3>2 DEF Typed
    <3>. QED BY <2>2, <3>2, <3>3, <3>4
  <2>. QED BY <2>1, <2>2
<1>. QED BY <1>6, <1>7, <1>8, <1>9 DEF UsedOK

\* The directories in use stay apart from the rest.
LEMMA DirsStay ==
  ASSUME CommonInv, IntactInv, NEW t \in Threads, Acts(t)
  PROVE  DirsOK'
<1>0. /\ Typed /\ Locals /\ NamesOK /\ ComingOK /\ removed \subseteq used
      /\ UsedOK /\ DirsOK /\ StayOK /\ PlacesOK
  BY DEF CommonInv, NamesInv, NamesOK, IntactInv
<1>1. \/ Plain(t) \/ Created(t) \/ Add(t) \/ Chosen(t) \/ RemoveCheck(t) \/ RemoveErase(t)
  BY <1>0, Classes
<1>2. ASSUME NEW d \in Sectors, NEW e \in entries[d]
      PROVE  /\ IsDir(d)' /\ e.is_dir = IsDir(e.inode_sector)'
             /\ e.is_dir => parent'[e.inode_sector] = d
  <2>1. /\ d \in used /\ IsDir(d) /\ e.is_dir = IsDir(e.inode_sector)
        /\ e.is_dir => parent[e.inode_sector] = d
    BY <1>0 DEF DirsOK
  <2>2. PICK i \in Sectors : i = e.inode_sector /\ i \in used
    BY <1>0 DEF NamesOK, Typed
  <2>3. ~ (pc[t] = "add" /\ i = op[t].inode)
    BY <1>0, <2>2 DEF ComingOK
  <2>4. IsDir(d)'
    BY <1>0, <2>1, KeepsDir
  <2>5. IsDir(i)' = IsDir(i) /\ parent'[i] = parent[i]
    BY <1>0, <2>2, <2>3, KeepsDir
  <2>6. IsDir(e.inode_sector)' = IsDir(i)'
    BY <2>2 DEF IsDir
  <2>. QED BY <2>1, <2>2, <2>4, <2>5, <2>6
<1>3. ASSUME NEW d \in Sectors, entries[d] # {} PROVE d \in used' \ removed'
  <2>1. d \in used \ removed /\ IsDir(d)
    BY <1>0, <1>3 DEF DirsOK
  <2>2. CASE Plain(t)
    BY <1>0, <2>1, <2>2, PlainLive
  <2>3. CASE Created(t)
    BY <1>0, <2>1, <2>3, CreatedEffect
  <2>4. CASE Add(t)
    <3>1. /\ pc[t] = "add" /\ removed' = removed
          /\ used' = used \/ used' = used \ {op[t].inode}
      BY <1>0, <2>4, AddEffect
    <3>2. ~ IsDir(op[t].inode)
      BY <1>0, <3>1 DEF UsedOK, ComingOK, IsDir
    <3>. QED BY <2>1, <3>1, <3>2
  <2>5. CASE Chosen(t) \/ RemoveCheck(t)
    BY <1>0, <2>1, <2>5, ChosenEffect, CheckEffect
  <2>6. CASE RemoveErase(t)
    <3>1. pc[t] = "erase" /\ used' = used /\ removed' = removed \cup {op[t].next}
      BY <1>0, <2>6, EraseEffect
    <3>2. op[t].is_dir = IsDir(op[t].next) /\ (op[t].is_dir => entries[op[t].next] = {})
      BY <1>0, <3>1 DEF StayOK
    <3>. QED BY <1>3, <2>1, <3>1, <3>2
  <2>. QED BY <1>1, <2>2, <2>3, <2>4, <2>5, <2>6
<1>4. ASSUME NEW d \in Sectors, NEW e \in entries'[d], e \in entries[d]
      PROVE  /\ d \in used' \ removed' /\ IsDir(d)'
             /\ e.is_dir = IsDir(e.inode_sector)'
             /\ e.is_dir => parent'[e.inode_sector] = d
  BY <1>2, <1>3, <1>4
<1>5. ASSUME NEW d \in Sectors, NEW e \in entries'[d], e \notin entries[d]
      PROVE  /\ d \in used' \ removed' /\ IsDir(d)'
             /\ e.is_dir = IsDir(e.inode_sector)'
             /\ e.is_dir => parent'[e.inode_sector] = d
  <2>1. Add(t)
    <3>1. CASE Plain(t) \/ Chosen(t) \/ RemoveCheck(t)
      BY <1>0, <1>5, <3>1, ChosenEffect, CheckEffect DEF Plain
    <3>2. CASE Created(t)
      <4>1. PICK s \in Sectors : entries' = [entries EXCEPT ![s] = {}]
        BY <1>0, <3>2, CreatedEffect
      <4>. QED BY <1>0, <1>5, <4>1 DEF Typed
    <3>3. CASE RemoveErase(t)
      BY <1>0, <1>5, <3>3, EraseEffect
    <3>. QED BY <1>1, <3>1, <3>2, <3>3
  <2>2. /\ pc[t] = "add" /\ op[t].work \in Sectors /\ op[t].inode \in Sectors
        /\ removed' = removed
    BY <1>0, <2>1, AddEffect
  <2>3. PICK n \in Entry :
          /\ n.inode_sector = op[t].inode
          /\ entries' = [entries EXCEPT ![op[t].work] = @ \cup {n}]
          /\ parent' = [parent EXCEPT ![op[t].inode] = IF n.is_dir THEN op[t].work ELSE @]
          /\ used' = used
    BY <1>0, <1>5, <2>1, AddEffect
  <2>4. d = op[t].work /\ e = n
    BY <1>0, <1>5, <2>2, <2>3 DEF Typed
  <2>5. Refs(t, d) > 0
    BY <1>0, <2>4, RefsHeld
  <2>6. open_cnt[d] >= Refs(t, d) /\ Refs(t, d) \in Nat /\ open_cnt[d] \in Int
    BY Referenced, RefsParts DEF CommonInv, Typed
  <2>7. d \in used
    BY <1>0, <2>5, <2>6 DEF UsedOK
  <2>8. IsDir(d)
    BY <1>0, <2>2, <2>4, Names DEF PlacesOK
  <2>9. d \notin removed
    BY <1>0, <2>2, <2>5, <2>8 DEF StayOK
  <2>10. IsDir(d)'
    BY <1>0, <2>7, <2>8, KeepsDir
  <2>11. PICK i \in Sectors : i = op[t].inode
    BY <2>2
  <2>12. parent[i] = NoSector /\ i # Root
    BY <1>0, <2>2, <2>11 DEF UsedOK, ComingOK
  <2>13. parent'[i] = IF n.is_dir THEN d ELSE NoSector
    BY <1>0, <2>2, <2>3, <2>4, <2>11, <2>12 DEF Typed
  <2>14. n.is_dir \in BOOLEAN /\ d # NoSector
    BY Names DEF Entry
  <2>15. n.is_dir = IsDir(i)'
    BY <2>12, <2>13, <2>14 DEF IsDir
  <2>16. e.inode_sector = i /\ e.is_dir = n.is_dir
    BY <2>3, <2>4, <2>11
  <2>17. IsDir(e.inode_sector)' = IsDir(i)'
    BY <2>16 DEF IsDir
  <2>. QED BY <2>4, <2>2, <2>3, <2>7, <2>9, <2>10, <2>13, <2>15, <2>16, <2>17
<1>. QED BY <1>4, <1>5 DEF DirsOK

\* Where a step of t can lead.
LEMMA PlacesEffect ==
  ASSUME Typed, Locals, NEW t \in Threads, Acts(t)
  PROVE  /\ \/ op'[t].work \in {op[t].work, NoSector, Root, active_dir[t]}
            \/ pc[t] = "step" /\ op[t].is_dir /\ op'[t].work = op[t].next
         /\ active_dir'[t] \in {active_dir[t], op[t].work, NoSector}
         /\ pc'[t] = "step" /\ op'[t].is_dir =>
              /\ pc[t] # "release" /\ op[t].work \in Sectors
              /\ \/ op'[t].next \in {Root, op[t].work}
                 \/ op[t].work # Root /\ op'[t].next = parent[op[t].work]
                 \/ \E e \in entries[op[t].work] : e.is_dir /\ op'[t].next = e.inode_sector
<1>. USE DEF Goto
<1>0. pc \in [Threads -> PC] /\ op \in [Threads -> Op]
  BY DEF Typed
<1>1. CASE Begin(t)
  <2>1. op'[t].work = Root \/ op'[t].work = active_dir[t]
    BY <1>0, <1>1 DEF Begin
  <2>2. active_dir' = active_dir /\ pc'[t] = "walk"
    BY <1>0, <1>1 DEF Begin
  <2>. QED BY <2>1, <2>2
<1>2. CASE Walk(t)
  <2>1. pc[t] = "walk" /\ op[t].work \in Sectors /\ active_dir' = active_dir
    BY <1>2, LocalTypes DEF Walk, Locals, LocalsOK
  <2>. DEFINE Took(next, is_dir) ==
                op' = [op EXCEPT ![t].path = Tail(@), ![t].next = next, ![t].is_dir = is_dir]
              Leads(next) == \/ next \in {Root, op[t].work}
                             \/ op[t].work # Root /\ next = parent[op[t].work]
                             \/ \E e \in entries[op[t].work] : e.is_dir /\ next = e.inode_sector
  <2>2. \E next, is_dir : Took(next, is_dir) /\ (is_dir => Leads(next))
    <3>1. ASSUME NEW next, NEW is_dir, Took(next, is_dir), is_dir => Leads(next)
          PROVE  \E n, b : Took(n, b) /\ (b => Leads(n))
      <4>. HIDE DEF Took, Leads
      <4>. QED BY <3>1
    <3>2. CASE Head(op[t].path) = ".." /\ op[t].work = Root
      <4>1. Took(Root, TRUE)
        BY <1>2, <3>2 DEF Walk
      <4>. QED BY <3>1, <4>1
    <3>3. CASE Head(op[t].path) = ".." /\ op[t].work # Root
      <4>1. Took(parent[op[t].work], TRUE)
        BY <1>2, <3>3 DEF Walk
      <4>. QED BY <3>1, <3>3, <4>1
    <3>4. CASE Head(op[t].path) = "."
      <4>1. Took(op[t].work, TRUE)
        BY <1>2, <3>4 DEF Walk
      <4>. QED BY <3>1, <4>1
    <3>5. CASE Head(op[t].path) \notin {".", ".."}
      <4>1. \/ \E e \in entries[op[t].work] : Took(e.inode_sector, e.is_dir)
            \/ Took(NoSector, FALSE)
        BY <1>2, <3>5 DEF Walk, Named
      <4>2. ASSUME NEW e \in entries[op[t].work], e.is_dir PROVE Leads(e.inode_sector)
        BY <4>2
      <4>. HIDE DEF Took, Leads
      <4>3. CASE \E e \in entries[op[t].work] : Took(e.inode_sector, e.is_dir)
        BY <4>2, <4>3
      <4>4. CASE Took(NoSector, FALSE)
        BY <4>4
      <4>. QED BY <4>1, <4>3, <4>4
    <3>. QED BY <3>2, <3>3, <3>4, <3>5
  <2>4. PICK next, is_dir : Took(next, is_dir) /\ (is_dir => Leads(next))
    BY <2>2
  <2>3. op'[t].work = op[t].work /\ op'[t].next = next /\ op'[t].is_dir = is_dir
    BY <1>0, <2>4 DEF Op
  <2>. QED BY <2>1, <2>3, <2>4
<1>3. CASE filesys_open(t) \/ file_reopen_sys(t) \/ close_sys(t)
  <2>1. op' = op /\ active_dir' = active_dir
    BY <1>3 DEF filesys_open, file_reopen_sys, close_sys
  <2>2. pc'[t] # "step"
    BY <1>0, <1>3 DEF filesys_open, file_reopen_sys, close_sys
  <2>. QED BY <2>1, <2>2
<1>4. CASE RemoveLookup(t)
  <2>1. op'[t].work = op[t].work
    BY <1>0, <1>4 DEF RemoveLookup, Op
  <2>2. active_dir' = active_dir /\ pc'[t] # "step"
    BY <1>0, <1>4 DEF RemoveLookup
  <2>. QED BY <2>1, <2>2
<1>5. CASE Readdir(t) \/ RemoveCheck(t) \/ RemoveErase(t) \/ Add(t)
  <2>1. op' = op /\ active_dir' = active_dir
    BY <1>5 DEF Readdir, RemoveCheck, RemoveErase, Add
  <2>2. pc'[t] # "step"
    <3>1. CASE Readdir(t)
      BY <1>0, <3>1 DEF Readdir
    <3>2. CASE RemoveCheck(t) \/ RemoveErase(t)
      BY <1>0, <3>2 DEF RemoveCheck, RemoveErase
    <3>3. CASE Add(t)
      BY <3>3, AddEffect
    <3>. QED BY <1>5, <3>1, <3>2, <3>3
  <2>. QED BY <2>1, <2>2
<1>6. CASE CreateInode(t)
  <2>1. op'[t].work = op[t].work
    BY <1>0, <1>6 DEF CreateInode, Op
  <2>2. active_dir' = active_dir /\ pc'[t] # "step"
    BY <1>0, <1>6 DEF CreateInode
  <2>. QED BY <2>1, <2>2
<1>7. CASE dir_remove(t)
  <2>1. op'[t].work = op[t].work
    <3>1. op' = op \/ \E s, b : op' = [op EXCEPT ![t].next = s, ![t].is_dir = b]
      BY <1>7 DEF dir_remove
    <3>. QED BY <1>0, <3>1 DEF Op
  <2>2. active_dir' = active_dir /\ pc'[t] # "step"
    BY <1>0, <1>7 DEF dir_remove, Returned
  <2>. QED BY <2>1, <2>2
<1>8. CASE Stepped(t)
  <2>1. pc[t] = "step" /\ active_dir' = active_dir
    BY <1>8 DEF Stepped
  <2>2. CASE /\ op[t].is_dir /\ op' = [op EXCEPT ![t].work = op[t].next, ![t].next = NoSector]
             /\ Goto(t, "walk")
    <3>1. op'[t].work = op[t].next /\ pc'[t] # "step"
      BY <1>0, <2>2 DEF Op
    <3>. QED BY <2>1, <2>2, <3>1
  <2>3. CASE op' = [op EXCEPT ![t] = Idle] /\ Goto(t, "idle")
    <3>1. op'[t].work = NoSector /\ pc'[t] # "step"
      BY <1>0, <2>3, IdleType
    <3>. QED BY <2>1, <3>1
  <2>. QED BY <1>8, <2>2, <2>3 DEF Stepped
<1>9. CASE Leave(t)
  <2>1. op'[t] = Idle /\ active_dir' = active_dir /\ pc'[t] # "step"
    BY <1>0, <1>9 DEF Leave
  <2>. QED BY <2>1, IdleType
<1>10. CASE chdir(t)
  <2>1. op'[t] = Idle /\ active_dir'[t] = op[t].work /\ pc'[t] # "step"
    BY <1>0, <1>10 DEF chdir, Typed
  <2>. QED BY <2>1, IdleType
<1>11. CASE CloseDir(t) \/ Forget(t)
  <2>1. op'[t].work = op[t].work
    BY <1>0, <1>11 DEF CloseDir, Forget, Op
  <2>2. active_dir' = active_dir /\ pc'[t] # "step"
    BY <1>0, <1>11 DEF CloseDir, Forget
  <2>. QED BY <2>1, <2>2
<1>12. CASE RemoveRelease(t)
  <2>1. op'[t].work = op[t].work
    BY <1>0, <1>12 DEF RemoveRelease, Op
  <2>2. active_dir' = active_dir /\ pc'[t] # "step"
    BY <1>0, <1>12 DEF RemoveRelease, Returned
  <2>. QED BY <2>1, <2>2
<1>13. CASE thread_exit(t)
  <2>1. op' = op /\ active_dir'[t] = NoSector /\ pc'[t] # "step"
    BY <1>0, <1>13 DEF thread_exit, Typed
  <2>. QED BY <2>1
<1>. QED BY <1>1, <1>2, <1>3, <1>4, <1>5, <1>6, <1>7, <1>8, <1>9, <1>10, <1>11, <1>12, <1>13
         DEF Acts, Step

\* What a thread refers to is allocated.
LEMMA HeldUsed ==
  ASSUME CommonInv, UsedOK, NEW t \in Threads, NEW s \in Sectors, Refs(t, s) > 0
  PROVE  s \in used
<1>1. open_cnt[s] >= Refs(t, s) /\ Refs(t, s) \in Nat /\ open_cnt[s] \in Int
  BY Referenced, RefsParts DEF CommonInv, Typed
<1>2. open_cnt[s] > 0
  BY <1>1
<1>. QED BY <1>2 DEF UsedOK

\* Where a thread is, and what ".." leads to, stays in use.
LEMMA PlacesStay ==
  ASSUME CommonInv, IntactInv, NEW t \in Threads, Acts(t)
  PROVE  PlacesOK'
<1>0. /\ Typed /\ Locals /\ NamesOK /\ UsedOK /\ DirsOK /\ PlacesOK
  BY DEF CommonInv, NamesInv, IntactInv
<1>1. Own(t) /\ Locals' /\ Typed'
  BY <1>0, AnyStep
<1>2. ASSUME NEW s \in Sectors, s \in used, IsDir(s) PROVE IsDir(s)'
  BY <1>0, <1>2, KeepsDir
<1>3. ASSUME NEW u \in Threads
      PROVE  /\ op[u].work # NoSector => op[u].work \in used /\ IsDir(op[u].work)
             /\ active_dir[u] # NoSector => active_dir[u] \in used /\ IsDir(active_dir[u])
             /\ pc[u] = "step" /\ op[u].is_dir => op[u].next \in used /\ IsDir(op[u].next)
  <2>1. ASSUME op[u].work # NoSector PROVE op[u].work \in used /\ IsDir(op[u].work)
    <3>1. op[u].work \in Sectors
      BY <1>0, <2>1, LocalTypes
    <3>. QED BY <1>0, <2>1, <3>1, HeldUsed, RefsHeld DEF PlacesOK
  <2>2. ASSUME active_dir[u] # NoSector PROVE active_dir[u] \in used /\ IsDir(active_dir[u])
    <3>1. active_dir[u] \in Sectors
      BY <1>0, <2>2, LocalTypes
    <3>. QED BY <1>0, <2>2, <3>1, HeldUsed, RefsHeld DEF PlacesOK
  <2>3. ASSUME pc[u] = "step" /\ op[u].is_dir PROVE op[u].next \in used /\ IsDir(op[u].next)
    <3>1. op[u].next \in Sectors
      BY <1>0, <2>3, LocalTypes DEF Locals, LocalsOK
    <3>. QED BY <1>0, <2>3, <3>1, HeldUsed, RefsHeld DEF PlacesOK
  <2>. QED BY <2>1, <2>2, <2>3
<1>4. Root \in used /\ IsDir(Root) /\ used \subseteq Sectors
  BY <1>0 DEF NamesOK, IsDir, Typed
<1>. DEFINE Good(s) == s \in used /\ IsDir(s)
<1>5. ASSUME NEW s, Good(s) PROVE IsDir(s)'
  BY <1>2, <1>4, <1>5
<1>6. ASSUME NEW u \in Threads, u # t
      PROVE  /\ op'[u].work # NoSector => IsDir(op[u].work)'
             /\ active_dir'[u] # NoSector => IsDir(active_dir[u])'
             /\ pc'[u] = "step" /\ op'[u].is_dir => IsDir(op[u].next)'
  <2>1. op'[u] = op[u] /\ pc'[u] = pc[u] /\ active_dir'[u] = active_dir[u]
    BY <1>1, <1>6 DEF Own
  <2>2. PICK w, a, n : w = op[u].work /\ a = active_dir[u] /\ n = op[u].next
    OBVIOUS
  <2>3. /\ w # NoSector => Good(w)
        /\ a # NoSector => Good(a)
        /\ pc[u] = "step" /\ op[u].is_dir => Good(n)
    BY <1>3, <2>2
  <2>4. /\ w # NoSector => IsDir(w)'
        /\ a # NoSector => IsDir(a)'
        /\ pc[u] = "step" /\ op[u].is_dir => IsDir(n)'
    BY <1>5, <2>3
  <2>. QED BY <2>1, <2>2, <2>4 DEF IsDir
<1>7. PICK w, a, n : w = op'[t].work /\ a = active_dir'[t] /\ n = op'[t].next
  OBVIOUS
<1>8. w # NoSector => Good(w)
  <2>1. \/ w \in {op[t].work, NoSector, Root, active_dir[t]}
        \/ pc[t] = "step" /\ op[t].is_dir /\ w = op[t].next
    BY <1>0, <1>7, PlacesEffect
  <2>. QED BY <1>3, <1>4, <2>1
<1>9. a # NoSector => Good(a)
  <2>1. a \in {active_dir[t], op[t].work, NoSector}
    BY <1>0, <1>7, PlacesEffect
  <2>. QED BY <1>3, <2>1
<1>10. ASSUME pc'[t] = "step" /\ op'[t].is_dir PROVE Good(n)
  <2>1. /\ pc[t] # "release" /\ op[t].work \in Sectors
        /\ \/ n \in {Root, op[t].work}
           \/ op[t].work # Root /\ n = parent[op[t].work]
           \/ \E e \in entries[op[t].work] : e.is_dir /\ n = e.inode_sector
    BY <1>0, <1>7, <1>10, PlacesEffect
  <2>2. CASE n \in {Root, op[t].work}
    BY <1>3, <1>4, <2>1, <2>2, Names
  <2>3. CASE op[t].work # Root /\ n = parent[op[t].work]
    BY <2>1, <2>3, ParentFacts
  <2>4. CASE \E e \in entries[op[t].work] : e.is_dir /\ n = e.inode_sector
    BY <1>0, <2>1, <2>4 DEF DirsOK, NamesOK
  <2>. QED BY <2>1, <2>2, <2>3, <2>4
<1>11. /\ w # NoSector => IsDir(w)'
       /\ a # NoSector => IsDir(a)'
       /\ pc'[t] = "step" /\ op'[t].is_dir => IsDir(n)'
  BY <1>5, <1>8, <1>9, <1>10
<1>12. ASSUME NEW u \in Threads
       PROVE  /\ op'[u].work # NoSector => IsDir(op[u].work)'
              /\ active_dir'[u] # NoSector => IsDir(active_dir[u])'
              /\ pc'[u] = "step" /\ op'[u].is_dir => IsDir(op[u].next)'
  <2>1. CASE u = t
    BY <1>7, <1>11, <2>1 DEF IsDir
  <2>. QED BY <1>6, <2>1
<1>. QED BY <1>12 DEF PlacesOK

\* Entries only go when the thread that holds the directory erases them.
LEMMA EntriesKept ==
  ASSUME CommonInv, IntactInv, NEW t \in Threads, Acts(t), NEW d \in Sectors,
         ~ (RemoveErase(t) /\ d = op[t].work)
  PROVE  entries[d] \subseteq entries'[d]
<1>0. /\ Typed /\ Locals /\ removed \subseteq used
  BY DEF CommonInv, NamesInv, NamesOK
<1>1. CASE Plain(t) \/ Chosen(t) \/ RemoveCheck(t)
  BY <1>0, <1>1, ChosenEffect, CheckEffect DEF Plain
<1>2. CASE Created(t)
  <2>1. PICK s \in Sectors \ used : entries' = [entries EXCEPT ![s] = {}]
    BY <1>0, <1>2, CreatedEffect
  <2>2. entries[s] = {}
    BY <2>1 DEF IntactInv, DirsOK
  <2>. QED BY <1>0, <2>1, <2>2 DEF Typed
<1>3. CASE Add(t)
  <2>1. /\ op[t].work \in Sectors
        /\ \/ \E e : entries' = [entries EXCEPT ![op[t].work] = @ \cup {e}]
           \/ entries' = entries
    BY <1>0, <1>3, AddEffect
  <2>. QED BY <1>0, <2>1 DEF Typed
<1>4. CASE RemoveErase(t)
  BY <1>0, <1>4, EraseEffect
<1>. QED BY <1>0, <1>1, <1>2, <1>3, <1>4, Classes

\* No entry is added to a directory by a thread that does not refer to it.
LEMMA EntriesAdded ==
  ASSUME CommonInv, NEW t \in Threads, Acts(t), NEW d \in Sectors, Refs(t, d) = 0
  PROVE  entries'[d] \subseteq entries[d]
<1>0. /\ Typed /\ Locals /\ removed \subseteq used
  BY DEF CommonInv, NamesInv, NamesOK
<1>1. CASE Plain(t) \/ Chosen(t) \/ RemoveCheck(t)
  BY <1>0, <1>1, ChosenEffect, CheckEffect DEF Plain
<1>2. CASE Created(t)
  <2>1. PICK s \in Sectors \ used : entries' = [entries EXCEPT ![s] = {}]
    BY <1>0, <1>2, CreatedEffect
  <2>. QED BY <1>0, <2>1 DEF Typed
<1>3. CASE Add(t)
  <2>1. /\ op[t].work \in Sectors
        /\ \/ \E e : entries' = [entries EXCEPT ![op[t].work] = @ \cup {e}]
           \/ entries' = entries
    BY <1>0, <1>3, AddEffect
  <2>2. op[t].work # d
    BY <1>0, RefsHeld
  <2>. QED BY <1>0, <2>1, <2>2 DEF Typed
<1>4. CASE RemoveErase(t)
  BY <1>0, <1>4, EraseEffect
<1>. QED BY <1>0, <1>1, <1>2, <1>3, <1>4, Classes

\* The thread that removes a directory lets go of it with the lock.
LEMMA ReleaseRefs ==
  ASSUME CommonInv, NEW t \in Threads, Acts(t), pc[t] = "release",
         NEW s \in Sectors, op[t].next = s, Refs(t, s) = 1
  PROVE  Refs(t, s)' = 0
<1>0. Typed /\ Locals
  BY DEF CommonInv
<1>1. RemoveRelease(t)
  <2>1. CASE Begin(t) \/ close_sys(t) \/ file_reopen_sys(t) \/ thread_exit(t)
    BY <2>1 DEF Begin, close_sys, file_reopen_sys, thread_exit
  <2>2. CASE Walk(t) \/ Stepped(t) \/ Leave(t) \/ Add(t)
    BY <2>2 DEF Walk, Stepped, Leave, Add
  <2>3. CASE CreateInode(t) \/ filesys_open(t) \/ chdir(t) \/ RemoveLookup(t)
    BY <2>3 DEF filesys_open, chdir, RemoveLookup, CreateInode, Arrived
  <2>4. CASE Readdir(t) \/ CloseDir(t) \/ Forget(t) \/ dir_remove(t)
    BY <2>4 DEF CloseDir, Forget, Readdir, dir_remove
  <2>5. CASE RemoveCheck(t) \/ RemoveErase(t)
    BY <2>5 DEF RemoveCheck, RemoveErase
  <2>. QED BY <2>1, <2>2, <2>3, <2>4, <2>5 DEF Acts, Step
<1>2. Close(s)
  BY <1>1 DEF RemoveRelease
<1>3. open_cnt'[s] = open_cnt[s] - Once(s = s)
  BY <1>0, <1>2, CloseEffect
<1>4. open_cnt'[s] = open_cnt[s] - 1 /\ open_cnt[s] \in Int
  BY <1>0, <1>3 DEF Once, Typed
<1>5. open_cnt'[s] - Refs(t, s)' >= open_cnt[s] - Refs(t, s)
  BY <1>0, AnyStep
<1>6. Refs(t, s)' \in Nat
  BY RefsGrow
<1>. QED BY <1>4, <1>5, <1>6

\* A directory that is marked has no user but its remover.
LEMMA StayStays ==
  ASSUME CommonInv, IntactInv, NEW t \in Threads, Acts(t), "nonempty" \notin past'
  PROVE  StayOK'
<1>0. /\ Typed /\ Locals /\ NamesOK /\ ComingOK /\ VictimsOK /\ removed \subseteq used
      /\ UsedOK /\ DirsOK /\ StayOK
  BY DEF CommonInv, NamesInv, NamesOK, IntactInv
<1>1. Own(t)
  BY <1>0, AnyStep
<1>2. \A u \in Threads \ {t} : op'[u] = op[u] /\ pc'[u] = pc[u]
  BY <1>1 DEF Own
<1>3. \/ Plain(t) \/ Created(t) \/ Add(t) \/ Chosen(t) \/ RemoveCheck(t) \/ RemoveErase(t)
  BY <1>0, Classes
<1>4. \A s \in Sectors : \A u \in Threads : Refs(u, s) \in Nat
  BY <1>0, RefsParts
<1>5. removed' \subseteq removed \/ RemoveErase(t)
  BY <1>0, <1>3, CreatedEffect, AddEffect, ChosenEffect, CheckEffect DEF Plain
<1>6. ASSUME NEW s \in removed', IsDir(s)', NEW u \in Threads, Refs(u, s)' > 0
      PROVE  pc'[u] = "release" /\ op'[u].next = s /\ Refs(u, s)' = 1
  <2>1. CASE s \in removed
    <3>1. s \in Sectors /\ s \in used
      BY <1>0, <2>1 DEF Typed
    <3>2. ~ (pc[t] = "add" /\ s = op[t].inode)
      BY <1>0, <2>1 DEF ComingOK
    <3>3. IsDir(s)
      BY <1>0, <1>6, <3>1, <3>2, KeepsDir
    <3>4. \A v \in Threads : Refs(v, s) > 0 =>
             pc[v] = "release" /\ op[v].next = s /\ Refs(v, s) = 1
      BY <1>0, <2>1, <3>3 DEF StayOK
    <3>5. CASE u # t
      <4>1. Refs(u, s)' = Refs(u, s)
        BY <3>1, <3>5, RefsGrow
      <4>. QED BY <1>2, <1>6, <3>4, <3>5, <4>1
    <3>6. CASE u = t /\ pc[t] = "release"
      <4>1. CASE Refs(t, s) > 0
        <5>1. Refs(t, s)' = 0
          BY <3>1, <3>4, <3>6, <4>1, ReleaseRefs
        <5>. QED BY <1>6, <3>6, <5>1
      <4>2. CASE ~ (Refs(t, s) > 0)
        <5>1. ~ (Refs(t, s)' > Refs(t, s)) /\ Refs(t, s)' \in Nat
          BY <3>1, <3>6, RefsGrow
        <5>. QED BY <1>4, <1>6, <3>1, <3>6, <4>2, <5>1
      <4>. QED BY <4>1, <4>2
    <3>7. CASE u = t /\ pc[t] # "release"
      <4>1. ~ (Refs(t, s) > 0)
        BY <3>4, <3>7
      <4>2. Refs(t, s)' \in Nat /\ (Refs(t, s)' > Refs(t, s) => Opened(t, s))
        BY <3>1, RefsGrow
      <4>3. Opened(t, s)
        BY <1>4, <1>6, <3>1, <3>7, <4>1, <4>2
      <4>. QED BY <2>1, <3>1, <3>3, <3>7, <4>3, OpenedFacts
    <3>. QED BY <3>5, <3>6, <3>7
  <2>2. CASE s \notin removed
    <3>1. RemoveErase(t)
      BY <1>5, <1>6, <2>2
    <3>2. /\ pc[t] = "erase" /\ pc'[t] = "release" /\ s = op[t].next
          /\ UNCHANGED <<parent, op, active_dir, open_files>>
      BY <1>0, <1>6, <2>2, <3>1, EraseEffect
    <3>3. s \in Sectors
      BY <1>0, <3>2, OneRemover DEF Removing
    <3>4. op[t].is_dir = IsDir(s) /\ IsDir(s)' = IsDir(s)
      BY <1>0, <3>2 DEF StayOK, IsDir
    <3>5. Refs(t, s) = 1 /\ \A v \in Threads \ {t} : Refs(v, s) = 0
      BY <1>0, <1>6, <3>2, <3>4 DEF StayOK
    <3>6. Refs(u, s)' = Refs(u, s)
      BY <3>2 DEF Refs, FilesAt, DirsAt
    <3>7. u = t
      BY <1>6, <3>5, <3>6
    <3>. QED BY <3>2, <3>5, <3>6, <3>7
  <2>. QED BY <2>1, <2>2
<1>7. ASSUME NEW u \in Threads, pc'[u] \in {"check", "erase"}
      PROVE  /\ op'[u].is_dir = IsDir(op[u].next)'
             /\ \E e \in entries'[op'[u].work] :
                  e.name = op'[u].name /\ e.inode_sector = op'[u].next
  <2>1. CASE pc[u] \in {"check", "erase"} /\ op'[u] = op[u] /\ ~ (u = t /\ RemoveErase(t))
    <3>1. PICK n \in Sectors, w \in Sectors : n = op[u].next /\ w = op[u].work
      BY <1>0, <2>1, OneRemover DEF Removing
    <3>2. n \in used /\ \A v \in Threads : pc[v] = "add" => op[v].inode # n
      BY <1>0, <2>1, <3>1 DEF VictimsOK
    <3>3. IsDir(n)' = IsDir(n)
      BY <1>0, <3>2, KeepsDir
    <3>4. op[u].is_dir = IsDir(n)
      BY <1>0, <2>1, <3>1 DEF StayOK
    <3>5. IsDir(op[u].next)' = IsDir(n)'
      BY <2>1, <3>1 DEF IsDir
    <3>6. PICK e \in entries[w] : e.name = op[u].name /\ e.inode_sector = n
      BY <1>0, <2>1, <3>1 DEF StayOK
    <3>7. ~ (RemoveErase(t) /\ w = op[t].work)
      <4>1. wlock[w] = u
        BY <1>0, <2>1, <3>1, OneRemover DEF Removing
      <4>2. RemoveErase(t) => wlock[op[t].work] = t
        BY <1>0, OneRemover DEF Removing, RemoveErase
      <4>. QED BY <2>1, <4>1, <4>2
    <3>8. e \in entries'[w]
      BY <3>6, <3>7, EntriesKept
    <3>. QED BY <2>1, <3>1, <3>3, <3>4, <3>5, <3>6, <3>8
  <2>2. CASE u # t
    BY <1>2, <1>7, <2>1, <2>2
  <2>3. CASE u = t
    <3>1. Chosen(t) \/ RemoveCheck(t)
      BY <1>0, <1>3, <1>7, <2>3, CreatedEffect, AddEffect, EraseEffect DEF Plain
    <3>2. CASE RemoveCheck(t)
      <4>1. pc[t] = "check" /\ op' = op
        BY <1>0, <3>2, CheckEffect
      <4>2. ~ RemoveErase(t)
        BY <4>1 DEF RemoveErase
      <4>. QED BY <2>1, <2>3, <4>1, <4>2
    <3>3. CASE Chosen(t)
      <4>1. /\ op[t].work \in Sectors /\ entries' = entries /\ parent' = parent
        BY <1>0, <3>3, ChosenEffect
      <4>2. PICK e \in entries[op[t].work] :
              /\ e.name = op[t].name /\ e.inode_sector \in Sectors
              /\ op'[t].next = e.inode_sector /\ op'[t].is_dir = e.is_dir
              /\ op'[t].work = op[t].work /\ op'[t].name = op[t].name
        BY <1>0, <3>3, ChosenEffect
      <4>3. e.is_dir = IsDir(e.inode_sector)
        BY <1>0, <4>1, <4>2 DEF DirsOK
      <4>4. IsDir(op[t].next)' = IsDir(e.inode_sector)
        BY <4>1, <4>2 DEF IsDir
      <4>. QED BY <2>3, <4>1, <4>2, <4>3, <4>4
    <3>. QED BY <3>1, <3>2, <3>3
  <2>. QED BY <2>2, <2>3
<1>8. ASSUME NEW u \in Threads, pc'[u] = "erase" /\ op'[u].is_dir
      PROVE  /\ entries'[op'[u].next] = {} /\ Refs(u, op[u].next)' = 1
             /\ \A v \in Threads \ {u} : Refs(v, op[u].next)' = 0
  <2>1. CASE u # t
    <3>1. op'[u] = op[u] /\ pc[u] = "erase" /\ op[u].is_dir
      BY <1>2, <1>8, <2>1
    <3>2. PICK s \in Sectors : s = op[u].next
      BY <1>0, <3>1, OneRemover DEF Removing
    <3>3. /\ entries[s] = {} /\ Refs(u, s) = 1
          /\ \A v \in Threads \ {u} : Refs(v, s) = 0
      BY <1>0, <3>1, <3>2 DEF StayOK
    <3>4. entries'[s] = {}
      BY <2>1, <3>3, EntriesAdded
    <3>5. \A v \in Threads \ {t} : Refs(v, s)' = Refs(v, s)
      BY RefsGrow
    <3>6. Refs(t, s)' = 0
      <4>1. Refs(t, s) = 0
        BY <2>1, <3>3
      <4>2. Refs(t, s)' \in Nat
            /\ (Refs(t, s)' > Refs(t, s) => pc[t] # "release" /\ Opened(t, s))
        BY RefsGrow
      <4>3. ~ (pc[t] # "release" /\ Opened(t, s))
        BY <2>1, <3>1, <3>2, OpenedFacts
      <4>. QED BY <4>1, <4>2, <4>3
    <3>7. ASSUME NEW v \in Threads PROVE Refs(v, op[u].next)' = Refs(v, s)'
      BY <3>1, <3>2 DEF Refs, FilesAt, DirsAt
    <3>8. Refs(u, s)' = 1
      BY <2>1, <3>3, <3>5
    <3>9. \A v \in Threads \ {u} : Refs(v, s)' = 0
      BY <3>3, <3>5, <3>6
    <3>. QED BY <3>1, <3>2, <3>4, <3>7, <3>8, <3>9
  <2>2. CASE u = t
    <3>1. RemoveCheck(t)
      BY <1>0, <1>3, <1>8, <2>2, CreatedEffect, AddEffect, ChosenEffect, EraseEffect DEF Plain
    <3>2. /\ pc[t] = "check" /\ pc'[t] = "erase" /\ op[t].is_dir
          /\ UNCHANGED <<entries, op, active_dir, open_files>>
          /\ ~ (open_cnt[op[t].next] > 1)
          /\ ~ (entries[op[t].next] # {})
      BY <1>0, <1>8, <2>2, <3>1, CheckEffect
    <3>3. PICK s \in Sectors : s = op[t].next
      BY <1>0, <3>2, OneRemover DEF Removing
    <3>4. Refs(t, s) > 0
      BY <1>0, <3>3, RefsHeld
    <3>5. open_cnt[s] >= Refs(t, s) /\ open_cnt[s] \in Int
      BY Referenced DEF CommonInv, Typed
    <3>6. Refs(t, s) = 1
      BY <1>4, <3>2, <3>3, <3>4, <3>5
    <3>7. ASSUME NEW v \in Threads \ {t} PROVE Refs(v, s) = 0
      <4>1. open_cnt[s] >= Refs(t, s) + Refs(v, s)
        BY Referenced DEF CommonInv
      <4>2. Refs(v, s) \in Nat
        BY <1>4
      <4>. QED BY <3>2, <3>3, <3>5, <3>6, <4>1, <4>2
    <3>8. ASSUME NEW v \in Threads PROVE Refs(v, op[u].next)' = Refs(v, s)
      BY <2>2, <3>2, <3>3 DEF Refs, FilesAt, DirsAt
    <3>. QED BY <2>2, <3>2, <3>3, <3>6, <3>7, <3>8
  <2>. QED BY <2>1, <2>2
<1>. QED BY <1>6, <1>7, <1>8 DEF StayOK

\* What is among all entries.
LEMMA AllHas ==
  ASSUME NEW F
  PROVE  /\ \A d, e : <<d, e>> \in All(F) <=> d \in Sectors /\ e \in F[d]
         /\ \A x \in All(F) : \E d, e : x = <<d, e>>
<1>1. ASSUME NEW x \in All(F) PROVE \E d, e : x = <<d, e>>
  <2>1. PICK d \in Sectors : x \in {d} \X F[d]
    BY DEF All
  <2>. QED BY <2>1
<1>. QED BY <1>1 DEF All

\* One entry more.
LEMMA AllMore ==
  ASSUME NEW F \in [Sectors -> SUBSET Entry], NEW G \in [Sectors -> SUBSET Entry],
         NEW w \in Sectors, NEW n,
         \A d \in Sectors \ {w} : G[d] = F[d],
         G[w] = F[w] \cup {n}
  PROVE  All(G) = All(F) \cup {<<w, n>>}
<1>1. ASSUME NEW d, NEW e
      PROVE  /\ <<d, e>> \in All(G) <=> d \in Sectors /\ e \in G[d]
             /\ <<d, e>> \in All(F) <=> d \in Sectors /\ e \in F[d]
  BY AllHas
<1>2. ASSUME NEW x PROVE x \in All(G) <=> x \in All(F) \cup {<<w, n>>}
  <2>1. CASE \E d, e : x = <<d, e>>
    <3>1. PICK d, e : x = <<d, e>>
      BY <2>1
    <3>2. d \in Sectors => (e \in G[d] <=> e \in F[d] \/ (d = w /\ e = n))
      OBVIOUS
    <3>3. x = <<w, n>> <=> d = w /\ e = n
      BY <3>1
    <3>. QED BY <1>1, <3>1, <3>2, <3>3
  <2>2. CASE ~ \E d, e : x = <<d, e>>
    BY <2>2, AllHas
  <2>. QED BY <2>1, <2>2
<1>. QED BY <1>2

\* One entry less.
LEMMA AllLess ==
  ASSUME NEW F \in [Sectors -> SUBSET Entry], NEW G \in [Sectors -> SUBSET Entry],
         NEW w \in Sectors, NEW n,
         \A d \in Sectors \ {w} : G[d] = F[d],
         G[w] = F[w] \ {n}
  PROVE  All(G) = All(F) \ {<<w, n>>}
<1>1. ASSUME NEW d, NEW e
      PROVE  /\ <<d, e>> \in All(G) <=> d \in Sectors /\ e \in G[d]
             /\ <<d, e>> \in All(F) <=> d \in Sectors /\ e \in F[d]
  BY AllHas
<1>2. ASSUME NEW x PROVE x \in All(G) <=> x \in All(F) \ {<<w, n>>}
  <2>1. CASE \E d, e : x = <<d, e>>
    <3>1. PICK d, e : x = <<d, e>>
      BY <2>1
    <3>2. d \in Sectors => (e \in G[d] <=> e \in F[d] /\ ~ (d = w /\ e = n))
      OBVIOUS
    <3>3. x = <<w, n>> <=> d = w /\ e = n
      BY <3>1
    <3>. QED BY <1>1, <3>1, <3>2, <3>3
  <2>2. CASE ~ \E d, e : x = <<d, e>>
    BY <2>2, AllHas
  <2>. QED BY <2>1, <2>2
<1>. QED BY <1>2

\* Every success adds or takes away one entry.
LEMMA BalanceStays ==
  ASSUME CommonInv, IntactInv, NEW t \in Threads, Acts(t)
  PROVE  BalanceOK'
<1>0. /\ Typed /\ Locals /\ NamesOK /\ removed \subseteq used
      /\ DirsOK /\ StayOK /\ BalanceOK
  BY DEF CommonInv, NamesInv, NamesOK, IntactInv
<1>1. \/ Plain(t) \/ Created(t) \/ Add(t) \/ Chosen(t) \/ RemoveCheck(t) \/ RemoveErase(t)
  BY <1>0, Classes
<1>2. IsFiniteSet(Listing) /\ balance = Cardinality(Listing) /\ Cardinality(Listing) \in Nat
  BY <1>0, FS_CardinalityType DEF BalanceOK
<1>3. ASSUME entries' = entries, balance' = balance PROVE BalanceOK'
  <2>1. Listing' = Listing
    BY <1>3 DEF Listing
  <2>. QED BY <1>2, <1>3, <2>1 DEF BalanceOK
<1>4. CASE Plain(t) \/ Chosen(t) \/ RemoveCheck(t)
  BY <1>0, <1>3, <1>4, ChosenEffect, CheckEffect DEF Plain
<1>5. CASE Created(t)
  <2>1. PICK s \in Sectors \ used : entries' = [entries EXCEPT ![s] = {}] /\ balance' = balance
    BY <1>0, <1>5, CreatedEffect
  <2>2. entries[s] = {}
    BY <1>0, <2>1 DEF DirsOK
  <2>3. entries' = entries
    BY <1>0, <2>1, <2>2 DEF Typed
  <2>. QED BY <1>3, <2>1, <2>3
<1>6. CASE Add(t)
  <2>1. op[t].work \in Sectors
    BY <1>0, <1>6, AddEffect
  <2>2. CASE UNCHANGED <<entries, balance>>
    BY <1>3, <2>2
  <2>3. CASE ~ UNCHANGED <<entries, balance>>
    <3>1. PICK n \in Entry :
            /\ \A f \in entries[op[t].work] : f.name # n.name
            /\ entries' = [entries EXCEPT ![op[t].work] = @ \cup {n}]
            /\ balance' = balance + 1
      BY <1>0, <1>6, <2>3, AddEffect
    <3>2. PICK w \in Sectors : w = op[t].work
      BY <2>1
    <3>3. \A d \in Sectors \ {w} : entries'[d] = entries[d]
      BY <1>0, <3>1, <3>2 DEF Typed
    <3>4. Listing' = Listing \cup {<<w, n>>}
      <4>1. entries'[w] = entries[w] \cup {n}
        BY <1>0, <3>1, <3>2 DEF Typed
      <4>2. All(entries') = All(entries) \cup {<<w, n>>}
        <5>1. Typed'
          BY <1>0, AnyStep
        <5>2. /\ entries \in [Sectors -> SUBSET Entry]
              /\ entries' \in [Sectors -> SUBSET Entry]
          BY <1>0, <5>1 DEF Typed
        <5>. QED BY <3>3, <4>1, <5>2, AllMore
      <4>. QED BY <4>2 DEF Listing
    <3>5. <<w, n>> \notin Listing
      BY <3>1, <3>2, AllHas DEF Listing
    <3>6. /\ IsFiniteSet(Listing \cup {<<w, n>>})
          /\ Cardinality(Listing \cup {<<w, n>>}) = Cardinality(Listing) + 1
      BY <1>2, <3>5, FS_AddElement
    <3>. QED BY <1>2, <3>1, <3>4, <3>6 DEF BalanceOK
  <2>. QED BY <2>2, <2>3
<1>7. CASE RemoveErase(t)
  <2>1. /\ pc[t] = "erase" /\ op[t].work \in Sectors
        /\ \A d \in Sectors \ {op[t].work} : entries'[d] = entries[d]
        /\ \A e : e \in entries'[op[t].work] <=>
                     e \in entries[op[t].work] /\ e.name # op[t].name
        /\ balance' = balance - 1
    BY <1>0, <1>7, EraseEffect
  <2>2. PICK f \in entries[op[t].work] : f.name = op[t].name
    BY <1>0, <2>1 DEF StayOK
  <2>3. PICK w \in Sectors : w = op[t].work
    BY <2>1
  <2>4. \A e \in entries[w] : e.name = f.name => e = f
    BY <1>0, <2>2, <2>3 DEF NamesOK
  <2>5. entries'[w] = entries[w] \ {f} /\ \A d \in Sectors \ {w} : entries'[d] = entries[d]
    BY <2>1, <2>2, <2>3, <2>4
  <2>6. Listing' = Listing \ {<<w, f>>}
    <3>1. All(entries') = All(entries) \ {<<w, f>>}
      <4>1. Typed'
        BY <1>0, AnyStep
      <4>2. /\ entries \in [Sectors -> SUBSET Entry]
            /\ entries' \in [Sectors -> SUBSET Entry]
        BY <1>0, <4>1 DEF Typed
      <4>. QED BY <2>5, <4>2, AllLess
    <3>. QED BY <3>1 DEF Listing
  <2>7. <<w, f>> \in Listing
    BY <2>2, <2>3, AllHas DEF Listing
  <2>8. /\ IsFiniteSet(Listing \ {<<w, f>>})
        /\ Cardinality(Listing \ {<<w, f>>}) = Cardinality(Listing) - 1
    BY <1>2, <2>7, FS_RemoveElement
  <2>. QED BY <1>2, <2>1, <2>6, <2>8 DEF BalanceOK
<1>. QED BY <1>1, <1>4, <1>5, <1>6, <1>7

-----------------------------------------------------------------------------
\* The theorems.

Inv == TypeOK /\ CommonInv /\ (Intact => IntactInv)

\* At the start every process is in the root, and there is nothing else.
LEMMA InitCounts ==
  ASSUME Init
  PROVE  Typed /\ Locals /\ ReferencesCounted /\ TypeOK
<1>1. IsFiniteSet(Threads) /\ Cardinality(Threads) \in Nat
  BY DirectoryAssumption, FS_CardinalityType
<1>2. TypeOK
  <2>1. /\ used \subseteq Sectors /\ removed \subseteq Sectors
        /\ entries \in [Sectors -> SUBSET Entry]
        /\ parent \in [Sectors -> Sectors \cup {NoSector}]
        /\ wlock \in [Sectors -> Threads \cup {NoThread}]
        /\ active_dir \in [Threads -> Sectors \cup {NoSector}]
        /\ past \subseteq Events
    BY Names DEF Init
  <2>2. open_cnt \in [Sectors -> Nat]
    BY <1>1 DEF Init
  <2>3. pc \in [Threads -> PC] /\ op \in [Threads -> Op]
    BY IdleType DEF Init, PC
  <2>4. open_files \in [Threads -> [Descriptors -> Nat]]
    BY DEF Init
  <2>5. calls \in 0 .. MaxCalls
    BY DirectoryAssumption DEF Init
  <2>. QED BY <2>1, <2>2, <2>3, <2>4, <2>5 DEF TypeOK
<1>3. Typed
  BY <1>2 DEF Typed, TypeOK
<1>4. Locals
  <2>1. ASSUME NEW t \in Threads PROVE LocalsOK(t)
    <3>1. pc[t] = "idle" /\ op[t] = Idle /\ active_dir[t] = Root
      BY DEF Init
    <3>. QED BY <3>1, IdleType, Names DEF LocalsOK, Removing, Choosing
  <2>. QED BY <2>1 DEF Locals
<1>5. ASSUME NEW s \in Sectors PROVE open_cnt[s] = Cardinality(References(s))
  <2>1. ASSUME NEW t \in Threads PROVE Refs(t, s) = Once(s = Root)
    <3>1. op[t] = Idle /\ active_dir[t] = Root /\ s # NoSector
      BY Names DEF Init
    <3>2. FilesAt(t, s) = 0 /\ DirsAt(t, s) = 0
      BY DEF Init, FilesAt, DirsAt, Descriptors
    <3>. QED BY <3>1, <3>2, IdleType DEF Refs, Once
  <2>2. CASE s = Root
    <3>1. IsFiniteSet({1}) /\ Cardinality({1}) = 1
      BY FS_Singleton
    <3>2. Cardinality(Threads \X {1}) = Cardinality(Threads) * 1
      BY <1>1, <3>1, FS_Product
    <3>3. \A t \in Threads : 1 .. Refs(t, s) = {1}
      BY <2>1, <2>2 DEF Once
    <3>4. References(s) = Threads \X {1}
      <4>1. ASSUME NEW x \in References(s) PROVE x \in Threads \X {1}
        <5>1. PICK t \in Threads : x \in {t} \X (1 .. Refs(t, s))
          BY DEF References
        <5>. QED BY <3>3, <5>1
      <4>2. ASSUME NEW x \in Threads \X {1} PROVE x \in References(s)
        <5>1. PICK t \in Threads : x \in {t} \X {1}
          OBVIOUS
        <5>. QED BY <3>3, <5>1 DEF References
      <4>. QED BY <4>1, <4>2
    <3>5. open_cnt[s] = Cardinality(Threads)
      BY <2>2 DEF Init
    <3>. QED BY <1>1, <3>2, <3>4, <3>5
  <2>3. CASE s # Root
    <3>1. \A t \in Threads : 1 .. Refs(t, s) = {}
      BY <2>1, <2>3 DEF Once
    <3>2. References(s) = {}
      <4>1. ASSUME NEW x \in References(s) PROVE FALSE
        <5>1. PICK t \in Threads : x \in {t} \X (1 .. Refs(t, s))
          BY DEF References
        <5>. QED BY <3>1, <5>1
      <4>. QED BY <4>1
    <3>3. open_cnt[s] = 0
      BY <2>3 DEF Init
    <3>. QED BY <3>2, <3>3, FS_EmptySet
  <2>. QED BY <2>2, <2>3
<1>6. ReferencesCounted
  <2>1. ASSUME NEW s \in Sectors
        PROVE  /\ open_cnt[s] >= Cardinality(References(s))
               /\ "leaked" \notin past => open_cnt[s] = Cardinality(References(s))
    <3>1. open_cnt[s] \in Int
      BY <1>3 DEF Typed
    <3>. QED BY <1>5, <3>1
  <2>. QED BY <2>1 DEF ReferencesCounted
<1>. QED BY <1>2, <1>3, <1>4, <1>6

\* The invariant holds when every process is in the root directory.
LEMMA InitInv == Init => Inv
<1>. SUFFICES ASSUME Init PROVE Inv
  OBVIOUS
<1>1. Typed /\ Locals /\ ReferencesCounted /\ TypeOK
  BY InitCounts
<1>2. /\ used = {Root} /\ removed = {} /\ past = {} /\ balance = 0
      /\ \A s \in Sectors : entries[s] = {}
      /\ \A t \in Threads : pc[t] = "idle" /\ op[t] = Idle /\ active_dir[t] = Root
      /\ \A s \in Sectors : open_cnt[s] > 0 => s = Root
  BY DEF Init
<1>3. NamesInv
  BY <1>2, Names DEF NamesInv, NamesOK, ComingOK, VictimsOK
<1>4. UsedOK
  BY <1>2 DEF UsedOK
<1>5. DirsOK
  BY <1>2 DEF DirsOK
<1>6. PlacesOK
  BY <1>2, IdleType DEF PlacesOK, IsDir
<1>7. StayOK
  BY <1>2 DEF StayOK
<1>8. BalanceOK
  <2>1. Listing = {}
    <3>1. ASSUME NEW x \in Listing PROVE FALSE
      <4>1. PICK d \in Sectors : x \in {d} \X entries[d]
        BY DEF Listing, All
      <4>. QED BY <1>2, <4>1
    <3>. QED BY <3>1
  <2>. QED BY <1>2, <2>1, FS_EmptySet DEF BalanceOK
<1>. QED BY <1>1, <1>3, <1>4, <1>5, <1>6, <1>7, <1>8 DEF Inv, CommonInv, IntactInv

\* Every step of a thread keeps the invariant.
LEMMA ActsInv ==
  ASSUME Inv, NEW t \in Threads, Acts(t)
  PROVE  Inv'
<1>1. CommonInv
  BY DEF Inv
<1>2. Typed' /\ Locals' /\ ReferencesCounted' /\ NamesInv'
  BY <1>1, CountsStay, NamesStay DEF CommonInv
<1>3. \A s \in Sectors : open_cnt'[s] >= 0
  BY <1>1, CountsStay DEF CommonInv
<1>4. TypeOK'
  <2>1. open_cnt' \in [Sectors -> Nat]
    BY <1>2, <1>3 DEF Typed
  <2>. QED BY <1>2, <2>1 DEF Typed, TypeOK
<1>5. ASSUME Intact' PROVE IntactInv'
  <2>1. "nonempty" \notin past'
    BY <1>5 DEF Intact
  <2>2. IntactInv
    BY <2>1, PastGrows DEF Inv, Intact
  <2>. QED BY <1>1, <2>1, <2>2, UsedStays, DirsStay, PlacesStay, StayStays, BalanceStays
           DEF IntactInv
<1>. QED BY <1>2, <1>4, <1>5 DEF Inv, CommonInv

\* Nothing changes if no thread acts.
LEMMA StutterInv ==
  ASSUME Inv, UNCHANGED vars
  PROVE  Inv'
<1>1. /\ UNCHANGED <<used, entries, parent, open_cnt, removed, wlock>>
      /\ UNCHANGED <<pc, op, active_dir, open_files, calls, balance, past>>
  BY DEF vars
<1>2. TypeOK' /\ Typed'
  BY <1>1 DEF Inv, CommonInv, TypeOK, Typed
<1>3. Locals'
  BY <1>1 DEF Inv, CommonInv, Locals, LocalsOK
<1>4. \A s \in Sectors : \A t \in Threads : Refs(t, s)' = Refs(t, s)
  BY <1>1 DEF Refs, FilesAt, DirsAt
<1>5. \A s \in Sectors : References(s)' = References(s)
  BY <1>4 DEF References
<1>6. ReferencesCounted'
  BY <1>1, <1>5 DEF Inv, CommonInv, ReferencesCounted
<1>7. NamesInv'
  BY <1>1 DEF Inv, CommonInv, NamesInv, NamesOK, ComingOK, VictimsOK
<1>8. ASSUME Intact' PROVE IntactInv'
  <2>1. IntactInv
    BY <1>1, <1>8 DEF Inv, Intact
  <2>2. \A s : IsDir(s)' = IsDir(s)
    BY <1>1 DEF IsDir
  <2>3. UsedOK'
    BY <1>1, <2>1 DEF IntactInv, UsedOK
  <2>4. DirsOK'
    BY <1>1, <2>1 DEF IntactInv, DirsOK, IsDir
  <2>5. PlacesOK'
    BY <1>1, <2>1 DEF IntactInv, PlacesOK, IsDir
  <2>6. StayOK'
    BY <1>1, <2>1 DEF IntactInv, StayOK, IsDir, Refs, FilesAt, DirsAt
  <2>7. BalanceOK'
    BY <1>1, <2>1 DEF IntactInv, BalanceOK, Listing
  <2>. QED BY <2>3, <2>4, <2>5, <2>6, <2>7 DEF IntactInv
<1>. QED BY <1>2, <1>3, <1>6, <1>7, <1>8 DEF Inv, CommonInv

\* Every step keeps the invariant.
LEMMA StepInv == Inv /\ [Next]_vars => Inv'
<1>1. ASSUME Inv, Next PROVE Inv'
  <2>1. PICK t \in Threads : Acts(t)
    BY <1>1 DEF Next, Acts
  <2>. QED BY <1>1, <2>1, ActsInv
<1>. QED BY <1>1, StutterInv

\* The invariant holds in every state.
LEMMA Invariant == Spec => []Inv
  BY InitInv, StepInv, PTL DEF Spec

\* Every entry of a directory leads to an inode that is allocated and not
\* marked, and names are unique, for all threads and all calls (dir_add and
\* dir_remove, against each other and against inode_close).
THEOREM EntriesValidHolds == Spec => []EntriesValid
<1>1. Inv => EntriesValid
  <2>. SUFFICES ASSUME NamesOK, Typed PROVE EntriesValid
    BY DEF Inv, CommonInv, NamesInv
  <2>. DEFINE Live == UNION {{<<d, e>> : e \in entries[d]} : d \in used}
  <2>1. ASSUME NEW x \in Live, NEW y \in Live
        PROVE  /\ x[2].inode_sector \in used \ removed
               /\ x[1] = y[1] /\ x[2].name = y[2].name => x = y
               /\ x[2].inode_sector = y[2].inode_sector => x = y
    <3>1. PICK d \in used : \E e \in entries[d] : x = <<d, e>>
      OBVIOUS
    <3>2. PICK c \in used : \E f \in entries[c] : y = <<c, f>>
      OBVIOUS
    <3>3. PICK e \in entries[d] : x = <<d, e>>
      BY <3>1
    <3>4. PICK f \in entries[c] : y = <<c, f>>
      BY <3>2
    <3>5. x[1] = d /\ x[2] = e /\ y[1] = c /\ y[2] = f /\ d \in Sectors /\ c \in Sectors
      BY <3>3, <3>4 DEF Typed
    <3>6. e.inode_sector \in used \ removed
      BY <3>5 DEF NamesOK
    <3>7. /\ c = d /\ e.name = f.name => e = f
          /\ e.inode_sector = f.inode_sector => c = d /\ e = f
      BY <3>5 DEF NamesOK
    <3>. QED BY <3>3, <3>4, <3>5, <3>6, <3>7
  <2>. QED BY <2>1 DEF EntriesValid
<1>. QED BY <1>1, Invariant, PTL

\* The count of every inode is that of the references to it, and a sector is
\* allocated exactly while its inode has a name, is open or is about to get a
\* name (inode_open, inode_close, filesys_create and all their callers).
THEOREM InodesAccountedHolds == Spec => []InodesAccounted
<1>1. Inv => InodesAccounted
  <2>. SUFFICES ASSUME Inv PROVE NoSectorLost
    BY DEF Inv, CommonInv, InodesAccounted
  <2>. SUFFICES ASSUME Intact PROVE used = {Root} \cup NamedInodes \cup OpenInodes \cup ComingInodes
    BY DEF NoSectorLost
  <2>1. /\ Typed /\ NamesOK /\ ComingOK /\ UsedOK /\ DirsOK
    BY DEF Inv, CommonInv, NamesInv, IntactInv
  <2>2. ASSUME NEW s \in used PROVE s \in {Root} \cup NamedInodes \cup OpenInodes \cup ComingInodes
    <3>1. CASE s = Root
      BY <3>1
    <3>2. CASE s \in removed
      BY <2>1, <3>2 DEF UsedOK, Typed, OpenInodes
    <3>3. CASE \E d \in Sectors : \E e \in entries[d] : e.inode_sector = s
      <4>1. s \in NamedInodes
        BY <2>1, <3>3 DEF DirsOK, NamedInodes
      <4>. QED BY <4>1
    <3>4. CASE \E t \in Threads : pc[t] = "add" /\ op[t].inode = s
      <4>1. s \in ComingInodes
        BY <3>4 DEF ComingInodes
      <4>. QED BY <4>1
    <3>. QED BY <2>1, <3>1, <3>2, <3>3, <3>4 DEF UsedOK
  <2>3. ASSUME NEW s \in NamedInodes PROVE s \in used
    <3>1. PICK d \in used : \E e \in entries[d] : e.inode_sector = s
      BY <2>3 DEF NamedInodes
    <3>2. d \in Sectors
      BY <2>1 DEF Typed
    <3>. QED BY <2>1, <3>1, <3>2 DEF NamesOK
  <2>4. ASSUME NEW s \in OpenInodes PROVE s \in used
    BY <2>1, <2>4 DEF UsedOK, OpenInodes
  <2>5. ASSUME NEW s \in ComingInodes PROVE s \in used
    BY <2>1, <2>5 DEF ComingOK, ComingInodes
  <2>6. Root \in used
    BY <2>1 DEF NamesOK
  <2>. QED BY <2>2, <2>3, <2>4, <2>5, <2>6
<1>. QED BY <1>1, Invariant, PTL

\* DESIGNDOC B5, as far as it is true: while no directory is removed that had
\* entries when it was checked, the thread that removes a directory is the only
\* one that refers to it (dir_remove against inode_open and inode_reopen).
THEOREM OpenDirsStayHolds == Spec => []OpenDirsStay
<1>1. Inv => OpenDirsStay
  BY DEF Inv, IntactInv, StayOK, OpenDirsStay
<1>. QED BY <1>1, Invariant, PTL

\* DESIGNDOC B4: of concurrent attempts to create or to remove a name one
\* succeeds, so that the successful calls account for the entries (dir_add and
\* dir_remove).
THEOREM OneWinnerHolds == Spec => []OneWinner
<1>1. Inv => OneWinner
  <2>. SUFFICES ASSUME Inv, Intact
                PROVE  balance = Cardinality(UNION {{d} \X entries[d] : d \in used})
    BY DEF OneWinner
  <2>1. Typed /\ DirsOK /\ balance = Cardinality(Listing)
    BY DEF Inv, CommonInv, IntactInv, BalanceOK
  <2>. DEFINE Here == UNION {{d} \X entries[d] : d \in used}
  <2>2. ASSUME NEW x \in Listing PROVE x \in Here
    <3>1. PICK d \in Sectors : x \in {d} \X entries[d]
      BY <2>2 DEF Listing, All
    <3>2. d \in used
      BY <2>1, <3>1 DEF DirsOK
    <3>. QED BY <3>1, <3>2
  <2>3. ASSUME NEW x \in Here PROVE x \in Listing
    <3>1. PICK d \in used : x \in {d} \X entries[d]
      BY <2>3
    <3>2. d \in Sectors
      BY <2>1 DEF Typed
    <3>. QED BY <3>1, <3>2 DEF Listing, All
  <2>. HIDE DEF Here
  <2>4. Listing = Here
    BY <2>2, <2>3
  <2>. QED BY <2>1, <2>4 DEF Here
<1>. QED BY <1>1, Invariant, PTL
=============================================================================
